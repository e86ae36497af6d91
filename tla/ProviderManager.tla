------------------------------ MODULE ProviderManager ------------------------------
(***************************************************************************)
(* The fallback chain over the LLM providers: ProviderManager of           *)
(* app/services/generation/providers.py with the circuit breakers it asks  *)
(* and the clients it calls. A manager is built for one question and       *)
(* called by one generation service, once per attempt at an answer.        *)
(*                                                                         *)
(* Its usage trackers are left out: only a health check gives them limits, *)
(* and the health service of a manager never runs one.                     *)
(***************************************************************************)
EXTENDS Integers, Sequences

CONSTANTS
  Providers,
  NoProvider,
  Chain,      \* chain_names(): the primary, then the fallbacks that have a key
  Models,     \* how many models a provider's client rotates through
  Retries,    \* generation_retries
  Threshold,  \* failure_threshold
  MaxChunks   \* bound: chunks of one text

ASSUME ProvidersAssumption == NoProvider \notin Providers
ASSUME ChainAssumption ==
  /\ Chain \in Seq(Providers)
  /\ \A i, j \in 1 .. Len(Chain) : Chain[i] = Chain[j] => i = j
ASSUME ModelsAssumption == Models \in [Providers -> Nat \ {0}]
ASSUME BoundsAssumption ==
  Retries \in Nat /\ Threshold \in Nat \ {0} /\ MaxChunks \in Nat

VARIABLES
  pc,       \* what the manager does
  mode,     \* complete or stream
  calls,    \* calls of the manager so far
  rung,     \* the position in the chain
  attempt,  \* at this rung
  model,    \* which of its models the client tries
  source,   \* the provider whose text is handed out
  chunks,   \* chunks handed out
  breaker   \* the circuit breaker of each provider

port == <<mode, calls>>
position == <<rung, attempt, model>>
vars == <<pc, port, position, source, chunks, breaker>>

Running == {"rung", "trying"}
Pcs == {"idle", "returned", "unavailable", "broken"} \union Running
BreakerStates == {"CLOSED", "OPEN", "HALF_OPEN"}

\* cooled: the recovery timeout has passed since the last failure.
Breakers == [state : BreakerStates, failures : Nat, cooled : BOOLEAN]

TypeOK ==
  /\ pc \in Pcs
  /\ mode \in {"complete", "stream"}
  /\ calls \in 0 .. Retries + 1
  /\ rung \in 1 .. Len(Chain) + 1
  /\ attempt \in 0 .. Retries
  /\ model \in Nat \ {0}
  /\ source \in Providers \union {NoProvider}
  /\ chunks \in 0 .. MaxChunks
  /\ breaker \in [Providers -> Breakers]
  /\ pc = "trying" => rung <= Len(Chain) /\ model <= Models[Chain[rung]]

Init ==
  /\ pc = "idle"
  /\ mode \in {"complete", "stream"}
  /\ calls = 0
  /\ rung = 1 /\ attempt = 0 /\ model = 1
  /\ source = NoProvider /\ chunks = 0
  /\ breaker = [p \in Providers |-> [state |-> "CLOSED", failures |-> 0, cooled |-> FALSE]]

-----------------------------------------------------------------------------
(* The circuit breaker.                                                    *)

CanAttempt(b) == b.state # "OPEN" \/ b.cooled

\* can_attempt moves a breaker that has cooled down.
Attempted(b) == IF b.state = "OPEN" THEN [b EXCEPT !.state = "HALF_OPEN"] ELSE b

\* Mutant: a success closes the breaker but keeps the count.
RecordSuccessKeepsCount(b) == IF b.state = "HALF_OPEN" THEN [b EXCEPT !.state = "CLOSED"] ELSE b

\* A success does not close a breaker that opened during the same rung.
RecordSuccess(b) ==
  [b EXCEPT !.failures = 0, !.state = IF @ = "HALF_OPEN" THEN "CLOSED" ELSE @]

RecordFailure(b) ==
  [state |-> IF b.failures + 1 >= Threshold THEN "OPEN" ELSE b.state,
   failures |-> b.failures + 1, cooled |-> FALSE]

\* More than the recovery timeout passes after the last failure of p.
Cool(p) ==
  /\ breaker[p].state = "OPEN"
  /\ breaker' = [breaker EXCEPT ![p].cooled = TRUE]
  /\ UNCHANGED <<pc, port, position, source, chunks>>

-----------------------------------------------------------------------------
(* ProviderManager.complete and ProviderManager.stream.                    *)

Provider == Chain[rung]

\* The generation service asks again for a text that fails its validation;
\* once a call has raised it asks no more.
Call ==
  /\ pc \in {"idle", "returned"}
  /\ calls <= Retries
  /\ calls' = calls + 1
  /\ pc' = "rung" /\ rung' = 1
  /\ source' = NoProvider /\ chunks' = 0
  /\ UNCHANGED <<mode, attempt, model, breaker>>

\* can_use_provider is asked once for a rung, not for each attempt.
StartRung ==
  /\ pc = "rung"
  /\ rung <= Len(Chain)
  /\ CanAttempt(breaker[Provider])
  /\ breaker' = [breaker EXCEPT ![Provider] = Attempted(@)]
  /\ pc' = "trying" /\ attempt' = 0 /\ model' = 1
  /\ UNCHANGED <<port, rung, source, chunks>>

\* Mutant: an open breaker is waited for.
SkipRungWaits ==
  /\ pc = "rung"
  /\ rung <= Len(Chain)
  /\ ~CanAttempt(breaker[Provider])
  /\ UNCHANGED vars

SkipRung ==
  /\ pc = "rung"
  /\ rung <= Len(Chain)
  /\ ~CanAttempt(breaker[Provider])
  /\ rung' = rung + 1
  /\ UNCHANGED <<pc, port, attempt, model, source, chunks, breaker>>

ChainFails ==
  /\ pc = "rung"
  /\ rung > Len(Chain)
  /\ pc' = "unavailable"
  /\ UNCHANGED <<port, position, source, chunks, breaker>>

\* The client streams another chunk.
Chunk ==
  /\ pc = "trying" /\ mode = "stream"
  /\ chunks < MaxChunks
  /\ chunks' = chunks + 1
  /\ source' = Provider
  /\ UNCHANGED <<pc, port, position, breaker>>

\* The client's text is whole.
Succeed ==
  /\ pc = "trying"
  /\ pc' = "returned"
  /\ source' = Provider
  /\ breaker' = [breaker EXCEPT ![Provider] = RecordSuccess(@)]
  /\ UNCHANGED <<port, position, chunks>>

\* A client with several models skips one that fails before its first chunk.
NextModel ==
  /\ pc = "trying"
  /\ chunks = 0 /\ model < Models[Provider]
  /\ model' = model + 1
  /\ UNCHANGED <<pc, port, rung, attempt, source, chunks, breaker>>

\* The client raises ProviderUnavailableError.
Failing ==
  /\ pc = "trying"
  /\ chunks > 0 \/ model = Models[Provider]
  /\ breaker' = [breaker EXCEPT ![Provider] = RecordFailure(@)]

\* Mutant: a stream that died is continued by the next attempt.
DiedContinues ==
  /\ Failing
  /\ chunks > 0
  /\ pc' = "rung" /\ rung' = rung + 1
  /\ UNCHANGED <<port, attempt, model, source, chunks>>

\* What it streamed cannot be taken back ...
Died ==
  /\ Failing
  /\ chunks > 0
  /\ pc' = "unavailable"
  /\ UNCHANGED <<port, position, source, chunks>>

\* Mutant: one attempt too many.
TryAgainOffByOne ==
  /\ Failing
  /\ chunks = 0 /\ attempt <= Retries
  /\ attempt' = attempt + 1 /\ model' = 1
  /\ UNCHANGED <<pc, port, rung, source, chunks>>

\* ... and if that is nothing, it is tried again, after a backoff, ...
TryAgain ==
  /\ Failing
  /\ chunks = 0 /\ attempt < Retries
  /\ attempt' = attempt + 1 /\ model' = 1
  /\ UNCHANGED <<pc, port, rung, source, chunks>>

\* ... or the next provider is.
NextRung ==
  /\ Failing
  /\ chunks = 0 /\ attempt = Retries
  /\ pc' = "rung" /\ rung' = rung + 1
  /\ UNCHANGED <<port, attempt, model, source, chunks>>

\* Any other exception of a client (a body that is no JSON) ends the call.
Break ==
  /\ pc = "trying"
  /\ pc' = "broken"
  /\ UNCHANGED <<port, position, source, chunks, breaker>>

Step ==
  \/ StartRung \/ SkipRung \/ ChainFails
  \/ Chunk \/ Succeed \/ NextModel \/ Died \/ TryAgain \/ NextRung \/ Break

Next == Call \/ Step \/ \E p \in Providers : Cool(p)

Spec == Init /\ [][Next]_vars

\* A call that was made goes on: the clients have timeouts.
FairSpec == Spec /\ WF_vars(Step)

-----------------------------------------------------------------------------
(* Properties.                                                             *)

\* The manager keeps the promise of the port its caller sees: the text of one
\* provider, no chunk after an exception, whatever fails in between.
Port == INSTANCE ProviderPort WITH state <- IF pc \in Running THEN "running" ELSE pc
PortKept == Port!Spec

\* Every call of the manager comes to an end.
CallEnds == (pc \in Running) ~> (pc \notin Running)

\* A closed breaker is below its threshold: the failure that reaches it opens
\* the breaker, and the success that closes it resets the count.
BreakerCounts ==
  \A p \in Providers : breaker[p].state = "CLOSED" => breaker[p].failures < Threshold

=============================================================================
