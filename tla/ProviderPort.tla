------------------------------- MODULE ProviderPort -------------------------------
(***************************************************************************)
(* What the generation service is promised by the provider it talks to     *)
(* (LLMProvider and StreamableLLMProvider of app/services/generation/      *)
(* providers.py): a call hands out the text of one provider, chunk by      *)
(* chunk, and returns when it is whole; or it raises, and is over.         *)
(***************************************************************************)
EXTENDS Integers

CONSTANTS Providers, NoProvider,
          MaxChunks   \* bound: chunks of one text

VARIABLES
  state,   \* of the call
  source,  \* the provider whose text is handed out, once there is one
  chunks   \* chunks handed out

vars == <<state, source, chunks>>

Ended == {"returned", "unavailable", "broken"}

Init == state = "idle" /\ source = NoProvider /\ chunks = 0

Call ==
  /\ state \in {"idle", "returned"}
  /\ state' = "running" /\ source' = NoProvider /\ chunks' = 0

Yield(p) ==
  /\ state = "running" /\ source \in {NoProvider, p} /\ chunks < MaxChunks
  /\ source' = p /\ chunks' = chunks + 1
  /\ UNCHANGED state

Return(p) ==
  /\ state = "running" /\ source \in {NoProvider, p}
  /\ state' = "returned" /\ source' = p
  /\ UNCHANGED chunks

\* ProviderUnavailableError, or any other exception of a client.
Raise ==
  /\ state = "running"
  /\ state' \in {"unavailable", "broken"}
  /\ UNCHANGED <<source, chunks>>

Next == Call \/ Raise \/ \E p \in Providers : Yield(p) \/ Return(p)

Spec == Init /\ [][Next]_vars
=============================================================================
