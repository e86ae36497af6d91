----------------------------- MODULE ChatTurnProofs -----------------------------
(***************************************************************************)
(* Proofs about the chat endpoint: about ChatTurn, for every number of     *)
(* turns, questions, attempts, parts of a text and rebuilds of the index;  *)
(* and about RateLimit, which a question passes first, for any limit, any  *)
(* window, any number of threads and any history.                          *)
(***************************************************************************)
EXTENDS ChatTurn, RateLimit, FiniteSetTheorems, SequenceTheorems, TLAPS

Pcs == {"new"} \union Running \union Ended
Answers == [kind : {"none", "answer", "refusal"}, language : Languages \union {"none"},
            cites : SUBSET (Versions \union {NoVersion}), text : Seq(Nat)]
Entries == [evidence : Evidence, answer : Answers]
TurnStates ==
  [pc : Pcs, question : Questions \union {NoQuestion}, evidence : Evidence,
   attempt : 0 .. Attempts, raw : Seq(Nat), cached : BOOLEAN, answer : Answers]

\* An answer that may be sent, cached and stored beside its evidence.
Good(question, evidence, answer) ==
  \/ answer.kind = "refusal"
  \/ /\ answer.kind = "answer" /\ answer.language = question.language
     /\ evidence.sufficient /\ answer.cites \subseteq {evidence.version}

\* What is known of a turn in state r with h rows in the history.
TurnGood(r, h) ==
  /\ r \in TurnStates
  /\ r.pc \in Running => r.question \in Questions
  /\ Len(r.raw) <= MaxParts
  /\ \A i \in 1 .. Len(r.raw) : r.raw[i] = r.attempt
  /\ r.pc = "asking" => r.evidence.sufficient
  /\ r.pc \in {"cache", "persist", "events"} => Good(r.question, r.evidence, r.answer)
  /\ h \in {0, 1}
  /\ r.pc \in {"events", "done"} => h = 1
  /\ r.pc \notin {"events", "done", "failed"} => h = 0

TurnsInv ==
  /\ turn \in [Turns -> TurnStates]
  /\ history \in [Turns -> Nat]
  /\ \A t \in Turns : TurnGood(turn[t], history[t])

CachesInv ==
  /\ answers \in [Questions -> Entries]
  /\ results \in [Queries -> Evidence]
  /\ \A q \in Questions : answers[q] # NoEntry =>
       answers[q].answer.kind = "answer" /\ Good(q, answers[q].evidence, answers[q].answer)

IndexInv ==
  /\ index \in Versions
  /\ evictor \in {"idle", "answers", "results"}
  /\ undisturbed \in BOOLEAN
  /\ floor \in Versions /\ floor <= index

\* The inductive invariant behind everything but the freshness.
ChatInv == TurnsInv /\ CachesInv /\ IndexInv

-----------------------------------------------------------------------------
(* Types.                                                                  *)

\* An entry of the cache keeps the answer but for its text.
LEMMA EntryFields ==
  ASSUME NEW evidence \in Evidence, NEW answer \in Answers
  PROVE  /\ Entry(evidence, answer) \in Entries
         /\ Entry(evidence, answer).evidence = evidence
         /\ Entry(evidence, answer).answer.kind = answer.kind
         /\ Entry(evidence, answer).answer.language = answer.language
         /\ Entry(evidence, answer).answer.cites = answer.cites
<1>1. <<>> \in Seq(Nat)
  OBVIOUS
<1>2. [answer EXCEPT !.text = <<>>] \in Answers
  BY <1>1 DEF Answers
<1> QED BY <1>2 DEF Entry, Entries, Answers

\* The empty values.
LEMMA EmptyTypes ==
  /\ NoEvidence \in Evidence
  /\ NoAnswer \in Answers
  /\ NoEntry \in Entries
  /\ \A pc \in Pcs : Idle(pc) \in TurnStates
<1>1. NoEvidence \in Evidence
  BY DEF NoEvidence, Evidence
<1>2. NoAnswer \in Answers
  BY DEF NoAnswer, Written, Answers
<1>3. NoEntry \in Entries
  BY <1>1, <1>2, EntryFields DEF NoEntry
<1>4. \A pc \in Pcs : Idle(pc) \in TurnStates
  BY <1>1, <1>2, BoundsAssumption DEF Idle, TurnStates
<1> QED BY <1>1, <1>2, <1>3, <1>4

\* The fields of a turn.
LEMMA TurnFields ==
  ASSUME NEW r \in TurnStates
  PROVE  /\ r.pc \in Pcs /\ r.question \in Questions \union {NoQuestion}
         /\ r.evidence \in Evidence /\ r.attempt \in 0 .. Attempts
         /\ r.raw \in Seq(Nat) /\ r.cached \in BOOLEAN /\ r.answer \in Answers
BY DEF TurnStates

\* A turn that ends has a good end.
LEMMA IdleGood ==
  ASSUME NEW pc \in {"new", "done", "failed"}, NEW h \in {0, 1},
         pc = "new" => h = 0, pc = "done" => h = 1
  PROVE  TurnGood(Idle(pc), h)
<1>1. Idle(pc) \in TurnStates
  BY EmptyTypes DEF Pcs, Ended
<1>2. Len(Idle(pc).raw) = 0 /\ Idle(pc).pc = pc
  BY DEF Idle
<1> QED BY <1>1, <1>2, BoundsAssumption DEF TurnGood, Running

\* One turn moves to a good state.
LEMMA OneTurn ==
  ASSUME TurnsInv, NEW t \in Turns, NEW r, NEW h,
         turn' = [turn EXCEPT ![t] = r], history' = [history EXCEPT ![t] = h],
         TurnGood(r, h)
  PROVE  TurnsInv'
<1>1. r \in TurnStates /\ h \in Nat
  BY DEF TurnGood
<1>2. turn' \in [Turns -> TurnStates] /\ history' \in [Turns -> Nat]
  BY <1>1 DEF TurnsInv
<1>3. ASSUME NEW u \in Turns PROVE TurnGood(turn'[u], history'[u])
  BY DEF TurnsInv
<1> QED BY <1>2, <1>3 DEF TurnsInv

\* ... and leaves no row.
LEMMA OneTurnQuiet ==
  ASSUME TurnsInv, NEW t \in Turns, NEW r,
         turn' = [turn EXCEPT ![t] = r], history' = history,
         TurnGood(r, history[t])
  PROVE  TurnsInv'
<1>1. history' = [history EXCEPT ![t] = history[t]]
  BY DEF TurnsInv
<1> QED BY <1>1, OneTurn

\* The question a turn begins with, and what the cache may have for it.
LEMMA BeginsGood ==
  ASSUME TurnsInv, CachesInv, NEW t \in Turns, Hit(t) \/ Miss(t)
  PROVE  TurnsInv'
<1>1. turn[t].pc = "new" /\ history' = history /\ history[t] = 0
  BY DEF Hit, Miss, At, TurnsInv, TurnGood
<1>2. CASE Hit(t)
  <2>1. PICK question \in Questions :
          /\ answers[question] # NoEntry
          /\ turn' = [turn EXCEPT ![t] =
               [Idle("persist") EXCEPT !.question = question, !.cached = TRUE,
                                       !.evidence = answers[question].evidence,
                                       !.answer = answers[question].answer]]
    BY <1>2 DEF Hit, AnswerKey
  <2> DEFINE r == [Idle("persist") EXCEPT !.question = question, !.cached = TRUE,
                                       !.evidence = answers[question].evidence,
                                       !.answer = answers[question].answer]
  <2>2. answers[question] \in Entries
    BY DEF CachesInv
  <2>3. Idle("persist") \in TurnStates
    BY EmptyTypes DEF Pcs, Running
  <2>4. r \in TurnStates
    BY <2>2, <2>3 DEF TurnStates, Entries
  <2>5. /\ r.pc = "persist" /\ r.question = question /\ r.raw = <<>>
        /\ r.evidence = answers[question].evidence /\ r.answer = answers[question].answer
    BY DEF Idle
  <2>6. Good(question, r.evidence, r.answer)
    BY <2>1, <2>5 DEF CachesInv
  <2> HIDE DEF r
  <2>7. TurnGood(r, 0)
    BY <2>4, <2>5, <2>6, BoundsAssumption DEF TurnGood
  <2> QED BY <1>1, <2>1, <2>7, OneTurnQuiet DEF r
<1>3. CASE Miss(t)
  <2>1. PICK question \in Questions :
          turn' = [turn EXCEPT ![t] = [Idle("search") EXCEPT !.question = question]]
    BY <1>3 DEF Miss
  <2> DEFINE r == [Idle("search") EXCEPT !.question = question]
  <2>2. Idle("search") \in TurnStates
    BY EmptyTypes DEF Pcs, Running
  <2>3. r \in TurnStates
    BY <2>2 DEF TurnStates
  <2>4. r.pc = "search" /\ r.question = question /\ r.raw = <<>>
    BY DEF Idle
  <2> HIDE DEF r
  <2>5. TurnGood(r, 0)
    BY <2>3, <2>4, BoundsAssumption DEF TurnGood
  <2> QED BY <1>1, <2>1, <2>5, OneTurnQuiet DEF r
<1> QED BY <1>2, <1>3

\* A turn that goes on without an answer yet.
LEMMA GoesOn ==
  ASSUME TurnsInv, NEW t \in Turns, turn[t].pc \in {"search", "store", "generate", "asking"},
         NEW pc \in {"store", "generate"}, NEW evidence \in Evidence,
         turn' = [turn EXCEPT ![t] = [turn[t] EXCEPT !.pc = pc, !.evidence = evidence]],
         history' = history
  PROVE  TurnsInv'
<1> DEFINE r == [turn[t] EXCEPT !.pc = pc, !.evidence = evidence]
<1>1. TurnGood(turn[t], history[t]) /\ turn[t] \in TurnStates
  BY DEF TurnsInv
<1>2. r \in TurnStates
  BY <1>1 DEF TurnStates, Pcs, Running
<1>3. /\ r.pc = pc /\ r.question = turn[t].question /\ r.raw = turn[t].raw
      /\ r.attempt = turn[t].attempt
  BY <1>1 DEF TurnStates
<1> HIDE DEF r
<1>4. TurnGood(r, history[t])
  BY <1>1, <1>2, <1>3 DEF TurnGood, Running
<1> QED BY <1>4, OneTurnQuiet DEF r

\* A turn that fails.
LEMMA FailsGood ==
  ASSUME TurnsInv, NEW t \in Turns, Fail(t)
  PROVE  TurnsInv'
<1>1. TurnGood(Idle("failed"), history[t])
  BY IdleGood DEF TurnsInv, TurnGood
<1> QED BY <1>1, OneTurnQuiet DEF Fail, End

\* The retrieval keeps the turns good.
LEMMA RetrieveTurns ==
  ASSUME TurnsInv, CachesInv, IndexInv, NEW t \in Turns, Retrieve(t)
  PROVE  TurnsInv'
<1>0. turn[t] \in TurnStates /\ turn \in [Turns -> TurnStates]
  BY DEF TurnsInv
<1>1. CASE Hit(t) \/ Miss(t)
  BY <1>1, BeginsGood
<1>2. CASE SearchHit(t)
  <2>1. turn[t].question \in Questions
    BY <1>2 DEF SearchHit, At, TurnsInv, TurnGood, Running
  <2>2. results[turn[t].question.query] \in Evidence
    BY <2>1 DEF CachesInv, Questions
  <2> DEFINE e == results[turn[t].question.query]
  <2>3. turn' = [turn EXCEPT ![t] = [turn[t] EXCEPT !.pc = "generate", !.evidence = e]]
    BY <1>0, <1>2 DEF SearchHit, ResultKey
  <2> QED BY <1>2, <2>2, <2>3, GoesOn DEF SearchHit, At, Quietly
<1>3. CASE Search(t)
  <2>1. PICK sufficient \in BOOLEAN :
          turn' = [turn EXCEPT ![t].pc = "store",
                               ![t].evidence = [version |-> index, sufficient |-> sufficient]]
    BY <1>3 DEF Search
  <2> DEFINE e == [version |-> index, sufficient |-> sufficient]
  <2>2. e \in Evidence
    BY DEF Evidence, IndexInv
  <2>3. turn' = [turn EXCEPT ![t] = [turn[t] EXCEPT !.pc = "store", !.evidence = e]]
    BY <1>0, <2>1
  <2> HIDE DEF e
  <2> QED BY <1>3, <2>2, <2>3, GoesOn DEF Search, At, Quietly
<1>4. CASE SearchFails(t)
  BY <1>4, FailsGood DEF SearchFails
<1>5. CASE StoreResult(t)
  <2>1. turn' = [turn EXCEPT ![t] = [turn[t] EXCEPT !.pc = "generate", !.evidence = turn[t].evidence]]
    BY <1>0, <1>5 DEF StoreResult, Goto, TurnStates
  <2>2. turn[t].evidence \in Evidence
    BY <1>0, TurnFields
  <2> QED BY <1>5, <2>1, <2>2, GoesOn DEF StoreResult, At
<1> QED BY <1>1, <1>2, <1>3, <1>4, <1>5 DEF Retrieve

\* A turn that has its answer.
LEMMA AnswersGood ==
  ASSUME TurnsInv, NEW t \in Turns, turn[t].pc \in {"generate", "asking"},
         NEW kind \in {"answer", "refusal"}, NEW cites \in SUBSET (Versions \union {NoVersion}),
         NEW text \in Seq(Nat), Answer(t, kind, cites, text), history' = history,
         kind = "answer" => turn[t].evidence.sufficient /\ cites \subseteq {turn[t].evidence.version}
  PROVE  TurnsInv'
<1> DEFINE answer == Written(kind, turn[t].question.language, cites, text)
           r == [turn[t] EXCEPT !.pc = "cache", !.raw = <<>>, !.attempt = 0, !.answer = answer]
<1>1. TurnGood(turn[t], history[t]) /\ turn[t] \in TurnStates /\ turn \in [Turns -> TurnStates]
  BY DEF TurnsInv
<1>2. turn[t].question \in Questions
  BY <1>1 DEF TurnGood, Running
<1>3. answer \in Answers /\ answer.kind = kind /\ answer.cites = cites
      /\ answer.language = turn[t].question.language
  BY <1>2 DEF Answers, Written, Questions
<1>4. turn' = [turn EXCEPT ![t] = r]
  BY <1>1 DEF Answer
<1> HIDE DEF answer
<1>5. <<>> \in Seq(Nat) /\ 0 \in 0 .. Attempts /\ Len(<<>>) = 0
  BY BoundsAssumption
<1>6. r \in TurnStates
  BY <1>1, <1>3, <1>5 DEF TurnStates, Pcs, Running
<1>7. /\ r.pc = "cache" /\ r.raw = <<>> /\ r.question = turn[t].question
      /\ r.evidence = turn[t].evidence /\ r.answer = answer
  BY <1>1 DEF TurnStates
<1>8. Good(r.question, r.evidence, r.answer)
  BY <1>3, <1>7 DEF Good
<1> HIDE DEF r
<1>9. TurnGood(r, history[t])
  BY <1>1, <1>2, <1>5, <1>6, <1>7, <1>8, BoundsAssumption DEF TurnGood, Running
<1> QED BY <1>4, <1>9, OneTurnQuiet

\* A refusal needs no evidence.
LEMMA RefusesGood ==
  ASSUME TurnsInv, NEW t \in Turns, turn[t].pc \in {"generate", "asking"}, Refuse(t),
         history' = history
  PROVE  TurnsInv'
<1>1. <<>> \in Seq(Nat)
  OBVIOUS
<1> QED BY <1>1, AnswersGood DEF Refuse

\* The synthesis answers from sufficient evidence.
LEMMA SynthesizesGood ==
  ASSUME TurnsInv, NEW t \in Turns, turn[t].pc \in {"generate", "asking"},
         turn[t].evidence.sufficient, Synthesize(t)
  PROVE  TurnsInv'
<1>1. turn[t].evidence.version \in Versions \union {NoVersion}
  BY TurnFields DEF TurnsInv, Evidence
<1>2. (IF Streaming(t) THEN <<0>> ELSE <<>>) \in Seq(Nat)
  OBVIOUS
<1> QED BY <1>1, <1>2, AnswersGood DEF Synthesize

\* An attempt begins within the bound, with no part of an earlier one.
LEMMA AttemptTurns ==
  ASSUME TurnsInv, NEW t \in Turns, Attempt(t)
  PROVE  TurnsInv'
<1>1. TurnGood(turn[t], history[t]) /\ turn[t] \in TurnStates /\ turn \in [Turns -> TurnStates]
  BY DEF TurnsInv
<1>2. history' = history /\ turn[t].pc = "generate" /\ turn[t].evidence.sufficient
  BY DEF Attempt, Quietly, At
<1>3. CASE turn[t].attempt = Attempts
  BY <1>2, <1>3, RefusesGood DEF Attempt
<1>4. CASE turn[t].attempt # Attempts
  <2> DEFINE r == [turn[t] EXCEPT !.pc = "asking", !.attempt = turn[t].attempt + 1, !.raw = <<>>]
  <2>1. turn' = [turn EXCEPT ![t] = r]
    BY <1>1, <1>4 DEF Attempt
  <2>2. <<>> \in Seq(Nat) /\ turn[t].attempt + 1 \in 0 .. Attempts /\ Len(<<>>) = 0
    BY <1>1, <1>4, BoundsAssumption, TurnFields
  <2>3. r \in TurnStates
    BY <1>1, <2>2 DEF TurnStates, Pcs, Running
  <2>4. /\ r.pc = "asking" /\ r.raw = <<>> /\ r.question = turn[t].question
        /\ r.evidence = turn[t].evidence
    BY <1>1 DEF TurnStates
  <2> HIDE DEF r
  <2>5. TurnGood(r, history[t])
    BY <1>1, <1>2, <2>2, <2>3, <2>4, BoundsAssumption DEF TurnGood, Running
  <2> QED BY <1>2, <2>1, <2>5, OneTurnQuiet
<1> QED BY <1>3, <1>4

\* A part joins the parts of its own attempt, of which there were too few.
LEMMA PartTurns ==
  ASSUME TurnsInv, NEW t \in Turns, Part(t)
  PROVE  TurnsInv'
<1> DEFINE raw == turn[t].raw
           attempt == turn[t].attempt
           r == [turn[t] EXCEPT !.raw = Append(raw, attempt)]
<1>1. TurnGood(turn[t], history[t]) /\ turn[t] \in TurnStates /\ turn \in [Turns -> TurnStates]
  BY DEF TurnsInv
<1>2. history' = history /\ turn[t].pc = "asking" /\ turn' = [turn EXCEPT ![t] = r]
  BY <1>1 DEF Part, At
<1>3. raw \in Seq(Nat) /\ attempt \in Nat /\ Len(raw) \in Nat
  BY <1>1, TurnFields, BoundsAssumption
<1>4. Len(raw) < MaxParts
  <2>1. {i \in DOMAIN raw : raw[i] = attempt} = 1 .. Len(raw)
    <3>1. DOMAIN raw = 1 .. Len(raw)
      BY <1>3
    <3>2. \A i \in DOMAIN raw : raw[i] = attempt
      BY <1>1 DEF TurnGood
    <3> QED
      BY <3>1, <3>2
  <2>2. Cardinality(1 .. Len(raw)) = Len(raw)
    BY <1>3, FS_Interval
  <2> QED BY <2>1, <2>2 DEF Part
<1>5. /\ Append(raw, attempt) \in Seq(Nat) /\ Len(Append(raw, attempt)) = Len(raw) + 1
      /\ \A i \in 1 .. Len(raw) + 1 : Append(raw, attempt)[i] = attempt
  BY <1>1, <1>3 DEF TurnGood
<1>6. r \in TurnStates
  BY <1>1, <1>5 DEF TurnStates
<1>7. /\ r.pc = "asking" /\ r.raw = Append(raw, attempt) /\ r.question = turn[t].question
      /\ r.evidence = turn[t].evidence /\ r.attempt = attempt
  BY <1>1, <1>2 DEF TurnStates
<1> HIDE DEF r
<1>8. TurnGood(r, history[t])
  BY <1>1, <1>2, <1>3, <1>4, <1>5, <1>6, <1>7, BoundsAssumption DEF TurnGood, Running
<1> QED BY <1>2, <1>8, OneTurnQuiet

\* A text that was returned.
LEMMA ReturnedTurns ==
  ASSUME TurnsInv, NEW t \in Turns, Returned(t)
  PROVE  TurnsInv'
<1>1. TurnGood(turn[t], history[t]) /\ turn[t] \in TurnStates /\ turn \in [Turns -> TurnStates]
  BY DEF TurnsInv
<1>2. turn[t].pc = "asking" /\ turn[t].evidence.sufficient
  BY <1>1 DEF Returned, At, TurnGood
<1>3. PICK text \in Texts :
        CASE ~Validates(text) -> Goto(t, "generate") /\ Quietly
          [] text = "illTyped" -> Fail(t)
          [] text = "declined" -> Refuse(t) /\ Quietly
          [] OTHER -> Answer(t, "answer", Citations(text, turn[t].evidence), turn[t].raw) /\ Quietly
  BY DEF Returned
<1>4. CASE ~Validates(text)
  <2>1. Goto(t, "generate") /\ history' = history
    BY <1>3, <1>4 DEF Validates, Quietly
  <2>2. turn' = [turn EXCEPT ![t] = [turn[t] EXCEPT !.pc = "generate", !.evidence = turn[t].evidence]]
    BY <1>1, <2>1 DEF Goto, TurnStates
  <2>3. turn[t].evidence \in Evidence
    BY <1>1, TurnFields
  <2> QED BY <1>2, <2>1, <2>2, <2>3, GoesOn
<1>5. CASE text = "illTyped"
  BY <1>3, <1>5, FailsGood DEF Validates
<1>6. CASE text = "declined"
  BY <1>2, <1>3, <1>6, RefusesGood DEF Validates, Quietly
<1>7. CASE text \in {"grounded", "bare"}
  <2> DEFINE cites == Citations(text, turn[t].evidence)
  <2>1. Answer(t, "answer", cites, turn[t].raw) /\ history' = history
    BY <1>3, <1>7 DEF Validates, Quietly
  <2>2. turn[t].evidence.version \in Versions \union {NoVersion} /\ turn[t].raw \in Seq(Nat)
    BY <1>1, TurnFields DEF Evidence
  <2>3. cites = {turn[t].evidence.version} \/ cites = {}
    BY <1>7 DEF Citations
  <2> HIDE DEF cites
  <2>4. cites \in SUBSET (Versions \union {NoVersion}) /\ cites \subseteq {turn[t].evidence.version}
    BY <2>2, <2>3
  <2> QED BY <1>2, <2>1, <2>2, <2>4, AnswersGood
<1> QED BY <1>4, <1>5, <1>6, <1>7 DEF Texts, Validates

\* The generation keeps the turns good.
LEMMA GenerateTurns ==
  ASSUME TurnsInv, NEW t \in Turns, Generate(t)
  PROVE  TurnsInv'
<1>0. turn[t].pc = "asking" => turn[t].evidence.sufficient
  BY DEF TurnsInv, TurnGood
<1>1. CASE Insufficient(t)
  BY <1>1, RefusesGood DEF Insufficient, At, Quietly
<1>2. CASE NoProvider(t)
  BY <1>2, SynthesizesGood DEF NoProvider, At
<1>3. CASE Attempt(t)
  BY <1>3, AttemptTurns
<1>4. CASE Part(t)
  BY <1>4, PartTurns
<1>5. CASE Returned(t)
  BY <1>5, ReturnedTurns
<1>6. CASE Unavailable(t) \/ Broken(t)
  BY <1>0, <1>6, SynthesizesGood, FailsGood DEF Unavailable, Broken, At
<1> QED BY <1>1, <1>2, <1>3, <1>4, <1>5, <1>6 DEF Generate

\* The end of a turn: one row is added, on the way from "persist".
LEMMA FinishTurns ==
  ASSUME TurnsInv, NEW t \in Turns, Finish(t)
  PROVE  TurnsInv'
<1>1. TurnGood(turn[t], history[t]) /\ turn[t] \in TurnStates /\ turn \in [Turns -> TurnStates]
  BY DEF TurnsInv
<1>2. CASE StoreAnswer(t)
  <2> DEFINE r == [turn[t] EXCEPT !.pc = "persist"]
  <2>1. turn' = [turn EXCEPT ![t] = r] /\ history' = history /\ turn[t].pc = "cache"
    BY <1>1, <1>2 DEF StoreAnswer, Goto, At
  <2>2. r \in TurnStates
    BY <1>1 DEF TurnStates, Pcs, Running
  <2>3. /\ r.pc = "persist" /\ r.raw = turn[t].raw /\ r.question = turn[t].question
        /\ r.evidence = turn[t].evidence /\ r.answer = turn[t].answer /\ r.attempt = turn[t].attempt
    BY <1>1 DEF TurnStates
  <2> HIDE DEF r
  <2>4. TurnGood(r, history[t])
    BY <1>1, <2>1, <2>2, <2>3 DEF TurnGood, Running
  <2> QED BY <2>1, <2>4, OneTurnQuiet
<1>3. CASE Persist(t)
  <2> DEFINE r == [turn[t] EXCEPT !.pc = "events"]
  <2>1. turn' = [turn EXCEPT ![t] = r] /\ turn[t].pc = "persist"
    BY <1>1, <1>3 DEF Persist, Goto, At
  <2>2. r \in TurnStates
    BY <1>1 DEF TurnStates, Pcs, Running
  <2>3. /\ r.pc = "events" /\ r.raw = turn[t].raw /\ r.question = turn[t].question
        /\ r.evidence = turn[t].evidence /\ r.answer = turn[t].answer /\ r.attempt = turn[t].attempt
    BY <1>1 DEF TurnStates
  <2>4. history[t] = 0
    BY <1>1, <2>1 DEF TurnGood
  <2>5. history' = [history EXCEPT ![t] = 1]
    BY <1>3, <2>4 DEF Persist
  <2> HIDE DEF r
  <2>6. TurnGood(r, 1)
    BY <1>1, <2>1, <2>2, <2>3 DEF TurnGood, Running
  <2> QED BY <2>1, <2>5, <2>6, OneTurn
<1>4. CASE DatabaseFails(t)
  <2>1. turn' = [turn EXCEPT ![t] = Idle("failed")] /\ history[t] = 0
    BY <1>1, <1>4 DEF DatabaseFails, End, At, TurnGood
  <2>2. history' = history \/ history' = [history EXCEPT ![t] = 1]
    BY <1>4, <2>1 DEF DatabaseFails
  <2>3. TurnGood(Idle("failed"), 0) /\ TurnGood(Idle("failed"), 1)
    BY IdleGood
  <2> QED BY <2>1, <2>2, <2>3, OneTurn, OneTurnQuiet
<1>5. CASE SendEvents(t)
  <2>1. turn' = [turn EXCEPT ![t] = Idle("done")] /\ history' = history /\ history[t] = 1
    BY <1>1, <1>5 DEF SendEvents, End, At, TurnGood
  <2> QED BY <2>1, IdleGood, OneTurnQuiet
<1> QED BY <1>2, <1>3, <1>4, <1>5 DEF Finish

-----------------------------------------------------------------------------
(* The caches.                                                             *)

\* A step of a turn writes to a cache what is good there.
LEMMA ServeCaches ==
  ASSUME TurnsInv, CachesInv, NEW t \in Turns, Serve(t) \/ Drop(t)
  PROVE  CachesInv'
<1>1. TurnGood(turn[t], history[t]) /\ turn[t] \in TurnStates
  BY DEF TurnsInv
<1>2. CASE StoreResult(t)
  <2>1. turn[t].question \in Questions /\ turn[t].evidence \in Evidence
    BY <1>1, <1>2, TurnFields DEF StoreResult, At, TurnGood, Running
  <2>2. turn[t].question.query \in Queries
    BY <2>1 DEF Questions
  <2> QED BY <1>2, <2>1, <2>2 DEF StoreResult, CachesInv, ResultKey
<1>3. CASE StoreAnswer(t)
  <2> DEFINE q == turn[t].question
             e == Entry(turn[t].evidence, turn[t].answer)
  <2>1. q \in Questions /\ turn[t].evidence \in Evidence /\ turn[t].answer \in Answers
    BY <1>1, <1>3, TurnFields DEF StoreAnswer, At, TurnGood, Running
  <2>2. CASE turn[t].answer.kind = "refusal"
    BY <1>3, <2>2 DEF StoreAnswer, CachesInv
  <2>3. CASE turn[t].answer.kind # "refusal"
    <3>1. answers' = [answers EXCEPT ![q] = e] /\ results' = results
      BY <1>3, <2>3 DEF StoreAnswer, AnswerKey
    <3>2. Good(q, turn[t].evidence, turn[t].answer)
      BY <1>1, <1>3 DEF StoreAnswer, At, TurnGood
    <3>3. e \in Entries /\ e.answer.kind = "answer" /\ Good(q, e.evidence, e.answer)
      BY <2>1, <2>3, <3>2, EntryFields DEF Good
    <3> HIDE DEF e, q
    <3> QED BY <2>1, <3>1, <3>3 DEF CachesInv
  <2> QED BY <2>2, <2>3
<1>4. CASE UNCHANGED caches
  BY <1>4 DEF caches, CachesInv
<1>5. Retrieve(t) /\ ~StoreResult(t) => UNCHANGED caches
  BY DEF Retrieve, Hit, Miss, SearchHit, Search, SearchFails, Fail, Quietly, outside, caches
<1>6. Generate(t) => UNCHANGED caches
  BY DEF Generate, Insufficient, NoProvider, Attempt, Part, Returned, Unavailable, Broken, Synthesize,
         Fail, Quietly, outside, caches
<1>7. Finish(t) /\ ~StoreAnswer(t) => UNCHANGED caches
  BY DEF Finish, Persist, DatabaseFails, SendEvents, outside, caches
<1>8. Drop(t) => UNCHANGED caches
  BY DEF Drop, Fail, outside, caches
<1> QED BY <1>2, <1>3, <1>4, <1>5, <1>6, <1>7, <1>8 DEF Serve

\* A step of a turn leaves the index and the eviction alone, but that it
\* disturbs the eviction.
LEMMA ServeIndex ==
  ASSUME IndexInv, NEW t \in Turns, Serve(t) \/ Drop(t)
  PROVE  /\ UNCHANGED <<index, evictor, floor>> /\ undisturbed' \in {undisturbed, FALSE}
         /\ IndexInv'
<1>1. UNCHANGED <<index, evictor, floor>> /\ undisturbed' \in {undisturbed, FALSE}
  <2>1. Retrieve(t) => UNCHANGED <<index, evictor, floor>> /\ undisturbed' \in {undisturbed, FALSE}
    BY DEF Retrieve, Hit, Miss, SearchHit, Search, SearchFails, StoreResult, Fail, Quietly,
           outside, caches, eviction
  <2>2. Generate(t) => UNCHANGED <<index, evictor, floor>> /\ undisturbed' \in {undisturbed, FALSE}
    BY DEF Generate, Insufficient, NoProvider, Attempt, Part, Returned, Unavailable, Broken,
           Synthesize, Fail, Quietly, outside, caches, eviction
  <2>3. Finish(t) => UNCHANGED <<index, evictor, floor>> /\ undisturbed' \in {undisturbed, FALSE}
    BY DEF Finish, StoreAnswer, Persist, DatabaseFails, SendEvents, outside, caches, eviction
  <2>4. Drop(t) => UNCHANGED <<index, evictor, floor>> /\ undisturbed' \in {undisturbed, FALSE}
    BY DEF Drop, Fail, outside, caches, eviction
  <2> QED BY <2>1, <2>2, <2>3, <2>4 DEF Serve
<1> QED BY <1>1 DEF IndexInv

\* The index, the expiry and the eviction leave the turns alone and empty what
\* they touch.
LEMMA OutsideStep ==
  ASSUME TurnsInv, CachesInv, IndexInv, Reindex \/ Expire \/ Evict
  PROVE  ChatInv'
<1>1. UNCHANGED <<turn, history>>
  BY DEF Reindex, Expire, Evict, EvictBegin, EvictAnswers, EvictResults, EvictFails
<1>2. TurnsInv'
  BY <1>1 DEF TurnsInv
<1>3. CachesInv'
  <2> USE EmptyTypes DEF CachesInv, caches
  <2>1. CASE Expire
    BY <2>1 DEF Expire
  <2>2. CASE EvictAnswers
    BY <2>2 DEF EvictAnswers
  <2>3. CASE EvictResults
    BY <2>3 DEF EvictResults
  <2>4. CASE Reindex \/ EvictBegin \/ EvictFails
    BY <2>4 DEF Reindex, EvictBegin, EvictFails
  <2> QED BY <2>1, <2>2, <2>3, <2>4 DEF Evict
<1>4. IndexInv'
  <2> USE BoundsAssumption DEF IndexInv, eviction, Versions
  <2>1. CASE Reindex
    BY <2>1 DEF Reindex
  <2>2. CASE Expire
    BY <2>2 DEF Expire
  <2>3. CASE EvictBegin \/ EvictAnswers
    BY <2>3 DEF EvictBegin, EvictAnswers
  <2>4. CASE EvictResults \/ EvictFails
    <3>1. index' = index /\ floor' \in {index, floor} /\ undisturbed' = FALSE
      BY <2>4 DEF EvictResults, EvictFails, caches
    <3>2. evictor' \in {"results", "idle"}
      BY <2>4 DEF EvictResults, EvictFails
    <3>3. floor' \in 0 .. MaxVersion /\ floor' <= index'
      BY <3>1
    <3> QED BY <3>1, <3>2, <3>3
  <2> QED BY <2>1, <2>2, <2>3, <2>4 DEF Evict
<1> QED BY <1>2, <1>3, <1>4 DEF ChatInv

\* The invariant is inductive.
LEMMA ChatInit == Init => ChatInv
<1> SUFFICES ASSUME Init PROVE ChatInv
  OBVIOUS
<1>1. TurnsInv
  <2>1. Idle("new") \in TurnStates
    BY EmptyTypes DEF Pcs
  <2>2. TurnGood(Idle("new"), 0)
    BY IdleGood
  <2> QED BY <2>1, <2>2 DEF Init, TurnsInv
<1>2. CachesInv
  BY EmptyTypes DEF Init, CachesInv
<1>3. IndexInv
  <2>1. index = 0 /\ floor = 0 /\ evictor = "idle" /\ undisturbed \in BOOLEAN
    BY DEF Init
  <2>2. 0 \in Versions
    BY BoundsAssumption DEF Versions
  <2> QED BY <2>1, <2>2 DEF IndexInv
<1> QED BY <1>1, <1>2, <1>3 DEF ChatInv

LEMMA ChatStep == ChatInv /\ [Next]_vars => ChatInv'
<1> SUFFICES ASSUME ChatInv, [Next]_vars PROVE ChatInv'
  OBVIOUS
<1> USE DEF ChatInv
<1>1. ASSUME NEW t \in Turns, Serve(t) \/ Drop(t) PROVE ChatInv'
  <2>1. TurnsInv'
    BY <1>1, RetrieveTurns, GenerateTurns, FinishTurns, FailsGood DEF Serve, Drop
  <2> QED BY <1>1, <2>1, ServeCaches, ServeIndex
<1>2. CASE Reindex \/ Expire \/ Evict
  BY <1>2, OutsideStep
<1>3. CASE UNCHANGED vars
  BY <1>3 DEF vars, outside, caches, eviction, TurnsInv, CachesInv, IndexInv
<1> QED BY <1>1, <1>2, <1>3 DEF Next

LEMMA ChatInvariant == Spec => []ChatInv
BY ChatInit, ChatStep, PTL DEF Spec

\* Every variable keeps its type and an attempt no more parts than the bound.
THEOREM TypeCorrect == Spec => []TypeOK
<1>1. ChatInv => TypeOK
  <2> SUFFICES ASSUME ChatInv PROVE TypeOK
    OBVIOUS
  <2>1. ASSUME NEW t \in Turns
        PROVE  /\ turn[t].pc \in {"new"} \union Running \union Ended
               /\ turn[t].question \in Questions \union {NoQuestion}
               /\ turn[t].evidence \in Evidence
               /\ turn[t].attempt \in 0 .. Attempts
               /\ Len(turn[t].raw) <= MaxParts
               /\ history[t] \in Nat
    BY TurnFields DEF ChatInv, TurnsInv, TurnGood, Pcs
  <2> QED BY <2>1 DEF ChatInv, CachesInv, IndexInv, Entries, TypeOK
<1> QED BY <1>1, ChatInvariant, PTL

\* A turn whose client saw "done" has exactly one row in the history, and no
\* turn has two (_persist_turn and the three ways a turn ends).
THEOREM DoneIsRecordedAlways == Spec => []DoneIsRecorded
<1>1. ChatInv => DoneIsRecorded
  BY DEF ChatInv, TurnsInv, TurnGood, DoneIsRecorded, At
<1> QED BY <1>1, ChatInvariant, PTL

\* The QA cache holds whole, grounded answers in the language of their key,
\* however many turns share it.
THEOREM CacheIsGroundedAlways == Spec => []CacheIsGrounded
<1>1. ChatInv => CacheIsGrounded
  BY DEF ChatInv, CachesInv, Good, CacheIsGrounded
<1> QED BY <1>1, ChatInvariant, PTL

\* No unvalidated text is sent as a final answer.
THEOREM NothingUnvalidatedAlways == Spec => []NothingUnvalidated
<1>1. ChatInv => NothingUnvalidated
  BY DEF ChatInv, TurnsInv, TurnGood, Good, NothingUnvalidated, At
<1> QED BY <1>1, ChatInvariant, PTL

-----------------------------------------------------------------------------
(* The freshness of what is cached.                                        *)

\* Evidence that is not older than the last undisturbed eviction.
IsFresh(evidence) == evidence = NoEvidence \/ evidence.version >= floor

\* While an eviction is undisturbed no turn is in flight, and behind its first
\* step no answer is left.
StaleInv ==
  /\ NothingStale
  /\ undisturbed => /\ evictor \in {"answers", "results"}
                    /\ \A t \in Turns : ~InFlight(t)
                    /\ evictor = "results" => \A q \in Questions : answers[q] = NoEntry

\* What NothingStale says, by the name above.
LEMMA StaleParts ==
  NothingStale <=> /\ \A q \in Questions : IsFresh(answers[q].evidence)
                   /\ \A q \in Queries : IsFresh(results[q])
                   /\ \A t \in Turns : InFlight(t) => IsFresh(turn[t].evidence)
BY DEF NothingStale, IsFresh

\* Where the evidence of a turn in flight may come from.
Sourced(t) ==
  \/ InFlight(t) /\ turn'[t].evidence = turn[t].evidence
  \/ turn'[t].evidence = NoEvidence
  \/ \E q \in Questions : turn'[t].evidence = answers[q].evidence
  \/ \E q \in Queries : turn'[t].evidence = results[q]
  \/ turn'[t].evidence.version = index

\* A step that ends a turn.
LEMMA EndSources ==
  ASSUME TurnsInv, NEW t \in Turns, NEW pc \in {"done", "failed"}, End(t, pc)
  PROVE  /\ \A u \in Turns \ {t} : turn'[u] = turn[u]
         /\ ~InFlight(t)'
BY DEF End, Idle, TurnsInv, InFlight, Running

\* A step that gives a turn its answer.
LEMMA AnswerSources ==
  ASSUME TurnsInv, NEW t \in Turns, NEW kind, NEW version, NEW text, Answer(t, kind, version, text)
  PROVE  /\ \A u \in Turns \ {t} : turn'[u] = turn[u]
         /\ turn'[t].evidence = turn[t].evidence
BY DEF Answer, TurnsInv, TurnStates

\* A step that only moves a turn on.
LEMMA GotoSources ==
  ASSUME TurnsInv, NEW t \in Turns, NEW pc, Goto(t, pc)
  PROVE  /\ \A u \in Turns \ {t} : turn'[u] = turn[u]
         /\ turn'[t].evidence = turn[t].evidence
BY DEF Goto, TurnsInv, TurnStates

\* The retrieval.
LEMMA RetrieveSources ==
  ASSUME ChatInv, NEW t \in Turns, Retrieve(t)
  PROVE  /\ \A u \in Turns \ {t} : turn'[u] = turn[u]
         /\ InFlight(t)' => Sourced(t)
<1>0. TurnsInv /\ turn \in [Turns -> TurnStates] /\ turn[t] \in TurnStates
  BY DEF ChatInv, TurnsInv
<1>1. CASE Hit(t)
  BY <1>0, <1>1 DEF Hit, AnswerKey, Sourced, Idle
<1>2. CASE Miss(t)
  BY <1>0, <1>2 DEF Miss, Sourced, Idle
<1>3. CASE SearchHit(t)
  <2>1. turn[t].question.query \in Queries
    BY <1>3 DEF SearchHit, At, ChatInv, TurnsInv, TurnGood, Running, Questions
  <2> QED BY <1>0, <1>3, <2>1 DEF SearchHit, ResultKey, Sourced, TurnStates
<1>4. CASE Search(t)
  BY <1>0, <1>4 DEF Search, Sourced, TurnStates
<1>5. CASE SearchFails(t)
  BY <1>0, <1>5, EndSources DEF SearchFails, Fail
<1>6. CASE StoreResult(t)
  BY <1>0, <1>6, GotoSources DEF StoreResult, Sourced, InFlight, Running, At
<1> QED BY <1>1, <1>2, <1>3, <1>4, <1>5, <1>6 DEF Retrieve

\* The generation and the end of a turn.
LEMMA LaterSources ==
  ASSUME ChatInv, NEW t \in Turns, Generate(t) \/ Finish(t) \/ Drop(t)
  PROVE  /\ \A u \in Turns \ {t} : turn'[u] = turn[u]
         /\ InFlight(t) /\ (InFlight(t)' => Sourced(t))
<1>0. TurnsInv /\ turn \in [Turns -> TurnStates] /\ turn[t] \in TurnStates
  BY DEF ChatInv, TurnsInv
<1> USE <1>0, EndSources, AnswerSources, GotoSources DEF At, InFlight, Running, Sourced
<1>1. CASE Insufficient(t) \/ NoProvider(t) \/ Unavailable(t) \/ Broken(t)
  BY <1>1 DEF Insufficient, NoProvider, Unavailable, Broken, Synthesize, Refuse, Fail
<1>2. CASE Attempt(t)
  BY <1>2 DEF Attempt, Refuse, TurnStates
<1>3. CASE Part(t)
  BY <1>3 DEF Part, TurnStates
<1>4. CASE Returned(t)
  <2>1. \/ Goto(t, "generate") \/ Fail(t) \/ Refuse(t)
        \/ \E cites : Answer(t, "answer", cites, turn[t].raw)
    BY <1>4 DEF Returned
  <2> QED BY <1>4, <2>1 DEF Returned, Fail, Refuse
<1>5. CASE StoreAnswer(t) \/ Persist(t)
  BY <1>5 DEF StoreAnswer, Persist
<1>6. CASE DatabaseFails(t) \/ SendEvents(t) \/ Drop(t)
  BY <1>6 DEF DatabaseFails, SendEvents, Drop, Fail
<1> QED BY <1>1, <1>2, <1>3, <1>4, <1>5, <1>6 DEF Generate, Finish

\* What a turn writes to the caches is its own evidence.
LEMMA CacheSources ==
  ASSUME ChatInv, NEW t \in Turns, Serve(t) \/ Drop(t)
  PROVE  /\ \A q \in Questions :
              answers'[q] = answers[q] \/ (InFlight(t) /\ answers'[q].evidence = turn[t].evidence)
         /\ \A q \in Queries :
              results'[q] = results[q] \/ (InFlight(t) /\ results'[q] = turn[t].evidence)
<1>1. CASE StoreResult(t)
  BY <1>1 DEF StoreResult, ChatInv, CachesInv, InFlight, Running, At
<1>2. CASE StoreAnswer(t)
  BY <1>2 DEF StoreAnswer, ChatInv, CachesInv, InFlight, Running, At, Entry
<1>3. CASE ~StoreResult(t) /\ ~StoreAnswer(t)
  <2>1. Retrieve(t) => UNCHANGED caches
    BY <1>3 DEF Retrieve, Hit, Miss, SearchHit, Search, SearchFails, Fail, Quietly, outside, caches
  <2>2. Generate(t) => UNCHANGED caches
    BY DEF Generate, Insufficient, NoProvider, Attempt, Part, Returned, Unavailable, Broken,
           Synthesize, Fail, Quietly, outside, caches
  <2>3. Finish(t) \/ Drop(t) => UNCHANGED caches
    BY <1>3 DEF Finish, Persist, DatabaseFails, SendEvents, Drop, Fail, outside, caches
  <2> QED BY <2>1, <2>2, <2>3 DEF Serve, caches
<1> QED BY <1>1, <1>2, <1>3

\* A turn that takes a step is in flight, or it disturbs the eviction.
LEMMA Disturbs ==
  ASSUME ChatInv, NEW t \in Turns, Serve(t) \/ Drop(t)
  PROVE  InFlight(t) \/ undisturbed' = FALSE
<1>1. Retrieve(t) => InFlight(t) \/ undisturbed' = FALSE
  BY DEF Retrieve, Hit, Miss, SearchHit, Search, SearchFails, StoreResult, InFlight, Running, At
<1>2. Generate(t) \/ Finish(t) \/ Drop(t) => InFlight(t)
  BY LaterSources
<1> QED BY <1>1, <1>2 DEF Serve

\* A turn's step spreads no evidence that is not fresh.
LEMMA ServeStale ==
  ASSUME ChatInv, StaleInv, NEW t \in Turns, Serve(t) \/ Drop(t)
  PROVE  StaleInv'
<1>1. floor' = floor /\ undisturbed' \in {undisturbed, FALSE}
  BY ServeIndex DEF ChatInv
<1>2. \A e : IsFresh(e) => (e = NoEvidence \/ e.version >= floor')
  BY <1>1 DEF IsFresh
<1>3. /\ \A q \in Questions : IsFresh(answers[q].evidence)
      /\ \A q \in Queries : IsFresh(results[q])
      /\ \A u \in Turns : InFlight(u) => IsFresh(turn[u].evidence)
  BY StaleParts DEF StaleInv
<1>4. \A u \in Turns \ {t} : turn'[u] = turn[u]
  BY RetrieveSources, LaterSources DEF Serve
<1>5. InFlight(t)' => Sourced(t)
  BY RetrieveSources, LaterSources DEF Serve
<1>6. index >= floor /\ index \in Int /\ floor \in Int
  BY DEF ChatInv, IndexInv, Versions
<1>7. InFlight(t)' => IsFresh(turn'[t].evidence)
  BY <1>3, <1>5, <1>6 DEF Sourced, IsFresh
<1>8. \A u \in Turns : InFlight(u)' => IsFresh(turn'[u].evidence)
  BY <1>3, <1>4, <1>7 DEF InFlight
<1>9. /\ \A q \in Questions : IsFresh(answers'[q].evidence)
      /\ \A q \in Queries : IsFresh(results'[q])
  BY <1>3, CacheSources
<1>10. NothingStale'
  BY <1>1, <1>8, <1>9 DEF NothingStale, IsFresh
<1>11. undisturbed' = FALSE
  <2>1. undisturbed \in BOOLEAN
    BY DEF ChatInv, IndexInv
  <2>2. CASE undisturbed = TRUE
    <3>1. ~InFlight(t)
      BY <2>2 DEF StaleInv
    <3> QED BY <3>1, Disturbs
  <2>3. CASE undisturbed = FALSE
    BY <1>1, <2>3
  <2> QED BY <2>1, <2>2, <2>3
<1> QED BY <1>10, <1>11 DEF StaleInv

\* The index, the expiry and the eviction.
LEMMA OutsideStale ==
  ASSUME ChatInv, StaleInv, Reindex \/ Expire \/ Evict
  PROVE  StaleInv'
<1>0. /\ \A q \in Questions : IsFresh(answers[q].evidence)
      /\ \A q \in Queries : IsFresh(results[q])
      /\ \A u \in Turns : InFlight(u) => IsFresh(turn[u].evidence)
  BY StaleParts DEF StaleInv
<1>1. NoEntry.evidence = NoEvidence
  BY EmptyTypes, EntryFields DEF NoEntry
<1>2. UNCHANGED turn
  BY DEF Reindex, Expire, Evict, EvictBegin, EvictAnswers, EvictResults, EvictFails
<1>3. CASE Reindex
  BY <1>3 DEF Reindex, StaleInv, NothingStale, InFlight, caches, eviction
<1>4. CASE Expire
  <2>1. \A q \in Questions : answers'[q] \in {answers[q], NoEntry}
    BY <1>4 DEF Expire, ChatInv, CachesInv
  <2>2. \A q \in Queries : results'[q] \in {results[q], NoEvidence}
    BY <1>4 DEF Expire, ChatInv, CachesInv
  <2>3. floor' = floor /\ undisturbed' = undisturbed /\ evictor' = evictor
    BY <1>4 DEF Expire, eviction
  <2>4. NothingStale'
    BY <1>0, <1>1, <1>2, <2>1, <2>2, <2>3 DEF NothingStale, IsFresh, InFlight
  <2> QED BY <1>2, <2>1, <2>3, <2>4 DEF StaleInv, InFlight
<1>5. CASE EvictBegin
  <2>1. NothingStale'
    BY <1>2, <1>5 DEF EvictBegin, StaleInv, NothingStale, InFlight, caches
  <2> QED BY <1>2, <1>5, <2>1 DEF EvictBegin, StaleInv, InFlight
<1>6. CASE EvictAnswers
  <2>1. \A q \in Questions : answers'[q] = NoEntry
    BY <1>6 DEF EvictAnswers
  <2>2. NothingStale'
    BY <1>0, <1>1, <1>2, <1>6, <2>1 DEF EvictAnswers, NothingStale, IsFresh, InFlight
  <2> QED BY <1>2, <1>6, <2>1, <2>2 DEF EvictAnswers, StaleInv, InFlight
<1>7. CASE EvictResults
  <2>1. \A q \in Queries : results'[q] = NoEvidence
    BY <1>7 DEF EvictResults
  <2>2. undisturbed' = FALSE /\ answers' = answers
    BY <1>7 DEF EvictResults
  <2>3. CASE undisturbed
    <3>1. /\ \A q \in Questions : answers'[q] = NoEntry
          /\ \A t \in Turns : ~InFlight(t)
      BY <1>7, <2>2, <2>3 DEF EvictResults, StaleInv
    <3> QED BY <1>1, <1>2, <2>1, <2>2, <3>1 DEF StaleInv, NothingStale, InFlight
  <2>4. CASE ~undisturbed
    <3>1. floor' = floor
      BY <1>7, <2>4 DEF EvictResults
    <3> QED BY <1>0, <1>2, <2>1, <2>2, <3>1 DEF StaleInv, NothingStale, IsFresh, InFlight
  <2> QED BY <2>3, <2>4 DEF ChatInv, IndexInv
<1>8. CASE EvictFails
  BY <1>2, <1>8 DEF EvictFails, StaleInv, NothingStale, InFlight, caches
<1> QED BY <1>3, <1>4, <1>5, <1>6, <1>7, <1>8 DEF Evict

\* After an eviction that no turn disturbed nothing older than the index was
\* then is cached or in use (evict_caches: the answers before the results).
THEOREM NothingStaleAlways == Spec => []NothingStale
<1>1. Init => StaleInv
  <2>1. NoEntry.evidence = NoEvidence
    BY EmptyTypes, EntryFields DEF NoEntry
  <2> QED BY <2>1 DEF Init, StaleInv, NothingStale, InFlight, Running, Idle
<1>2. ChatInv /\ StaleInv /\ [Next]_vars => StaleInv'
  <2> SUFFICES ASSUME ChatInv, StaleInv, [Next]_vars PROVE StaleInv'
    OBVIOUS
  <2>1. CASE UNCHANGED vars
    BY <2>1 DEF vars, outside, caches, eviction, StaleInv, NothingStale, InFlight
  <2> QED BY <2>1, ServeStale, OutsideStale DEF Next
<1>3. StaleInv => NothingStale
  BY DEF StaleInv
<1> QED BY <1>1, <1>2, <1>3, ChatInvariant, PTL DEF Spec

-----------------------------------------------------------------------------
(* The tokens of a stream.                                                 *)

\* s ends in x.
EndsIn(s, x) ==
  /\ Len(x) <= Len(s)
  /\ \A i \in 1 .. Len(x) : s[Len(s) - Len(x) + i] = x[i]

\* A text is of one attempt.
OneVoice(x) == \A i, j \in 1 .. Len(x) : x[i] = x[j]

\* What the client of a stream in state r got ends in what the turn has of its
\* attempt, and later in the text of its answer.
TokensGood(r, s) ==
  /\ r.pc \in {"search", "store", "generate", "asking"} => EndsIn(s, r.raw)
  /\ r.pc \in {"cache", "persist", "events"} =>
       EndsIn(s, r.answer.text) /\ OneVoice(r.answer.text)

TokensInv ==
  /\ tokens \in [Turns -> Seq(Nat)]
  /\ \A q \in Questions : answers[q].answer.text = <<>>
  /\ \A t \in Turns : Streaming(t) => TokensGood(turn[t], tokens[t])

\* Every sequence ends in the empty one, and in itself extended.
LEMMA EndsInEmpty ==
  ASSUME NEW s \in Seq(Nat)
  PROVE  EndsIn(s, <<>>) /\ OneVoice(<<>>)
BY DEF EndsIn, OneVoice

LEMMA EndsInAppend ==
  ASSUME NEW s \in Seq(Nat), NEW x \in Seq(Nat), NEW a \in Nat, EndsIn(s, x)
  PROVE  EndsIn(Append(s, a), Append(x, a))
<1> DEFINE t == Append(s, a)
           y == Append(x, a)
<1>1. /\ Len(t) = Len(s) + 1 /\ Len(y) = Len(x) + 1
      /\ Len(s) \in Nat /\ Len(x) \in Nat
      /\ t[Len(s) + 1] = a /\ y[Len(x) + 1] = a
      /\ \A j \in 1 .. Len(s) : t[j] = s[j]
      /\ \A j \in 1 .. Len(x) : y[j] = x[j]
  OBVIOUS
<1> HIDE DEF t, y
<1>2. ASSUME NEW i \in 1 .. Len(y) PROVE t[Len(t) - Len(y) + i] = y[i]
  <2>1. CASE i = Len(y)
    <3>1. Len(t) - Len(y) + i = Len(s) + 1 /\ i = Len(x) + 1
      BY <1>1, <2>1
    <3> QED BY <1>1, <3>1
  <2>2. CASE i \in 1 .. Len(x)
    <3> DEFINE j == Len(s) - Len(x) + i
    <3>1. j \in 1 .. Len(s) /\ Len(t) - Len(y) + i = j
      BY <1>1, <2>2 DEF EndsIn
    <3>2. s[j] = x[i]
      BY <2>2 DEF EndsIn
    <3> QED BY <1>1, <2>2, <3>1, <3>2
  <2>3. i = Len(y) \/ i \in 1 .. Len(x)
    BY <1>1
  <2> QED BY <2>1, <2>2, <2>3
<1>3. Len(y) <= Len(t)
  BY <1>1 DEF EndsIn
<1> QED BY <1>2, <1>3 DEF EndsIn, t, y

\* The last of a sequence is what SubSeq takes.
LEMMA EndsInSubSeq ==
  ASSUME NEW s \in Seq(Nat), NEW x \in Seq(Nat), EndsIn(s, x)
  PROVE  SubSeq(s, Len(s) - Len(x) + 1, Len(s)) = x
<1> DEFINE first == Len(s) - Len(x)
           y == SubSeq(s, first + 1, Len(s))
<1>1. Len(s) \in Nat /\ Len(x) \in Nat /\ first \in Nat
  BY DEF EndsIn
<1>2. y \in Seq(Nat) /\ Len(y) = Len(x)
  BY <1>1
<1>3. \A i \in 1 .. Len(x) : y[i] = s[first + i]
  BY <1>1
<1>4. \A i \in 1 .. Len(x) : y[i] = x[i]
  BY <1>3 DEF EndsIn
<1> QED BY <1>2, <1>4, SeqEqual

\* A step of one turn.
LEMMA TokensOne ==
  ASSUME ChatInv, TokensInv, NEW t \in Turns, NEW r, NEW s \in Seq(Nat),
         turn' = [turn EXCEPT ![t] = r], tokens' = [tokens EXCEPT ![t] = s],
         \A q \in Questions : answers'[q].answer.text = <<>>,
         Streaming(t) => TokensGood(r, s)
  PROVE  TokensInv'
<1>1. turn \in [Turns -> TurnStates] /\ tokens \in [Turns -> Seq(Nat)]
  BY DEF ChatInv, TurnsInv, TokensInv
<1>2. tokens' \in [Turns -> Seq(Nat)]
  BY <1>1
<1>3. ASSUME NEW u \in Turns, Streaming(u) PROVE TokensGood(turn'[u], tokens'[u])
  <2>1. CASE u = t
    BY <1>1, <1>3, <2>1
  <2>2. CASE u # t
    <3>1. turn'[u] = turn[u] /\ tokens'[u] = tokens[u]
      BY <1>1, <2>2
    <3> QED BY <1>3, <3>1 DEF TokensInv
  <2> QED BY <2>1, <2>2
<1> QED BY <1>2, <1>3 DEF TokensInv, Streaming

\* ... that sends nothing.
LEMMA TokensQuiet ==
  ASSUME ChatInv, TokensInv, NEW t \in Turns, NEW r,
         turn' = [turn EXCEPT ![t] = r], tokens' = tokens,
         \A q \in Questions : answers'[q].answer.text = <<>>,
         Streaming(t) => TokensGood(r, tokens[t])
  PROVE  TokensInv'
<1>1. tokens' = [tokens EXCEPT ![t] = tokens[t]] /\ tokens[t] \in Seq(Nat)
  BY DEF TokensInv
<1> QED BY <1>1, TokensOne

\* ... that ends it.
LEMMA TokensEnd ==
  ASSUME ChatInv, TokensInv, NEW t \in Turns, NEW pc \in {"done", "failed"}, End(t, pc),
         answers' = answers
  PROVE  TokensInv'
<1>1. <<>> \in Seq(Nat) /\ TokensGood(Idle(pc), <<>>)
  BY DEF TokensGood, Idle
<1>2. \A q \in Questions : answers'[q].answer.text = <<>>
  BY DEF TokensInv
<1> QED BY <1>1, <1>2, TokensOne DEF End

\* ... that keeps what it has of an attempt.
LEMMA TokensKept ==
  ASSUME ChatInv, TokensInv, NEW t \in Turns, NEW r,
         turn' = [turn EXCEPT ![t] = r], tokens' = tokens, answers' = answers,
         turn[t].pc \in {"search", "store", "generate", "asking"},
         r.pc \in {"search", "store", "generate", "asking"},
         r.raw \in {turn[t].raw, <<>>}
  PROVE  TokensInv'
<1>1. tokens[t] \in Seq(Nat)
  BY DEF TokensInv
<1>2. Streaming(t) => EndsIn(tokens[t], turn[t].raw) /\ EndsIn(tokens[t], <<>>)
  BY <1>1, EndsInEmpty DEF TokensInv, TokensGood
<1>3. Streaming(t) => TokensGood(r, tokens[t])
  BY <1>2 DEF TokensGood
<1>4. \A q \in Questions : answers'[q].answer.text = <<>>
  BY DEF TokensInv
<1> QED BY <1>3, <1>4, TokensQuiet

\* ... that gives it its answer.
LEMMA TokensAnswer ==
  ASSUME ChatInv, TokensInv, NEW t \in Turns, NEW kind, NEW version, NEW text,
         NEW s \in Seq(Nat), Answer(t, kind, version, text),
         tokens' = [tokens EXCEPT ![t] = s], answers' = answers,
         Streaming(t) => EndsIn(s, text) /\ OneVoice(text)
  PROVE  TokensInv'
<1> DEFINE r == [turn[t] EXCEPT !.pc = "cache", !.raw = <<>>, !.attempt = 0,
                     !.answer = Written(kind, turn[t].question.language, version, text)]
<1>1. turn \in [Turns -> TurnStates] /\ turn[t] \in TurnStates
  BY DEF ChatInv, TurnsInv
<1>2. turn' = [turn EXCEPT ![t] = r]
  BY <1>1 DEF Answer
<1>3. r.pc = "cache" /\ r.answer.text = text
  BY <1>1 DEF TurnStates, Written
<1> HIDE DEF r
<1>4. Streaming(t) => TokensGood(r, s)
  BY <1>3 DEF TokensGood
<1>5. \A q \in Questions : answers'[q].answer.text = <<>>
  BY DEF TokensInv
<1> QED BY <1>2, <1>4, <1>5, TokensOne

\* A refusal has no text.
LEMMA TokensRefuse ==
  ASSUME ChatInv, TokensInv, NEW t \in Turns, Refuse(t), tokens' = tokens, answers' = answers
  PROVE  TokensInv'
<1>1. tokens' = [tokens EXCEPT ![t] = tokens[t]] /\ tokens[t] \in Seq(Nat)
  BY DEF TokensInv
<1>2. EndsIn(tokens[t], <<>>) /\ OneVoice(<<>>)
  BY <1>1, EndsInEmpty
<1> QED BY <1>1, <1>2, TokensAnswer DEF Refuse

\* The text of a synthesized answer is replayed behind all other tokens.
LEMMA TokensSynthesize ==
  ASSUME ChatInv, TokensInv, NEW t \in Turns, Synthesize(t)
  PROVE  TokensInv'
<1>1. answers' = answers /\ tokens[t] \in Seq(Nat)
  BY DEF Synthesize, outside, caches, TokensInv
<1>2. CASE Streaming(t)
  <2>1. tokens' = [tokens EXCEPT ![t] = Append(tokens[t], 0)] /\ Append(tokens[t], 0) \in Seq(Nat)
    BY <1>1, <1>2 DEF Synthesize, Emit, TokensInv
  <2>2. EndsIn(Append(tokens[t], 0), Append(<<>>, 0))
    <3>1. <<>> \in Seq(Nat) /\ 0 \in Nat /\ EndsIn(tokens[t], <<>>)
      BY <1>1, EndsInEmpty
    <3> QED BY <1>1, <3>1, EndsInAppend
  <2>3. Append(<<>>, 0) = <<0>> /\ OneVoice(<<0>>)
    BY DEF OneVoice
  <2>4. \E version : Answer(t, "answer", version, <<0>>)
    BY <1>2 DEF Synthesize
  <2> QED BY <1>1, <2>1, <2>2, <2>3, <2>4, TokensAnswer
<1>3. CASE ~Streaming(t)
  <2>1. tokens' = [tokens EXCEPT ![t] = tokens[t]]
    BY <1>3 DEF Synthesize, Emit, TokensInv
  <2>2. \E version, text : Answer(t, "answer", version, text)
    BY DEF Synthesize
  <2> QED BY <1>1, <1>3, <2>1, <2>2, TokensAnswer
<1> QED BY <1>2, <1>3

LEMMA TokensRetrieve ==
  ASSUME ChatInv, TokensInv, NEW t \in Turns, Retrieve(t)
  PROVE  TokensInv'
<1>0. /\ turn \in [Turns -> TurnStates] /\ turn[t] \in TurnStates
      /\ tokens[t] \in Seq(Nat)
      /\ EndsIn(tokens[t], <<>>) /\ OneVoice(<<>>)
  BY EndsInEmpty DEF ChatInv, TurnsInv, TokensInv
<1>1. CASE Hit(t)
  <2>1. PICK question \in Questions :
          turn' = [turn EXCEPT ![t] =
               [Idle("persist") EXCEPT !.question = question, !.cached = TRUE,
                                       !.evidence = answers[question].evidence,
                                       !.answer = answers[question].answer]]
    BY <1>1 DEF Hit, AnswerKey
  <2> DEFINE r == [Idle("persist") EXCEPT !.question = question, !.cached = TRUE,
                                       !.evidence = answers[question].evidence,
                                       !.answer = answers[question].answer]
  <2>2. r.pc = "persist" /\ r.answer.text = <<>>
    BY DEF Idle, TokensInv
  <2> HIDE DEF r
  <2>3. TokensGood(r, tokens[t])
    BY <1>0, <2>2 DEF TokensGood
  <2>4. tokens' = tokens /\ \A q \in Questions : answers'[q].answer.text = <<>>
    BY <1>1 DEF Hit, caches, TokensInv
  <2> QED BY <2>1, <2>3, <2>4, TokensQuiet DEF r
<1>2. CASE Miss(t)
  <2>1. PICK question \in Questions :
          turn' = [turn EXCEPT ![t] = [Idle("search") EXCEPT !.question = question]]
    BY <1>2 DEF Miss
  <2> DEFINE r == [Idle("search") EXCEPT !.question = question]
  <2>2. r.pc = "search" /\ r.raw = <<>>
    BY DEF Idle
  <2> HIDE DEF r
  <2>3. TokensGood(r, tokens[t])
    BY <1>0, <2>2 DEF TokensGood
  <2>4. tokens' = tokens /\ \A q \in Questions : answers'[q].answer.text = <<>>
    BY <1>2 DEF Miss, caches, TokensInv
  <2> QED BY <2>1, <2>3, <2>4, TokensQuiet DEF r
<1>3. CASE SearchHit(t) \/ Search(t) \/ StoreResult(t)
  <2>1. /\ turn[t].pc \in {"search", "store"}
        /\ tokens' = tokens /\ answers' = answers
    BY <1>3 DEF SearchHit, Search, StoreResult, At, Quietly, outside, caches
  <2>2. turn' = [turn EXCEPT ![t] = turn'[t]]
    BY <1>0, <1>3 DEF SearchHit, Search, StoreResult, Goto
  <2>3. turn'[t].pc \in {"store", "generate"} /\ turn'[t].raw = turn[t].raw
    BY <1>0, <1>3 DEF SearchHit, Search, StoreResult, Goto, TurnStates
  <2> QED BY <2>1, <2>2, <2>3, TokensKept
<1>4. CASE SearchFails(t)
  BY <1>4, TokensEnd DEF SearchFails, Fail, outside, caches
<1> QED BY <1>1, <1>2, <1>3, <1>4 DEF Retrieve

LEMMA TokensGenerate ==
  ASSUME ChatInv, TokensInv, NEW t \in Turns, Generate(t)
  PROVE  TokensInv'
<1>0. /\ turn \in [Turns -> TurnStates] /\ turn[t] \in TurnStates
      /\ tokens \in [Turns -> Seq(Nat)] /\ tokens[t] \in Seq(Nat)
      /\ turn[t].raw \in Seq(Nat) /\ turn[t].attempt \in Nat
  BY TurnFields, BoundsAssumption DEF ChatInv, TurnsInv, TokensInv
<1>q. Quietly => tokens' = tokens /\ answers' = answers
  BY DEF Quietly, outside, caches
<1>f. Fail(t) => TokensInv'
  BY TokensEnd DEF Fail, outside, caches
<1>1. CASE Insufficient(t)
  BY <1>1, <1>q, TokensRefuse DEF Insufficient
<1>2. CASE NoProvider(t) \/ Unavailable(t) \/ Broken(t)
  BY <1>2, <1>f, TokensSynthesize DEF NoProvider, Unavailable, Broken
<1>3. CASE Attempt(t)
  <2>1. CASE turn[t].attempt = Attempts
    BY <1>3, <1>q, <2>1, TokensRefuse DEF Attempt
  <2>2. CASE turn[t].attempt # Attempts
    <3>1. turn' = [turn EXCEPT ![t] = turn'[t]] /\ turn[t].pc = "generate"
      BY <1>0, <1>3, <2>2 DEF Attempt, At
    <3>2. turn'[t].pc = "asking" /\ turn'[t].raw = <<>>
      BY <1>0, <1>3, <2>2 DEF Attempt, TurnStates
    <3> QED BY <1>3, <1>q, <3>1, <3>2, TokensKept DEF Attempt
  <2> QED BY <2>1, <2>2
<1>4. CASE Part(t)
  <2> DEFINE s == Append(tokens[t], turn[t].attempt)
             r == [turn[t] EXCEPT !.raw = Append(turn[t].raw, turn[t].attempt)]
  <2>1. Streaming(t) /\ turn[t].pc = "asking" /\ answers' = answers
    BY <1>4 DEF Part, At, outside, caches
  <2>2. tokens' = [tokens EXCEPT ![t] = s] /\ turn' = [turn EXCEPT ![t] = r]
    BY <1>0, <1>4, <2>1 DEF Part, Emit
  <2>3. EndsIn(tokens[t], turn[t].raw)
    BY <2>1 DEF TokensInv, TokensGood
  <2>4. s \in Seq(Nat) /\ EndsIn(s, Append(turn[t].raw, turn[t].attempt))
    BY <1>0, <2>3, EndsInAppend
  <2>5. r.pc = "asking" /\ r.raw = Append(turn[t].raw, turn[t].attempt)
    BY <1>0, <2>1 DEF TurnStates
  <2> HIDE DEF r, s
  <2>6. TokensGood(r, s)
    BY <2>4, <2>5 DEF TokensGood
  <2>7. \A q \in Questions : answers'[q].answer.text = <<>>
    BY <2>1 DEF TokensInv
  <2> QED BY <2>2, <2>4, <2>6, <2>7, TokensOne
<1>5. CASE Returned(t)
  <2>1. turn[t].pc = "asking"
    BY <1>5 DEF Returned, At
  <2>2. \/ Goto(t, "generate") /\ Quietly
        \/ Fail(t)
        \/ Refuse(t) /\ Quietly
        \/ (\E cites : Answer(t, "answer", cites, turn[t].raw)) /\ Quietly
    BY <1>5 DEF Returned
  <2>3. CASE Goto(t, "generate") /\ Quietly
    <3>1. turn' = [turn EXCEPT ![t] = turn'[t]]
      BY <1>0, <2>3 DEF Goto
    <3>2. turn'[t].pc = "generate" /\ turn'[t].raw = turn[t].raw
      BY <1>0, <2>3 DEF Goto, TurnStates
    <3> QED BY <1>q, <2>1, <2>3, <3>1, <3>2, TokensKept
  <2>4. CASE Refuse(t) /\ Quietly
    BY <1>q, <2>4, TokensRefuse
  <2>5. CASE (\E cites : Answer(t, "answer", cites, turn[t].raw)) /\ Quietly
    <3>1. tokens' = [tokens EXCEPT ![t] = tokens[t]] /\ answers' = answers
      BY <1>0, <1>q, <2>5
    <3>2. OneVoice(turn[t].raw)
      BY DEF ChatInv, TurnsInv, TurnGood, OneVoice
    <3>3. Streaming(t) => EndsIn(tokens[t], turn[t].raw)
      BY <2>1 DEF TokensInv, TokensGood
    <3> QED BY <1>0, <2>5, <3>1, <3>2, <3>3, TokensAnswer
  <2> QED BY <1>f, <2>2, <2>3, <2>4, <2>5
<1> QED BY <1>1, <1>2, <1>3, <1>4, <1>5 DEF Generate

LEMMA TokensFinish ==
  ASSUME ChatInv, TokensInv, NEW t \in Turns, Finish(t)
  PROVE  TokensInv'
<1>0. turn \in [Turns -> TurnStates] /\ turn[t] \in TurnStates
  BY DEF ChatInv, TurnsInv
<1>1. CASE StoreAnswer(t) \/ Persist(t)
  <2>1. turn' = [turn EXCEPT ![t] = turn'[t]] /\ tokens' = tokens
    BY <1>0, <1>1 DEF StoreAnswer, Persist, Goto
  <2>2. /\ turn[t].pc \in {"cache", "persist"}
        /\ turn'[t].pc \in {"persist", "events"} /\ turn'[t].answer = turn[t].answer
    BY <1>0, <1>1 DEF StoreAnswer, Persist, Goto, At, TurnStates
  <2>3. Streaming(t) => TokensGood(turn'[t], tokens[t])
    BY <2>2 DEF TokensInv, TokensGood
  <2>4. turn[t].evidence \in Evidence /\ turn[t].answer \in Answers
    BY <1>0, TurnFields
  <2>5. Entry(turn[t].evidence, turn[t].answer).answer.text = <<>>
    BY <2>4 DEF Entry, Answers
  <2>6. \A q \in Questions : answers'[q].answer.text = <<>>
    <3>1. CASE StoreAnswer(t)
      BY <2>5, <3>1 DEF StoreAnswer, AnswerKey, TokensInv, ChatInv, CachesInv
    <3>2. CASE Persist(t)
      BY <3>2 DEF Persist, outside, caches, TokensInv
    <3> QED BY <1>1, <3>1, <3>2
  <2> QED BY <2>1, <2>3, <2>6, TokensQuiet
<1>2. CASE DatabaseFails(t) \/ SendEvents(t)
  BY <1>2, TokensEnd DEF DatabaseFails, SendEvents, outside, caches
<1> QED BY <1>1, <1>2 DEF Finish

\* The index, the expiry and the eviction send nothing.
LEMMA TokensOutside ==
  ASSUME ChatInv, TokensInv, Reindex \/ Expire \/ Evict
  PROVE  TokensInv'
<1>1. UNCHANGED <<turn, tokens>>
  BY DEF Reindex, Expire, Evict, EvictBegin, EvictAnswers, EvictResults, EvictFails
<1>2. NoEntry.answer.text = <<>>
  BY DEF NoEntry, Entry, NoAnswer, Written
<1>3. \A q \in Questions : answers'[q] \in {answers[q], NoEntry}
  BY DEF Reindex, Expire, Evict, EvictBegin, EvictAnswers, EvictResults, EvictFails, caches,
         ChatInv, CachesInv
<1>4. \A q \in Questions : answers'[q].answer.text = <<>>
  BY <1>2, <1>3 DEF TokensInv
<1> QED BY <1>1, <1>4 DEF TokensInv, Streaming

\* The text of a streamed answer is the last its client got, and it is of one
\* attempt (stream_answer and the replays of stream_chat_events).
THEOREM TokensEndInAnswerAlways == Spec => []TokensEndInAnswer
<1>1. Init => TokensInv
  <2>1. NoEntry.answer.text = <<>>
    BY DEF NoEntry, Entry, NoAnswer, Written
  <2> QED BY <2>1 DEF Init, TokensInv, TokensGood, Idle
<1>2. ChatInv /\ TokensInv /\ [Next]_vars => TokensInv'
  <2> SUFFICES ASSUME ChatInv, TokensInv, [Next]_vars PROVE TokensInv'
    OBVIOUS
  <2>1. CASE UNCHANGED vars
    BY <2>1 DEF vars, outside, caches, TokensInv, Streaming
  <2>2. ASSUME NEW t \in Turns, Drop(t) PROVE TokensInv'
    BY <2>2, TokensEnd DEF Drop, Fail, outside, caches
  <2> QED BY <2>1, <2>2, TokensRetrieve, TokensGenerate, TokensFinish, TokensOutside DEF Next, Serve
<1>3. ChatInv /\ TokensInv => TokensEndInAnswer
  <2> SUFFICES ASSUME ChatInv, TokensInv, NEW t \in Turns, At(t, "events"), Streaming(t)
               PROVE LET text == turn[t].answer.text
                         first == Len(tokens[t]) - Len(text)
                     IN  /\ first >= 0 /\ SubSeq(tokens[t], first + 1, Len(tokens[t])) = text
                         /\ \A i, j \in 1 .. Len(text) : text[i] = text[j]
    BY DEF TokensEndInAnswer
  <2>1. tokens[t] \in Seq(Nat) /\ turn[t].answer.text \in Seq(Nat)
    BY DEF TokensInv, ChatInv, TurnsInv, TurnStates, Answers
  <2>2. EndsIn(tokens[t], turn[t].answer.text) /\ OneVoice(turn[t].answer.text)
    BY DEF TokensInv, TokensGood, At
  <2>3. Len(tokens[t]) - Len(turn[t].answer.text) >= 0
    BY <2>1, <2>2 DEF EndsIn
  <2> QED BY <2>1, <2>2, <2>3, EndsInSubSeq DEF OneVoice
<1> QED BY <1>1, <1>2, <1>3, ChatInvariant, PTL DEF Spec

-----------------------------------------------------------------------------
(* RateLimit: the invariant.                                               *)

Counts == [at : Nat, counted : Nat, allowed : BOOLEAN]
CallStates == [pc : {"free", "count", "refused", "told", "prune", "renew"}, at : Nat, wait : Nat]

LimitTypeInv ==
  /\ clock \in Nat /\ expiry \in Nat
  /\ calls \in [Callers -> CallStates]
  /\ tried \in Seq(Counts)
  /\ attempts \subseteq [at : Nat, id : Nat] /\ IsFiniteSet(attempts)

\* Attempts are counted in the order of time, each after it read the clock, and
\* Redis keeps the set until the last of them has left the window; what the set
\* holds was counted, and of what is in the window now it holds everything.
LogInv ==
  /\ \A c \in Callers : calls[c].at <= clock
  /\ \A j \in 1 .. Len(tried) :
       /\ tried[j].at <= tried[j].counted /\ tried[j].counted <= clock
       /\ tried[j].counted + Window <= expiry
  /\ \A i, j \in 1 .. Len(tried) : i <= j => tried[i].counted <= tried[j].counted
  /\ \A a \in attempts : a.id \in 1 .. Len(tried) /\ tried[a.id].at = a.at
  /\ \A j \in 1 .. Len(tried) :
       ~Expired(tried[j].at, clock) => [at |-> tried[j].at, id |-> j] \in attempts

\* The attempts let through of the window that ends with the count of the k-th,
\* and those that came in the window before it.
Passed(k) == {i \in 1 .. k : tried[i].allowed /\ tried[i].at > tried[k].counted - Window}
Came(k) == {i \in 1 .. k : tried[i].at > tried[k].at - Window}

LimitInv == LimitTypeInv /\ LogInv /\ WindowIsKept

LEMMA CallTypes ==
  ASSUME LimitTypeInv, NEW c \in Callers
  PROVE  calls[c] \in CallStates /\ calls[c].at \in Nat /\ calls[c].wait \in Nat
<1>1. calls[c] \in CallStates
  BY DEF LimitTypeInv
<1> QED
  BY <1>1 DEF CallStates

LEMMA TriedTypes ==
  ASSUME LimitTypeInv
  PROVE  /\ Len(tried) \in Nat /\ DOMAIN tried = 1 .. Len(tried)
         /\ \A j \in 1 .. Len(tried) :
              tried[j] \in Counts /\ tried[j].at \in Nat /\ tried[j].counted \in Nat
<1>1. Len(tried) \in Nat /\ DOMAIN tried = 1 .. Len(tried)
  BY DEF LimitTypeInv
<1>2. ASSUME NEW j \in 1 .. Len(tried)
      PROVE  tried[j] \in Counts /\ tried[j].at \in Nat /\ tried[j].counted \in Nat
  <2>1. tried[j] \in Counts
    BY DEF LimitTypeInv
  <2> QED
    BY <2>1 DEF Counts
<1> QED
  BY <1>1, <1>2

-----------------------------------------------------------------------------
(* One attempt more.                                                       *)

\* The set after the count of a thread that had read the time now.
Log(now) == Pruned(attempts, now) \union {[at |-> now, id |-> Len(tried) + 1]}

LEMMA LogType ==
  ASSUME LimitTypeInv, NEW now \in Nat
  PROVE  Log(now) \subseteq [at : Nat, id : Nat] /\ IsFiniteSet(Log(now)) /\ Cardinality(Log(now)) \in Nat
<1>1. Pruned(attempts, now) \in SUBSET attempts
  BY DEF Pruned
<1>2. IsFiniteSet(Pruned(attempts, now))
  BY <1>1, FS_Subset DEF LimitTypeInv
<1>3. IsFiniteSet(Log(now))
  BY <1>2, FS_AddElement DEF Log
<1>4. Log(now) \subseteq [at : Nat, id : Nat]
  BY <1>1, TriedTypes DEF Log, LimitTypeInv
<1> QED
  BY <1>3, <1>4, FS_CardinalityType

\* What the count of the n-th attempt changes.
IsCounted(c, n) ==
  LET now == calls[c].at IN
  /\ attempts' = Log(now) /\ expiry' = clock + Window /\ clock' = clock
  /\ n \in Nat /\ tried' \in Seq(Counts) /\ Len(tried') = n
  /\ \A i \in 1 .. n : i \in 1 .. Len(tried) \/ i = n
  /\ \A i \in 1 .. Len(tried) : i \in 1 .. n /\ i # n /\ tried'[i] = tried[i]
  /\ tried'[n].at = now /\ tried'[n].counted = clock
  /\ tried'[n].allowed <=> Cardinality(Log(now)) <= Limit

LEMMA Counted ==
  ASSUME LimitTypeInv, NEW c \in Callers, Count(c), NEW n, n = Len(tried) + 1
  PROVE  IsCounted(c, n)
<1> DEFINE new == [at |-> calls[c].at, counted |-> clock, allowed |-> Cardinality(Log(calls[c].at)) <= Limit]
<1>1. /\ attempts' = Log(calls[c].at) /\ expiry' = clock + Window /\ clock' = clock
      /\ tried' = Append(tried, new)
  BY DEF Count, Log, Allows
<1>2. new \in Counts
  BY CallTypes DEF Counts, LimitTypeInv
<1>3. Len(tried) \in Nat /\ tried \in Seq(Counts)
  BY DEF LimitTypeInv
<1> HIDE DEF new
<1>4. /\ tried' \in Seq(Counts) /\ Len(tried') = n /\ tried'[n] = new
      /\ \A i \in 1 .. Len(tried) : tried'[i] = tried[i]
  BY <1>1, <1>2, <1>3
<1> QED
  <2>1. new.at = calls[c].at /\ new.counted = clock
    BY DEF new
  <2>2. new.allowed <=> Cardinality(Log(calls[c].at)) <= Limit
    BY DEF new
  <2> QED
    BY <1>1, <1>3, <1>4, <2>1, <2>2 DEF IsCounted

LEMMA CountCalls ==
  ASSUME LimitTypeInv, LogInv, NEW c \in Callers, Count(c)
  PROVE  calls' \in [Callers -> CallStates] /\ \A d \in Callers : calls'[d].at <= clock
<1>1. calls' = [calls EXCEPT ![c] = Free] \/ calls' = [calls EXCEPT ![c].pc = "refused"]
  BY DEF Count, Done, Moved
<1>2. \A d \in Callers : calls[d] \in CallStates /\ calls[d].at <= clock
  BY CallTypes DEF LogInv
<1>3. Free \in CallStates /\ Free.at = 0 /\ 0 <= clock
  BY DEF Free, CallStates, LimitTypeInv
<1>4. [calls[c] EXCEPT !.pc = "refused"] \in CallStates
  BY <1>2 DEF CallStates
<1>5. CASE calls' = [calls EXCEPT ![c] = Free]
  BY <1>2, <1>3, <1>5 DEF LimitTypeInv
<1>6. CASE calls' = [calls EXCEPT ![c].pc = "refused"]
  BY <1>2, <1>4, <1>6 DEF LimitTypeInv
<1> QED
  BY <1>1, <1>5, <1>6

\* The set that a count leaves is in step with the history.
LEMMA CountKeepsLog ==
  ASSUME LimitTypeInv, LogInv, NEW c \in Callers, Count(c)
  PROVE  LimitTypeInv' /\ LogInv'
<1> DEFINE now == calls[c].at
<1>1. PICK n : n = Len(tried) + 1
  OBVIOUS
<1>2. /\ attempts' = Log(now) /\ expiry' = clock + Window /\ clock' = clock
      /\ n \in Nat /\ tried' \in Seq(Counts) /\ Len(tried') = n
      /\ \A i \in 1 .. n : i \in 1 .. Len(tried) \/ i = n
      /\ \A i \in 1 .. Len(tried) : i \in 1 .. n /\ i # n /\ tried'[i] = tried[i]
      /\ tried'[n].at = now /\ tried'[n].counted = clock
  <2>1. IsCounted(c, n)
    BY <1>1, Counted
  <2> QED
    BY <2>1 DEF IsCounted
<1>3. now \in Nat /\ now <= clock /\ clock \in Nat /\ Window \in Nat \ {0}
  BY CallTypes, LimitAssumption DEF LogInv, LimitTypeInv
<1>4. calls' \in [Callers -> CallStates] /\ \A d \in Callers : calls'[d].at <= clock
  BY CountCalls
<1> HIDE DEF now
<1>5. LimitTypeInv'
  <2>1. Log(now) \subseteq [at : Nat, id : Nat] /\ IsFiniteSet(Log(now))
    BY <1>3, LogType
  <2> QED
    BY <1>2, <1>3, <1>4, <2>1 DEF LimitTypeInv
<1>6. ASSUME NEW j \in 1 .. n
      PROVE  /\ tried'[j].at <= tried'[j].counted /\ tried'[j].counted <= clock
             /\ tried'[j].counted + Window <= expiry'
  <2>1. CASE j \in 1 .. Len(tried)
    BY <1>2, <1>3, <2>1, TriedTypes DEF LogInv
  <2>2. CASE j = n
    BY <1>2, <1>3, <2>2
  <2> QED
    BY <1>2, <2>1, <2>2
<1>7. ASSUME NEW i \in 1 .. n, NEW j \in 1 .. n, i <= j
      PROVE  tried'[i].counted <= tried'[j].counted
  <2>1. CASE j = n
    BY <1>2, <1>6, <2>1
  <2>2. CASE j # n
    <3>1. i \in 1 .. Len(tried) /\ j \in 1 .. Len(tried)
      BY <1>1, <1>2, <1>7, <2>2, TriedTypes
    <3> QED
      BY <1>2, <1>7, <3>1 DEF LogInv
  <2> QED
    BY <2>1, <2>2
<1>8. ASSUME NEW a \in attempts' PROVE a.id \in 1 .. n /\ tried'[a.id].at = a.at
  <2>1. CASE a \in attempts
    BY <1>2, <2>1 DEF LogInv
  <2>2. CASE a = [at |-> now, id |-> n]
    BY <1>1, <1>2, <2>2, TriedTypes
  <2> QED
    BY <1>1, <1>2, <2>1, <2>2 DEF Log, Pruned
<1>9. ASSUME NEW j \in 1 .. n, ~Expired(tried'[j].at, clock)
      PROVE  [at |-> tried'[j].at, id |-> j] \in attempts'
  <2>1. CASE j \in 1 .. Len(tried)
    <3>1. tried'[j] = tried[j] /\ tried[j].at \in Nat
      BY <1>2, <2>1, TriedTypes
    <3>2. [at |-> tried[j].at, id |-> j] \in attempts
      BY <1>9, <2>1, <3>1 DEF LogInv
    <3>3. ~Expired(tried[j].at, now)
      BY <1>3, <1>9, <3>1 DEF Expired
    <3> QED
      BY <1>2, <3>1, <3>2, <3>3 DEF Log, Pruned
  <2>2. CASE j = n
    BY <1>1, <1>2, <2>2 DEF Log
  <2> QED
    BY <1>2, <2>1, <2>2
<1> QED
  BY <1>2, <1>4, <1>5, <1>6, <1>7, <1>8, <1>9 DEF LogInv, Expired

\* The set is no larger than the attempts that came in the window of the last, and
\* holds those that were let through within the window that ends with its count.
LEMMA SetIsHistory ==
  ASSUME LimitTypeInv, LogInv, NEW c \in Callers, Count(c), NEW n, n = Len(tried) + 1
  PROVE  LET log == Log(calls[c].at) IN
         /\ IsFiniteSet(Came(n)') /\ Cardinality(log) <= Cardinality(Came(n)')
         /\ IsFiniteSet(Passed(n)') /\ Cardinality(Passed(n)') <= Cardinality(log)
<1> DEFINE now == calls[c].at
           log == Log(now)
           new == [at |-> now, id |-> n]
           came == Came(n)'
           passed == Passed(n)'
<1>1. /\ n \in Nat
      /\ \A i \in 1 .. n : i \in 1 .. Len(tried) \/ i = n
      /\ \A i \in 1 .. Len(tried) : i \in 1 .. n /\ i # n /\ tried'[i] = tried[i]
      /\ tried'[n].at = now /\ tried'[n].counted = clock
  <2>1. IsCounted(c, n)
    BY Counted
  <2> QED
    BY <2>1 DEF IsCounted
<1>2. now \in Nat /\ now <= clock /\ clock \in Nat /\ Window \in Nat \ {0}
  BY CallTypes, LimitAssumption DEF LogInv, LimitTypeInv
<1>3. log \subseteq [at : Nat, id : Nat] /\ IsFiniteSet(log)
  BY <1>2, LogType
<1>4. log = Pruned(attempts, now) \union {new}
  BY DEF Log
<1>5. /\ came = {i \in 1 .. n : tried'[i].at > now - Window}
      /\ passed = {i \in 1 .. n : tried'[i].allowed /\ tried'[i].at > clock - Window}
  BY <1>1 DEF Came, Passed
<1>6. IsFiniteSet(came) /\ IsFiniteSet(passed)
  <2>1. IsFiniteSet(1 .. n)
    BY <1>1, FS_Interval
  <2> QED
    BY <1>5, <2>1, FS_Subset
<1>7. n \in 1 .. n /\ Len(tried) \in Nat
  BY <1>1, TriedTypes
<1> HIDE DEF now, log, came, passed
<1>8. ASSUME NEW a \in log PROVE a.id \in came /\ tried'[a.id].at = a.at
  <2>1. CASE a = new
    BY <1>1, <1>2, <1>5, <1>7, <2>1
  <2>2. CASE a \in Pruned(attempts, now)
    <3>1. a \in attempts /\ ~Expired(a.at, now) /\ a.at \in Nat
      BY <1>3, <1>4, <2>2 DEF Pruned
    <3>2. a.id \in 1 .. Len(tried) /\ tried[a.id].at = a.at
      BY <3>1 DEF LogInv
    <3>3. a.at > now - Window
      BY <1>2, <3>1 DEF Expired
    <3> QED
      BY <1>1, <1>5, <3>2, <3>3
  <2> QED
    BY <1>4, <2>1, <2>2
<1>9. ASSUME NEW a \in log, NEW b \in log, a.id = b.id PROVE a = b
  <2>1. a.at = b.at
    BY <1>8, <1>9
  <2>2. a = [at |-> a.at, id |-> a.id] /\ b = [at |-> b.at, id |-> b.id]
    BY <1>3
  <2> QED
    BY <1>9, <2>1, <2>2
<1>10. Cardinality(log) <= Cardinality(came)
  <2> DEFINE f == [a \in log |-> a.id]
  <2>1. f \in [log -> came]
    BY <1>8
  <2>2. \A a, b \in log : f[a] = f[b] => a = b
    BY <1>9
  <2>3. f \in Injection(log, came)
    BY <2>1, <2>2 DEF Injection, IsInjective
  <2> QED
    BY <1>6, <2>3, FS_Injection
<1>11. ASSUME NEW i \in passed PROVE [at |-> tried'[i].at, id |-> i] \in log
  <2>1. CASE i = n
    BY <1>1, <1>4, <2>1
  <2>2. CASE i \in 1 .. Len(tried)
    <3>1. tried'[i] = tried[i] /\ tried[i].at \in Nat /\ tried[i].at > clock - Window
      BY <1>1, <1>5, <2>2, TriedTypes
    <3>2. ~Expired(tried[i].at, clock) /\ ~Expired(tried[i].at, now)
      BY <1>2, <3>1 DEF Expired
    <3>3. [at |-> tried[i].at, id |-> i] \in attempts
      BY <2>2, <3>2 DEF LogInv
    <3> QED
      BY <1>4, <3>1, <3>2, <3>3 DEF Pruned
  <2> QED
    BY <1>1, <1>5, <2>1, <2>2
<1>12. Cardinality(passed) <= Cardinality(log)
  <2> DEFINE g == [i \in passed |-> [at |-> tried'[i].at, id |-> i]]
  <2>1. g \in [passed -> log]
    BY <1>11
  <2>2. \A i, j \in passed : g[i] = g[j] => i = j
    OBVIOUS
  <2>3. g \in Injection(passed, log)
    BY <2>1, <2>2 DEF Injection, IsInjective
  <2> QED
    BY <1>3, <2>3, FS_Injection
<1> QED
  BY <1>6, <1>10, <1>12 DEF now, log, came, passed

\* An attempt more does not change the windows that ended before it.
LEMMA WindowsStay ==
  ASSUME LimitTypeInv, NEW c \in Callers, Count(c), NEW k \in 1 .. Len(tried)
  PROVE  Passed(k)' = Passed(k) /\ Came(k)' = Came(k) /\ tried'[k] = tried[k]
<1>1. \A i \in 1 .. Len(tried) : tried'[i] = tried[i]
  <2>1. IsCounted(c, Len(tried) + 1)
    BY Counted
  <2> QED
    BY <2>1 DEF IsCounted
<1>2. \A i \in 1 .. k : i \in 1 .. Len(tried)
  BY TriedTypes
<1> QED
  BY <1>1, <1>2 DEF Passed, Came

\* What a refused last attempt adds to its window was let through before.
LEMMA RefusedAddsNothing ==
  ASSUME LimitTypeInv, LogInv, WindowIsKept, NEW c \in Callers, Count(c), NEW n, n = Len(tried) + 1,
         ~tried'[n].allowed
  PROVE  Cardinality(Passed(n)') <= Limit
<1>1. /\ n \in Nat /\ clock' = clock /\ tried'[n].counted = clock
      /\ \A i \in 1 .. n : i \in 1 .. Len(tried) \/ i = n
      /\ \A i \in 1 .. Len(tried) : tried'[i] = tried[i]
  <2>1. IsCounted(c, n)
    BY Counted
  <2> QED
    BY <2>1 DEF IsCounted
<1>2. Len(tried) \in Nat /\ DOMAIN tried = 1 .. Len(tried)
  BY TriedTypes
<1>3. CASE n = 1
  <2>1. Passed(n)' = {}
    BY <1>1, <1>2, <1>3 DEF Passed
  <2>2. Cardinality(Passed(n)') = 0
    BY <2>1, FS_EmptySet
  <2> QED
    BY <2>2, LimitAssumption
<1>4. CASE n # 1
  <2>1. n - 1 \in 1 .. Len(tried)
    BY <1>1, <1>2, <1>4
  <2>2. ASSUME NEW i \in Passed(n)' PROVE i \in Passed(n - 1)
    <3>1. i \in 1 .. Len(tried) /\ tried[i].allowed /\ tried[i].at > clock - Window
      BY <1>1, <2>2 DEF Passed
    <3>2. /\ tried[n - 1].counted <= clock /\ tried[n - 1].counted \in Nat /\ tried[i].at \in Nat
          /\ clock \in Nat /\ Window \in Nat
      BY <2>1, <3>1, TriedTypes, LimitAssumption DEF LogInv, LimitTypeInv
    <3>3. tried[i].at > tried[n - 1].counted - Window /\ i \in 1 .. n - 1
      BY <1>1, <1>2, <3>1, <3>2
    <3> QED
      BY <3>1, <3>3 DEF Passed
  <2>3. Passed(n)' \subseteq Passed(n - 1)
    BY <2>2
  <2>4. IsFiniteSet(Passed(n - 1))
    <3>1. IsFiniteSet(1 .. n - 1)
      BY <1>1, <2>1, FS_Interval
    <3> QED
      BY <3>1, FS_Subset DEF Passed
  <2>5. Cardinality(Passed(n)') <= Cardinality(Passed(n - 1)) /\ IsFiniteSet(Passed(n)')
    BY <2>3, <2>4, FS_Subset
  <2>6. Cardinality(Passed(n - 1)) <= Limit
    BY <1>2, <2>1 DEF WindowIsKept, Passed
  <2>7. Cardinality(Passed(n)') \in Nat /\ Cardinality(Passed(n - 1)) \in Nat
    BY <2>4, <2>5, FS_CardinalityType
  <2> QED
    BY <2>5, <2>6, <2>7, LimitAssumption
<1> QED
  BY <1>3, <1>4

LEMMA CountKeepsWindow ==
  ASSUME LimitTypeInv, LogInv, WindowIsKept, NEW c \in Callers, Count(c)
  PROVE  WindowIsKept'
<1>1. PICK n : n = Len(tried) + 1
  OBVIOUS
<1> DEFINE log == Log(calls[c].at)
<1>2. /\ n \in Nat /\ tried' \in Seq(Counts) /\ Len(tried') = n
      /\ \A i \in 1 .. n : i \in 1 .. Len(tried) \/ i = n
      /\ tried'[n].allowed <=> Cardinality(log) <= Limit
  <2>1. IsCounted(c, n)
    BY <1>1, Counted
  <2> QED
    BY <2>1 DEF IsCounted
<1>3. Cardinality(log) \in Nat
  BY CallTypes, LogType
<1>4. /\ IsFiniteSet(Came(n)') /\ Cardinality(log) <= Cardinality(Came(n)')
      /\ IsFiniteSet(Passed(n)') /\ Cardinality(Passed(n)') <= Cardinality(log)
  BY <1>1, SetIsHistory
<1>5. Cardinality(Came(n)') \in Nat /\ Cardinality(Passed(n)') \in Nat
  BY <1>4, FS_CardinalityType
<1> HIDE DEF log
<1>6. ASSUME NEW k \in 1 .. n
      PROVE  Cardinality(Passed(k)') <= Limit /\ (~tried'[k].allowed => Cardinality(Came(k)') > Limit)
  <2>1. CASE k \in 1 .. Len(tried)
    <3>1. Passed(k)' = Passed(k) /\ Came(k)' = Came(k) /\ tried'[k] = tried[k]
      BY <2>1, WindowsStay
    <3>2. k \in DOMAIN tried
      BY <2>1, TriedTypes
    <3>3. Cardinality(Passed(k)) <= Limit /\ (~tried[k].allowed => Cardinality(Came(k)) > Limit)
      BY <3>2 DEF WindowIsKept, Passed, Came
    <3> QED
      BY <3>1, <3>3
  <2>2. CASE k = n /\ tried'[n].allowed
    BY <1>2, <1>3, <1>4, <1>5, <2>2, LimitAssumption
  <2>3. CASE k = n /\ ~tried'[n].allowed
    <3>1. Cardinality(Passed(n)') <= Limit
      BY <1>1, <2>3, RefusedAddsNothing
    <3>2. Cardinality(Came(n)') > Limit
      BY <1>2, <1>3, <1>4, <1>5, <2>3, LimitAssumption
    <3> QED
      BY <2>3, <3>1, <3>2
  <2> QED
    BY <1>2, <2>1, <2>2, <2>3
<1>7. DOMAIN tried' = 1 .. n
  BY <1>2
<1> QED
  BY <1>6, <1>7 DEF WindowIsKept, Passed, Came

-----------------------------------------------------------------------------
(* The other steps.                                                        *)

\* A step that leaves the history alone keeps it, if what it takes from the set
\* has left the window.
LEMMA SetKeeps ==
  ASSUME LimitTypeInv, LogInv, tried' = tried, clock' \in Nat, clock <= clock', expiry' \in Nat,
         calls' \in [Callers -> CallStates], \A c \in Callers : calls'[c].at <= clock',
         \A j \in 1 .. Len(tried) : tried[j].counted + Window <= expiry',
         attempts' \subseteq attempts,
         \A a \in attempts : ~Expired(a.at, clock') => a \in attempts'
  PROVE  LimitTypeInv' /\ LogInv'
<1>1. LimitTypeInv'
  BY FS_Subset DEF LimitTypeInv
<1>2. \A j \in 1 .. Len(tried) : tried[j].at <= tried[j].counted /\ tried[j].counted <= clock'
  BY TriedTypes DEF LogInv, LimitTypeInv
<1>3. ASSUME NEW j \in 1 .. Len(tried), ~Expired(tried[j].at, clock')
      PROVE  [at |-> tried[j].at, id |-> j] \in attempts'
  <2>1. ~Expired(tried[j].at, clock)
    BY <1>3, TriedTypes, LimitAssumption DEF Expired, LimitTypeInv
  <2>2. [at |-> tried[j].at, id |-> j] \in attempts
    BY <2>1 DEF LogInv
  <2> QED
    BY <1>3, <2>2
<1> QED
  BY <1>1, <1>2, <1>3 DEF LogInv, Expired

\* A thread that moves on has a time that was read.
LEMMA CallsMove ==
  ASSUME LimitTypeInv, LogInv, NEW c \in Callers, NEW call \in CallStates, call.at <= clock,
         calls' = [calls EXCEPT ![c] = call]
  PROVE  calls' \in [Callers -> CallStates] /\ \A d \in Callers : calls'[d].at <= clock
BY DEF LimitTypeInv, LogInv

LEMMA CallStepsKeep ==
  ASSUME LimitTypeInv, LogInv, NEW c \in Callers,
         Ask(c) \/ Reject(c) \/ FailOpen(c) \/ AskRemaining(c) \/ Prune(c) \/ Renew(c)
  PROVE  LimitTypeInv' /\ LogInv' /\ tried' = tried
<1>1. /\ clock \in Nat /\ expiry \in Nat /\ clock' = clock /\ tried' = tried
      /\ Window \in Nat \ {0}
  BY LimitAssumption DEF LimitTypeInv, Ask, Reject, FailOpen, AskRemaining, Prune, Renew
<1>2. calls[c] \in CallStates /\ calls[c].at \in Nat /\ calls[c].at <= clock
  BY CallTypes DEF LogInv
<1>3. Free \in CallStates /\ Free.at = 0 /\ 0 <= clock
  BY <1>1 DEF Free, CallStates
<1>4. \E call \in CallStates : call.at <= clock /\ calls' = [calls EXCEPT ![c] = call]
  <2>1. CASE FailOpen(c) \/ Renew(c)
    BY <1>3, <2>1 DEF FailOpen, Renew, Done
  <2>2. CASE Ask(c) \/ AskRemaining(c)
    <3>1. PICK pc \in {"count", "prune"} : calls' = [calls EXCEPT ![c] = [pc |-> pc, at |-> clock, wait |-> 0]]
      BY <2>2 DEF Ask, AskRemaining
    <3> DEFINE call == [pc |-> pc, at |-> clock, wait |-> 0]
    <3>2. call \in CallStates /\ call.at <= clock /\ calls' = [calls EXCEPT ![c] = call]
      BY <1>1, <3>1 DEF CallStates
    <3> HIDE DEF call
    <3> QED
      BY <3>2
  <2>3. CASE Prune(c)
    <3>1. [calls[c] EXCEPT !.pc = "renew"] \in CallStates /\ [calls[c] EXCEPT !.pc = "renew"].at = calls[c].at
      BY <1>2 DEF CallStates
    <3>2. calls' = [calls EXCEPT ![c] = [calls[c] EXCEPT !.pc = "renew"]]
      BY <2>3 DEF Prune, Moved
    <3> QED
      BY <1>2, <3>1, <3>2
  <2>4. CASE Reject(c)
    <3>1. PICK wait \in Nat : calls' = [calls EXCEPT ![c].pc = "told", ![c].wait = wait]
      <4>1. CASE calls' = [calls EXCEPT ![c].pc = "told", ![c].wait = 0]
        BY <4>1
      <4>2. ASSUME NEW oldest \in Oldest(attempts),
                   calls' = [calls EXCEPT ![c].pc = "told", ![c].wait = RetryAfter(oldest, calls[c].at)]
            PROVE  \E wait \in Nat : calls' = [calls EXCEPT ![c].pc = "told", ![c].wait = wait]
        <5>1. oldest.at \in Nat
          BY DEF Oldest, LimitTypeInv
        <5>2. RetryAfter(oldest, calls[c].at) \in Nat
          BY <1>1, <1>2, <5>1 DEF RetryAfter
        <5> QED
          BY <4>2, <5>2
      <4> QED
        BY <2>4, <4>1, <4>2 DEF Reject
    <3> DEFINE call == [calls[c] EXCEPT !.pc = "told", !.wait = wait]
    <3>2. call \in CallStates /\ call.at = calls[c].at
      BY <1>2 DEF CallStates
    <3>3. calls' = [calls EXCEPT ![c] = call]
      BY <1>2, <3>1 DEF LimitTypeInv, CallStates
    <3> QED
      BY <1>2, <3>2, <3>3
  <2> QED
    BY <2>1, <2>2, <2>3, <2>4
<1>5. calls' \in [Callers -> CallStates] /\ \A d \in Callers : calls'[d].at <= clock'
  BY <1>1, <1>4, CallsMove
<1>6. attempts' \subseteq attempts /\ \A a \in attempts : ~Expired(a.at, clock') => a \in attempts'
  <2>1. CASE Prune(c)
    <3>1. attempts' = {a \in attempts : ~Expired(a.at, calls[c].at)}
      BY <2>1 DEF Prune, Pruned
    <3>2. \A a \in attempts : a.at \in Nat
      BY DEF LimitTypeInv
    <3> QED
      BY <1>1, <1>2, <3>1, <3>2 DEF Expired
  <2>2. CASE ~Prune(c)
    BY <2>2 DEF Ask, Reject, FailOpen, AskRemaining, Renew
  <2> QED
    BY <2>1, <2>2
<1>7. expiry' \in Nat /\ \A j \in 1 .. Len(tried) : tried[j].counted + Window <= expiry'
  <2>1. CASE Renew(c)
    <3>1. expiry' = clock + Window
      BY <2>1 DEF Renew
    <3> QED
      BY <1>1, <3>1, TriedTypes DEF LogInv
  <2>2. CASE ~Renew(c)
    <3>1. expiry' = expiry
      BY <2>2 DEF Ask, Reject, FailOpen, AskRemaining, Prune
    <3> QED
      BY <1>1, <3>1 DEF LogInv
  <2> QED
    BY <2>1, <2>2
<1> QED
  BY <1>1, <1>5, <1>6, <1>7, SetKeeps

LEMMA TickKeeps ==
  ASSUME LimitTypeInv, LogInv, Tick
  PROVE  LimitTypeInv' /\ LogInv' /\ tried' = tried
<1>1. /\ clock' = clock + 1 /\ UNCHANGED <<expiry, calls, tried>>
      /\ attempts' = IF expiry <= clock' THEN {} ELSE attempts
      /\ clock \in Nat /\ expiry \in Nat /\ Window \in Nat \ {0}
  BY LimitAssumption DEF Tick, LimitTypeInv
<1>2. \A c \in Callers : calls'[c].at <= clock'
  BY <1>1, CallTypes DEF LogInv
<1>3. ASSUME NEW a \in attempts, ~Expired(a.at, clock') PROVE a \in attempts'
  <2>1. /\ a.id \in 1 .. Len(tried) /\ tried[a.id].at = a.at
        /\ tried[a.id].at <= tried[a.id].counted /\ tried[a.id].counted + Window <= expiry
        /\ tried[a.id].at \in Nat /\ tried[a.id].counted \in Nat
    BY TriedTypes DEF LogInv
  <2>2. ~(expiry <= clock')
    BY <1>1, <1>3, <2>1 DEF Expired
  <2> QED
    BY <1>1, <2>2
<1>4. attempts' \subseteq attempts
  BY <1>1
<1>5. calls' \in [Callers -> CallStates] /\ \A j \in 1 .. Len(tried) : tried[j].counted + Window <= expiry'
  BY <1>1 DEF LimitTypeInv, LogInv
<1> QED
  BY <1>1, <1>2, <1>3, <1>4, <1>5, SetKeeps

\* Without a history.
LEMMA NothingTried ==
  tried = <<>> /\ attempts = {} /\ clock \in Nat /\ expiry \in Nat
    /\ calls \in [Callers -> CallStates] /\ (\A c \in Callers : calls[c].at <= clock) => LimitInv
<1> SUFFICES ASSUME tried = <<>>, attempts = {}, clock \in Nat, expiry \in Nat,
                    calls \in [Callers -> CallStates], \A c \in Callers : calls[c].at <= clock
             PROVE  LimitInv
  OBVIOUS
<1>1. Len(<<>>) = 0 /\ <<>> \in Seq(Counts) /\ 1 .. 0 = {} /\ DOMAIN <<>> = {}
  OBVIOUS
<1>2. LimitTypeInv
  BY <1>1, FS_EmptySet DEF LimitTypeInv
<1>3. LogInv
  BY <1>1 DEF LogInv
<1>4. WindowIsKept
  BY <1>1 DEF WindowIsKept
<1> QED
  BY <1>2, <1>3, <1>4 DEF LimitInv

LEMMA LimitInvInit == LimitInit => LimitInv
<1> SUFFICES ASSUME LimitInit PROVE LimitInv
  OBVIOUS
<1>1. Free \in CallStates /\ Free.at = 0
  BY DEF Free, CallStates
<1> QED
  BY <1>1, NothingTried DEF LimitInit

LEMMA LimitInvStep == LimitInv /\ [LimitNext]_limitVars => LimitInv'
<1> SUFFICES ASSUME LimitInv, [LimitNext]_limitVars PROVE LimitInv'
  OBVIOUS
<1>1. CASE tried' = tried /\ LimitTypeInv' /\ LogInv'
  BY <1>1 DEF LimitInv, WindowIsKept
<1>2. CASE Tick
  BY <1>1, <1>2, TickKeeps DEF LimitInv
<1>3. ASSUME NEW c \in Callers,
             Ask(c) \/ Reject(c) \/ FailOpen(c) \/ AskRemaining(c) \/ Prune(c) \/ Renew(c)
      PROVE  LimitInv'
  BY <1>1, <1>3, CallStepsKeep DEF LimitInv
<1>4. CASE Reset
  <2>1. tried' = <<>> /\ attempts' = {} /\ clock' = clock /\ expiry' = expiry /\ calls' = calls
    BY <1>4 DEF Reset
  <2>2. /\ clock' \in Nat /\ expiry' \in Nat /\ calls' \in [Callers -> CallStates]
        /\ \A c \in Callers : calls'[c].at <= clock'
    BY <2>1 DEF LimitInv, LimitTypeInv, LogInv
  <2>3. (tried = <<>> /\ attempts = {} /\ clock \in Nat /\ expiry \in Nat
          /\ calls \in [Callers -> CallStates] /\ (\A c \in Callers : calls[c].at <= clock) => LimitInv)'
    BY NothingTried, PTL
  <2> QED
    BY <2>1, <2>2, <2>3
<1>5. ASSUME NEW c \in Callers, Count(c) PROVE LimitInv'
  BY <1>5, CountKeepsLog, CountKeepsWindow DEF LimitInv
<1>6. CASE UNCHANGED limitVars
  BY <1>6 DEF limitVars, LimitInv, LimitTypeInv, LogInv, WindowIsKept, Expired
<1> QED
  BY <1>2, <1>3, <1>4, <1>5, <1>6 DEF LimitNext

\* The set of attempts stays in step with the history: it has every attempt of the
\* present window, however many threads count and prune by times they have read
\* before, and whatever is renewed, forgotten, lost or expires.
THEOREM LimitInvAlways == LimitSpec => []LimitInv
BY LimitInvInit, LimitInvStep, PTL DEF LimitSpec

\* Of the questions that come and are counted within one window at most the limit
\* is let through while Redis answers, and none is refused unless more than the
\* limit came since its window began (RateLimitStore._check).
THEOREM WindowIsAlwaysKept == LimitSpec => []WindowIsKept
<1>1. LimitInv => WindowIsKept
  BY DEF LimitInv
<1> QED
  BY <1>1, LimitInvAlways, PTL

-----------------------------------------------------------------------------
(* The wait.                                                               *)

\* The arithmetic of RetryAfter, for an attempt at time old.
LEMMA WaitOf ==
  ASSUME NEW now \in Nat, NEW old \in Nat, NEW a, a.at = old
  PROVE  LET wait == RetryAfter(a, now) IN
         /\ wait \in Nat /\ wait > 0
         /\ \A t \in Nat : old <= t /\ now <= t + Window => now + wait <= t + Window + 1
         /\ Expired(old, now + wait)
         /\ wait = 1 \/ ~Expired(old, (now + wait) - 2)
BY LimitAssumption DEF RetryAfter, Expired

\* Nobody is told to wait longer than for any attempt that is in the window when
\* it is told, or nothing while there is one, and whoever waits finds an attempt
\* gone (RateLimitStore._check).
THEOREM WaitIsAlwaysTrue == LimitSpec => WaitIsTrue
<1> DEFINE told(c) ==
             LET recent == {j \in DOMAIN tried : ~Expired(tried[j].at, clock)}
                 wait == calls'[c].wait
                 end == calls'[c].at + wait
             IN  /\ \A i \in recent : wait > 0 /\ end <= tried[i].at + Window + 1
                 /\ wait > 0 => \E i \in DOMAIN tried :
                      /\ Expired(tried[i].at, end)
                      /\ wait = 1 \/ ~Expired(tried[i].at, end - 2)
           Told == \A c \in Callers : calls[c].pc = "refused" /\ calls'[c].pc = "told" => told(c)
<1>1. LimitInv /\ [LimitNext]_limitVars => [Told]_limitVars
  <2> SUFFICES ASSUME LimitInv, LimitNext, NEW c \in Callers,
                      calls[c].pc = "refused", calls'[c].pc = "told"
               PROVE  told(c)
    OBVIOUS
  <2>0. LimitTypeInv /\ LogInv
    BY DEF LimitInv
  <2>1. Reject(c)
    <3>1. ASSUME NEW d \in Callers, NEW call, calls' = [calls EXCEPT ![d] = call], call.pc # "told" PROVE FALSE
      BY <2>0, <3>1 DEF LimitTypeInv
    <3>2. ASSUME NEW d \in Callers, Reject(d) PROVE d = c
      BY <2>0, <3>2 DEF Reject, LimitTypeInv
    <3>3. ASSUME NEW d \in Callers, Ask(d) PROVE FALSE
      BY <3>1, <3>3 DEF Ask
    <3>4. ASSUME NEW d \in Callers, AskRemaining(d) PROVE FALSE
      BY <3>1, <3>4 DEF AskRemaining
    <3>5. ASSUME NEW d \in Callers, FailOpen(d) \/ Renew(d) PROVE FALSE
      BY <3>1, <3>5 DEF FailOpen, Renew, Done, Free
    <3>6. ASSUME NEW d \in Callers, NEW pc \in {"refused", "renew"}, Moved(d, pc) PROVE FALSE
      <4>1. calls[d] \in CallStates
        BY <2>0 DEF LimitTypeInv
      <4>2. [calls[d] EXCEPT !.pc = pc].pc = pc /\ pc # "told"
        BY <4>1 DEF CallStates
      <4> QED
        BY <3>1, <3>6, <4>2 DEF Moved
    <3>7. ASSUME NEW d \in Callers, Count(d) \/ Prune(d) PROVE FALSE
      BY <3>1, <3>6, <3>7 DEF Count, Prune, Done, Free
    <3>8. ~Tick /\ ~Reset
      BY DEF Tick, Reset
    <3> QED
      BY <3>2, <3>3, <3>4, <3>5, <3>7, <3>8 DEF LimitNext
  <2>2. /\ calls[c] \in CallStates /\ calls[c].at \in Nat /\ calls[c].at <= clock /\ clock \in Nat
        /\ Window \in Nat \ {0}
    BY <2>0, CallTypes, LimitAssumption DEF LogInv, LimitTypeInv
  <2>3. ASSUME NEW i \in DOMAIN tried, ~Expired(tried[i].at, clock)
        PROVE  [at |-> tried[i].at, id |-> i] \in attempts /\ tried[i].at \in Nat
               /\ calls[c].at <= tried[i].at + Window
    <3>1. i \in 1 .. Len(tried) /\ tried[i].at \in Nat
      BY <2>0, TriedTypes
    <3>2. [at |-> tried[i].at, id |-> i] \in attempts
      BY <2>0, <2>3, <3>1 DEF LogInv
    <3> QED
      BY <2>2, <2>3, <3>1, <3>2 DEF Expired
  <2>4. CASE attempts = {} /\ calls' = [calls EXCEPT ![c].pc = "told", ![c].wait = 0]
    <3>1. calls'[c].wait = 0
      BY <2>0, <2>4 DEF LimitTypeInv, CallStates
    <3> QED
      BY <2>3, <2>4, <3>1
  <2>5. ASSUME NEW oldest \in Oldest(attempts),
               calls' = [calls EXCEPT ![c].pc = "told", ![c].wait = RetryAfter(oldest, calls[c].at)]
        PROVE  told(c)
    <3> DEFINE wait == RetryAfter(oldest, calls[c].at)
    <3>1. calls'[c].wait = wait /\ calls'[c].at = calls[c].at
      BY <2>0, <2>5 DEF LimitTypeInv, CallStates
    <3>2. oldest \in attempts /\ oldest.at \in Nat /\ \A a \in attempts : oldest.at <= a.at
      BY <2>0 DEF Oldest, LimitTypeInv
    <3>3. /\ wait \in Nat /\ wait > 0
          /\ \A t \in Nat : oldest.at <= t /\ calls[c].at <= t + Window => calls[c].at + wait <= t + Window + 1
          /\ Expired(oldest.at, calls[c].at + wait)
          /\ wait = 1 \/ ~Expired(oldest.at, (calls[c].at + wait) - 2)
      BY <2>2, <3>2, WaitOf
    <3> HIDE DEF wait
    <3>4. ASSUME NEW i \in DOMAIN tried, ~Expired(tried[i].at, clock)
          PROVE  calls[c].at + wait <= tried[i].at + Window + 1
      BY <2>3, <3>2, <3>3, <3>4
    <3>5. oldest.id \in DOMAIN tried /\ tried[oldest.id].at = oldest.at
      BY <2>0, <3>2, TriedTypes DEF LogInv
    <3>6. \E i \in DOMAIN tried :
            /\ Expired(tried[i].at, calls[c].at + wait)
            /\ wait = 1 \/ ~Expired(tried[i].at, (calls[c].at + wait) - 2)
      BY <3>3, <3>5
    <3>7. \A i \in {j \in DOMAIN tried : ~Expired(tried[j].at, clock)} :
            calls'[c].wait > 0 /\ calls'[c].at + calls'[c].wait <= tried[i].at + Window + 1
      BY <3>1, <3>3, <3>4
    <3>8. \E i \in DOMAIN tried :
            /\ Expired(tried[i].at, calls'[c].at + calls'[c].wait)
            /\ calls'[c].wait = 1 \/ ~Expired(tried[i].at, (calls'[c].at + calls'[c].wait) - 2)
      BY <3>1, <3>6
    <3> QED
      BY <3>7, <3>8
  <2> QED
    BY <2>1, <2>4, <2>5 DEF Reject
<1>2. LimitSpec => [][Told]_limitVars
  BY <1>1, LimitInvAlways, PTL DEF LimitSpec
<1> QED
  BY <1>2 DEF WaitIsTrue

=============================================================================
