--------------------------------- MODULE ChatTurn ---------------------------------
(***************************************************************************)
(* Questions answered at once: chat_question and its streams of            *)
(* app/api/v1/endpoints/chat.py, GenerationService of app/services/        *)
(* generation/service.py, the two caches they share in Redis and the       *)
(* eviction of app/tasks/maintenance.py.                                   *)
(*                                                                         *)
(* What a turn shares with another is only the two caches: the answers     *)
(* ("qa:*") and the retrieval results ("chunk:*"). Evidence is the version *)
(* of the index it was read from. The provider behaves as ProviderPort     *)
(* says: chunks of one text, then a return, or one of two exceptions.      *)
(***************************************************************************)
EXTENDS Integers, Sequences, FiniteSets

CONSTANTS
  Turns,
  Queries,     \* what is asked, with its filters and top_n
  Languages,   \* answer_language
  Streams,     \* the turns that ask for a stream (ChatRequest.stream)
  Attempts,    \* generation_retries + 1
  MaxParts,    \* bound: chunks of one text
  MaxVersion   \* bound: times the index is rebuilt

ASSUME StreamsAssumption == Streams \subseteq Turns
ASSUME BoundsAssumption ==
  Attempts \in Nat \ {0} /\ MaxParts \in Nat \ {0} /\ MaxVersion \in Nat

VARIABLES
  index,      \* the version of the index
  answers,    \* the QA cache, by question
  results,    \* the retrieval cache, by query
  turn,       \* the progress of each turn
  tokens,     \* the tokens its client got, each by the attempt it is of
  history,    \* the chat_history rows of each turn
  evictor,    \* the progress of evict_caches
  undisturbed,\* no turn was in flight since the eviction began
  floor       \* the index when an undisturbed eviction last ended

caches == <<answers, results>>
eviction == <<evictor, undisturbed, floor>>
outside == <<index, caches, eviction>>
vars == <<outside, turn, tokens, history>>

Questions == [query : Queries, language : Languages]
Versions == 0 .. MaxVersion
NoVersion == -1

\* A retrieval result, and whether the evidence is sufficient.
Evidence == [version : Versions \union {NoVersion}, sufficient : BOOLEAN]
NoEvidence == [version |-> NoVersion, sufficient |-> FALSE]

\* An answer cites chunks, each of a version of the index, or none. Its text is
\* made of parts of attempts (a synthesized one is attempt 0), which no longer
\* matter once it is stored.
Written(kind, language, cites, text) ==
  [kind |-> kind, language |-> language, cites |-> cites, text |-> text]
NoAnswer == Written("none", "none", {}, <<>>)
Entry(evidence, answer) == [evidence |-> evidence, answer |-> [answer EXCEPT !.text = <<>>]]
NoEntry == Entry(NoEvidence, NoAnswer)

\* Where a turn is; it has failed when its client got no "done": there was an
\* exception, the client went away or the process died.
Running == {"search", "store", "generate", "asking", "cache", "persist", "events"}
Ended == {"done", "failed"}
InFlight(t) == turn[t].pc \in Running

NoQuestion == [query |-> "none", language |-> "none"]

\* A turn that is not in flight works on nothing.
Idle(pc) ==
  [pc |-> pc, question |-> NoQuestion, evidence |-> NoEvidence,
   attempt |-> 0, raw |-> <<>>, cached |-> FALSE, answer |-> NoAnswer]

TypeOK ==
  /\ index \in Versions
  /\ \A q \in Questions : answers[q].evidence \in Evidence
  /\ results \in [Queries -> Evidence]
  /\ \A t \in Turns :
       /\ turn[t].pc \in {"new"} \union Running \union Ended
       /\ turn[t].question \in Questions \union {NoQuestion}
       /\ turn[t].evidence \in Evidence
       /\ turn[t].attempt \in 0 .. Attempts
       /\ Len(turn[t].raw) <= MaxParts
       /\ history[t] \in Nat
  /\ evictor \in {"idle", "answers", "results"}
  /\ undisturbed \in BOOLEAN
  /\ floor \in Versions /\ floor <= index

Init ==
  /\ index = 0
  /\ answers = [q \in Questions |-> NoEntry]
  /\ results = [q \in Queries |-> NoEvidence]
  /\ turn = [t \in Turns |-> Idle("new")]
  /\ tokens = [t \in Turns |-> <<>>]
  /\ history = [t \in Turns |-> 0]
  /\ evictor = "idle" /\ undisturbed = FALSE /\ floor = 0

-----------------------------------------------------------------------------
(* Helpers.                                                                *)

At(t, pc) == turn[t].pc = pc
Goto(t, pc) == turn' = [turn EXCEPT ![t].pc = pc]

End(t, pc) ==
  /\ turn' = [turn EXCEPT ![t] = Idle(pc)]
  /\ tokens' = [tokens EXCEPT ![t] = <<>>]
Streaming(t) == t \in Streams

\* Mutant: the key leaves out the language of the answer.
AnswerKeyShort(question) ==
  CHOOSE q \in Questions : q.query = question.query

\* Every input that shapes the answer is part of its key; the language is none
\* of those that shape the evidence.
AnswerKey(question) == question
ResultKey(question) == question.query

\* Mutant: the check of the citations is left out.
ValidatesAny(text) == text # "malformed"

\* What validate_llm_answer lets pass, of the texts a provider may return:
\* "grounded" cites the evidence and "bare" cites nothing and refers to nothing
\* of it, "foreign" cites a chunk outside the evidence, "illTyped" has a field
\* that is not checked and that the schema of the answer then refuses.
Texts == {"grounded", "bare", "declined", "illTyped", "foreign", "malformed"}
Validates(text) == text \in {"grounded", "bare", "declined", "illTyped"}

\* The versions of the chunks a text cites, beside the evidence it was asked for.
Citations(text, evidence) ==
  CASE text = "grounded" -> {evidence.version}
    [] text = "foreign" -> {NoVersion}
    [] OTHER -> {}

Answer(t, kind, cites, text) ==
  turn' = [turn EXCEPT ![t].pc = "cache", ![t].raw = <<>>, ![t].attempt = 0,
                       ![t].answer = Written(kind, turn[t].question.language, cites, text)]

\* An exception: a stream that has begun ends with an error event, any other
\* request with an error status.
Fail(t) ==
  /\ End(t, "failed")
  /\ UNCHANGED <<outside, history>>

\* The tokens of the attempt reach the client of a stream.
Emit(t, attempt) ==
  tokens' = IF Streaming(t) THEN [tokens EXCEPT ![t] = Append(@, attempt)] ELSE tokens

Quietly == UNCHANGED <<outside, tokens, history>>

-----------------------------------------------------------------------------
(* chat_question: the two caches and the retrieval.                        *)

\* An answer in the cache is replayed ...
Hit(t) ==
  /\ At(t, "new")
  /\ \E question \in Questions :
       LET entry == answers[AnswerKey(question)]
       IN  /\ entry # NoEntry
           /\ turn' = [turn EXCEPT ![t] =
                [Idle("persist") EXCEPT !.question = question, !.cached = TRUE,
                                        !.evidence = entry.evidence, !.answer = entry.answer]]
  /\ undisturbed' = FALSE
  /\ UNCHANGED <<index, caches, evictor, floor, tokens, history>>

\* ... and one that is not there is sought. A cache that fails or has a corrupt
\* entry is a cache that has none.
Miss(t) ==
  /\ At(t, "new")
  /\ \E question \in Questions :
       turn' = [turn EXCEPT ![t] = [Idle("search") EXCEPT !.question = question]]
  /\ undisturbed' = FALSE
  /\ UNCHANGED <<index, caches, evictor, floor, tokens, history>>

SearchHit(t) ==
  /\ At(t, "search")
  /\ LET evidence == results[ResultKey(turn[t].question)]
     IN  /\ evidence # NoEvidence
         /\ turn' = [turn EXCEPT ![t].pc = "generate", ![t].evidence = evidence]
  /\ Quietly

Search(t) ==
  /\ At(t, "search")
  /\ \E sufficient \in BOOLEAN :
       turn' = [turn EXCEPT ![t].pc = "store",
                            ![t].evidence = [version |-> index, sufficient |-> sufficient]]
  /\ Quietly

\* Never swallow a total retrieval outage.
SearchFails(t) == At(t, "search") /\ Fail(t)

\* The result is stored. When Redis fails, which is only logged, it is as if
\* the entry had expired at once.
StoreResult(t) ==
  /\ At(t, "store")
  /\ Goto(t, "generate")
  /\ results' = [results EXCEPT ![ResultKey(turn[t].question)] = turn[t].evidence]
  /\ UNCHANGED <<index, answers, eviction, tokens, history>>

-----------------------------------------------------------------------------
(* GenerationService.generate and stream_answer.                           *)

Refuse(t) == Answer(t, "refusal", {}, <<>>)

\* Without evidence the answer is a refusal and no provider is asked.
Insufficient(t) ==
  /\ At(t, "generate")
  /\ ~turn[t].evidence.sufficient
  /\ Refuse(t)
  /\ Quietly

\* Mutant: the parts of a rejected attempt stay in the text.
AttemptKeepsParts(t) ==
  /\ At(t, "generate") /\ turn[t].evidence.sufficient
  /\ IF turn[t].attempt = Attempts
       THEN Refuse(t)
       ELSE turn' = [turn EXCEPT ![t].pc = "asking", ![t].attempt = @ + 1]
  /\ Quietly

\* Mutant: one attempt too many.
AttemptOffByOne(t) ==
  /\ At(t, "generate") /\ turn[t].evidence.sufficient
  /\ IF turn[t].attempt > Attempts
       THEN Refuse(t)
       ELSE turn' = [turn EXCEPT ![t].pc = "asking", ![t].attempt = @ + 1, ![t].raw = <<>>]
  /\ Quietly

\* An attempt begins, with a text of its own; after the last the answer is a
\* refusal that shows the evidence.
Attempt(t) ==
  /\ At(t, "generate") /\ turn[t].evidence.sufficient
  /\ IF turn[t].attempt = Attempts
       THEN Refuse(t)
       ELSE turn' = [turn EXCEPT ![t].pc = "asking", ![t].attempt = @ + 1, ![t].raw = <<>>]
  /\ Quietly

\* The deterministic answer from the evidence, behind the tokens of attempts
\* that have failed; a stream replays it.
Synthesize(t) ==
  /\ Answer(t, "answer", {turn[t].evidence.version}, IF Streaming(t) THEN <<0>> ELSE <<>>)
  /\ Emit(t, 0)
  /\ UNCHANGED <<outside, history>>

\* No provider is configured.
NoProvider(t) ==
  /\ At(t, "generate") /\ turn[t].evidence.sufficient /\ turn[t].attempt = 0
  /\ Synthesize(t)

Part(t) ==
  /\ At(t, "asking") /\ Streaming(t)
  /\ Cardinality({i \in DOMAIN turn[t].raw : turn[t].raw[i] = turn[t].attempt}) < MaxParts
  /\ turn' = [turn EXCEPT ![t].raw = Append(@, turn[t].attempt)]
  /\ Emit(t, turn[t].attempt)
  /\ UNCHANGED <<outside, history>>

\* ProviderUnavailableError: the synthesis takes over.
Unavailable(t) == At(t, "asking") /\ Synthesize(t)

\* Any other exception is turned into a ProviderUnavailableError: generate
\* catches it, stream_answer does not.
Broken(t) == At(t, "asking") /\ IF Streaming(t) THEN Fail(t) ELSE Synthesize(t)

\* The provider returns. Its text is validated, and the citations are rebuilt
\* from the evidence.
Returned(t) ==
  /\ At(t, "asking")
  /\ \E text \in Texts :
       CASE ~Validates(text) -> Goto(t, "generate") /\ Quietly
         [] text = "illTyped" -> Fail(t)
         [] text = "declined" -> Refuse(t) /\ Quietly
         [] OTHER -> Answer(t, "answer", Citations(text, turn[t].evidence), turn[t].raw) /\ Quietly

-----------------------------------------------------------------------------
(* The end of a turn: cache, history, events.                              *)

\* An answer that is no refusal is stored; Redis may fail, as above.
StoreAnswer(t) ==
  /\ At(t, "cache")
  /\ Goto(t, "persist")
  /\ answers' = IF turn[t].answer.kind = "refusal" THEN answers
                 ELSE [answers EXCEPT ![AnswerKey(turn[t].question)] =
                                        Entry(turn[t].evidence, turn[t].answer)]
  /\ UNCHANGED <<index, results, eviction, tokens, history>>

\* The row is committed and read again ...
Persist(t) ==
  /\ At(t, "persist")
  /\ history' = [history EXCEPT ![t] = @ + 1]
  /\ Goto(t, "events")
  /\ UNCHANGED <<outside, tokens>>

\* ... and the database may fail before the commit or behind it.
DatabaseFails(t) ==
  /\ At(t, "persist")
  /\ End(t, "failed")
  /\ \/ UNCHANGED history
     \/ history' = [history EXCEPT ![t] = @ + 1]
  /\ UNCHANGED outside

\* Mutant: a replayed answer is recorded by the stream that replays it too.
SendEventsTwice(t) ==
  /\ At(t, "events")
  /\ End(t, "done")
  /\ history' = IF turn[t].cached THEN [history EXCEPT ![t] = @ + 1] ELSE history
  /\ UNCHANGED outside

\* The events of the answer, of which "done" is the last.
SendEvents(t) ==
  /\ At(t, "events")
  /\ End(t, "done")
  /\ UNCHANGED <<outside, history>>

\* The client goes away while its stream waits to send, or the process dies:
\* nothing more of the turn is done.
Drop(t) == InFlight(t) /\ Fail(t)

-----------------------------------------------------------------------------
(* Re-indexing, expiry and eviction.                                       *)

Reindex ==
  /\ index < MaxVersion
  /\ index' = index + 1
  /\ UNCHANGED <<caches, eviction, turn, tokens, history>>

Expire ==
  /\ \/ \E q \in Questions :
          answers[q] # NoEntry /\ answers' = [answers EXCEPT ![q] = NoEntry] /\ UNCHANGED results
     \/ \E q \in Queries :
          results[q] # NoEvidence /\ results' = [results EXCEPT ![q] = NoEvidence] /\ UNCHANGED answers
  /\ UNCHANGED <<index, eviction, turn, tokens, history>>

\* evict_caches begins with the answers ...
EvictBegin ==
  /\ evictor = "idle" /\ floor < index
  /\ evictor' = "answers"
  /\ undisturbed' = \A t \in Turns : ~InFlight(t)
  /\ UNCHANGED <<index, caches, floor, turn, tokens, history>>

EvictAnswers ==
  /\ evictor = "answers"
  /\ answers' = [q \in Questions |-> NoEntry]
  /\ evictor' = "results"
  /\ UNCHANGED <<index, results, undisturbed, floor, turn, tokens, history>>

\* Mutant: only the answers are evicted.
EvictResultsForgotten ==
  /\ evictor = "results"
  /\ evictor' = "idle" /\ undisturbed' = FALSE
  /\ floor' = IF undisturbed THEN index ELSE floor
  /\ UNCHANGED <<index, caches, turn, tokens, history>>

\* ... and goes on with the results they are made from.
EvictResults ==
  /\ evictor = "results"
  /\ results' = [q \in Queries |-> NoEvidence]
  /\ evictor' = "idle" /\ undisturbed' = FALSE
  /\ floor' = IF undisturbed THEN index ELSE floor
  /\ UNCHANGED <<index, answers, turn, tokens, history>>

\* delete_pattern stops at the first error of Redis, which is only logged.
EvictFails ==
  /\ evictor # "idle"
  /\ evictor' = IF evictor = "answers" THEN "results" ELSE "idle"
  /\ undisturbed' = FALSE
  /\ UNCHANGED <<index, caches, floor, turn, tokens, history>>

Retrieve(t) == Hit(t) \/ Miss(t) \/ SearchHit(t) \/ Search(t) \/ SearchFails(t) \/ StoreResult(t)

Generate(t) ==
  \/ Insufficient(t) \/ NoProvider(t) \/ Attempt(t) \/ Part(t) \/ Returned(t)
  \/ Unavailable(t) \/ Broken(t)

Finish(t) == StoreAnswer(t) \/ Persist(t) \/ DatabaseFails(t) \/ SendEvents(t)

Serve(t) == Retrieve(t) \/ Generate(t) \/ Finish(t)

Evict == EvictBegin \/ EvictAnswers \/ EvictResults \/ EvictFails

Next ==
  \/ \E t \in Turns : Serve(t) \/ Drop(t)
  \/ Reindex \/ Expire \/ Evict

Spec == Init /\ [][Next]_vars

-----------------------------------------------------------------------------
(* Properties.                                                             *)

\* A turn whose client saw "done" has exactly one row in the history, whether
\* its answer was cached or new, whole or streamed; no turn has two.
DoneIsRecorded ==
  \A t \in Turns : history[t] <= 1 /\ (At(t, "done") => history[t] = 1)

\* What the QA cache holds is a whole answer in the language of its key, no
\* refusal, and cites nothing but the evidence that is stored beside it,
\* whichever of the turns that share the cache has failed or gone away while
\* writing. (It need not cite any: validate_llm_answer asks for no citation.)
CacheIsGrounded ==
  \A q \in Questions : answers[q] # NoEntry =>
    LET entry == answers[q]
    IN  /\ entry.answer.kind = "answer"
        /\ entry.answer.language = q.language
        /\ entry.evidence.sufficient /\ entry.answer.cites \subseteq {entry.evidence.version}

\* An answer that is sent as final is never a text that was not validated: it
\* was asked for with sufficient evidence and cites nothing else.
NothingUnvalidated ==
  \A t \in Turns : At(t, "events") =>
    \/ turn[t].answer.kind = "refusal"
    \/ turn[t].answer.cites \subseteq {turn[t].evidence.version} /\ turn[t].evidence.sufficient

\* The text of a streamed answer is the last thing its client got: the tokens
\* of attempts that were rejected come before it, and none of them is in it.
TokensEndInAnswer ==
  \A t \in Turns :
    LET text == turn[t].answer.text
        first == Len(tokens[t]) - Len(text)
    IN  At(t, "events") /\ Streaming(t) =>
          /\ first >= 0 /\ SubSeq(tokens[t], first + 1, Len(tokens[t])) = text
          /\ \A i, j \in 1 .. Len(text) : text[i] = text[j]

\* After an eviction that no turn disturbed, neither cache and no turn has
\* evidence older than the index was then: the answers are evicted before the
\* results they are made from, so that one turn in between would be enough.
NothingStale ==
  LET Fresh(evidence) == evidence = NoEvidence \/ evidence.version >= floor
  IN  /\ \A q \in Questions : Fresh(answers[q].evidence)
      /\ \A q \in Queries : Fresh(results[q])
      /\ \A t \in Turns : InFlight(t) => Fresh(turn[t].evidence)

=============================================================================
