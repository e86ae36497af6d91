------------------------------ MODULE AnswerSynthesis ------------------------------
(***************************************************************************)
(* The answer that is put together without a model: DeterministicSynthesizer *)
(* and the facts it finds (app/services/generation/synthesis.py, facts.py). *)
(*                                                                         *)
(* Evidence is a sequence of passages, the best first.  Of a passage the    *)
(* answer knows its score, what it is about, whether it is verified, whether *)
(* its book has a title, the facts its text states with a usable name, and  *)
(* for each of its sentences how many words of the question it has.  Scores *)
(* and strengths are in hundredths.                                        *)
(***************************************************************************)
EXTENDS Integers, Sequences, FiniteSets, FiniteSetsExt

CONSTANTS MaxChunks,   \* of the evidence, read for an answer
          Passages,    \* the passages that evidence is made of
          MaxEvidence  \* bound on their number

ASSUME ChunksAssumption == MaxChunks \in Nat \ {0}
ASSUME PassagesAssumption ==
  /\ MaxEvidence \in Nat
  /\ \A p \in Passages : /\ p.score \in Nat /\ p.verified \in BOOLEAN /\ p.titled \in BOOLEAN
                         /\ p.facts \in SUBSET {"author", "title", "publisher", "page_count"}

VARIABLES evidence,   \* the reranked passages, the best first
          question,   \* what it asks for
          answer

vars == <<evidence, question, answer>>

FactTypes == {"author", "title", "publisher", "page_count"}
QueryTypes == FactTypes \union {"explanation"}
Levels == <<"low", "medium", "high">>
LevelRank(level) == CHOOSE i \in DOMAIN Levels : Levels[i] = level

Facts == [type : QueryTypes, from : Nat \ {0}, strength : {40, 60, 70, 80, 100}, parts : SUBSET (Nat \ {0})]
Answers == [refused : BOOLEAN, fact : Facts, cited : SUBSET (Nat \ {0}), level : {"low", "medium", "high"}]

TypeOK ==
  /\ evidence \in Seq(Passages) /\ Len(evidence) <= MaxEvidence
  /\ question \in QueryTypes
  /\ answer \in Answers

Scores(passages) == {passages[i].score : i \in DOMAIN passages}

-----------------------------------------------------------------------------
(* Facts.  A fact names the passage it is taken from, by place.            *)

NotFound(type) == [type |-> type, from |-> 1, strength |-> 40, parts |-> {}]

\* The first passage whose text states the fact.
Stated(passages, type) ==
  LET stating == {i \in DOMAIN passages : type \in passages[i].facts}
  IN  IF stating = {} THEN NotFound(type)
      ELSE [type |-> type, from |-> Min(stating), strength |-> 100, parts |-> {Min(stating)}]

\* A title is taken from the record of the book before the text.
Title(passages) ==
  LET titled == {i \in DOMAIN passages : passages[i].titled}
      stated == Stated(passages, "title")
  IN  IF titled # {} THEN [type |-> "title", from |-> Min(titled), strength |-> 80, parts |-> {Min(titled)}]
      ELSE IF stated.parts = {} THEN stated ELSE [stated EXCEPT !.strength = 70]

\* The sentences of the first two passages that have most of the question.
\* (Passages without text would be passed over; no chunk is made of blank text.)
Explanation(passages) ==
  [type |-> "explanation", from |-> 1, strength |-> 60, parts |-> DOMAIN passages \intersect {1, 2}]

ExtractFact(passages, type) ==
  CASE type = "title" -> Title(passages)
    [] type = "explanation" -> Explanation(passages)
    [] OTHER -> Stated(passages, type)

-----------------------------------------------------------------------------
(* Confidence.                                                             *)

\* Mutant: one verified passage is enough.
BaseLevelOfOne(chunks) ==
  LET top == {i \in DOMAIN chunks : i <= 3}
      verified == {i \in top : chunks[i].verified}
      consensus == Cardinality({chunks[i].subject : i \in top}) <= 1
  IN  IF chunks = <<>> THEN "low"
      ELSE IF Max(Scores(chunks)) >= 60 /\ consensus /\ verified # {} THEN "high"
      ELSE IF Max(Scores(chunks)) >= 35 THEN "medium" ELSE "low"

\* From the best score, and for the highest level from the first three passages.
BaseLevel(chunks) ==
  LET top == {i \in DOMAIN chunks : i <= 3}
      verified == {i \in top : chunks[i].verified}
      consensus == Cardinality({chunks[i].subject : i \in top}) <= 1
  IN  IF chunks = <<>> THEN "low"
      ELSE IF Max(Scores(chunks)) >= 60 /\ consensus /\ Cardinality(verified) >= 2 THEN "high"
      ELSE IF Max(Scores(chunks)) >= 35 THEN "medium" ELSE "low"

\* Mutant: the strength of a fact replaces the level of its evidence.
FactLevelOnly(used, fact) ==
  IF fact.strength >= 80 THEN "high" ELSE IF fact.strength >= 60 THEN "medium" ELSE "low"

\* A fact that is found may raise the level of its evidence.
FactLevel(used, fact) ==
  LET base == BaseLevel(used)
  IN  CASE fact.type = "explanation" -> base
        [] fact.type # "explanation" /\ fact.strength >= 80 -> "high"
        [] OTHER -> IF fact.strength >= 60 /\ base = "low" THEN "medium" ELSE base

-----------------------------------------------------------------------------
(* Answers.                                                                *)

\* The places of the passages that are cited.
Used(chunks, fact) ==
  IF fact.type = "explanation" THEN DOMAIN chunks \intersect {1, 2} ELSE {fact.from}

At(chunks, places) == SubSeq(chunks, Min(places), Max(places))

\* A refusal shows the closest passages and cites none.
Refusal(passages) ==
  [refused |-> TRUE, fact |-> NotFound("explanation"), cited |-> {}, level |-> BaseLevel(passages)]

\* From the first passages only.
Synthesize(passages, type) ==
  LET chunks == SubSeq(passages, 1, Min({MaxChunks, Len(passages)}))
      fact == ExtractFact(chunks, type)
      cited == Used(chunks, fact)
  IN  IF chunks = <<>> THEN Refusal(passages)
      ELSE [refused |-> FALSE, fact |-> fact, cited |-> cited, level |-> FactLevel(At(chunks, cited), fact)]

Sufficient(passages) == passages # <<>>

\* What a service without a provider responds.
Respond(passages, type) ==
  IF Sufficient(passages) THEN Synthesize(passages, type) ELSE Refusal(passages)

Init ==
  /\ evidence = <<>>
  /\ question \in QueryTypes
  /\ answer = Respond(<<>>, question)

\* One passage more, no better than those before it, and the answer from them.
Retrieve(passage) ==
  /\ Len(evidence) < MaxEvidence
  /\ \A i \in DOMAIN evidence : evidence[i].score >= passage.score
  /\ evidence' = Append(evidence, passage)
  /\ answer' = Respond(evidence', question)
  /\ UNCHANGED question

Next == \E passage \in Passages : Retrieve(passage)

Spec == Init /\ [][Next]_vars

-----------------------------------------------------------------------------

\* "a deterministic fact match may only raise the level" (_fact_confidence): an
\* answer is never less certain than the passages it cites.
FactsOnlyRaise ==
  ~answer.refused =>
    LevelRank(BaseLevel(At(evidence, answer.cited))) <= LevelRank(answer.level)

\* Whatever an answer says is found in the passages it cites (_used_chunks: "the
\* chunks actually cited in the answer"), and those are passages it was given.
\* High confidence has a reason: the fact is stated in a cited passage or the
\* record of its book, or two cited passages are verified and of one subject.
AnswerIsBacked ==
  /\ ~answer.refused =>
       answer.fact.parts \subseteq answer.cited /\ answer.cited \subseteq 1 .. MaxChunks
  /\ answer.level = "high" =>
       \/ answer.fact.type # "explanation" /\ answer.fact.parts # {}
       \/ \E i, j \in answer.cited : /\ i # j /\ evidence[i].verified /\ evidence[j].verified
                                      /\ evidence[i].subject = evidence[j].subject

=============================================================================
