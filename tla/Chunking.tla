--------------------------------- MODULE Chunking ---------------------------------
(***************************************************************************)
(* The cutting of a book into the passages that are searched and cited:    *)
(* extract_chunks of app/services/chunking.py.                             *)
(*                                                                         *)
(* A unit is a block of main text: a heading, or body text that is a       *)
(* sequence of sentences, each given by its number of tokens.              *)
(***************************************************************************)
EXTENDS BookMetadata

CONSTANTS MaxTokens,       \* of a chunk
          OverlapTokens    \* repeated at the start of the next one

ASSUME TokensAssumption == MaxTokens \in Nat \ {0} /\ OverlapTokens \in Nat \ {0}

ContextKeys == <<"kitab", "bab", "fasl", "topic">>
Priority == <<"bab", "fasl", "kitab">>

\* What is written in the main text of page number p, as it is read, with the
\* levels of its headings.
PageUnits(main, p) ==
  LET unit(b) == [level |-> HeadingLevel(b, DominantFont(main)), name |-> b.text, page |-> p,
                  sentences |-> b.sentences, ends |-> b.ends]
      add(units, b) == IF b.letters > 0 THEN Append(units, unit(b)) ELSE units
  IN  Loop(add, <<>>, main)

-----------------------------------------------------------------------------
(* Where a chunk begins.                                                   *)

\* The level that cuts the book: sections of it and above it are never merged,
\* those below it only cut what is too long.
PrimaryLevels(units) ==
  LET present == SelectSeq(Priority, LAMBDA level : \E i \in DOMAIN units : units[i].level = level)
  IN  {present[i] : i \in DOMAIN present \intersect {1}}

Rank(level) == CHOOSE i \in DOMAIN ContextKeys : ContextKeys[i] = level
BoundaryLevels(units) ==
  {level \in Levels : \E primary \in PrimaryLevels(units) : Rank(level) <= Rank(primary)}
SubLevels(units) ==
  IF PrimaryLevels(units) = {} THEN <<>>
  ELSE SubSeq(ContextKeys, Cardinality(BoundaryLevels(units)) + 1, Len(ContextKeys))

\* The page before unit i goes on: its last unit is text cut in mid-sentence.
PageContinues(units, i) == units[i - 1].level = "body" /\ ~units[i - 1].ends

\* Mutant: only headings of the primary level cut.
BoundaryStartsOfPrimary(units) ==
  {i \in DOMAIN units :
     \/ units[i].level \in PrimaryLevels(units)
     \/ i > 1 /\ units[i].page # units[i - 1].page /\ ~PageContinues(units, i)}

\* A chunk begins at a heading that cuts, and at a page unless the one before
\* goes on.
BoundaryStarts(units) ==
  {i \in DOMAIN units :
     \/ units[i].level \in BoundaryLevels(units)
     \/ i > 1 /\ units[i].page # units[i - 1].page /\ ~PageContinues(units, i)}

Less(i, j) == i < j

\* The ranges that begin at first, at the starts, and end before next.
Ranges(starts, first, next) ==
  LET begins == Sorted({first} \union starts, Less)
  IN  SubSeq([k \in DOMAIN begins |-> <<begins[k], IF k = Len(begins) THEN next ELSE begins[k + 1]>>], 1, Len(begins))

Sum(sizes) == Loop(LAMBDA a, b : a + b, 0, sizes)

BodyUnits(units, range) ==
  {i \in range[1] .. range[2] - 1 : units[i].level = "body"}
Tokens(units, range) ==
  MapThenSumSet(LAMBDA i : Sum(units[i].sentences), BodyUnits(units, range))

\* A range that is too long is cut at its headings of the next finer level, as
\* long as it has some; as many levels as are left may still cut it.
SplitRange(units, range) ==
  LET levels == SubLevels(units)
      headings(r, left) == {i \in r[1] .. r[2] - 1 : units[i].level = levels[Len(levels) + 1 - left]}
      cut[left \in 0 .. Len(levels)] ==
        [r \in (DOMAIN units) \X (2 .. Len(units) + 1) |->
           IF Tokens(units, r) <= MaxTokens \/ left = 0 \/ headings(r, left) = {} THEN <<r>>
           ELSE LET pieces == Ranges(headings(r, left), r[1], r[2])
                IN  FlattenSeq([k \in DOMAIN pieces |-> cut[left - 1][pieces[k]]])]
  IN  cut[Len(levels)][range]

\* The names in effect at unit i, of every level the last one.
ContextAt(units, i) ==
  [level \in Levels |->
     LET headings == {j \in 1 .. i : units[j].level = level}
     IN  IF headings = {} THEN NoName ELSE units[Max(headings)].name]

-----------------------------------------------------------------------------
(* What a chunk holds.                                                     *)

\* The sentences of a range, each with its unit.
Sentences(units, range) ==
  LET of(i) == SubSeq([s \in DOMAIN units[i].sentences |-> [unit |-> i, at |-> s, tokens |-> units[i].sentences[s]]],
                      1, Len(units[i].sentences))
      body(i) == IF units[i].level = "body" THEN of(i) ELSE <<>>
  IN  FlattenSeq([k \in 1 .. range[2] - range[1] |-> body(range[1] + k - 1)])

Size(pack) == Sum([s \in DOMAIN pack |-> pack[s].tokens])

\* The last sentences of a chunk, as many as fit the overlap and at least one.
TailSentences(pack) ==
  LET fits == {k \in 1 .. Len(pack) : Size(SubSeq(pack, Len(pack) - k + 1, Len(pack))) <= OverlapTokens}
      k == Max({1} \union fits)
  IN  SubSeq(pack, Len(pack) - k + 1, Len(pack))

\* Mutant: the sentence that does not fit is dropped at the cut.
PacksWithout(packing, sentence) ==
  IF packing.current # <<>> /\ Size(packing.current) + sentence.tokens > MaxTokens
  THEN [packs |-> Append(packing.packs, packing.current), current |-> TailSentences(packing.current)]
  ELSE [packing EXCEPT !.current = Append(@, sentence)]

\* Mutant: a chunk is cut when it is too long already.
PacksLate(packing, sentence) ==
  IF packing.current # <<>> /\ Size(packing.current) > MaxTokens
  THEN [packs |-> Append(packing.packs, packing.current),
        current |-> Append(TailSentences(packing.current), sentence)]
  ELSE [packing EXCEPT !.current = Append(@, sentence)]

\* A sentence that does not fit begins a new chunk, after the tail of the last.
Packs(packing, sentence) ==
  IF packing.current # <<>> /\ Size(packing.current) + sentence.tokens > MaxTokens
  THEN [packs |-> Append(packing.packs, packing.current),
        current |-> Append(TailSentences(packing.current), sentence)]
  ELSE [packing EXCEPT !.current = Append(@, sentence)]

SentencePacks(sentences) ==
  LET packing == Loop(Packs, [packs |-> <<>>, current |-> <<>>], sentences)
  IN  IF packing.current = <<>> THEN packing.packs ELSE Append(packing.packs, packing.current)

\* The chunks of a book, in order.
Chunks(units) ==
  LET ranges == Ranges(BoundaryStarts(units), 1, Len(units) + 1)
      parts == FlattenSeq([k \in DOMAIN ranges |-> SplitRange(units, ranges[k])])
      chunks(range) == LET packs == SentencePacks(Sentences(units, range)) IN
        SubSeq([k \in DOMAIN packs |-> [pack |-> packs[k], context |-> ContextAt(units, range[1])]], 1, Len(packs))
  IN  IF units = <<>> THEN <<>> ELSE FlattenSeq([k \in DOMAIN parts |-> chunks(parts[k])])

=============================================================================
