------------------------------- MODULE BookMetadata -------------------------------
(***************************************************************************)
(* What is read from the pages of a book beside its text: the printed page *)
(* numbers and the sections (app/services/metadata.py).                    *)
(*                                                                         *)
(* A block of a page has, beside its box, the first heading word of its    *)
(* text ("kitab", "bab", "fasl" or "none"), the text itself (a model       *)
(* value) and the numbers that stand in it: a sequence of tokens, each of  *)
(* a numbering system with its value, or its letters when they may be a    *)
(* Roman numeral.                                                          *)
(***************************************************************************)
EXTENDS PageLayout

NoPage == -1
NoName == "no name"
Levels == {"kitab", "bab", "fasl", "topic"}
LabelLevels == {"kitab", "bab", "fasl"}
MaxHeadingLength == 80
MaxNumeral == 9

\* What a loop over a sequence leaves: a step for each element, from the first.
Loop(Step(_, _), start, seq) ==
  LET after[i \in 0 .. Len(seq)] == IF i = 0 THEN start ELSE Step(after[i - 1], seq[i])
  IN  after[Len(seq)]

\* The size of most letters, the first that is met of several.
DominantFont(blocks) ==
  LET sized == {i \in DOMAIN blocks : blocks[i].size > 0}
      letters(size) == MapThenSumSet(LAMBDA i : blocks[i].letters, {i \in sized : blocks[i].size = size})
      most == {i \in sized : \A j \in sized : letters(blocks[j].size) <= letters(blocks[i].size)}
  IN  IF sized = {} THEN 0 ELSE blocks[Min(most)].size

\* A short block in larger letters is a heading, of the level its words name.
HeadingLevel(b, mainFont) ==
  CASE b.letters \notin 1 .. MaxHeadingLength \/ mainFont = 0 \/ 100 * b.size < 108 * mainFont -> "body"
    [] OTHER -> IF b.word = "none" THEN "topic" ELSE b.word

-----------------------------------------------------------------------------
(* Page numbers.                                                           *)

\* Mutant: equal letters are taken off as well.
FromRomanStrict(numeral) ==
  LET read(sum, value) ==
        IF value <= sum.previous THEN [sum EXCEPT !.total = @ - value]
        ELSE [total |-> sum.total + value, previous |-> value]
      total == Loop(read, [total |-> 0, previous |-> 0], Reverse(numeral)).total
  IN  IF Len(numeral) \in 1 .. MaxNumeral /\ total > 0 THEN total ELSE NoPage

\* A Roman numeral, a sequence of the values of its letters, is read from its
\* end: a letter smaller than the last one added is taken off.
FromRoman(numeral) ==
  LET read(sum, value) ==
        IF value < sum.previous THEN [sum EXCEPT !.total = @ - value]
        ELSE [total |-> sum.total + value, previous |-> value]
      total == Loop(read, [total |-> 0, previous |-> 0], Reverse(numeral)).total
  IN  IF Len(numeral) \in 1 .. MaxNumeral /\ total > 0 THEN total ELSE NoPage

Systems == <<"arabic", "latin", "roman">>

\* The lowest of the blocks that end in the footer band, the rightmost of
\* several: its Arabic digits come before its Latin ones, those before letters
\* that make a Roman numeral.
PrintedPage(page) ==
  LET later(a, b) == \/ a.y1 < b.y1
                     \/ a.y1 = b.y1 /\ a.x0 < b.x0
                     \/ a.y1 = b.y1 /\ a.x0 = b.x0 /\ a.index < b.index
      footers == Sorted(Footers(page), later)
      tokens == IF footers = <<>> THEN <<>> ELSE footers[Len(footers)].numbers
      value(t) == IF t.system = "roman" THEN FromRoman(t.letters) ELSE t.value
      of(k) == {i \in DOMAIN tokens : tokens[i].system = Systems[k] /\ value(tokens[i]) # NoPage}
      found == {k \in DOMAIN Systems : of(k) # {}}
      first == Min(found)
  IN  IF found = {} THEN [system |-> "none", value |-> NoPage]
      ELSE [system |-> Systems[first], value |-> value(tokens[Min(of(first))])]

-----------------------------------------------------------------------------
(* Sections.                                                               *)

NoSection == [name |-> NoName, start |-> NoPage]

\* The headings of page number p, between the bands, from the top.
Headings(page, p) ==
  LET body == Sorted(Flow(page), Above)
      level(b) == HeadingLevel(b, DominantFont(body))
      add(headings, b) ==
        IF level(b) = "body" THEN headings
        ELSE Append(headings, [level |-> level(b), name |-> b.text, page |-> p])
  IN  Loop(add, <<>>, body)

Closed(level, section, last) ==
  [level |-> level, name |-> section.name, start |-> section.start, end |-> last]

\* Mutant: a section ends on the page where the next one begins.
OpensLate(reading, heading) ==
  LET previous == reading.open[heading.level] IN
  [open   |-> [reading.open EXCEPT ![heading.level] = [name |-> heading.name, start |-> heading.page]],
   closed |-> IF previous.start \in {NoPage, heading.page} THEN reading.closed
              ELSE Append(reading.closed, Closed(heading.level, previous, heading.page))]

\* A heading closes the open section of its level on the page before, and
\* takes its place; a section that was opened on the same page leaves no trace.
Opens(reading, heading) ==
  LET previous == reading.open[heading.level] IN
  [open   |-> [reading.open EXCEPT ![heading.level] = [name |-> heading.name, start |-> heading.page]],
   closed |-> IF previous.start \in {NoPage, heading.page} THEN reading.closed
              ELSE Append(reading.closed, Closed(heading.level, previous, heading.page - 1))]

\* The sections after a page.
ReadHeadings(reading, headings) == Loop(Opens, reading, headings)

\* The names that are open on a page, its labels.
Label(reading) == [level \in LabelLevels |-> reading.open[level].name]

\* The sections of a book that ends with page number last.
Sections(reading, last) ==
  Range(reading.closed)
    \union {Closed(level, reading.open[level], last) : level \in {l \in Levels : reading.open[l] # NoSection}}

=============================================================================
