----------------------------- MODULE MCBookStructure ------------------------------
(* Small books, single pages of every layout, and pages with a Roman number.  *)
EXTENDS BookStructure, TLC

Block(box, size, script, letters) ==
  [x0 |-> box[1], y0 |-> box[2], x1 |-> box[3], y1 |-> box[4], size |-> size, script |-> script, letters |-> letters,
   word |-> "none", text |-> "text", numbers |-> <<>>, sentences |-> <<1>>, ends |-> TRUE]
Page(blocks, rules) ==
  [blocks |-> SubSeq([i \in DOMAIN blocks |-> blocks[i] @@ [index |-> i]], 1, Len(blocks)), rules |-> rules]

\* The texts of a book: a long sentence that goes on, two short ones, a heading
\* of each level, and a title of none, which has a page of its own.
Text(sentences, ends) == [sentences |-> sentences, ends |-> ends]
Heading(word, name) == [word |-> word, text |-> name, size |-> 14, letters |-> 10, ends |-> FALSE]
Texts == {Text(<<3>>, FALSE), Text(<<1, 2>>, TRUE),
          Heading("kitab", "k"), Heading("bab", "b"), Heading("fasl", "f")}
Title == Heading("none", "t")
Stacked(texts) ==
  Page([i \in DOMAIN texts |-> texts[i] @@ Block(<<10, 20 * i, 90, 20 * i + 15>>, 10, "arabic", 60)], <<>>)

\* Pages on which the metadata and the chunker read other blocks, or in another
\* order: a gloss beside the text, a heading in the margin, one in the upper band,
\* a text in larger letters than most of the footnotes', and headings in two
\* columns, of one level and of two.
Placed(text, box) == text @@ Block(box, 10, "arabic", 60)
Flowing == Text(<<1, 2>>, TRUE)
Gloss == [size |-> 8, letters |-> 20] @@ Flowing
Footnote == [size |-> 8, letters |-> 200] @@ Flowing
Spread ==
  {Page(<<Placed(Heading("bab", "b"), <<20, 10, 90, 14>>), Placed(Flowing, <<20, 15, 90, 60>>),
          Placed(Gloss, <<2, 20, 12, 50>>)>>, <<>>),
   Page(<<Placed(Heading("bab", "m"), <<2, 20, 12, 50>>), Placed(Flowing, <<20, 15, 90, 60>>)>>, <<>>),
   Page(<<Placed(Heading("kitab", "h"), <<10, 5, 90, 12>>), Placed(Flowing, <<10, 15, 90, 60>>)>>, <<>>),
   Page(<<Placed([word |-> "fasl"] @@ Flowing, <<10, 15, 90, 60>>), Placed(Footnote, <<10, 75, 90, 90>>)>>, <<>>)}
    \union
  {Page(<<Placed(Heading("bab", "l"), <<10, 15, 45, 30>>), Placed(Flowing, <<55, 15, 90, 45>>),
          Placed(Heading(word, "r"), <<55, 50, 90, 60>>)>>, <<>>) : word \in {"bab", "fasl"}}

MCLeaves ==
  {Stacked(texts) : texts \in {<<t>> : t \in Texts \union {Title}} \union (Texts \X Texts)} \union Spread

Boxes ==
  {<<10, 2, 90, 6>>, <<10, 5, 90, 12>>, <<45, 94, 55, 97>>,          \* header, below the header, footer
   <<10, 15, 90, 40>>, <<10, 45, 90, 60>>, <<10, 62, 90, 95>>,       \* full width, the last into the footer band
   <<10, 15, 45, 60>>, <<55, 15, 90, 60>>, <<55, 62, 90, 70>>,       \* two columns
   <<2, 20, 12, 50>>, <<88, 20, 98, 50>>, <<10, 75, 90, 90>>,        \* margins, footnotes
   <<40, 15, 60, 22>>, <<84, 62, 90, 68>>}                           \* short lines, in the middle and at the edge
BoxSeqs == {<<a, b, c>> : a, b, c \in Boxes}
MCPlates ==
  {Page(<<Block(boxes[1], 10, script, 30), Block(boxes[2], 10, script, 30), Block(boxes[3], 8, script, 30)>>, rules) :
     boxes \in BoxSeqs, script \in {"arabic", "latin"}, rules \in {<<>>, <<[width |-> 60, y |-> 61]>>}}
   \union
  {Page(<<[numbers |-> <<[system |-> "roman", value |-> 0, letters |-> Numeral(n)]>>]
            @@ Block(<<45, 94, 55, 97>>, 8, "latin", 3)>>, <<>>) : n \in 1 .. 399}

\* What the theorem of the numbers asks of the pages holds of these, and there
\* are pages of each kind the other properties tell apart.
ASSUME PagesAreWellWritten == \A page \in Leaves \union Plates : WellWritten(page)
ASSUME PagesDiffer ==
  /\ \E page \in Plates : ~WellDrawn(page)
  /\ \E page \in Plates : WellDrawn(page) /\ \E b \in Blocks(page) : Region(page, b) = "margin"
  /\ \E page \in Spread : ~Shared(page, "bab")
  /\ \E page \in Spread : HeadingsInText(page, "bab") # {} /\ Shared(page, "bab") /\ MainText(page) # Sorted(Flow(page), Above)

=============================================================================
