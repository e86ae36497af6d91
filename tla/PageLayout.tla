-------------------------------- MODULE PageLayout --------------------------------
(***************************************************************************)
(* The layout of a page: analyze_page of app/services/layout.py, which     *)
(* gives every text block a region and a place in the reading order.       *)
(*                                                                         *)
(* A page is 100 by 100, a sequence of blocks and a sequence of drawn      *)
(* rules.  A block has a box, a font size, a script, a number of letters   *)
(* and its index in the page.                                              *)
(***************************************************************************)
EXTENDS Integers, SequencesExt

HeaderBand == 7
FooterBand == 93
FootnoteBand == 72
ColumnGap == 18
MinWidth == 2
MinHeight == 1                   \* 0.4, in whole numbers

Blocks(page) == {page.blocks[i] : i \in DOMAIN page.blocks}
Center(b) == b.x0 + b.x1         \* twice the center

\* From right to left when most of the letters are Arabic.
Direction(page) ==
  LET letters(script) == MapThenSumSet(LAMBDA b : b.letters, {b \in Blocks(page) : b.script = script})
  IN  IF letters("arabic") > letters("latin") THEN "rtl" ELSE "ltr"

\* The elements of a set by an order without ties.
Sorted(S, before(_, _)) ==
  LET earlier == [a \in S |-> {b \in S : before(b, a)}]
  IN  SubSeq([p \in 1 .. Cardinality(S) |-> CHOOSE a \in S : 1 + Cardinality(earlier[a]) = p], 1, Cardinality(S))

\* From the top, then from the left; the order of the page decides a tie.
Above(a, b) ==
  \/ a.y0 < b.y0
  \/ a.y0 = b.y0 /\ a.x0 < b.x0
  \/ a.y0 = b.y0 /\ a.x0 = b.x0 /\ a.index < b.index

Body(page) == {b \in Blocks(page) : b.y1 > HeaderBand /\ b.y0 < FooterBand}

\* Two neighbours by center are of one column unless the gap between them is
\* wide.
Columns(blocks) ==
  LET gapAfter == {l \in blocks : \A b \in blocks : Center(b) > Center(l) => Center(b) - Center(l) > 2 * ColumnGap}
      column(b) == {c \in blocks : \A l \in gapAfter : (Center(b) <= Center(l)) <=> (Center(c) <= Center(l))}
  IN  {column(b) : b \in blocks}

Left(column) == Min({b.x0 : b \in column})
Right(column) == Max({b.x1 : b \in column})
Width(column) == Right(column) - Left(column)

\* The widest column, the first from the left of several.
Dominant(columns) ==
  LET widest == {c \in columns : \A d \in columns : Width(d) <= Width(c)}
      place(c) == Min({Center(b) : b \in c})
  IN  CHOOSE c \in widest : \A d \in widest : place(c) <= place(d)

\* The blocks of narrow columns that stand apart from the dominant one.
Margins(columns) ==
  LET main == Dominant(columns)
      shared(c) == Min({Right(c), Right(main)}) - Max({Left(c), Left(main)})
  IN  UNION {c \in columns : 10 * Width(c) < 6 * Width(main) /\ 2 * Max({0, shared(c)}) < Width(c)}

\* The height of the first long rule in the lower part of the page.
NoSeparator == 100
Separator(page) ==
  LET long(r) == r.width >= 50 /\ 55 <= r.y /\ r.y <= 95
      separators == SelectSeq(page.rules, long)
  IN  IF separators = <<>> THEN NoSeparator ELSE separators[1].y

MainFont(page) == Max({b.size : b \in Body(page)})

\* Rule by rule, the first that fits.
Region(page, b) ==
  CASE b.y1 <= HeaderBand -> "header"
    [] b.y1 > HeaderBand /\ b.y0 >= FooterBand -> "footer"
    [] OTHER ->
         IF b.x1 - b.x0 < MinWidth \/ b.y1 - b.y0 < MinHeight THEN "unknown"
         ELSE IF b \in Margins(Columns(Body(page))) THEN "margin"
         ELSE IF \/ b.y0 > Separator(page)
                 \/ b.y0 >= FootnoteBand /\ 100 * b.size < 85 * MainFont(page)
              THEN "footnote" ELSE "main"

\* The bands of the reading order are wider than those of the regions: a block
\* that begins in the upper band is read with the headers, one that ends in the
\* lower band with the footers, and one that does both keeps the later place.
Headers(page) == {b \in Blocks(page) : b.y0 <= HeaderBand}
Footers(page) == {b \in Blocks(page) : b.y1 >= FooterBand}
Flow(page) == Blocks(page) \ (Headers(page) \union Footers(page))

\* Mutant: the columns are read from the left in every script.
ColumnOrderLtr(page) ==
  LET before(c, d) == \/ Left(c) < Left(d)
                      \/ Left(c) = Left(d) /\ Right(c) < Right(d)
  IN  Sorted(Columns(Flow(page)), before)

\* The columns by their left and right edges, which no two columns share.
ColumnOrder(page) ==
  LET leftOf(c, d) == \/ Left(c) < Left(d)
                      \/ Left(c) = Left(d) /\ Right(c) < Right(d)
      before(c, d) == IF Direction(page) = "rtl" THEN leftOf(d, c) ELSE leftOf(c, d)
  IN  Sorted(Columns(Flow(page)), before)

\* The places that are given out, of which the last one given to a block counts.
Places(page) ==
  LET columns == ColumnOrder(page)
      text == [p \in DOMAIN columns |-> Sorted(columns[p], Above)]
  IN  Sorted(Headers(page), Above) \o FlattenSeq(text) \o Sorted(Footers(page), Above)

ReadingOrder(page) ==
  LET places == Places(page)
  IN  [b \in Blocks(page) |-> Max({p \in DOMAIN places : places[p] = b})]

\* The blocks of main text, as they are read.
MainText(page) ==
  LET order == ReadingOrder(page)
      sooner(a, b) == order[a] < order[b]
  IN  Sorted({b \in Blocks(page) : Region(page, b) = "main"}, sooner)

-----------------------------------------------------------------------------
(* What a layout promises.                                                 *)

\* A page is well drawn when a gloss takes half the width of its column, and of
\* the other columns of text only the widest one lies across a gloss.
WellDrawn(page) ==
  LET columns == Columns(Body(page))
      gloss(c) == c \subseteq Margins(columns)
  IN  \A c \in columns : \A m \in c : gloss(c) =>
        /\ Width(c) <= 2 * (m.x1 - m.x0)
        /\ \A d \in columns \ {Dominant(columns)} : ~gloss(d) => ~ \E b \in d : b.x0 <= m.x0 /\ m.x1 <= b.x1

\* Every block has one place, the blocks that stand below one another in the
\* flow are read from the top, of two columns that stand apart the one that
\* comes first in the direction of the page is read first, and what is a header
\* or a footer is read before or after the flow.
ReadsInOrder(page) ==
  LET order == ReadingOrder(page)
      flow == Flow(page)
      first(a, b) == IF Direction(page) = "rtl" THEN Center(a) - Center(b) > 2 * ColumnGap
                                                 ELSE Center(b) - Center(a) > 2 * ColumnGap
      alone(a, b) == \A c \in flow : Center(c) \in {Center(a), Center(b)}
      apart(a, b) == \A c, d \in flow : Center(c) = Center(a) /\ Center(d) = Center(b) => c.x1 <= d.x0 \/ d.x1 <= c.x0
  IN  \A a, b \in Blocks(page) :
        /\ order[a] = order[b] => a = b
        /\ {a, b} \subseteq flow /\ Center(a) = Center(b) /\ a.y1 <= b.y0 /\ a.y0 < b.y0 => order[a] < order[b]
        /\ {a, b} \subseteq flow /\ first(a, b) /\ alone(a, b) /\ apart(a, b) => order[a] < order[b]
        /\ Region(page, b) = "footer" /\ Region(page, a) # "footer" => order[a] < order[b]
        /\ Region(page, b) = "header" /\ Region(page, a) # "header" /\ a.y0 > b.y0 => order[b] < order[a]

\* A page with body blocks keeps some that are not margins; and on a page that
\* is well drawn no gloss is taken out of the text it stands in.
MarginsAreApart(page) ==
  LET margins == {b \in Body(page) : Region(page, b) = "margin"}
      text == {b \in Body(page) : Region(page, b) \in {"main", "footnote"}}
  IN  \A m \in margins :
        /\ margins # Body(page)
        /\ WellDrawn(page) => ~ \E b \in text : b.x0 <= m.x0 /\ m.x1 <= b.x1

=============================================================================
