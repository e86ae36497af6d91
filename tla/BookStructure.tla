------------------------------ MODULE BookStructure -------------------------------
(***************************************************************************)
(* The structuring of a book, page after page: the layout of each page,    *)
(* the sections and page numbers the metadata stage keeps, and the units   *)
(* the chunking stage cuts.  Both stages read every page in this order.    *)
(***************************************************************************)
EXTENDS Chunking

CONSTANTS Leaves,      \* the pages a book is made of
          Plates,      \* pages that are a book of their own
          MaxPages,    \* bound on the pages of a book
          MaxBlocks    \* bound on its blocks

\* A page has its blocks in a sequence, each with its place there.
ASSUME PagesAssumption ==
  \A page \in Leaves \union Plates :
    /\ page.blocks \in Seq(Blocks(page))
    /\ \A i \in DOMAIN page.blocks :
         LET b == page.blocks[i] IN
         /\ b.index = i
         /\ {b.x0, b.y0, b.x1, b.y1} \subseteq Int
         /\ b.x0 <= b.x1 /\ b.y0 <= b.y1
         /\ b.letters \in Nat /\ b.size \in Nat
         /\ b.word \in LabelLevels \union {"none"}
         /\ b.sentences \in Seq(Nat)
         /\ b.ends \in BOOLEAN
         /\ b.numbers \in Seq([system : Range(Systems), value : Nat, letters : Seq(Nat)])

VARIABLES pages,       \* the pages read
          reading,     \* the sections that are open and those that are closed
          labels,      \* page number -> the names open on it, per level
          printed,     \* page number -> the printed page number
          units,       \* the units of the main text
          chunks       \* the passages of a book that ends here

vars == <<pages, reading, labels, printed, units, chunks>>

Init ==
  /\ pages = <<>>
  /\ reading = [open |-> [level \in Levels |-> NoSection], closed |-> <<>>]
  /\ labels = <<>>
  /\ printed = <<>>
  /\ units = <<>>
  /\ chunks = <<>>

\* Mutant: the labels of a page are taken before its headings are read.
ReadPageLate(page) ==
  LET p == Len(pages) + 1
      read == ReadHeadings(reading, Headings(page, p))
  IN  /\ pages' = Append(pages, page)
      /\ reading' = read
      /\ labels' = Append(labels, Label(reading))
      /\ printed' = Append(printed, PrintedPage(page))
      /\ \E main \in {MainText(page)} : units' = units \o PageUnits(main, p)
      /\ chunks' = Chunks(units')

\* One page more in each of the loops over the pages.
ReadPage(page) ==
  LET p == Len(pages) + 1
      read == ReadHeadings(reading, Headings(page, p))
  IN  /\ pages' = Append(pages, page)
      /\ reading' = read
      /\ labels' = Append(labels, Label(read))
      /\ printed' = Append(printed, PrintedPage(page))
      /\ \E main \in {MainText(page)} : units' = units \o PageUnits(main, p)
      /\ chunks' = Chunks(units')

\* The pages that both stages make of the rows of the extraction (_load_page).
BookPages == Leaves
OwnPages == Plates

BlocksRead == Sum([p \in DOMAIN pages |-> Len(pages[p].blocks)])

\* The pages that may follow those that were read.
Following ==
  CASE pages = <<>> -> BookPages \union OwnPages
    [] Len(pages) \in 1 .. MaxPages - 1 /\ pages[1] \in BookPages ->
         {page \in BookPages : BlocksRead + Len(page.blocks) <= MaxBlocks}
    [] OTHER -> {}

Next == \E page \in Following : ReadPage(page)

Spec == Init /\ [][Next]_vars

-----------------------------------------------------------------------------
(* Layout.                                                                 *)

\* The blocks of every page are read in an order a reader would follow
\* (_reading_order), which is what the passages are put together in. No page
\* loses all its text to the margins, and on a well-drawn one no block is left
\* out of the passages as a gloss when it stands in the text
\* (_margin_block_indices): a short line that falls into the column of the
\* glosses is, and such a page is not well drawn.
TextIsInOrder == Len(pages) = 1 => ReadsInOrder(pages[1]) /\ MarginsAreApart(pages[1])

-----------------------------------------------------------------------------
(* Sections.                                                               *)

\* The sections of one level cover the pages from its first heading to the end
\* of the book once each (_detect_structures), and the labels of a page name
\* the sections it lies in, so a page found by its label is found by its range.
SectionsTileTheBook ==
  LET sections == Sections(reading, Len(pages))
      covering(level, p) == {s \in sections : s.level = level /\ s.start <= p /\ p <= s.end}
  IN  \A level \in Levels, p \in DOMAIN pages :
        /\ Cardinality(covering(level, p)) <= 1
        /\ (covering(level, p) = {}) <=> (\A s \in sections : s.level = level => p < s.start)
        /\ level \in LabelLevels =>
             labels[p][level] = IF covering(level, p) = {} THEN NoName
                                ELSE (CHOOSE s \in covering(level, p) : TRUE).name

\* The headings of a level on a page: to the metadata those between the bands,
\* to the chunker those of main text, each by the size of most letters it reads.
HeadingsInMetadata(page, level) ==
  LET font == DominantFont(Sorted(Flow(page), Above))
  IN  {b \in Flow(page) : HeadingLevel(b, font) = level}
HeadingsInText(page, level) ==
  UNION {{b \in Range(main) : HeadingLevel(b, DominantFont(main)) = level} : main \in {MainText(page)}}

\* The stages share the headings of a level on a page when both find the same
\* ones, and all in one column.
Shared(page, level) ==
  /\ HeadingsInMetadata(page, level) = HeadingsInText(page, level)
  /\ \E column \in Columns(Flow(page)) : HeadingsInMetadata(page, level) \subseteq column

\* The last page's labels, which the metadata keeps (_detect_structures), and
\* the context of the last passage, which the chunker finds on its own in other
\* blocks read in another order (_context_at), name the same section of a level
\* unless the last page that has headings of the level to either stage is one on
\* which they do not share them: what an earlier page set apart is mended there.
StagesAgreeOnSections ==
  pages # <<>> =>
    \A level \in LabelLevels :
      LET marked == {p \in DOMAIN pages : HeadingsInMetadata(pages[p], level) \union HeadingsInText(pages[p], level) # {}}
      IN  (marked # {} => Shared(pages[Max(marked)], level))
            => ContextAt(units, Len(units))[level] = labels[Len(pages)][level]

\* The letters of a digit, and a number below a thousand as it is printed: the
\* values of its letters.
Digit(d, one, five, ten) ==
  CASE d = 4 -> <<one, five>>
    [] d = 9 -> <<one, ten>>
    [] d \in 0 .. 3 -> SubSeq([i \in 1 .. d |-> one], 1, d)
    [] d \in 5 .. 8 -> SubSeq([i \in 1 .. d - 4 |-> IF i = 1 THEN five ELSE one], 1, d - 4)
Numeral(n) == Digit(n \div 100, 100, 500, 1000) \o Digit((n \div 10) % 10, 10, 50, 100) \o Digit(n % 10, 1, 5, 10)

Printable == 1 .. 999

\* The numerals that stand in a block, and the blocks that stand lowest, of
\* those the rightmost.
Numerals(b) == {b.numbers[i].letters : i \in {j \in DOMAIN b.numbers : b.numbers[j].system = "roman"}}
Lowest(page) ==
  {b \in Footers(page) : \A c \in Footers(page) : c.y1 < b.y1 \/ (c.y1 = b.y1 /\ c.x0 <= b.x0)}

\* The Roman numbers on a page are numerals as they are written.
WellWritten(page) ==
  \A b \in Blocks(page) : \A letters \in Numerals(b) : \E n \in Printable : letters = Numeral(n)

\* A page in Roman numbers gets the number that is printed lowest on it
\* (_roman_to_int, _parse_footer_number): written out again it is what stands
\* there, and a numeral is given up only when it has too many letters.
NumeralsAreRead ==
  \A p \in DOMAIN pages :
    /\ printed[p].system = "roman" => \E b \in Lowest(pages[p]) : Numeral(printed[p].value) \in Numerals(b)
    /\ printed[p].system = "none" /\ Lowest(pages[p]) # {} =>
         \E b \in Lowest(pages[p]) : \A letters \in Numerals(b) : Len(letters) > MaxNumeral

-----------------------------------------------------------------------------
(* Passages.                                                               *)

BookSentences == Sentences(units, <<1, Len(units) + 1>>)
PlaceOf(sentence) == CHOOSE i \in DOMAIN BookSentences : BookSentences[i] = sentence

\* Every sentence of the book is in a passage: a passage is a run of sentences
\* as they follow in the book, it begins no later than after the one before and
\* brings something new (_sentence_pack, _ranges, _split_range).
NothingIsLost ==
  LET places(k) == [s \in DOMAIN chunks[k].pack |-> PlaceOf(chunks[k].pack[s])]
      first(k) == places(k)[1]
      last(k) == IF k = 0 THEN 0 ELSE places(k)[Len(chunks[k].pack)]
  IN  /\ \A k \in DOMAIN chunks :
           /\ \A s \in DOMAIN places(k) : places(k)[s] = first(k) + s - 1
           /\ first(k) <= last(k - 1) + 1
           /\ last(k - 1) < last(k)
      /\ last(Len(chunks)) = Len(BookSentences)

\* A passage is never of two sections that cut the book, and of two pages only
\* when the first is cut in mid-sentence (_boundary_starts); and it names the
\* sections that cut the book in which each of its sentences stands (_context_at
\* at the start of its range, not of the passage). A citation by page and section
\* is then true of the whole passage.
PassagesAreCitable ==
  \A k \in DOMAIN chunks :
    LET chunk == chunks[k]
        first == chunk.pack[1].unit
        last == chunk.pack[Len(chunk.pack)].unit
    IN  /\ \A i \in first + 1 .. last :
             /\ units[i].level \notin BoundaryLevels(units)
             /\ units[i].page # units[i - 1].page => units[i - 1].level = "body" /\ ~units[i - 1].ends
        /\ \A s \in DOMAIN chunk.pack, level \in BoundaryLevels(units) :
             chunk.context[level] = ContextAt(units, chunk.pack[s].unit)[level]

\* "max_tokens is a soft limit": a passage that exceeds it brings no more than
\* one sentence that is new.
OneSentenceTooMany ==
  \A k \in DOMAIN chunks :
    LET pack == chunks[k].pack
        known == IF k = 1 THEN {} ELSE Range(chunks[k - 1].pack)
    IN  Size(pack) > MaxTokens => Cardinality(Range(pack) \ known) = 1

=============================================================================
