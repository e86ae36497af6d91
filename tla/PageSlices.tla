------------------------------- MODULE PageSlices -------------------------------
(***************************************************************************)
(* How the extraction shares the pages it still has to parse among its     *)
(* threads (_partition_pages and ExtractionRunner.run of                   *)
(* app/services/extraction.py): contiguous slices of the list of missing   *)
(* pages, of one size but for the last, each parsed by one thread from a   *)
(* document of its own; the caller joins the results in order.             *)
(***************************************************************************)
EXTENDS Integers, FiniteSets

CONSTANT Threads  \* extraction_workers of the settings

ASSUME ThreadsAssumption == Threads \in Nat \ {0}

\* The position of a page in the ordered list of the missing ones.
Position(missing, p) == Cardinality({q \in missing : q < p})

\* The length of a slice: a ceiling division, and at least 1.
SliceSize(n) ==
  LET size == (n + Threads - 1) \div Threads
  IN  IF size > 1 THEN size ELSE 1

\* Mutant: a slice starts one position after the last one has ended.
SliceStartsApart(n) == {i \in 0 .. n - 1 : i % (SliceSize(n) + 1) = 0}

\* The position each slice starts at.
SliceStarts(n) == {i \in 0 .. n - 1 : i % SliceSize(n) = 0}

\* The slice that starts at position i.
Slice(missing, i) ==
  {p \in missing : Position(missing, p) \in i .. i + SliceSize(Cardinality(missing)) - 1}

\* The pages the threads parse between them.
Parsed(missing) ==
  UNION {Slice(missing, i) : i \in SliceStarts(Cardinality(missing))}

=============================================================================
