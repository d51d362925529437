------------------------------- MODULE Counters -------------------------------
(* The arithmetic every parser reads a log's counters with: what a log states *)
(* can be negative, can exceed what it is a part of, and can be as large as   *)
(* the integer it is stored in.                                               *)
EXTENDS Integers, Sequences, FiniteSetsExt, SequencesExt

CONSTANT MaxInt     \* the largest count (math.MaxInt64)

NonNeg(n) == Max({n, 0})

\* A part is never negative and never more than the whole.
Subset(n, total) == IF n > total THEN NonNeg(total) ELSE NonNeg(n)

\* A sum saturates instead of wrapping into a negative total.
SumNonNeg(ns) == FoldSeq(LAMBDA n, total : Min({total + NonNeg(n), MaxInt}), 0, ns)

\* The lines an edit undoes of those this log added to the file and did not undo yet.
Rework(unreworked, removed) == Min({removed, unreworked})
=============================================================================
