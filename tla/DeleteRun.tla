------------------------------- MODULE DeleteRun -------------------------------
(***************************************************************************)
(* What one call of MainControllerViewModel.deleteDiary(at:) removes.      *)
(*                                                                         *)
(* The method walks over the entries in the order a fetch returned them    *)
(* and, at each one, compares it with the row that is NOW at the index it  *)
(* was given.  The walk does not stop at the first match: the row below    *)
(* moves up into the index and is compared with the entries that are still *)
(* to come.  So it removes the run of rows, starting at the index, whose   *)
(* places in the fetched order ascend; and it reads past the end of the    *)
(* rows when the run reaches the last row before the walk has ended.       *)
(* Module DeleteLoop has the walk itself and shows that it comes to this.  *)
(***************************************************************************)
EXTENDS Integers, Sequences, FiniteSets, Functions

\* The orders in which a fetch without sort descriptors may return the set S.
Orders(S) == Bijection(1..Cardinality(S), S)

\* The place of e in the fetched order.
Place(items, e) == CHOOSE n \in 1..Len(items) : items[n] = e

\* Mutant of Cut: the indices are counted from one row further down.
CutMutant(rows, i, k) == SubSeq(rows, 1, i) \o SubSeq(rows, i + k + 1, Len(rows))

\* The sequence rows without its k elements from index i on.
Cut(rows, i, k) == SubSeq(rows, 1, i - 1) \o SubSeq(rows, i + k, Len(rows))

\* The k rows from index i on, as a set.
RunOf(rows, i, k) == {rows[j] : j \in i..(i + k - 1)}

\* The walk removes at least k rows: they are there and their places ascend.
Removes(items, rows, i, k) ==
  /\ i + k - 1 <= Len(rows)
  /\ \A j \in i..(i + k - 2) : Place(items, rows[j]) < Place(items, rows[j + 1])

\* The number of rows the walk removes.
IsRunLength(items, rows, i, k) ==
  Removes(items, rows, i, k) /\ ~Removes(items, rows, i, k + 1)

\* Having removed k rows, the walk compares one more entry with a row that
\* does not exist (Swift traps: index out of range).
ReadsPastEnd(items, rows, i, k) ==
  i + k > Len(rows) /\ Place(items, rows[Len(rows)]) < Len(items)
===============================================================================
