--------------------------- MODULE DeleteLoopProofs ---------------------------
(***************************************************************************)
(* The loop of deleteDiary removes the run that DeleteRun describes, for   *)
(* every finite set of entries, fetched order, listing and index.          *)
(***************************************************************************)
EXTENDS DeleteLoop, DeleteRunProofs

\* What the method is called with: distinct entries, each row a fetched one.
InputsOK ==
  /\ \A m, n \in 1..Len(items) : items[m] = items[n] => m = n
  /\ \A j \in 1..Len(rows0) : \E n \in 1..Len(items) : items[n] = rows0[j]

\* The place of row j in the fetched order.
At(j) == Place(items, rows0[j])

\* After some iterations k rows of the run are gone: the last of them has its
\* place before pos, and the row now at the index, if it belongs to the run,
\* has its place still to come.
Removed(k) ==
  /\ dataSource = Cut(rows0, index, k)
  /\ deleted = RunOf(rows0, index, k)
  /\ Removes(items, rows0, index, k)
  /\ k > 0 => At(index + k - 1) < pos
  /\ index + k <= Len(rows0) /\ (k > 0 => At(index + k - 1) < At(index + k))
       => pos <= At(index + k)
  /\ index + k > Len(rows0) => pos = At(index + k - 1) + 1
  /\ pc = "done" => pos > Len(items)
  /\ pc = "trapped" => index + k > Len(rows0) /\ pos <= Len(items)

LoopInv == /\ TypeOK
           /\ InputsOK
           /\ \E k \in 0..(Len(rows0) - index + 1) : Removed(k)

-------------------------------------------------------------------------------
\* Each row has a place in the fetched order, and it is the row's own.
LEMMA RowPlaces ==
  ASSUME TypeOK, InputsOK
  PROVE  /\ Len(items) \in Nat /\ Len(rows0) \in Nat
         /\ \A j \in 1..Len(rows0) : At(j) \in 1..Len(items) /\ items[At(j)] = rows0[j]
         /\ \A j \in 1..Len(rows0), n \in 1..Len(items) : rows0[j] = items[n] => At(j) = n
<1>1. Len(items) \in Nat /\ Len(rows0) \in Nat
  BY LenProperties DEF TypeOK
<1>2. \A n \in 1..Len(items) : Place(items, items[n]) = n
  BY PlaceProperties DEF TypeOK, InputsOK
<1>3. \A j \in 1..Len(rows0), n \in 1..Len(items) : rows0[j] = items[n] => At(j) = n
  BY <1>2 DEF At
<1>. QED
  BY <1>1, <1>3, Zenon DEF InputsOK

\* The loop starts with nothing removed.
LEMMA LoopInvInit == Init => LoopInv
<1> SUFFICES ASSUME Init PROVE LoopInv
  OBVIOUS
<1>1. PICK S \in SUBSET Entries : items \in Orders(S) /\ rows0 \in Listings(S)
  BY DEF Init
<1>2. PICK T \in SUBSET S : rows0 \in Orders(T)
  BY <1>1 DEF Listings
<1>3. IsFiniteSet(S) /\ IsFiniteSet(T)
  BY <1>1, <1>2, EntriesAssumption, FS_Subset, Zenon
<1>4. /\ items \in Seq(S) /\ Len(items) = Cardinality(S)
      /\ \A m, n \in 1..Len(items) : items[m] = items[n] => m = n
      /\ \A e \in S : \E n \in 1..Len(items) : items[n] = e
  BY <1>1, <1>3, OrdersProperties, Zenon
<1>5. rows0 \in Seq(T)
  BY <1>2, <1>3, OrdersProperties, Zenon
<1>6. items \in Seq(Entries) /\ rows0 \in Seq(Entries) /\ rows0 \in Seq(S)
  BY <1>1, <1>2, <1>4, <1>5, SeqMonotonic, Zenon
<1>7. Len(items) \in Nat /\ Len(rows0) \in Nat
  BY <1>6, LenProperties, Zenon
<1>8. TypeOK
  BY <1>6, <1>7 DEF Init, TypeOK
<1>9. InputsOK
  BY <1>4, <1>6, ElementOfSeq, Zenon DEF InputsOK
<1>10. Removed(0)
  <2>1. dataSource = Cut(rows0, index, 0)
    BY <1>6, CutNothing, Zenon DEF Init
  <2>2. deleted = RunOf(rows0, index, 0)
    BY <1>7 DEF Init, RunOf
  <2>3. Removes(items, rows0, index, 0)
    BY <1>7 DEF Init, Removes
  <2>4. index + 0 <= Len(rows0) /\ pos <= At(index + 0)
    <3>1. index + 0 = index /\ index \in 1..Len(rows0) /\ pos = 1
      BY <1>7 DEF Init
    <3>. QED
      BY <3>1, <1>7, <1>8, <1>9, RowPlaces
  <2>. QED
    BY <1>7, <2>1, <2>2, <2>3, <2>4 DEF Removed, Init
<1>11. 0 \in 0..(Len(rows0) - index + 1)
  BY <1>7, <1>8 DEF TypeOK
<1>. QED
  BY <1>8, <1>9, <1>10, <1>11 DEF LoopInv

\* The rows while k of them are gone: what is now at the index, and how many.
LEMMA RowsLeft ==
  ASSUME TypeOK, NEW k \in 0..(Len(rows0) - index + 1), dataSource = Cut(rows0, index, k)
  PROVE  /\ index \in Nat /\ k \in Nat /\ index + k - 1 <= Len(rows0)
         /\ index \in 1..Len(rows0) /\ Len(rows0) \in Nat
         /\ Len(dataSource) = Len(rows0) - k
         /\ index <= Len(dataSource) <=> index + k <= Len(rows0)
         /\ index <= Len(dataSource) => dataSource[index] = rows0[index + k]
<1>1. /\ Len(rows0) \in Nat /\ index \in 1..Len(rows0) /\ k \in Nat
      /\ index + k - 1 <= Len(rows0)
  BY LenProperties DEF TypeOK
<1>2. /\ Len(dataSource) = Len(rows0) - k
      /\ \A j \in 1..(Len(rows0) - k) :
           dataSource[j] = IF j < index THEN rows0[j] ELSE rows0[j + k]
  BY <1>1, CutProperties, Zenon DEF TypeOK
<1>3. index <= Len(dataSource) => index \in 1..(Len(rows0) - k) /\ ~(index < index)
  BY <1>1, <1>2
<1>. QED
  BY <1>1, <1>2, <1>3

\* An iteration that matches takes the next row of the run.
LEMMA MatchStep == LoopInv /\ Match => LoopInv'
<1> SUFFICES ASSUME LoopInv, Match PROVE LoopInv'
  OBVIOUS
<1> USE DEF LoopInv
<1>1. PICK k \in 0..(Len(rows0) - index + 1) : Removed(k)
  OBVIOUS
<1>2. dataSource = Cut(rows0, index, k)
  BY <1>1 DEF Removed
<1>3. /\ index \in Nat /\ k \in Nat /\ index + k <= Len(rows0)
      /\ index \in 1..Len(rows0) /\ Len(rows0) \in Nat
      /\ dataSource[index] = rows0[index + k]
  BY <1>2, RowsLeft DEF Match
<1>4. /\ index + k \in 1..Len(rows0) /\ pos \in 1..Len(items) /\ rows0[index + k] = items[pos]
      /\ Len(items) \in Nat
  BY <1>3, LenProperties DEF Match, TypeOK
<1>5. At(index + k) = pos
  BY <1>4, RowPlaces
<1>6. k > 0 => At(index + k - 1) < pos
  BY <1>1 DEF Removed
<1>7. UNCHANGED <<items, rows0, index, pc>> /\ pos' = pos + 1 /\ pc = "loop"
  BY DEF Match, inputs
<1>8. Removes(items, rows0, index, k + 1)
  <2>1. Removes(items, rows0, index, k)
    BY <1>1 DEF Removed
  <2>2. \A j \in index..(index + k - 2) : Place(items, rows0[j]) < Place(items, rows0[j + 1])
    BY <2>1 DEF Removes
  <2>3. \A j \in index..(index + (k + 1) - 2) :
          j \in index..(index + k - 2) \/ (k > 0 /\ j = index + k - 1 /\ j + 1 = index + k)
    BY <1>3
  <2>4. \A j \in index..(index + (k + 1) - 2) :
          Place(items, rows0[j]) < Place(items, rows0[j + 1])
    BY <1>5, <1>6, <2>2, <2>3 DEF At
  <2>5. index + (k + 1) - 1 <= Len(rows0)
    BY <1>3
  <2>. QED
    BY <2>4, <2>5 DEF Removes
<1>9. dataSource' = Cut(rows0, index, k + 1)
  BY <1>2, <1>3, CutAgain DEF Match, TypeOK
<1>10. deleted' = RunOf(rows0, index, k + 1)
  <2>1. deleted = RunOf(rows0, index, k)
    BY <1>1 DEF Removed
  <2>2. index..(index + (k + 1) - 1) = index..(index + k - 1) \cup {index + k}
    BY <1>3
  <2>. QED
    BY <1>4, <2>1, <2>2 DEF Match, RunOf
<1>11. /\ k + 1 \in 0..(Len(rows0) - index + 1)
       /\ index + (k + 1) - 1 = index + k
  BY <1>3
<1>12. index + (k + 1) <= Len(rows0) /\ At(index + k) < At(index + (k + 1))
         => pos + 1 <= At(index + (k + 1))
  <2> SUFFICES ASSUME index + (k + 1) <= Len(rows0), At(index + k) < At(index + (k + 1))
               PROVE  pos + 1 <= At(index + (k + 1))
    OBVIOUS
  <2>1. index + (k + 1) \in 1..Len(rows0)
    BY <1>3
  <2>2. At(index + (k + 1)) \in Nat
    BY <2>1, RowPlaces
  <2>. QED
    BY <1>4, <1>5, <2>2
<1>13. TypeOK'
  <2>1. dataSource' \in Seq(Entries)
    <3>1. k + 1 \in Nat /\ index + (k + 1) - 1 <= Len(rows0)
      BY <1>3
    <3>. QED
      BY <1>3, <1>9, <3>1, CutProperties, Zenon DEF TypeOK
  <2>2. items[pos] \in Entries
    BY <1>4, ElementOfSeq DEF TypeOK
  <2>3. pos + 1 \in 1..(Len(items) + 1)
    BY <1>4
  <2>. QED
    BY <1>7, <2>1, <2>2, <2>3 DEF TypeOK, Match
<1>14. InputsOK'
  BY <1>7 DEF InputsOK
<1>15. \A j : At(j)' = At(j)
  BY <1>7 DEF At
<1>16. Removed(k + 1)'
  <2>1. Removes(items, rows0, index, k + 1)'
    BY <1>7, <1>8 DEF Removes
  <2>2. pos = At(index + (k + 1) - 1) /\ At(index + (k + 1) - 1) < pos'
    BY <1>4, <1>5, <1>7, <1>11
  <2>. QED
    BY <1>5, <1>7, <1>9, <1>10, <1>11, <1>12, <1>15, <2>1, <2>2 DEF Removed
<1>. QED
  BY <1>7, <1>11, <1>13, <1>14, <1>16

\* An iteration that does not match passes an item that is not the next row.
LEMMA PassStep == LoopInv /\ Pass => LoopInv'
<1> SUFFICES ASSUME LoopInv, Pass PROVE LoopInv'
  OBVIOUS
<1> USE DEF LoopInv
<1>1. PICK k \in 0..(Len(rows0) - index + 1) : Removed(k)
  OBVIOUS
<1>2. /\ index \in Nat /\ k \in Nat /\ index + k <= Len(rows0)
      /\ index \in 1..Len(rows0) /\ Len(rows0) \in Nat
      /\ dataSource[index] = rows0[index + k]
  BY <1>1, RowsLeft DEF Removed, Pass
<1>3. UNCHANGED <<items, rows0, index, dataSource, deleted, pc>> /\ pos' = pos + 1 /\ pc = "loop"
  BY DEF Pass, inputs
<1>4. /\ index + k \in 1..Len(rows0) /\ pos \in 1..Len(items)
      /\ Len(items) \in Nat
  <2>1. Len(items) \in Nat /\ pos \in 1..(Len(items) + 1)
    BY RowPlaces DEF TypeOK
  <2>2. pos <= Len(items)
    BY DEF Pass
  <2>. QED
    BY <1>2, <2>1, <2>2
<1>5. At(index + k) \in 1..Len(items) /\ At(index + k) # pos
  <2>1. At(index + k) \in 1..Len(items) /\ items[At(index + k)] = rows0[index + k]
    BY <1>4, RowPlaces
  <2>2. items[pos] # rows0[index + k]
    BY <1>2 DEF Pass
  <2>. QED
    BY <2>1, <2>2
<1>6. k > 0 => At(index + k - 1) \in Nat
  BY <1>2, RowPlaces
<1>7. \A j : At(j)' = At(j)
  BY <1>3 DEF At
<1>8. Removed(k)'
  <2>1. Removes(items, rows0, index, k)'
    BY <1>1, <1>3 DEF Removed, Removes
  <2>2. index + k <= Len(rows0) /\ (k > 0 => At(index + k - 1) < At(index + k))
          => pos + 1 <= At(index + k)
    BY <1>1, <1>4, <1>5 DEF Removed
  <2>3. k > 0 => At(index + k - 1) < pos + 1
    BY <1>1, <1>4, <1>6 DEF Removed
  <2>. QED
    BY <1>1, <1>2, <1>3, <1>7, <2>1, <2>2, <2>3 DEF Removed
<1>9. TypeOK' /\ InputsOK'
  BY <1>3, <1>4 DEF TypeOK, InputsOK
<1>. QED
  BY <1>3, <1>8, <1>9

\* Trapping and finishing leave the rows as they are.
LEMMA EndStep == LoopInv /\ (Trap \/ Finish) => LoopInv'
<1> SUFFICES ASSUME LoopInv, Trap \/ Finish PROVE LoopInv'
  OBVIOUS
<1> USE DEF LoopInv
<1>1. PICK k \in 0..(Len(rows0) - index + 1) : Removed(k)
  OBVIOUS
<1>2. UNCHANGED <<items, rows0, index, pos, dataSource, deleted>> /\ pc' \in {"done", "trapped"}
  BY DEF Trap, Finish, inputs
<1>3. pc' = "trapped" => index + k > Len(rows0) /\ pos <= Len(items)
  BY <1>1, RowsLeft DEF Removed, Trap, Finish
<1>4. pc' = "done" => pos > Len(items)
  BY DEF Trap, Finish
<1>5. \A j : At(j)' = At(j)
  BY <1>2 DEF At
<1>6. Removed(k)'
  BY <1>1, <1>2, <1>3, <1>4, <1>5 DEF Removed, Removes
<1>. QED
  BY <1>2, <1>6 DEF TypeOK, InputsOK

\* When the loop is over, the rows that are gone are the run.
LEMMA LoopInvOutcome == LoopInv => RemovesTheRun
<1> SUFFICES ASSUME LoopInv, pc # "loop"
             PROVE  \E k \in 1..Len(rows0) :
                      /\ IsRunLength(items, rows0, index, k)
                      /\ dataSource = Cut(rows0, index, k)
                      /\ deleted = RunOf(rows0, index, k)
                      /\ pc = "trapped" <=> ReadsPastEnd(items, rows0, index, k)
  BY DEF RemovesTheRun
<1> USE DEF LoopInv
<1>1. PICK k \in 0..(Len(rows0) - index + 1) : Removed(k)
  OBVIOUS
<1>2. /\ index \in Nat /\ k \in Nat /\ index + k - 1 <= Len(rows0)
      /\ index \in 1..Len(rows0) /\ Len(rows0) \in Nat
  BY <1>1, RowsLeft DEF Removed
<1>3. Len(items) \in Nat /\ pos \in Nat /\ pc \in {"done", "trapped"}
  BY LenProperties DEF TypeOK
<1>4. \A j \in 1..Len(rows0) : At(j) \in 1..Len(items)
  BY RowPlaces
<1>5. k > 0
  <2> SUFFICES ASSUME k = 0 PROVE FALSE
    BY <1>2
  <2>1. pos <= At(index) /\ pc = "done"
    BY <1>1, <1>2, <1>3 DEF Removed
  <2>. QED
    BY <1>1, <1>2, <1>3, <1>4, <2>1 DEF Removed
<1>6. ~Removes(items, rows0, index, k + 1)
  <2> SUFFICES ASSUME Removes(items, rows0, index, k + 1) PROVE FALSE
    OBVIOUS
  <2>1. index + k <= Len(rows0) /\ index + k \in 1..Len(rows0)
    BY <1>2 DEF Removes
  <2>2. index + k - 1 \in index..(index + (k + 1) - 2) /\ (index + k - 1) + 1 = index + k
    BY <1>2, <1>5
  <2>3. At(index + k - 1) < At(index + k)
    BY <2>2 DEF Removes, At
  <2>4. pc = "done" /\ pos <= At(index + k) /\ pos > Len(items)
    BY <1>1, <1>2, <1>3, <2>1, <2>3 DEF Removed
  <2>. QED
    BY <1>3, <1>4, <2>1, <2>4
<1>7. pc = "trapped" <=> ReadsPastEnd(items, rows0, index, k)
  <2>1. CASE index + k > Len(rows0)
    <3>1. index + k - 1 = Len(rows0)
      BY <1>2, <2>1
    <3>2. pos = At(Len(rows0)) + 1
      BY <1>1, <2>1, <3>1 DEF Removed
    <3>3. At(Len(rows0)) \in Nat
      BY <1>2, <1>4
    <3>4. pc = "trapped" <=> pos <= Len(items)
      BY <1>1, <1>3 DEF Removed
    <3>. QED
      BY <1>3, <2>1, <3>2, <3>3, <3>4 DEF ReadsPastEnd, At
  <2>2. CASE ~(index + k > Len(rows0))
    BY <1>1, <2>2 DEF Removed, ReadsPastEnd
  <2>. QED
    BY <2>1, <2>2
<1>8. k \in 1..Len(rows0)
  BY <1>2, <1>5
<1>. QED
  BY <1>1, <1>6, <1>7, <1>8 DEF Removed, IsRunLength

\* The invariant of the loop.
THEOREM LoopInvariant == Spec => []LoopInv
<1>1. LoopInv /\ UNCHANGED vars => LoopInv'
  BY DEF LoopInv, TypeOK, InputsOK, Removed, Removes, At, vars, inputs
<1>2. LoopInv /\ [Next]_vars => LoopInv'
  BY <1>1, MatchStep, PassStep, EndStep DEF Next
<1>. QED
  BY LoopInvInit, <1>2, PTL DEF Spec

\* The loop's variables keep their types: its places stay within the fetched
\* entries and the list, also when it ends in a trap.
THEOREM LoopTypeOK == Spec => []TypeOK
<1>1. LoopInv => TypeOK
  BY DEF LoopInv
<1>. QED
  BY <1>1, LoopInvariant, PTL

\* deleteDiary's loop removes, from any list and fetched order and for any
\* row, the run of rows that starts at the row, and traps exactly when the run
\* reaches the last row before the fetched entries are used up.
THEOREM LoopRemovesTheRun == Spec => []RemovesTheRun
BY LoopInvariant, LoopInvOutcome, PTL
===============================================================================
