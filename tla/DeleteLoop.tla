------------------------------ MODULE DeleteLoop ------------------------------
(***************************************************************************)
(* The loop of MainControllerViewModel.deleteDiary(at:), one iteration a   *)
(* step, from any state the method can be called in: items is the result   *)
(* of its fetch, rows0 the table's rows (distinct entries, all of them     *)
(* fetched) and index the row that was swiped.  The loop is shown to       *)
(* remove exactly the run of rows that module DeleteRun describes, which   *)
(* is what the diary's delete action does in one step.                     *)
(***************************************************************************)
EXTENDS DeleteRun

CONSTANT Entries
ASSUME EntriesAssumption == IsFiniteSet(Entries)

VARIABLES items,      \* the fetched entries, in the order of the fetch
          rows0,      \* dataSource when the method was called
          index,      \* the method's argument (from 1)
          pos,        \* the item the next iteration looks at
          dataSource, \* the rows that are left
          deleted,    \* the objects handed to viewContext.delete
          pc          \* "loop", "done", or "trapped": index out of range

inputs == <<items, rows0, index>>
vars == <<items, rows0, index, pos, dataSource, deleted, pc>>

\* Rows the table can show of the fetched set: some of it, no entry twice.
Listings(S) == UNION {Orders(T) : T \in SUBSET S}

Init == /\ \E S \in SUBSET Entries : items \in Orders(S) /\ rows0 \in Listings(S)
        /\ index \in 1..Len(rows0)
        /\ pos = 1
        /\ dataSource = rows0
        /\ deleted = {}
        /\ pc = "loop"

\* dataSource[index] does not exist.
Trap == /\ pc = "loop" /\ pos <= Len(items)
        /\ index > Len(dataSource)
        /\ pc' = "trapped"
        /\ UNCHANGED <<inputs, pos, dataSource, deleted>>

\* Mutant of Match: the object is deleted and its row is forgotten.
MatchMutant == /\ pc = "loop" /\ pos <= Len(items)
               /\ index <= Len(dataSource)
               /\ dataSource[index] = items[pos]
               /\ deleted' = deleted \cup {items[pos]}
               /\ pos' = pos + 1
               /\ UNCHANGED <<inputs, dataSource, pc>>

\* dataSource[index] == item: the object is deleted and its row removed.
Match == /\ pc = "loop" /\ pos <= Len(items)
         /\ index <= Len(dataSource)
         /\ dataSource[index] = items[pos]
         /\ deleted' = deleted \cup {items[pos]}
         /\ dataSource' = Cut(dataSource, index, 1)
         /\ pos' = pos + 1
         /\ UNCHANGED <<inputs, pc>>

\* Mutant of Pass: the walk skips an item, the one past the end too.
PassMutant == /\ pc = "loop" /\ pos <= Len(items)
              /\ index <= Len(dataSource)
              /\ dataSource[index] # items[pos]
              /\ pos' = pos + 2
              /\ UNCHANGED <<inputs, dataSource, deleted, pc>>

Pass == /\ pc = "loop" /\ pos <= Len(items)
        /\ index <= Len(dataSource)
        /\ dataSource[index] # items[pos]
        /\ pos' = pos + 1
        /\ UNCHANGED <<inputs, dataSource, deleted, pc>>

Finish == /\ pc = "loop" /\ pos > Len(items)
          /\ pc' = "done"
          /\ UNCHANGED <<inputs, pos, dataSource, deleted>>

Next == Trap \/ Match \/ Pass \/ Finish

Spec == Init /\ [][Next]_vars

-------------------------------------------------------------------------------
TypeOK == /\ items \in Seq(Entries)
          /\ rows0 \in Seq(Entries)
          /\ index \in 1..Len(rows0)
          /\ pos \in 1..(Len(items) + 1)
          /\ dataSource \in Seq(Entries)
          /\ deleted \in SUBSET Entries
          /\ pc \in {"loop", "done", "trapped"}

\* The loop's outcome, when it ends and when it traps, is the one the diary's
\* delete action takes in one step: a run of rows that starts at the index.
RemovesTheRun ==
  pc # "loop" =>
    \E k \in 1..Len(rows0) :
      /\ IsRunLength(items, rows0, index, k)
      /\ dataSource = Cut(rows0, index, k)
      /\ deleted = RunOf(rows0, index, k)
      /\ pc = "trapped" <=> ReadsPastEnd(items, rows0, index, k)
===============================================================================
