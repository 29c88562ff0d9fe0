------------------------------ MODULE DiaryProofs ------------------------------
(***************************************************************************)
(* The diary's safety, for every finite set of entries and every date of   *)
(* theirs, and that it keeps the promise of DurableSet.                    *)
(***************************************************************************)
EXTENDS Diary, DeleteRunProofs

\* The properties of the list, the store and the sheet together are inductive.
DiaryInv == /\ TypeOK
            /\ RowsAreEntries
            /\ RowsSorted
            /\ RowsComplete
            /\ PendingOnlyAfterFailedSave
            /\ GrayIsHint

-------------------------------------------------------------------------------
\* What a sort leaves: the same entries, each once, in date-text order.
LEMMA SortedProperties ==
  ASSUME NEW S \in SUBSET Entries, NEW rows \in Sorted(S)
  PROVE  /\ rows \in Seq(Entries)
         /\ Range(rows) = S
         /\ \A j, k \in 1..Len(rows) : rows[j] = rows[k] => j = k
         /\ Ascending(rows)
<1>1. IsFiniteSet(S)
  BY EntriesAssumption, FS_Subset, Zenon
<1>2. rows \in Orders(S) /\ Ascending(rows)
  BY DEF Sorted
<1>3. rows \in Seq(S) /\ Range(rows) = S /\ \A j, k \in 1..Len(rows) : rows[j] = rows[k] => j = k
  BY <1>1, <1>2, OrdersProperties, Zenon
<1>. QED
  BY <1>2, <1>3, SeqMonotonic, Zenon

\* getAllItem, over a set of entries that holds those of the rows: the rows
\* stay entries, sorted, and are complete unless the fetch failed.
LEMMA GetAllItemProperties ==
  ASSUME TypeOK, NEW S \in SUBSET Entries, Range(dataSource) \subseteq S, GetAllItem(S)
  PROVE  /\ dataSource' \in Seq(Entries)
         /\ Range(dataSource') \subseteq S
         /\ \A j, k \in 1..Len(dataSource') : dataSource'[j] = dataSource'[k] => j = k
         /\ Ascending(dataSource')
         /\ fetchFailed' \in BOOLEAN
         /\ ~fetchFailed' => S \subseteq Range(dataSource')
<1>1. PICK ok \in BOOLEAN :
        /\ dataSource' \in Sorted(IF ok THEN S ELSE Range(dataSource))
        /\ fetchFailed' = ~ok
  BY DEF GetAllItem
<1>2. (IF ok THEN S ELSE Range(dataSource)) \in SUBSET Entries
  BY Zenon
<1>3. /\ dataSource' \in Seq(Entries)
      /\ Range(dataSource') = IF ok THEN S ELSE Range(dataSource)
      /\ \A j, k \in 1..Len(dataSource') : dataSource'[j] = dataSource'[k] => j = k
      /\ Ascending(dataSource')
  BY <1>1, <1>2, SortedProperties, Zenon
<1>. QED
  BY <1>1, <1>3

\* The end of the process leaves a list without rows and nothing pending.
LEMMA ProcessEndsKeepsInv == DiaryInv /\ ProcessEnds => DiaryInv'
<1> SUFFICES ASSUME DiaryInv, ProcessEnds PROVE DiaryInv'
  OBVIOUS
<1>1. dataSource' = <<>> /\ Len(dataSource') = 0 /\ Range(dataSource') = {}
  BY DEF ProcessEnds, Range
<1>2. TypeOK'
  <2>1. dataSource' \in Seq(Entries)
    BY <1>1, EmptySeq
  <2>. QED
    BY <2>1 DEF DiaryInv, TypeOK, ProcessEnds, FreshSheet, Phases, Notes
<1>3. RowsAreEntries' /\ RowsSorted'
  BY <1>1 DEF RowsAreEntries, RowsSorted, Ascending
<1>4. RowsComplete' /\ PendingOnlyAfterFailedSave' /\ GrayIsHint'
  BY DEF ProcessEnds, FreshSheet, RowsComplete, PendingOnlyAfterFailedSave, GrayIsHint
<1>. QED
  BY <1>2, <1>3, <1>4 DEF DiaryInv

\* Coming on screen refreshes the list.
LEMMA ViewDidAppearKeepsInv == DiaryInv /\ ViewDidAppear => DiaryInv'
<1> SUFFICES ASSUME DiaryInv, ViewDidAppear PROVE DiaryInv'
  OBVIOUS
<1> USE DEF DiaryInv
<1>1. /\ GetAllItem(context) /\ context \in SUBSET Entries /\ phase' = "shown"
      /\ UNCHANGED <<context, store, sheetOpen, note, gray, editing, saveFailed>>
  BY DEF ViewDidAppear, TypeOK
<1>2. /\ dataSource' \in Seq(Entries)
      /\ Range(dataSource') \subseteq context
      /\ \A j, k \in 1..Len(dataSource') : dataSource'[j] = dataSource'[k] => j = k
      /\ Ascending(dataSource')
      /\ fetchFailed' \in BOOLEAN
      /\ ~fetchFailed' => context \subseteq Range(dataSource')
  BY <1>1, GetAllItemProperties, Zenon DEF RowsAreEntries
<1>3. TypeOK'
  BY <1>1, <1>2 DEF TypeOK, Phases
<1>4. RowsAreEntries' /\ RowsSorted' /\ RowsComplete'
  BY <1>1, <1>2 DEF RowsAreEntries, RowsSorted, RowsComplete
<1>5. PendingOnlyAfterFailedSave' /\ GrayIsHint'
  BY <1>1 DEF PendingOnlyAfterFailedSave, GrayIsHint
<1>. QED
  BY <1>3, <1>4, <1>5

\* Writing an entry inserts it, saves, and refreshes the list.
LEMMA SaveKeepsInv ==
  ASSUME NEW e \in Entries
  PROVE  DiaryInv /\ SaveButtonClicked(e) => DiaryInv'
<1> SUFFICES ASSUME DiaryInv, SaveButtonClicked(e) PROVE DiaryInv'
  OBVIOUS
<1> USE DEF DiaryInv
<1>1. /\ GetAllItem(context') /\ context' = context \cup {e} /\ phase' = phase
      /\ SaveContext(context') /\ sheetOpen' = FALSE /\ FreshSheet
  BY DEF SaveButtonClicked
<1>2. context' \in SUBSET Entries /\ Range(dataSource) \subseteq context'
  BY <1>1 DEF TypeOK, RowsAreEntries
<1>3. /\ dataSource' \in Seq(Entries)
      /\ Range(dataSource') \subseteq context'
      /\ \A j, k \in 1..Len(dataSource') : dataSource'[j] = dataSource'[k] => j = k
      /\ Ascending(dataSource')
      /\ fetchFailed' \in BOOLEAN
      /\ ~fetchFailed' => context' \subseteq Range(dataSource')
  BY <1>1, <1>2, GetAllItemProperties, Zenon
<1>4. store' \in {store, context'} /\ saveFailed' \in BOOLEAN /\ (context' # store' => saveFailed')
  BY <1>1 DEF SaveContext
<1>5. TypeOK'
  BY <1>1, <1>2, <1>3, <1>4 DEF TypeOK, FreshSheet, Notes
<1>6. RowsAreEntries' /\ RowsSorted' /\ RowsComplete'
  BY <1>3 DEF RowsAreEntries, RowsSorted, RowsComplete
<1>7. PendingOnlyAfterFailedSave' /\ GrayIsHint'
  BY <1>1, <1>4 DEF PendingOnlyAfterFailedSave, GrayIsHint, FreshSheet
<1>. QED
  BY <1>5, <1>6, <1>7

\* What a deletion that comes to its end does to the rows and the context: the
\* swiped row goes, with a run of rows below it; nothing above is touched.
LEMMA DeleteRowsProperties ==
  ASSUME DiaryInv, NEW i \in 1..Len(dataSource), NEW k \in 1..Len(dataSource),
         NEW items, IsRunLength(items, dataSource, i, k), DeleteRows(items, i, k)
  PROVE  /\ dataSource' \in Seq(Entries)
         /\ \A m, n \in 1..Len(dataSource') : dataSource'[m] = dataSource'[n] => m = n
         /\ Ascending(dataSource')
         /\ Range(dataSource') = Range(dataSource) \ RunOf(dataSource, i, k)
         /\ RunOf(dataSource, i, k) \subseteq Range(dataSource)
         /\ dataSource[i] \in RunOf(dataSource, i, k)
         /\ SubSeq(dataSource', 1, i - 1) = SubSeq(dataSource, 1, i - 1)
<1>1. dataSource \in Seq(Entries) /\ Len(dataSource) \in Nat
  BY LenProperties DEF DiaryInv, TypeOK
<1>2. k \in Nat /\ i + k - 1 <= Len(dataSource)
  BY <1>1 DEF IsRunLength, Removes
<1>3. dataSource' = Cut(dataSource, i, k)
  BY DEF DeleteRows
<1>4. /\ dataSource' \in Seq(Entries) /\ Len(dataSource') = Len(dataSource) - k
      /\ \A j \in 1..(Len(dataSource) - k) :
           dataSource'[j] = IF j < i THEN dataSource[j] ELSE dataSource[j + k]
  BY <1>1, <1>2, <1>3, CutProperties
<1>5. /\ \A m, n \in 1..Len(dataSource') : dataSource'[m] = dataSource'[n] => m = n
      /\ Range(dataSource') = Range(dataSource) \ RunOf(dataSource, i, k)
      /\ RunOf(dataSource, i, k) \subseteq Range(dataSource)
      /\ SubSeq(dataSource', 1, i - 1) = SubSeq(dataSource, 1, i - 1)
  <2>1. NoRepeats(dataSource)
    BY DEF DiaryInv, RowsAreEntries, NoRepeats
  <2>2. /\ NoRepeats(dataSource')
        /\ Range(dataSource') = Range(dataSource) \ RunOf(dataSource, i, k)
        /\ RunOf(dataSource, i, k) \subseteq Range(dataSource)
        /\ SubSeq(dataSource', 1, i - 1) = SubSeq(dataSource, 1, i - 1)
    BY <1>1, <1>2, <1>3, <2>1, CutRange
  <2>. QED
    BY <2>2, Zenon DEF NoRepeats
<1>6. dataSource[i] \in RunOf(dataSource, i, k)
  <2>1. i \in i..(i + k - 1)
    BY <1>1, <1>2
  <2>. QED
    BY <2>1 DEF RunOf
<1>7. Ascending(dataSource')
  <2> SUFFICES ASSUME NEW m \in 1..Len(dataSource'), NEW n \in 1..Len(dataSource'), m < n
               PROVE  DateOf[dataSource'[m]] <= DateOf[dataSource'[n]]
    BY DEF Ascending
  <2> DEFINE from(j) == IF j < i THEN j ELSE j + k
  <2>1. dataSource'[m] = dataSource[from(m)] /\ dataSource'[n] = dataSource[from(n)]
    BY <1>4
  <2>2. from(m) \in 1..Len(dataSource) /\ from(n) \in 1..Len(dataSource) /\ from(m) < from(n)
    BY <1>1, <1>2, <1>4
  <2> HIDE DEF from
  <2>. QED
    BY <2>1, <2>2 DEF DiaryInv, RowsSorted, Ascending
<1>. QED
  BY <1>4, <1>5, <1>6, <1>7

\* A deletion keeps the list, the store and the sheet in order.
LEMMA DeleteKeepsInv ==
  ASSUME NEW i \in 1..Len(dataSource)
  PROVE  DiaryInv /\ DeleteDiary(i) => DiaryInv'
<1> SUFFICES ASSUME DiaryInv, DeleteDiary(i) PROVE DiaryInv'
  OBVIOUS
<1>1. CASE DeleteFindsNothing
  BY <1>1 DEF DeleteFindsNothing, vars, DiaryInv, TypeOK, RowsAreEntries, RowsSorted, Ascending,
              RowsComplete, PendingOnlyAfterFailedSave, GrayIsHint
<1>2. ASSUME NEW items \in Orders(context), NEW k \in 1..Len(dataSource),
             IsRunLength(items, dataSource, i, k), DeleteRows(items, i, k)
      PROVE  DiaryInv'
  <2>1. /\ dataSource' \in Seq(Entries)
        /\ \A m, n \in 1..Len(dataSource') : dataSource'[m] = dataSource'[n] => m = n
        /\ Ascending(dataSource')
        /\ Range(dataSource') = Range(dataSource) \ RunOf(dataSource, i, k)
    BY <1>2, DeleteRowsProperties, Zenon
  <2>2. /\ context' = context \ RunOf(dataSource, i, k)
        /\ store' \in {store, context'} /\ saveFailed' \in BOOLEAN
        /\ context' # store' => saveFailed'
        /\ UNCHANGED <<phase, sheetOpen, note, gray, editing, fetchFailed>>
    BY <1>2 DEF DeleteRows, SaveContext
  <2>3. TypeOK'
    BY <2>1, <2>2 DEF DiaryInv, TypeOK
  <2>4. RowsAreEntries' /\ RowsSorted' /\ RowsComplete'
    BY <2>1, <2>2 DEF DiaryInv, RowsAreEntries, RowsSorted, RowsComplete
  <2>5. PendingOnlyAfterFailedSave' /\ GrayIsHint'
    BY <2>2 DEF DiaryInv, PendingOnlyAfterFailedSave, GrayIsHint
  <2>. QED
    BY <2>3, <2>4, <2>5 DEF DiaryInv
<1>3. ASSUME NEW items, NEW k, DeleteTraps(items, i, k) PROVE DiaryInv'
  BY <1>3, ProcessEndsKeepsInv DEF DeleteTraps
<1>. QED
  BY <1>1, <1>2, <1>3 DEF DeleteDiary

\* The sheet's own handlers, the launch, and steps that change nothing.
LEMMA SheetKeepsInv ==
  DiaryInv /\ (\/ Launch \/ OpenDiarySubView \/ TextViewDidBeginEditing \/ Type
               \/ TextViewDidEndEditing \/ DismissSheet \/ UNCHANGED vars) => DiaryInv'
<1> SUFFICES ASSUME DiaryInv,
                    \/ Launch \/ OpenDiarySubView \/ TextViewDidBeginEditing \/ Type
                    \/ TextViewDidEndEditing \/ DismissSheet \/ UNCHANGED vars
             PROVE  DiaryInv'
  OBVIOUS
<1> USE DEF DiaryInv, Launch, OpenDiarySubView, TextViewDidBeginEditing, Type,
            TextViewDidEndEditing, DismissSheet, FreshSheet, vars
<1>1. UNCHANGED <<context, store, dataSource, fetchFailed, saveFailed>>
  OBVIOUS
<1>2. phase' \in Phases /\ sheetOpen' \in BOOLEAN
  BY DEF TypeOK, Phases
<1>3. note' \in Notes /\ gray' \in BOOLEAN /\ editing' \in BOOLEAN /\ GrayIsHint'
  <2>1. CASE UNCHANGED <<note, gray, editing>>
    BY <2>1 DEF TypeOK, GrayIsHint
  <2>2. CASE TextViewDidBeginEditing
    <3>1. gray' = FALSE /\ editing' = TRUE /\ note' # "hint"
      BY <2>2 DEF GrayIsHint
    <3>2. note' \in Notes
      BY <2>2 DEF TypeOK, Notes
    <3>. QED
      BY <3>1, <3>2 DEF GrayIsHint
  <2>3. CASE Type
    <3>1. ~gray /\ gray' = gray /\ editing' = editing /\ note' # "hint" /\ note' \in Notes
      BY <2>3 DEF GrayIsHint, Notes
    <3>. QED
      BY <3>1 DEF TypeOK, GrayIsHint
  <2>4. CASE TextViewDidEndEditing
    <3>1. editing' = FALSE /\ gray' \in BOOLEAN /\ note' \in Notes
      BY <2>4 DEF TypeOK, Notes
    <3>2. ~gray /\ note # "hint"
      BY <2>4 DEF GrayIsHint
    <3>3. note = "blank" => note' = "hint" /\ gray'
      BY <2>4
    <3>4. note # "blank" => note' = note /\ ~gray'
      BY <2>4, <3>2
    <3>. QED
      BY <3>1, <3>2, <3>3, <3>4 DEF GrayIsHint
  <2>5. CASE DismissSheet
    BY <2>5 DEF GrayIsHint, Notes
  <2>. QED
    BY <2>1, <2>2, <2>3, <2>4, <2>5
<1>4. TypeOK'
  BY <1>1, <1>2, <1>3, Zenon DEF TypeOK
<1>5. RowsAreEntries' /\ RowsSorted' /\ RowsComplete' /\ PendingOnlyAfterFailedSave'
  BY <1>1 DEF RowsAreEntries, RowsSorted, Ascending, RowsComplete, PendingOnlyAfterFailedSave
<1>. QED
  BY <1>3, <1>4, <1>5

-------------------------------------------------------------------------------
\* The invariant holds at the start and is kept by every step.
LEMMA DiaryInvInit == Init => DiaryInv
<1> SUFFICES ASSUME Init PROVE DiaryInv
  OBVIOUS
<1>1. dataSource = <<>> /\ Len(dataSource) = 0 /\ Range(dataSource) = {} /\ dataSource \in Seq(Entries)
  BY EmptySeq DEF Init, Range
<1>2. TypeOK
  BY <1>1 DEF Init, TypeOK, Phases, Notes
<1>3. RowsAreEntries /\ RowsSorted /\ RowsComplete
  BY <1>1 DEF Init, RowsAreEntries, RowsSorted, Ascending, RowsComplete
<1>4. PendingOnlyAfterFailedSave /\ GrayIsHint
  BY DEF Init, PendingOnlyAfterFailedSave, GrayIsHint
<1>. QED
  BY <1>2, <1>3, <1>4 DEF DiaryInv

LEMMA DiaryInvNext == DiaryInv /\ [Next]_vars => DiaryInv'
<1>1. DiaryInv /\ Kill => DiaryInv'
  BY ProcessEndsKeepsInv DEF Kill
<1>. QED
  BY <1>1, ViewDidAppearKeepsInv, SaveKeepsInv, DeleteKeepsInv, SheetKeepsInv DEF Next

\* The type invariant, and with it the list's, the store's and the sheet's
\* safety properties, hold at all times.
THEOREM DiaryInvariant == Spec => []DiaryInv
BY DiaryInvInit, DiaryInvNext, PTL DEF Spec

\* The state keeps its type.
THEOREM DiaryTypeOK == Spec => []TypeOK
<1>1. DiaryInv => TypeOK
  BY DEF DiaryInv
<1>. QED
  BY <1>1, DiaryInvariant, PTL

\* No row of the diary ever shows a deleted object, none is shown twice, and
\* the rows are in date-text order, however fetches and saves turn out.
THEOREM DiaryListIsSound == Spec => [](RowsAreEntries /\ RowsSorted)
<1>1. DiaryInv => RowsAreEntries /\ RowsSorted
  BY DEF DiaryInv
<1>. QED
  BY <1>1, DiaryInvariant, PTL

\* Whatever was added, deleted or failed to be fetched, the rows are in the
\* order of their date texts, which is what getAllItem sorts them by.
THEOREM DiaryRowsSorted == Spec => []RowsSorted
<1>1. DiaryInv => RowsSorted
  BY DEF DiaryInv
<1>. QED
  BY <1>1, DiaryInvariant, PTL

\* The sheet's text is gray exactly while it is the hint, through any editing.
THEOREM DiaryGrayIsHint == Spec => []GrayIsHint
<1>1. DiaryInv => GrayIsHint
  BY DEF DiaryInv
<1>. QED
  BY <1>1, DiaryInvariant, PTL

\* The diary's list misses an entry only when its last fetch failed.
THEOREM DiaryListIsComplete == Spec => []RowsComplete
<1>1. DiaryInv => RowsComplete
  BY DEF DiaryInv
<1>. QED
  BY <1>1, DiaryInvariant, PTL

\* What the context holds and the store does not, or the other way round, is
\* there because a save failed.
THEOREM DiaryPending == Spec => []PendingOnlyAfterFailedSave
<1>1. DiaryInv => PendingOnlyAfterFailedSave
  BY DEF DiaryInv
<1>. QED
  BY <1>1, DiaryInvariant, PTL

\* Whatever order the fetch of deleteDiary returns, a list of two rows or more has
\* one that cannot be deleted as the swipe's title says: another row goes with
\* it, or the process ends.
SomeRowIsNotDeletable ==
  Len(dataSource) >= 2 =>
    \A items \in Orders(context) : \E i, k \in 1..Len(dataSource) :
      /\ IsRunLength(items, dataSource, i, k)
      /\ k > 1 \/ ReadsPastEnd(items, dataSource, i, k)

\* Where the fetch returns the entries of a complete list as they are listed, a
\* deletion takes the swiped row and all rows below it, without a trap.
TakesTheRest ==
  ~fetchFailed =>
    \A items \in Orders(context) :
      (\A j, m \in 1..Len(dataSource) :
         j < m => Place(items, dataSource[j]) < Place(items, dataSource[m])) =>
      \A i, k \in 1..Len(dataSource) :
        IsRunLength(items, dataSource, i, k) =>
          i + k - 1 = Len(dataSource) /\ ~ReadsPastEnd(items, dataSource, i, k)

\* What the rows are to a fetch of the context.
LEMMA RowsAreFetched ==
  ASSUME DiaryInv
  PROVE  /\ IsFiniteSet(context) /\ dataSource \in Seq(context) /\ NoRepeats(dataSource)
         /\ ~fetchFailed => context = Range(dataSource)
<1>1. /\ context \in SUBSET Entries /\ dataSource \in Seq(Entries)
      /\ Range(dataSource) \subseteq context
      /\ \A j, k \in 1..Len(dataSource) : dataSource[j] = dataSource[k] => j = k
      /\ ~fetchFailed => context \subseteq Range(dataSource)
  BY DEF DiaryInv, TypeOK, RowsAreEntries, RowsComplete
<1>2. IsFiniteSet(context)
  BY <1>1, EntriesAssumption, FS_Subset, Zenon
<1>3. dataSource \in Seq(context)
  <2>1. Len(dataSource) \in Nat /\ dataSource \in [1..Len(dataSource) -> Entries]
    BY <1>1, LenProperties
  <2>2. \A j \in 1..Len(dataSource) : dataSource[j] \in context
    BY <1>1, <2>1, RangeEquality
  <2>. QED
    BY <2>1, <2>2
<1>. QED
  BY <1>1, <1>2, <1>3 DEF NoRepeats

\* No fetch order makes every row of a longer list deletable.
THEOREM DiaryHasUndeletableRows == Spec => []SomeRowIsNotDeletable
<1>1. DiaryInv => SomeRowIsNotDeletable
  BY RowsAreFetched, SomeRowTakesMore DEF SomeRowIsNotDeletable
<1>. QED
  BY <1>1, DiaryInvariant, PTL

\* A fetch in the list's own order deletes from the swiped row to the end.
THEOREM DiaryTakesTheRest == Spec => []TakesTheRest
<1>1. DiaryInv => TakesTheRest
  <2> SUFFICES ASSUME DiaryInv, ~fetchFailed, NEW items \in Orders(context),
                      \A j, m \in 1..Len(dataSource) :
                        j < m => Place(items, dataSource[j]) < Place(items, dataSource[m]),
                      NEW i \in 1..Len(dataSource), NEW k \in 1..Len(dataSource),
                      IsRunLength(items, dataSource, i, k)
               PROVE  i + k - 1 = Len(dataSource) /\ ~ReadsPastEnd(items, dataSource, i, k)
    BY DEF TakesTheRest
  <2>1. /\ IsFiniteSet(context) /\ dataSource \in Seq(context) /\ NoRepeats(dataSource)
        /\ context = Range(dataSource)
    BY RowsAreFetched
  <2>. QED
    BY <2>1, ListOrderTakesTheRest
<1>. QED
  BY <1>1, DiaryInvariant, PTL

\* A deletion keeps the rows above the swiped one and removes what it unlists.
THEOREM DiaryDeleteKeepsRowsAbove == Spec => DeleteKeepsRowsAbove
<1> DEFINE Kept ==
      \A i \in 1..Len(dataSource) :
        context' # context /\ phase' = "shown" /\ DeleteDiary(i) =>
          /\ SubSeq(dataSource', 1, i - 1) = SubSeq(dataSource, 1, i - 1)
          /\ dataSource[i] \notin context'
          /\ context \ context' = Range(dataSource) \ Range(dataSource')
<1>1. DiaryInv => Kept
  <2> SUFFICES ASSUME DiaryInv, NEW i \in 1..Len(dataSource),
                      context' # context, phase' = "shown", DeleteDiary(i)
               PROVE  /\ SubSeq(dataSource', 1, i - 1) = SubSeq(dataSource, 1, i - 1)
                      /\ dataSource[i] \notin context'
                      /\ context \ context' = Range(dataSource) \ Range(dataSource')
    OBVIOUS
  <2>1. PICK items \in Orders(context), k \in 1..Len(dataSource) :
          IsRunLength(items, dataSource, i, k) /\ DeleteRows(items, i, k)
    BY DEF DeleteDiary, DeleteFindsNothing, DeleteTraps, ProcessEnds, vars
  <2>2. /\ Range(dataSource') = Range(dataSource) \ RunOf(dataSource, i, k)
        /\ RunOf(dataSource, i, k) \subseteq Range(dataSource)
        /\ dataSource[i] \in RunOf(dataSource, i, k)
        /\ SubSeq(dataSource', 1, i - 1) = SubSeq(dataSource, 1, i - 1)
    BY <2>1, DeleteRowsProperties, Zenon
  <2>3. context' = context \ RunOf(dataSource, i, k) /\ Range(dataSource) \subseteq context
    BY <2>1 DEF DeleteRows, DiaryInv, RowsAreEntries
  <2>. QED
    BY <2>2, <2>3
<1>. QED
  BY <1>1, DiaryInvariant, PTL DEF Spec, DeleteKeepsRowsAbove

\* The diary keeps its entries as DurableSet promises: each save is all or
\* nothing, and only the end of the process undoes what was not saved.
THEOREM DiaryImplementsDurableSet == Spec => ImplementsDurableSet
<1> USE DEF Durable!durableVars
<1>1. Init => Durable!DurableInit
  BY DEF Init, Durable!DurableInit
<1>2. DiaryInv /\ [Next]_vars => [Durable!DurableNext]_(Durable!durableVars)
  <2> SUFFICES ASSUME DiaryInv, [Next]_vars
               PROVE  Durable!DurableNext \/ UNCHANGED <<context, store>>
    OBVIOUS
  <2>1. ASSUME NEW e \in Entries, SaveButtonClicked(e) PROVE Durable!DurableNext
    <3>1. Durable!Add(e)
      BY <2>1 DEF SaveButtonClicked, SaveContext, Durable!Add, Durable!Change
    <3>. QED
      BY <3>1 DEF Durable!DurableNext
  <2>2. ASSUME ProcessEnds PROVE Durable!DurableNext
    BY <2>2 DEF ProcessEnds, Durable!DurableNext, Durable!Lose
  <2>3. ASSUME NEW i \in 1..Len(dataSource), DeleteDiary(i)
        PROVE  Durable!DurableNext \/ UNCHANGED <<context, store>>
    <3>1. CASE DeleteFindsNothing
      BY <3>1 DEF DeleteFindsNothing, vars
    <3>2. ASSUME NEW items \in Orders(context), NEW k \in 1..Len(dataSource),
                 IsRunLength(items, dataSource, i, k), DeleteRows(items, i, k)
          PROVE  Durable!DurableNext
      <4> DEFINE R == RunOf(dataSource, i, k)
      <4>1. R # {} /\ R \subseteq context
        BY <3>2, DeleteRowsProperties, Zenon DEF DiaryInv, RowsAreEntries
      <4>2. context' = context \ R /\ store' \in {store, context'}
        BY <3>2 DEF DeleteRows, SaveContext
      <4> HIDE DEF R
      <4>3. Durable!Remove(R)
        BY <4>1, <4>2 DEF Durable!Remove, Durable!Change
      <4>. QED
        BY <4>1, <4>3 DEF Durable!DurableNext
    <3>3. ASSUME NEW items, NEW k, DeleteTraps(items, i, k) PROVE Durable!DurableNext
      BY <2>2, <3>3 DEF DeleteTraps
    <3>. QED
      BY <2>3, <3>1, <3>2, <3>3 DEF DeleteDiary
  <2>4. CASE \/ Launch \/ ViewDidAppear \/ OpenDiarySubView \/ TextViewDidBeginEditing \/ Type
             \/ TextViewDidEndEditing \/ DismissSheet \/ UNCHANGED vars
    BY <2>4 DEF Launch, ViewDidAppear, OpenDiarySubView, TextViewDidBeginEditing, Type,
                TextViewDidEndEditing, DismissSheet, vars
  <2>. QED
    BY <2>1, <2>2, <2>3, <2>4 DEF Next, Kill
<1>. QED
  BY <1>1, <1>2, DiaryInvariant, PTL DEF Spec, ImplementsDurableSet, Durable!DurableSpec
===============================================================================
