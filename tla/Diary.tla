--------------------------------- MODULE Diary ---------------------------------
(***************************************************************************)
(* The emoji diary: MainViewController and its view model (the list), the  *)
(* DiarySubviewController sheet that writes an entry, and the Core Data    *)
(* context and store they share.                                           *)
(*                                                                         *)
(* Everything runs on the main thread, so each handler is one action.      *)
(* What is not in the program's hands is chosen freely: whether a fetch or *)
(* a save succeeds, the order a fetch returns the entries in, and when the *)
(* process ends.                                                           *)
(***************************************************************************)
EXTENDS DeleteRun

CONSTANTS Entries, \* the Diary objects that may be created
          DateOf   \* the place of an entry's date text in string order

ASSUME EntriesAssumption == IsFiniteSet(Entries)
ASSUME DatesAssumption == DateOf \in [Entries -> Nat]

VARIABLES
  phase,      \* "off"; "loaded": viewDidLoad has run; "shown": the list is up
  context,    \* entries of viewContext, pending inserts in, pending deletes out
  store,      \* entries in the SQLite store
  dataSource, \* MainControllerViewModel.dataSource, the rows of the table
  sheetOpen,  \* the DiarySubviewController is presented
  note,       \* noteTextView.text: "hint" (the text Placeholder), "blank", "typed"
  gray,       \* noteTextView.textColor is lightGray
  editing,    \* noteTextView is being edited
  fetchFailed, \* history: the last getAllItem kept its rows (or none ran yet)
  saveFailed   \* history: the last save of this process failed

storeVars == <<context, store>>
sheetVars == <<sheetOpen, note, gray, editing>>
vars == <<phase, context, store, dataSource, sheetOpen, note, gray, editing,
          fetchFailed, saveFailed>>

Phases == {"off", "loaded", "shown"}
Notes == {"hint", "blank", "typed"}

\* checkTheDate: the rows do not descend by date text, equal ones in any order.
Ascending(rows) == \A j, k \in 1..Len(rows) : j < k => DateOf[rows[j]] <= DateOf[rows[k]]

\* What dataSource.sort may leave, given the set of entries it holds.
Sorted(S) == {rows \in Orders(S) : Ascending(rows)}

\* The sheet as viewDidLoad leaves it; also its value while it is not presented.
FreshSheet == note' = "hint" /\ gray' = TRUE /\ editing' = FALSE

Init == /\ phase = "off" /\ context = {} /\ store = {} /\ dataSource = <<>>
        /\ sheetOpen = FALSE /\ note = "hint" /\ gray = TRUE /\ editing = FALSE
        /\ fetchFailed = TRUE /\ saveFailed = FALSE

\* Mutant of GetAllItem: the rows are shown as the fetch returned them.
GetAllItemMutant(entries) ==
  \E ok \in BOOLEAN :
    /\ dataSource' \in Orders(IF ok THEN entries ELSE Range(dataSource))
    /\ fetchFailed' = ~ok

\* getAllItem over the context's entries: a failed fetch keeps the rows, which
\* are sorted again all the same.
GetAllItem(entries) ==
  \E ok \in BOOLEAN :
    /\ dataSource' \in Sorted(IF ok THEN entries ELSE Range(dataSource))
    /\ fetchFailed' = ~ok

\* Mutant of SaveContext: deletions do not reach the store.
SaveContextMutant(entries) ==
  \E ok \in BOOLEAN :
    /\ store' = IF ok THEN store \cup entries ELSE store
    /\ saveFailed' = ~ok

\* context.save(): all that is pending reaches the store, or nothing does and
\* the failure is only printed.
SaveContext(entries) ==
  \E ok \in BOOLEAN :
    /\ store' = IF ok THEN entries ELSE store
    /\ saveFailed' = ~ok

\* The process ends, taking what was not saved with it.
ProcessEnds ==
  /\ phase' = "off" /\ context' = store /\ store' = store /\ dataSource' = <<>>
  /\ sheetOpen' = FALSE /\ FreshSheet
  /\ fetchFailed' = TRUE /\ saveFailed' = FALSE

-------------------------------------------------------------------------------
\* The process starts and MainViewController.viewDidLoad runs.  It asks for the
\* sheet before its view is in a window, so UIKit may or may not present it.
Launch ==
  /\ phase = "off"
  /\ phase' = "loaded"
  /\ sheetOpen' \in BOOLEAN
  /\ UNCHANGED <<context, store, dataSource, note, gray, editing, fetchFailed, saveFailed>>

\* The list comes on screen: at launch, from another tab, from the login screen.
ViewDidAppear ==
  /\ phase = "loaded" \/ (phase = "shown" /\ ~sheetOpen)
  /\ phase' = "shown"
  /\ GetAllItem(context)
  /\ UNCHANGED <<context, store, sheetOpen, note, gray, editing, saveFailed>>

OpenDiarySubView ==
  /\ phase = "shown" /\ ~sheetOpen
  /\ sheetOpen' = TRUE
  /\ UNCHANGED <<phase, context, store, dataSource, note, gray, editing, fetchFailed, saveFailed>>

TextViewDidBeginEditing ==
  /\ phase = "shown" /\ sheetOpen /\ ~editing
  /\ editing' = TRUE
  /\ note' = IF gray THEN "blank" ELSE note
  /\ gray' = FALSE
  /\ UNCHANGED <<phase, context, store, dataSource, sheetOpen, fetchFailed, saveFailed>>

\* The user types or erases.
Type ==
  /\ editing
  /\ note' \in {"blank", "typed"}
  /\ UNCHANGED <<phase, context, store, dataSource, sheetOpen, gray, editing, fetchFailed, saveFailed>>

\* Mutants of TextViewDidEndEditing: the hint is written with another text than
\* at first; or it comes back in the ink of a note.
TextViewDidEndEditingOtherHint ==
  /\ editing
  /\ editing' = FALSE
  /\ note' = IF note = "blank" THEN "other hint" ELSE note
  /\ gray' = (gray \/ note = "blank")
  /\ UNCHANGED <<phase, context, store, dataSource, sheetOpen, fetchFailed, saveFailed>>

TextViewDidEndEditingMutant ==
  /\ editing
  /\ editing' = FALSE
  /\ note' = IF note = "blank" THEN "hint" ELSE note
  /\ UNCHANGED <<phase, context, store, dataSource, sheetOpen, gray, fetchFailed, saveFailed>>

TextViewDidEndEditing ==
  /\ editing
  /\ editing' = FALSE
  /\ note' = IF note = "blank" THEN "hint" ELSE note
  /\ gray' = (gray \/ note = "blank")
  /\ UNCHANGED <<phase, context, store, dataSource, sheetOpen, fetchFailed, saveFailed>>

\* The sheet is swept away without saving.
DismissSheet ==
  /\ phase = "shown" /\ sheetOpen
  /\ sheetOpen' = FALSE /\ FreshSheet
  /\ UNCHANGED <<phase, context, store, dataSource, fetchFailed, saveFailed>>

\* Mutant of SaveButtonClicked: the delegate is not told to reload.
SaveButtonClickedMutant(e) ==
  /\ phase = "shown" /\ sheetOpen
  /\ e \notin context \cup store
  /\ context' = context \cup {e}
  /\ SaveContext(context')
  /\ sheetOpen' = FALSE /\ FreshSheet
  /\ UNCHANGED <<phase, dataSource, fetchFailed>>

\* saveButtonClicked: the entry is inserted and saved, the delegate's reloadData
\* fetches the list anew, the sheet goes.
SaveButtonClicked(e) ==
  /\ phase = "shown" /\ sheetOpen
  /\ e \notin context \cup store
  /\ context' = context \cup {e}
  /\ SaveContext(context')
  /\ GetAllItem(context')
  /\ sheetOpen' = FALSE /\ FreshSheet
  /\ UNCHANGED phase

\* deleteDiary(at: i) when its fetch throws: nothing but a reload of the table.
DeleteFindsNothing == UNCHANGED vars

\* Mutants of DeleteRows: the rows stay in the table; or nothing is saved.
DeleteRowsKeepsRows(items, i, k) ==
  /\ ~ReadsPastEnd(items, dataSource, i, k)
  /\ context' = context \ RunOf(dataSource, i, k)
  /\ SaveContext(context')
  /\ UNCHANGED <<phase, dataSource, sheetOpen, note, gray, editing, fetchFailed>>

DeleteRowsUnsaved(items, i, k) ==
  /\ ~ReadsPastEnd(items, dataSource, i, k)
  /\ context' = context \ RunOf(dataSource, i, k)
  /\ dataSource' = Cut(dataSource, i, k)
  /\ UNCHANGED <<phase, store, sheetOpen, note, gray, editing, fetchFailed, saveFailed>>

\* deleteDiary(at: i) when the walk over the fetched entries comes to its end.
DeleteRows(items, i, k) ==
  /\ ~ReadsPastEnd(items, dataSource, i, k)
  /\ context' = context \ RunOf(dataSource, i, k)
  /\ dataSource' = Cut(dataSource, i, k)
  /\ SaveContext(context')
  /\ UNCHANGED <<phase, sheetOpen, note, gray, editing, fetchFailed>>

\* deleteDiary(at: i) when the walk reads past the rows: the process traps
\* before the save.
DeleteTraps(items, i, k) ==
  ReadsPastEnd(items, dataSource, i, k) /\ ProcessEnds

\* The swipe action of row i.
DeleteDiary(i) ==
  /\ phase = "shown" /\ ~sheetOpen
  /\ i \in 1..Len(dataSource)
  /\ \/ DeleteFindsNothing
     \/ \E items \in Orders(context), k \in 1..Len(dataSource) :
          /\ IsRunLength(items, dataSource, i, k)
          /\ DeleteRows(items, i, k) \/ DeleteTraps(items, i, k)

\* The system or the user ends the process.
Kill == phase # "off" /\ ProcessEnds

Next == \/ Launch
        \/ ViewDidAppear
        \/ OpenDiarySubView
        \/ TextViewDidBeginEditing
        \/ Type
        \/ TextViewDidEndEditing
        \/ DismissSheet
        \/ \E e \in Entries : SaveButtonClicked(e)
        \/ \E i \in 1..Len(dataSource) : DeleteDiary(i)
        \/ Kill

Spec == Init /\ [][Next]_vars

-------------------------------------------------------------------------------
TypeOK == /\ phase \in Phases
          /\ context \in SUBSET Entries
          /\ store \in SUBSET Entries
          /\ dataSource \in Seq(Entries)
          /\ sheetOpen \in BOOLEAN
          /\ note \in Notes
          /\ gray \in BOOLEAN
          /\ editing \in BOOLEAN
          /\ fetchFailed \in BOOLEAN
          /\ saveFailed \in BOOLEAN

\* No row shows an object that was deleted from the context, and no entry has
\* two rows: deleteDiary takes the object and its row out together.
RowsAreEntries ==
  /\ Range(dataSource) \subseteq context
  /\ \A j, k \in 1..Len(dataSource) : dataSource[j] = dataSource[k] => j = k

\* The rows are in date-text order at all times, also after a deletion, which
\* does not sort, and after a fetch that failed.
RowsSorted == Ascending(dataSource)

\* The list misses an entry only when its last getAllItem failed: writing and
\* deleting keep it complete without any other refresh.
RowsComplete == ~fetchFailed => context \subseteq Range(dataSource)

\* Changes are pending only after a save that failed, so an entry is at risk of
\* being lost with the process (or a deleted one of coming back) only then.
PendingOnlyAfterFailedSave == context # store => saveFailed

\* The gray text is the hint and nothing else, and never while editing: typed
\* text is not taken for the hint, which the next touch would erase.
GrayIsHint == (gray <=> note = "hint") /\ (gray => ~editing)

\* A deletion leaves every row above the swiped one where it was, removes the
\* swiped one, and never removes entries that are not listed.
DeleteKeepsRowsAbove ==
  [][\A i \in 1..Len(dataSource) :
       context' # context /\ phase' = "shown" /\ DeleteDiary(i) =>
         /\ SubSeq(dataSource', 1, i - 1) = SubSeq(dataSource, 1, i - 1)
         /\ dataSource[i] \notin context'
         /\ context \ context' = Range(dataSource) \ Range(dataSource')]_vars

\* The context and the store together keep the promise of DurableSet.
Durable == INSTANCE DurableSet WITH Elements <- Entries, view <- context, saved <- store
ImplementsDurableSet == Durable!DurableSpec

\* Said by the swipe action, whose title is Delete and whose handler passes one
\* row (MainViewController.swift:92-94), and by the catch clause, where the author
\* means a failed deletion to end (MainControllerViewModel.swift:47-49): the
\* process lives through a deletion, which removes that row only.
DeleteTakesOneRow ==
  [][\A i \in 1..Len(dataSource) :
       DeleteDiary(i) => phase' # "off" /\ Len(dataSource') >= Len(dataSource) - 1]_vars
===============================================================================
