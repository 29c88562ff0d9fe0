# Soliu, specified

TLA+ specifications of the Soliu iOS app (`src/Soliu/Soliu`, Swift, about 2,150
lines): an emoji diary kept in Core Data, a questionnaire on mental health whose
results are filed with Firebase, and the accounts it is filed under; and of the
part of the Firestore client (`src/Soliu/Pods/FirebaseFirestore`, C++) that has to
bring those results to the server.  Paths below are relative to `src/Soliu/Soliu`;
`M` stands for `Modules`, `F` for `../Pods/FirebaseFirestore/Firestore/core/src`.

## 1. The system

The app has three tabs, each a navigation stack: **Diary**, **Test** and
**Profile**.  Everything the app itself does runs on the main thread, one handler
at a time.  What makes it concurrent is what it does not control: answers of
Firebase Auth and Firestore, a timer, touch events with several fingers, and the
end of the process at any moment.

The Firestore client runs on a thread of its own, the worker queue, also one
handler at a time.  It hears of accounts and tokens from Firebase Auth by way of
the main queue, and of the server by the events of its streams.

| Component | State | Operations | Talks to |
|---|---|---|---|
| Diary list (`M/MainScreen/Controller/MainViewController.swift`, `ViewModel/MainControllerViewModel.swift`) | `dataSource`, the rows | `getAllItem`, `deleteDiary(at:)`, appearing, swiping | view context (shared with the sheet), sheet (delegate) |
| Diary sheet (`Controller/DiarySubviewController.swift`, `ViewModel/DiarySubviewModel.swift`) | the note's text and colour | editing, `saveButtonClicked` | view context, list (`reloadData`) |
| Core Data stack (`Common/AppDelegate.swift`) | context and store | `save`, `fetch` | - |
| Start screen (`NewStartTestScreenViewController`) | - | `isLoggedIn`, `togoTest` | Auth, questionnaire |
| Questionnaire (`TestDetailViewController`, `TestDetailViewModel`) | `currentCount`, `testScore`, `currentQuestionCount` | `touchAnswer1..5`, `increaseProgress`, `uploadScore` | `SupportFirebase`, realtime database, spinner |
| Spinner, result (`LoadingSpinner`, `TestResultViewController`) | a timer | `moveToResultScreen`, `gotoTestScreen` | the stack |
| `SupportFirebase` (`M/Extension +/SupportFirebase.swift`) | `currentUser`, read once | `updateTestScore`, `updateAllTestScore`, `signOut`, `isLoggedIn` | Auth, Firestore |
| Login, register (`LoginViewController`, `RegisterViewController`) | requests under way | `signIn`, `register`, `writeData` | Auth, Firestore, two stacks |
| Profile (`ProfileViewController`, `ProfileViewModel`) | `testInformation`, `allTestResult` | `readTestResult`, the averages, the alert | Firestore, `SupportFirebase` |
| Firestore client, writes (`F/core/sync_engine.cc`, `F/local/leveldb_mutation_queue.cc`, `F/remote/remote_store.cc`, `stream.cc`, `write_stream.cc`, `grpc_stream.cc`, `F/auth/firebase_credentials_provider_apple.mm`) | a persisted queue of writes for each user, batch ids, completions, the pipeline, the stream with its timers, the token counter | `WriteMutations`, `HandleCredentialChange`, `FillWritePipeline`, the stream's handlers | Auth (tokens, account changes), the server |
| Firebase Auth (`../Pods/FirebaseAuth/.../FIRAuth.m`) | the current user, in the keychain | sign in, create, sign out, `getToken` | notification and callbacks on the main queue |
| Firebase servers (external) | accounts, documents, rules | answers | the client's stream |

What is hard, and what makes each part correct:

- **Deleting.** The loop of `deleteDiary(at:)` changes the array it indexes while it
  walks another one.  Correct: the rows stay entries of the context, in order,
  complete; nothing above the swiped row moves.
- **Fetches and saves fail silently.**  Correct: what is on the screen, in the context
  and in the store differ only as the last failures allow, and a process that
  ends loses no more than that.
- **One touch, several handlers.** The answer buttons are not exclusive.  Correct: the
  test that is filed is the answers to the questions as they were shown.
- **A timer without a cancel.** Correct: each spinner shows one result, and ends.
- **Accounts change under a uid that was read once.** Correct: a result is never filed
  under somebody else unless the account changed in that process.
- **Two writes, no acknowledgement, a queue for each user, writes sent again.** Correct:
  the own copy is answered before the common one, no copy is lost that the other has,
  and a result that was answered is not wiped by a profile written again.
- **Accounts change on another thread, and are told through two queues.** Correct: a
  user's writes go out with that user's token.
- **Batch ids are used again, answers are matched by position.** Correct: a completion is
  called for the write it was given with, the first row is the one answered.
- **Streams break, time out, are refused, restarted.** Correct: no write is skipped, undone
  or left with nothing that will send it; no assertion fails but on an end of the stream
  that the client takes for its own.
- **Rounds of reads that share two fields.** Correct: the chart left on the screen is of
  what was read last, of the user who came to it, and the spinner stops.
- **The same sums, written three times.** Correct: each counts every answer once.
- **Late callbacks on navigation stacks.** Correct: a callback never pops a screen that
  is not its own, or the root.

PROJECT.json lists every component, also those without a model (section 6), and every
hazard with the line where it bites.

## 2. The modules

| Module | Models |
|---|---|
| `DurableSet` | abstract: what a set kept through a Core Data context promises |
| `DeleteRun` | operators: what one call of `deleteDiary(at:)` removes |
| `DeleteLoop` | that call, one iteration a step |
| `Diary` | list, sheet, context and store; implements `DurableSet`, uses `DeleteRun` |
| `Questionnaire` | the Test tab: start screen, questionnaire, spinner, result |
| `LoginScreens` | login and register screens on two stacks, alerts, late callbacks |
| `WriteQueue` | abstract: what the Firestore client promises of the writes it is handed |
| `WritePipeline` | the client's write path; implements `WriteQueue` |
| `Firestore` | `WriteQueue` with the app's writes, and the server's documents (external) |
| `Session` | Auth, the cached uid, registering, filing a test; extends `Firestore` |
| `Scores` | operators: the averages of Profile, and the sums `uploadData` stores |
| `Profile` | the Profile tab: rounds of two reads, their answers, the chart; extends `Scores` |
| `MC...` | small instances for TLC |
| `DeleteRunProofs`, `DeleteLoopProofs`, `DiaryProofs`, `QuestionnaireProofs`, `LoginScreensProofs`, `SessionProofs`, `ProfileProofs`, `WritePipelineProofs` | lemmas and theorems |

**Diary.** `context` and `store` are sets of entries (the pending changes are their
difference), `dataSource` the rows.  `Launch` is `viewDidLoad`, which asks for the sheet
before the view is in a window, so the sheet may or may not come; `ViewDidAppear`
fetches.  `GetAllItem` sorts what it has also when the fetch throws, as the code
does after its `catch`.  `SaveButtonClicked` is the whole handler: insert, save (or
not), the delegate's `reloadData`, dismissal.  `DeleteDiary(i)` is the whole swipe
handler: `DeleteFindsNothing` when the fetch throws, else the loop in one step,
with the run of `k` rows it removes, and `DeleteTraps` when it reads past the end.
Entries are model values; `DateOf` gives the place of their date text in string
order, which is all the sort sees.  Equal texts may come in any order because
`checkTheDate` is not a strict comparison and `sort` is not stable for it.

**DeleteLoop** has the loop as it is written (`Trap`, `Match`, `Pass`, `Finish`) and shows
that it removes exactly the run that `DeleteRun` defines, so that `Diary` may take it
in one step: nothing else runs on the main thread during the loop.

**Questionnaire.** `nav` is the stack.  YES pushes two questionnaires (the storyboard's
segue and the action both push); the upper one is the one answered, and the
variables are its.  An event that lifts the fingers `S` puts them into `lifting`;
`TouchAnswer(b)` is one answer handler, and no timer or other event comes between
the handlers of one event.  `increaseProgress` is `ShowNextQuestion` or `FinishTest`;
`UploadScore` follows in the same handler.  `timers` counts running timers of
spinners that are on the stack; one that was popped has no navigation controller
and its timer does nothing.  The segue identifier `testLoginScreen` names two segues
of the start screen (Main.storyboard:1060 and 1082): `IsLoggedIn` covers the one that
pushes; the popup changes nothing.  `given`, `filed` and `uploaded` are history.

**LoginScreens.** `depth[s]` is the height of a stack (root, login, register).  A request
remembers the stack of its screen, or `"gone"` once `PopTo` has taken the screen
off: the closures hold the controller, but its `navigationController` is nil.
`SignedIn` pops the top of that stack, which may be the register screen.  Alerts
cover the window; a second one is not presented.  `unasked` records that Profile
came up under another alert.

**WriteQueue.** For each client a queue of writes without an answer; the first `ahead` of
the current one are applied on the server.  An acknowledgement or a refusal drops the
first; whatever cuts the connection sets `ahead` to nothing, and the server is sent the
queue again from its first write.  So a write is applied at least once, in order.

**WritePipeline** has one action for each handler.  `WriteMutations` is the app's call up to
the filled pipeline; `FillWritePipeline`, `Start` and `RestartNetwork` are operators, as
they end most handlers.  A change of account is `AuthChanges` (on another thread), then
a block of `main` (`Notified`: the token counter, on to the worker), then a block of `worker`
(`HandleCredentialChange`).  A token is asked for in `Start`; the answer goes the same way,
to be asked for again when the counter has moved on (`TokenAnswered`) and dropped when
the stream's close count has (`ResumeStart`).  `asked` is a set: the answers to calls
that are alike are alike, and `as` are the users Auth had since the call.
`stream.idle` and `stream.backoff` are its two timers.  The connection is `requests` and
`responses`; a stream that fails loses both, and if the server had refused a write
the responses before the refusal may be lost with it (`OnStreamFinish` may come before the
reads), as `FinishGrpcCall` discards what was not read.  Failed assertions set `failed`, where the
model ends.

A stream can also end with the status OK.  `Stream::OnStreamFinish` passes on whatever
status gRPC reports, and `OnWriteStreamClose` takes OK for a graceful stop, of the idle timer
or of `Stop` (`remote_store.cc:454`), and asserts that the stream is not needed.  `ServerEnds` is
that end: with an empty pipeline it is `StopGracefully`, as for the idle timer; with writes in
it the assertion ends the process (`ProcessEnds`) and `failed` is set.  The state it leaves is one
that `Kill` leaves, at the same price of a fault, so what a launch after it does is covered there.
Whether the Firestore service ever ends a write stream with OK is not in the repository.

`made`, `doc`, `acked` and `faults` are history and bounds.

What the model takes for granted of the server: it handles the requests of one stream
in order, stops with the first it refuses, and applies none of a stream that has ended.
Batches of one mutation are numbers; what a local view makes of them is left out.

**Firestore** instantiates `WriteQueue`, so `Session` stands on what `WritePipeline` is shown
to implement.  `updateData` of a missing document fails; rules may refuse anything;
`arrayUnion` adds nothing twice; `setData` replaces the document.  Nothing in the app creates
All_Test_Score, so it may be missing.

**Session.** `Grant` changes Auth's current user; the notification and the callback
`WriteData` are blocks on the main queue (`RunMain`), between which other handlers may run.
`Configure` is the first screen that has a Firestore: from then on there is a client,
which begins with the user Auth has at that moment and is told of a change by the
notification.  The profile is put into the queue of whoever the client was told of last.
`cached` is the singleton's uid: `ProfileAppears`, `SignOut` and `FinishTest` are the uses
that create it.  `FinishTest` is the end of the questionnaire in one step; with an empty
uid, `document("")`, the process traps.  What it hands to the realtime database is
in `Questionnaire`.  The screens are left to `LoginScreens`: here every handler may
be called whenever its own conditions hold, which allows more than the app does.
The worker queue is not in it: its steps are taken with the main queue's that put them
there, since both queues keep their order, and a kill before the worker had stored a
write is a kill before the handler that made it.  The two writes of a test are stored
one by one: a kill between them is `KillInFinishTest`.  `switched`, `taken`, `mishaps`, `refused`
are history; a test carries who took it, whose queue it was put into (`kept`) and whether
the account had been the same since the uid was read (`sure`).

**Scores.** An average is the fraction it is, sum over divisor; rounding and the NaN of
a division by no tests are left out, the trap on a test without answers is not.
Each of the three places in the code that add up answers has its own table of
places.

**Profile.** `rounds` counts, for each uid and set of reads that have no answer yet, the
rounds there are; a round with no reads left is a notification on the main queue.
Rounds alike are not told apart, which is sound because they share the view model
and its two fields.  `Appear` is `viewWillAppear`, and the first time `viewDidLoad` before
it, so it starts two rounds then; the two uids may differ, since Auth changes its
user on another thread.  The uid is an input: who is signed in when is the matter
of `Session`.  `OwnAnswered` and `AllAnswered` are the completion handlers: a missing
document and an error arrive as success with nil (`document?.data(as:)`), a document
that does not decode as the default.  `CalculateTestScore` is the notification, the
averages and `reloadData` in one step; `Chart` has no value for fields with a test
that is too short, and there the process ends.  `appeared` and `overlap` are history.

## 3. The runs

| Run | Shows | Bounds |
|---|---|---|
| `diary` | rows are entries, sorted, complete; pending only after a failed save; the hint and its colour agree; deletion leaves the rows above; `DurableSet` is implemented | 4 entries, two with one date text: runs of 1 to 4 rows, ties, and rows on both sides of the swiped one |
| `delete_loop` | the loop removes the run that `Diary` takes | every call with up to 4 entries |
| `questionnaire` | counters in step, the filed array is the answers, one upload, extra filings bounded, one result for each spinner, spinners end | 4 questions, 3 buttons (events with 1 to 3 fingers), stacks up to 8 screens when one is opened: two tests above each other |
| `login_screens` | callbacks own their screens, the registered alert is on its screen, Profile asks | 3 requests under way: two taps and a registration |
| `session` | results are their takers', own copy first, none of its copies lost, accounts get profiles, answered results stay, also when the process is killed between the two writes | 2 users (symmetric), 1 test, 2 requests and notifications under way |
| `write_pipeline` | no assertion fails but when the server ends a needed stream with OK; writes go out as their user's, completions are their writes', acknowledged writes are not undone; `WriteQueue` is implemented | 2 clients, 3 writes, room for 2, 2 faults |
| `write_delivery` | a write of the user who stays signed in is answered | 2 clients, 2 writes, room for 1, 2 faults |
| `profile` | the chart is of what was read, of the right user, its bars agree and add up, the indicator stops | 2 users and nobody, 2 rounds under way: those of the first appearance, or two of different users |
| `diary_delete` | **violated**: a swipe deletes its row, and the app lives on | as `diary` |
| `session_trap` | **violated**: somebody signed in can finish a test | as `session`, 1 request under way |
| `session_wrong_user` | **violated**: a test is filed under who took it | as `session`, 1 request under way |
| `profile_trap` | **violated**: Profile draws its graphs | as `profile` |

The documents of `profile` are those the app writes, whose first entry has no answers,
and documents without that entry, which have to come from elsewhere (as
All_Test_Score has to): without them Profile would show nothing but the default.
With three rounds under way the run's invariants hold as well (83,965 states),
and the theorems say so of its types and of what is shown, for any number; only its
liveness property makes that too slow for TLC.

The properties of `session` speak of one test and one account at a time, each
against whatever the other user does, so one test is enough (4.0 million states);
two requests or notifications under way are what lets an account change twice before
the client hears of it.  The theorems say the same for any number of each.

A fault, in the `write_...` runs, is a change of account or token, an answer of Auth without
a token, a broken stream, one the server ends with OK, a refused handshake, a change of connectivity or the end of the
process: each brings the client back to one of a few starting points, and two of them
are what meets in the hazards (an account change behind a token that is on its way, a
restart behind a broken stream).  `FailsOnlyOnServerEnd` is about steps: the one exception it names
is reached in the run, and is not among the violated runs below because only the server's
behaviour, of which the repository says nothing, could make it happen.  Refused writes are not counted.  Three writes, with room
for two in the pipeline, leave one in the queue alone.  Both stop when the writes are
made and the faults used up, hence `CHECK_DEADLOCK FALSE`.

`delete_loop` alone stops for good: its `CHECK_DEADLOCK FALSE` is the method's return.

**What the violated runs show.**

1. *A swipe can delete several entries, or end the process.* After
   `dataSource.remove(at: index)` (`MainControllerViewModel.swift:41`) the next fetched
   entries are compared with the row that moved up.  If the fetch returns them in row
   order, the whole list below the swiped row goes; if the last row goes before the
   fetched entries are used up, `dataSource[index]` is out of range, before the save.
2. *Finishing a test can end the process.* Opening Profile first, being told
   "You are not logged in" and signing in from there is enough: the singleton has
   read an empty uid by then.
3. *A test can be filed under somebody else.* Signing out reads the uid of who signs
   out; the next user's tests go to that document for the rest of the process.
4. *Opening Profile can end the process.* Registering writes an entry whose `testScore` is
   empty (`RegisterViewController.swift:88`); the averages index 0...14 of every entry.

**Fairness.** `Questionnaire`: weak fairness of the delivery of a touch event that has
begun and of the timer, which the main run loop guarantees; none for the user.
`Session`: weak fairness of the main queue.  `WritePipeline`: weak fairness of Auth's
answers, of both queues, of the stream's events and its backoff timer, and of the server, which
gRPC reports to the client as an event in every case, an error if nothing else; faults
are bounded, so in the end there is a connection.  No fairness of the idle timer,
the user or a launch, and `WriteIsAnswered` ends when the process or the account does.
`Profile`: weak fairness of
the answers, which Firestore gives from its cache or as an error when offline,
and of the main queue; nobody has to open the tab.  `Diary`, `DeleteLoop` and
`LoginScreens` state safety only.

**Mutants.** Each property of a passing run has a mutant of a mapped definition in
PROJECT.json, a plausible mistake in the code the definition stands for; with it TLC
finds the property violated.  The mutants stand before the definitions they mutate
and nothing uses them.

## 4. The proofs

The theorems hold for every value of the constants under the named assumptions of
the modules: finitely many entries, `DateOf` a function into the naturals, finitely
many buttons, at most as many buttons as questions (the app has five and
fifteen: one touch event cannot answer a whole test), for `Session` what `NoUser`,
`Unset` and `Tests` are, for `Profile` that `Nil` is no document, and for `WritePipeline` that
its bounds are naturals and the room in the pipeline is not zero.

- **DeleteLoop** (`LoopInvariant`, `LoopRemovesTheRun`).  The invariant `LoopInv` says, beside the
  types, that for some `k` the first `k` rows of the run are gone, their places in
  the fetched order ascend, and the walk is past the last of them and not past a
  later match.  `RemovesTheRun` says nothing while the loop runs, so it is not
  inductive.  The lemmas on `Cut`, `Orders` and `Place` are in `DeleteRunProofs`.
- **Diary** (`DiaryInvariant` and the theorems after it).  `DiaryInv` is the conjunction of the
  run's state invariants: none is inductive alone, since a deletion keeps the rows
  complete only because rows are entries, without doubles, and keeps them sorted
  because `Cut` leaves a subsequence.  The action property and the refinement of
  `DurableSet` follow from it.  What the violated run finds is delimited: a call has one run
  of rows that it removes (`OneRunLength`), it is the swiped row alone exactly when the
  row below was fetched earlier, or it is the last and was fetched last
  (`DeleteTakesOneRowWhen`); so in a list of two or more no order of the fetch makes
  every row deletable (`DiaryHasUndeletableRows`), and the list's own order deletes from the
  swiped row to the end (`DiaryTakesTheRest`).
- **Questionnaire** (`TestInvariant` and the theorems after it).  `TestInv` distinguishes two
  phases: before the test is filed each answer is at its question's place; after,
  the questionnaire is covered, so only the fingers of the finishing event are
  left, and fewer than a full test of them.  The second part is what makes the
  single upload hold, and needs the assumption on the number of buttons.
  `TestSpinners` is a second invariant, inductive with the types: it counts the screens
  of a kind on the stack, and each handler adds to both sides or to neither.
  `TestSpinnerHasItsTimer` is what `SpinnerEnds` rests on in every state: a spinner
  on top has its timer, and only another spinner, a result or the start screen follows it.
- **LoginScreens** (`ScreensInvariant` and the theorems after it).  To the run's
  invariants `ScreensInv` adds `AskedAtRoot`: Profile's alert is up only over the root of
  Profile's stack.  Without it the alert's action could cut the stack to its second
  screen, and a callback of the register screen would pop one that is not its own.
- **Session** (`SessionProfiles` and the theorems around it).  The lemma `Steps` sorts the
  actions by what they do to the queues and the documents: nothing, put writes into the
  current queue, put a profile there, apply the next write, answer the first.  The invariant
  `Inv` says of a profile that it is due as a callback, waits or is written, in one of
  these ways and once (`CallbackInv`, `ProfileInv`); of the queues, that what is in one was put
  there (`There`), once (`Once`), the copy for all right behind the own copy if it was stored (`Pairs`:
  a kill may leave the own copy alone), a
  profile before its user's results (`Order`); of the server, that what it has applied of the
  current queue the documents have (`Applied`), and that results a repeated profile
  took away come again behind it (`Restored`).  The properties follow: `NoCopyIsLost` and `ResultsStay`
  need the last two, since with writes that are sent again the documents alone do not grow.
  Two theorems say what the violated runs need: a test of somebody signed in ends the process
  only where the uid read was nobody's and somebody signed in since (`SessionFinishReturns`), and
  no queue holds a test under another's uid but those filed after such a change
  (`SessionFiledUnderTaker`).
- **Profile** (`ProfileScreen` and the theorems after it).  `ShownIsWhatWasRead` is inductive with
  the types: an answer leaves its round half answered or due, so the screen may
  be behind only until the notification.  `ShownIsTheUsers` is not, and leaves out reads that were under way
  for another user, whose answer may come last: the code does nothing about them.  It needs that
  without overlap every read on its way is the user's (`RoundsAreTheUsers`), and that
  what was read last is, once the user's document is awaited no more (`ReadIsTheUsers`).
  `ProfileSpinnerHasARound` is what `SpinnerStops` rests on; `ProfileNoRegisteredUserIsDrawn` is
  about the violated run: with documents that all have the entry a registration
  writes, no chart of a user is ever shown and every notification that finds a user's document ends
  the process.  `ProfileSameTestsSameBars` and `ProfileEveryAnswerCounts` are about the
  sums of `Scores`, for documents of any length.  They need induction over a finite set
  of places, which is done without an operator: among the bad subsets, if there are any, one has
  no smaller bad subset (`SmallestSubset`), and one element less is smaller.
- **WritePipeline** (`WritePipelineInvariant`, the safety properties and
  `ImplementsWriteQueueHolds`, for any clients, room in the pipeline, writes and faults,
  under `PipelineAssumption`).  None of the properties is inductive; `Kept`, which
  is, has three parts beside the types, each of which needs the others.  It holds also after
  `ServerEnds` has ended the process; `Inv` is `Kept` before an assertion has failed, and every
  other step leads from `Inv` to `Inv`, which is `FailsOnlyOnServerEndHolds`.
  - `RowsInv`: in each queue ids and writes ascend, below the next id, after the last
    acknowledged write and up to the last one made; each completion waits for a row; the pipeline is
    what fits of the current queue.  From the order follow `CompletionIsItsWrites` and, with
    the next part, `AckedNotUndone`: what is sent again is never older than what was
    acknowledged.
  - `LineInv`: what the stream's states, its two timers and the wire have to do with each
    other.  `Wire` says that after the handshake the responses followed by the
    requests are the pipeline, row by row, and that what was answered is
    applied.  The client matches answers by position, so this is what makes it acknowledge
    the right row, and that no result comes for an empty pipeline or another row.
  - `AccountsInv`: `LastChange` says of the two queues that the last account change on them is
    the last one Auth made, `OneLive` that one call for a token at most is for the stream as
    it is now, and `RightUser` that its answer, unless an account change is ahead of it or
    the counter has moved on, is a token of the user whose queue is current.
    `SentAsItsUser` is their consequence at the moment the token reaches the stream.
    That a stream with rows to send is started, and a starting one has its call out, makes
    `NoWriteIsStranded` hold: in every state, with writes waiting, there is a timer, a message or a
    call that goes on with them.  `WriteIsAnswered` adds that each of these is taken in the end.

  The refinement follows from the invariant step by step: `WriteMutations` is the abstract `Enqueue`;
  a credential change and `Launch` are `SwitchTo`; whatever opens or closes the stream is
  `Disconnect` or a stutter, and so is the end of the process; `OnMutationResult` is `Acknowledge`, `HandleWriteError` is `Refuse`,
  `ServerApplies` is `Apply`; the rest stutters.

Only model-checked: the liveness properties (`SpinnerEnds`, `WriteIsAnswered`,
`SpinnerStops`, and with them that the counts behind them run out), since temporal
reasoning about fairness is beyond the prover; what each needs of every state is
proved, as said above.  The four violated runs are counterexamples on their small instances;
what the theorems add is when they can happen and when they cannot.

## 5. Plan

In order of importance; all but the last two are done.

1. Diary with `DeleteRun`, `DeleteLoop`, `DurableSet`; proofs.
2. Questionnaire; proofs.
3. LoginScreens, Firestore, Session; proofs.
4. Profile: the rounds of reads; proofs.
5. Scores: the averages, and the sums of `uploadData`; proofs.
6. WriteQueue and WritePipeline: the client that `Firestore` was taken for; `Session` on writes
   that are sent again; proofs.
7. The client's reads: a document from the server, or from the cache when the connection
   is slow, which `Profile` takes as an answer that comes.
8. `Soliu`: Questionnaire composed with Session, with the realtime database, so that the
   arrays filed by several fingers meet the accounts; an abstract "one test, one
   result, its taker" and the refinement.

## 6. Not modelled

- The login popup: its login action is connected to nothing.
- The deprecated list of tests, its coordinator and cells: not reachable.
- Diary cells, moods, colours, chart styling, interface helpers: formatting.
- A store that cannot be opened at launch; `saveContext`, which nothing calls.
- The Firestore client's reads (watch stream, views, document cache), transactions,
  `disableNetwork` and `terminate` (the app calls neither), garbage collection.  Stream tokens:
  the handshake is sent without one (`F/remote/write_stream.cc:73`), so no stream resumes.
- The realtime database's client: the repository has one call, without a callback.
- Firebase Auth's own requests, the keychain, token refresh.
- The other pods (gRPC, BoringSSL, leveldb, abseil, Charts...), which lie below the
  interfaces the models use: vendored code by the size of a hundred apps.
