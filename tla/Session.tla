-------------------------------- MODULE Session --------------------------------
(***************************************************************************)
(* Who is signed in, and whose account a finished test is filed under:     *)
(* Firebase Auth, the singleton SupportFirebase, which reads the uid once, *)
(* when it is first used, the handlers that ask Auth and the callbacks of  *)
(* the answers, and the end of a questionnaire, in one step.               *)
(*                                                                         *)
(* Handlers run on the main thread.  A request to Auth is answered at any  *)
(* time: the current user changes at once, on another thread; the          *)
(* notification of the change and the callback are blocks on the main      *)
(* queue.  Only with the notification does Firestore's client learn of the *)
(* change.  The screens the handlers belong to are those of LoginScreens   *)
(* and Questionnaire; here each of them may be called whenever its own     *)
(* conditions hold.                                                        *)
(***************************************************************************)
EXTENDS Firestore

CONSTANTS Unset,      \* SupportFirebase has not been used by this process
          MaxTests,   \* bound: tests finished
          MaxRequests \* bound: requests and notifications under way

ASSUME UnsetAssumption == Unset \notin Clients
ASSUME TestsAssumption ==
  MaxTests \in Nat /\ Tests = [n : 1..MaxTests, by : Clients, sure : BOOLEAN, kept : Clients]

VARIABLES
  running,    \* the process runs
  configured, \* Firestore has an instance, which observes Auth
  accounts,   \* uids Auth knows
  authUser,   \* Auth.auth().currentUser, kept across restarts
  cached,     \* SupportFirebase.currentUser
  switched,   \* history: authUser changed after SupportFirebase read it
  requests,   \* requests to Auth without an answer
  main,       \* blocks Auth has put on the main queue
  taken,      \* history: tests finished
  mishaps,    \* history: accounts whose profile was lost on its way
  refused     \* history: tests whose own copy was refused

authVars == <<accounts, authUser, requests, main>>
vars == <<running, configured, authVars, cached, switched, taken, mishaps,
          refused, cloudVars>>

Requests == [kind : {"signIn", "create"}, uid : Users]

\* The notification of a change of user; the callback of createUser.
Notification(c) == [kind |-> "notify", uid |-> c]
Callback(u) == [kind |-> "created", uid |-> u]
Blocks == {Notification(c) : c \in Clients} \cup {Callback(u) : u \in Users}
Created == {u \in Users : \E n \in 1..Len(main) : main[n] = Callback(u)}

Pending == Cardinality(requests) +
           Cardinality({n \in 1..Len(main) : main[n].kind = "notify"})

Init == /\ running = FALSE /\ configured = FALSE
        /\ accounts = {} /\ authUser = NoUser
        /\ cached = Unset /\ switched = FALSE
        /\ requests = {} /\ main = <<>>
        /\ taken = 0 /\ mishaps = {} /\ refused = {}
        /\ CloudInit

\* The uid the singleton has, or reads when it is used for the first time.
CurrentUser == IF cached = Unset THEN authUser ELSE cached

\* Mutant of Stops: the uid that was read outlives the process.
StopsMutant ==
  \E new \in SUBSET {r.uid : r \in {q \in requests : q.kind = "create"}} :
    /\ running' = FALSE /\ configured' = FALSE
    /\ accounts' = accounts \cup new
    /\ mishaps' = mishaps \cup (new \ accounts) \cup Created
    /\ switched' = FALSE
    /\ requests' = {} /\ main' = <<>>
    /\ UNCHANGED <<authUser, cached, refused>>

\* The process stops.  Auth may still have created the accounts that were asked
\* for; profiles that were to be written by callbacks are not.
Stops ==
  \E new \in SUBSET {r.uid : r \in {q \in requests : q.kind = "create"}} :
    /\ running' = FALSE /\ configured' = FALSE
    /\ accounts' = accounts \cup new
    /\ mishaps' = mishaps \cup (new \ accounts) \cup Created
    /\ cached' = Unset /\ switched' = FALSE
    /\ requests' = {} /\ main' = <<>>
    /\ UNCHANGED <<authUser, refused>>

ProcessEnds == Stops /\ Disconnect

-------------------------------------------------------------------------------
Launch ==
  /\ ~running /\ running' = TRUE
  /\ UNCHANGED <<configured, authVars, cached, switched, taken, mishaps, refused, cloudVars>>

Kill == running /\ ProcessEnds /\ UNCHANGED taken

\* The first screen with an instance of Firestore: its client begins with the
\* user Auth has at that moment.
Configure ==
  /\ running /\ ~configured /\ configured' = TRUE
  /\ SwitchTo(authUser)
  /\ UNCHANGED <<running, authVars, cached, switched, taken, mishaps, refused>>

\* ProfileViewController.viewWillAppear asks the singleton whether somebody is
\* signed in, which reads the uid as well.
ProfileAppears ==
  /\ configured
  /\ cached' = CurrentUser
  /\ UNCHANGED <<running, configured, authVars, switched, taken, mishaps, refused, cloudVars>>

\* SignInOrOut with somebody signed in; an error of signOut is only printed.
SignOut ==
  /\ configured /\ authUser # NoUser
  /\ cached' = CurrentUser
  /\ \/ UNCHANGED <<authUser, switched, main>>
     \/ /\ Pending < MaxRequests
        /\ authUser' = NoUser /\ switched' = TRUE
        /\ main' = Append(main, Notification(NoUser))
  /\ UNCHANGED <<running, configured, accounts, requests, taken, mishaps, refused, cloudVars>>

\* The buttons signIn and register; the screen of register has an instance of
\* Firestore.
Ask(kind, u) ==
  /\ running /\ Pending < MaxRequests
  /\ kind = "create" => configured
  /\ requests' = requests \cup {[kind |-> kind, uid |-> u]}
  /\ UNCHANGED <<running, configured, accounts, authUser, main, cached, switched,
                 taken, mishaps, refused, cloudVars>>

SignsIn(r) ==
  /\ r.kind = "signIn" <=> r.uid \in accounts
  /\ accounts' = accounts \cup {r.uid}
  /\ authUser' = r.uid
  /\ switched' = (switched \/ (cached # Unset /\ authUser' # authUser))
  /\ requests' = requests \ {r}
  /\ UNCHANGED <<running, configured, cached, taken, mishaps, refused, cloudVars>>

\* Mutant of Grant: signing in writes a new profile as registering does.
GrantMutant(r) ==
  /\ SignsIn(r)
  /\ main' = main \o <<Notification(r.uid), Callback(r.uid)>>

\* Auth grants a request: the current user changes, then the notification and
\* the callback follow.  The callback of signIn only pops its screen.
Grant(r) ==
  /\ SignsIn(r)
  /\ main' = main \o IF r.kind = "create" THEN <<Notification(r.uid), Callback(r.uid)>>
                      ELSE <<Notification(r.uid)>>

\* A request fails; of a new account only the answer may have been lost.  The
\* callback of a failure shows a message.
Fail(r) ==
  /\ requests' = requests \ {r}
  /\ \/ UNCHANGED <<accounts, mishaps>>
     \/ /\ r.kind = "create" /\ r.uid \notin accounts
        /\ accounts' = accounts \cup {r.uid}
        /\ mishaps' = mishaps \cup {r.uid}
  /\ UNCHANGED <<running, configured, authUser, main, cached, switched, taken,
                 refused, cloudVars>>

\* The provider's observer, if there is an instance.
Notified(c) == IF configured THEN SwitchTo(c) ELSE UNCHANGED cloudVars

\* Mutant of WriteData: a field is missing and the method returns early.
WriteDataMutant(u) == UNCHANGED cloudVars

\* The callback of createUser writes the profile, into the queue of whoever the
\* client was told of last.
WriteData(u) == Enqueue(<<SetProfile(u)>>)

RunMain ==
  /\ main # <<>> /\ main' = Tail(main)
  /\ IF Head(main).kind = "notify" THEN Notified(Head(main).uid)
     ELSE WriteData(Head(main).uid)
  /\ UNCHANGED <<running, configured, accounts, authUser, requests, cached, switched,
                 taken, mishaps, refused>>

\* Mutants of UpdateTestScores: the empty uid is used; or all users' results
\* are written first.
UpdateTestScoresUnguarded(u, t) ==
  /\ cached' = u
  /\ Enqueue(<<AddOwn(u, t), AddAll(u, t)>>)
  /\ UNCHANGED <<running, configured, authVars, switched, mishaps, refused>>

UpdateTestScoresSwapped(u, t) ==
  /\ u # NoUser
  /\ cached' = u
  /\ Enqueue(<<AddAll(u, t), AddOwn(u, t)>>)
  /\ UNCHANGED <<running, configured, authVars, switched, mishaps, refused>>

\* The last answer of a questionnaire: updateTestScore and updateAllTestScore
\* with the uid of the singleton.
UpdateTestScores(u, t) ==
  /\ u # NoUser
  /\ cached' = u
  /\ Enqueue(<<AddOwn(u, t), AddAll(u, t)>>)
  /\ UNCHANGED <<running, configured, authVars, switched, mishaps, refused>>

\* An empty uid is no document name: the process traps.
TrapsOnEmptyName(u) == u = NoUser /\ ProcessEnds

\* The test that is finished next.
NextTest == [n |-> taken + 1, by |-> authUser, sure |-> ~switched, kept |-> client]

FinishTest ==
  /\ configured /\ taken < MaxTests
  /\ taken' = taken + 1
  /\ UpdateTestScores(CurrentUser, NextTest) \/ TrapsOnEmptyName(CurrentUser)

\* The process is killed in there: the own copy is stored, the other never was.
KillInFinishTest ==
  /\ configured /\ taken < MaxTests
  /\ taken' = taken + 1
  /\ CurrentUser # NoUser
  /\ Stops /\ EnqueueLast(<<AddOwn(CurrentUser, NextTest)>>)

\* The first write leaves the client's queue with a refusal.
Refused ==
  /\ Refuse
  /\ LET w == Head(queue[client])
     IN /\ mishaps' = IF w.op = "set" /\ ahead = 0 THEN mishaps \cup {w.uid} ELSE mishaps
        /\ refused' = IF w.op = "own" THEN refused \cup {w.test} ELSE refused

\* What happens on the write stream.
Deliver ==
  /\ configured
  /\ \/ (Apply \/ Acknowledge \/ Disconnect) /\ UNCHANGED <<mishaps, refused>>
     \/ Refused
  /\ UNCHANGED <<running, configured, authVars, cached, switched, taken>>

Next == \/ Launch \/ Kill \/ Configure \/ ProfileAppears \/ SignOut
        \/ \E u \in Users, kind \in {"signIn", "create"} : Ask(kind, u)
        \/ \E r \in requests : Grant(r) \/ Fail(r)
        \/ RunMain \/ FinishTest \/ KillInFinishTest \/ Deliver

\* The main queue runs.
Spec == Init /\ [][Next]_vars /\ WF_vars(RunMain)

-------------------------------------------------------------------------------
TypeOK == /\ running \in BOOLEAN /\ configured \in BOOLEAN
          /\ accounts \in SUBSET Users
          /\ authUser \in Clients
          /\ cached \in Clients \cup {Unset}
          /\ switched \in BOOLEAN
          /\ requests \in SUBSET Requests
          /\ main \in Seq(Blocks)
          /\ taken \in 0..MaxTests
          /\ mishaps \in SUBSET Users /\ refused \in SUBSET Tests
          /\ CloudTypeOK

\* A result in a user's document, or under a user's uid in All_Test_Score, was
\* taken by that user, unless the account changed in the process that filed it
\* after the uid was read: this includes results that waited out a restart or
\* another user's session.
SureResultsAreTheTakers ==
  /\ \A u \in Users : \A t \in results[u] : t.sure => t.by = u
  /\ \A r \in allResults : r.test.sure => r.test.by = r.uid

\* A test is filed twice by two writes: the copy for all users is not answered
\* for as long as the own copy waits, however often both are sent, and never
\* names another user than the own copy does.
OwnCopyFirst ==
  \A r \in allResults :
    /\ Waits(AddOwn(r.uid, r.test)) => Waits(AddAll(r.uid, r.test))
    /\ \A u \in Users : r.test \in results[u] => u = r.uid

\* What all users compare themselves with has no test its user's own document
\* lacks, unless the own copy was refused, will be sent again, or waited in
\* another user's queue.
NoCopyIsLost ==
  \A r \in allResults :
    \/ r.test \in results[r.uid] \cup refused
    \/ Waits(AddOwn(r.uid, r.test))
    \/ r.test.kept # r.uid

\* An account is created by one answer and its profile written after another:
\* each account has a profile, or one that is on its way, unless the process
\* ended, the answer was lost or the rules refused it.
AccountsGetProfiles ==
  \A u \in accounts \ mishaps :
    \/ u \in profiles
    \/ Waits(SetProfile(u))
    \/ u \in Created

\* Writing a profile replaces the whole document, and may be sent again after
\* results were added: a result that was answered in the user's own queue is
\* never lost, and any other that is lost for a moment still waits.
ResultsStay ==
  [][\A u \in Users : \A t \in results[u] :
       t.kept = u /\ ~Waits(AddOwn(u, t)) => t \in results'[u]]_vars

\* Said to the user before the test (Main.storyboard:1050): the answers "will be
\* automatically saved" and "you will see graphs".  For somebody who is signed
\* in, finishing a test does not end the process.
FinishTestReturns == [][FinishTest /\ authUser # NoUser => running']_vars

\* The same words, of the user who reads them: the test of a user who is signed
\* in is saved with that user's results, not with another's.
FiledUnderTaker ==
  \A c \in Clients : \A n \in 1..Len(queue[c]) :
    queue[c][n].op = "own" /\ queue[c][n].test.by \in Users =>
      queue[c][n].uid = queue[c][n].test.by
================================================================================
