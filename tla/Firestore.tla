------------------------------- MODULE Firestore -------------------------------
(***************************************************************************)
(* Cloud Firestore as the app uses it: the collection userInfo with one    *)
(* document for each user and the document All_Test_Score, and the client, *)
(* which keeps the writes that have no answer.                             *)
(*                                                                         *)
(* The client is the one WriteQueue specifies and WritePipeline shows the  *)
(* code to implement: one queue for each user (and one for nobody), kept   *)
(* across restarts; the queue of the user it was told of last is sent, in  *)
(* order, and again from its start after every cut of the connection.  The *)
(* server's rules are not in the repository: it may refuse any write.  No  *)
(* caller looks at the outcome.                                            *)
(***************************************************************************)
EXTENDS Integers, Sequences, FiniteSets

CONSTANTS Users,  \* uids
          NoUser, \* nobody is signed in
          Tests   \* finished tests

ASSUME UsersAssumption == NoUser \notin Users

VARIABLES queue, ahead, client, \* of WriteQueue
          profiles,  \* users whose document exists
          results,   \* testResult of each user's document, without the empty entry
          allExists, \* All_Test_Score exists: nothing in the app creates it
          allResults \* its testResult: the test and its testUid

docVars == <<profiles, results, allExists, allResults>>
cloudVars == <<queue, ahead, client, docVars>>

Clients == Users \cup {NoUser}

\* setData of a new profile; updateData of the user's and of all users' results.
SetProfile(u) == [op |-> "set", uid |-> u]
AddOwn(u, t) == [op |-> "own", uid |-> u, test |-> t]
AddAll(u, t) == [op |-> "all", uid |-> u, test |-> t]
Writes == {SetProfile(u) : u \in Users} \cup
          {AddOwn(u, t) : u \in Users, t \in Tests} \cup
          {AddAll(u, t) : u \in Users, t \in Tests}

WQ == INSTANCE WriteQueue

CloudInit == /\ WQ!Init
             /\ profiles = {} /\ results = [u \in Users |-> {}]
             /\ allExists \in BOOLEAN /\ allResults = {}

-------------------------------------------------------------------------------
(* The client's part: no document changes.                                 *)

Enqueue(writes) == WQ!Enqueue(writes) /\ UNCHANGED docVars

\* The last writes that a process hands over before it ends.
EnqueueLast(writes) == /\ queue' = [queue EXCEPT ![client] = @ \o writes] /\ ahead' = 0
                       /\ UNCHANGED <<client, docVars>>

SwitchTo(c) == WQ!SwitchTo(c) /\ UNCHANGED docVars

Disconnect == WQ!Disconnect /\ UNCHANGED docVars

\* Mutant of Acknowledge: a write that was not applied yet is taken for answered.
AcknowledgeMutant == WQ!Refuse /\ UNCHANGED docVars

Acknowledge == WQ!Acknowledge /\ UNCHANGED docVars

\* By the rules, or for want of the document.
Refuse == WQ!Refuse /\ UNCHANGED docVars

-------------------------------------------------------------------------------
(* The server's part.                                                      *)

\* setData with merge: false replaces the document.
ApplySet(w) ==
  /\ profiles' = profiles \cup {w.uid}
  /\ results' = [results EXCEPT ![w.uid] = {}]
  /\ UNCHANGED allResults

\* updateData of a document that does not exist fails; what the array has
\* already, arrayUnion does not add again.
ApplyOwn(w) ==
  /\ w.uid \in profiles
  /\ results' = [results EXCEPT ![w.uid] = @ \cup {w.test}]
  /\ UNCHANGED <<profiles, allResults>>

ApplyAll(w) ==
  /\ allExists
  /\ allResults' = allResults \cup {[uid |-> w.uid, test |-> w.test]}
  /\ UNCHANGED <<profiles, results>>

Effect(w) == \/ w.op = "set" /\ ApplySet(w)
             \/ w.op = "own" /\ ApplyOwn(w)
             \/ w.op = "all" /\ ApplyAll(w)

Apply == WQ!Apply /\ Effect(queue[client][ahead + 1]) /\ UNCHANGED allExists

-------------------------------------------------------------------------------
CloudTypeOK == /\ queue \in [Clients -> Seq(Writes)]
               /\ client \in Clients
               /\ ahead \in Nat /\ ahead <= Len(queue[client])
               /\ profiles \in SUBSET Users
               /\ results \in [Users -> SUBSET Tests]
               /\ allExists \in BOOLEAN
               /\ allResults \in SUBSET [uid : Users, test : Tests]

\* Write w waits in some queue.
Waits(w) == \E c \in Clients : \E n \in 1..Len(queue[c]) : queue[c][n] = w
===============================================================================
