----------------------------- MODULE SessionProofs -----------------------------
(***************************************************************************)
(* The safety properties of Session for any number of users, tests and     *)
(* requests.  The first part is about the queue of writes and the          *)
(* documents; the second says what each step of Session is for them; the   *)
(* parts of the invariant follow, one by one, and the theorems.            *)
(***************************************************************************)
EXTENDS Session, SequenceTheorems, TLAPS

\* The uid of a write is a user's, its test is a finished one.
LEMMA WriteKinds ==
  ASSUME NEW w \in Writes
  PROVE  /\ w.op \in {"set", "own", "all"} /\ w.uid \in Users
         /\ w.op = "set" => w = SetProfile(w.uid)
         /\ w.op = "own" => w.test \in Tests /\ w = AddOwn(w.uid, w.test)
         /\ w.op = "all" => w.test \in Tests /\ w = AddAll(w.uid, w.test)
BY DEF Writes, SetProfile, AddOwn, AddAll

\* The fields of the three writes, by which they differ.
LEMMA WriteFields ==
  ASSUME NEW u, NEW t
  PROVE  /\ SetProfile(u).op = "set" /\ SetProfile(u).uid = u
         /\ AddOwn(u, t).op = "own" /\ AddOwn(u, t).uid = u /\ AddOwn(u, t).test = t
         /\ AddAll(u, t).op = "all" /\ AddAll(u, t).uid = u /\ AddAll(u, t).test = t
BY DEF SetProfile, AddOwn, AddAll

LEMMA WritesMade ==
  ASSUME NEW u \in Users
  PROVE  /\ SetProfile(u) \in Writes
         /\ \A t \in Tests : AddOwn(u, t) \in Writes /\ AddAll(u, t) \in Writes
BY DEF Writes

\* Writes that are made go to the end of the client's queue, whether the process
\* goes on or ends with them.
Puts(new) ==
  /\ queue' = [queue EXCEPT ![client] = @ \o new]
  /\ ahead' = 0 \/ UNCHANGED ahead
  /\ UNCHANGED <<client, profiles, results, allExists, allResults>>

LEMMA EnqueuePuts == ASSUME NEW new, Enqueue(new) \/ EnqueueLast(new) PROVE Puts(new)
BY DEF Enqueue, WQ!Enqueue, EnqueueLast, Puts, docVars

LEMMA EnqueueProperties ==
  ASSUME CloudTypeOK, NEW new \in Seq(Writes), Puts(new)
  PROVE  /\ CloudTypeOK'
         /\ UNCHANGED <<client, profiles, results, allExists, allResults>>
         /\ ahead' = 0 \/ UNCHANGED ahead
         /\ \A d \in Clients \ {client} : queue'[d] = queue[d]
         /\ Len(queue[client]) \in Nat /\ Len(new) \in Nat
         /\ Len(queue'[client]) = Len(queue[client]) + Len(new)
         /\ \A n \in 1..Len(queue[client]) : queue'[client][n] = queue[client][n]
         /\ \A n \in 1..Len(new) : queue'[client][Len(queue[client]) + n] = new[n]
<1> DEFINE q == queue[client]
<1>1. /\ queue' = [queue EXCEPT ![client] = q \o new]
      /\ UNCHANGED <<client, profiles, results, allExists, allResults>>
      /\ ahead' = 0 \/ UNCHANGED ahead
      /\ queue \in [Clients -> Seq(Writes)] /\ client \in Clients /\ q \in Seq(Writes)
      /\ ahead \in Nat /\ ahead <= Len(q)
  BY DEF Puts, CloudTypeOK
<1>2. Len(q) \in Nat /\ Len(new) \in Nat
  BY <1>1, LenProperties
<1>3. /\ q \o new \in Seq(Writes) /\ Len(q \o new) = Len(q) + Len(new)
      /\ \A n \in 1..Len(q) + Len(new) :
           (q \o new)[n] = IF n <= Len(q) THEN q[n] ELSE new[n - Len(q)]
  BY <1>1, ConcatProperties
<1>4. queue'[client] = q \o new /\ queue' \in [Clients -> Seq(Writes)]
      /\ \A d \in Clients \ {client} : queue'[d] = queue[d]
  BY <1>1, <1>3
<1> HIDE DEF q
<1>5. \A n \in 1..Len(q) : queue'[client][n] = q[n]
  BY <1>2, <1>3, <1>4
<1>6. ASSUME NEW n \in 1..Len(new)
      PROVE  queue'[client][Len(q) + n] = new[n]
  <2>1. /\ Len(q) + n \in 1..Len(q) + Len(new)
        /\ ~(Len(q) + n <= Len(q)) /\ Len(q) + n - Len(q) = n
    BY <1>2
  <2>. QED
    BY <1>3, <1>4, <2>1
<1>7. CloudTypeOK'
  BY <1>1, <1>2, <1>3, <1>4 DEF CloudTypeOK, q
<1>. QED
  BY <1>1, <1>2, <1>3, <1>4, <1>5, <1>6, <1>7 DEF q

\* Each place of a queue afterwards is an old one or one of the new.
LEMMA EnqueuePlaces ==
  ASSUME CloudTypeOK, NEW new \in Seq(Writes), Puts(new), NEW d \in Clients
  PROVE  /\ \A n \in 1..Len(queue[d]) :
              n \in 1..Len(queue'[d]) /\ queue'[d][n] = queue[d][n]
         /\ \A n \in 1..Len(queue'[d]) :
              \/ n \in 1..Len(queue[d]) /\ queue'[d][n] = queue[d][n]
              \/ /\ d = client /\ n > Len(queue[d])
                 /\ \E k \in 1..Len(new) : n = Len(queue[d]) + k /\ queue'[d][n] = new[k]
         /\ d = client =>
              \A k \in 1..Len(new) : /\ Len(queue[d]) + k \in 1..Len(queue'[d])
                                     /\ queue'[d][Len(queue[d]) + k] = new[k]
<1>1. /\ \A c \in Clients \ {client} : queue'[c] = queue[c]
      /\ Len(queue[client]) \in Nat /\ Len(new) \in Nat
      /\ Len(queue'[client]) = Len(queue[client]) + Len(new)
      /\ \A n \in 1..Len(queue[client]) : queue'[client][n] = queue[client][n]
      /\ \A n \in 1..Len(new) : queue'[client][Len(queue[client]) + n] = new[n]
  BY EnqueueProperties
<1>2. CASE d # client
  BY <1>1, <1>2
<1>3. CASE d = client
  <2>1. \A n \in 1..Len(queue[d]) : n \in 1..Len(queue'[d]) /\ queue'[d][n] = queue[d][n]
    BY <1>1, <1>3
  <2>2. \A k \in 1..Len(new) : /\ Len(queue[d]) + k \in 1..Len(queue'[d])
                               /\ queue'[d][Len(queue[d]) + k] = new[k]
    BY <1>1, <1>3
  <2>3. ASSUME NEW n \in 1..Len(queue'[d]), n \notin 1..Len(queue[d])
        PROVE  /\ n > Len(queue[d])
               /\ \E k \in 1..Len(new) : n = Len(queue[d]) + k /\ queue'[d][n] = new[k]
    <3>1. n > Len(queue[d]) /\ n - Len(queue[d]) \in 1..Len(new)
          /\ Len(queue[d]) + (n - Len(queue[d])) = n
      BY <1>1, <1>3, <2>3
    <3>. QED
      BY <2>2, <1>3, <3>1
  <2>. QED
    BY <1>3, <2>1, <2>2, <2>3
<1>. QED
  BY <1>2, <1>3

\* What waits after writes were made waited before or is one of them.
LEMMA EnqueueWaits ==
  ASSUME CloudTypeOK, NEW new \in Seq(Writes), Puts(new)
  PROVE  \A w : Waits(w)' <=> Waits(w) \/ \E n \in 1..Len(new) : new[n] = w
<1> SUFFICES ASSUME NEW w
             PROVE  Waits(w)' <=> Waits(w) \/ \E n \in 1..Len(new) : new[n] = w
  OBVIOUS
<1>0. client \in Clients
  BY DEF CloudTypeOK
<1>2. ASSUME Waits(w) PROVE Waits(w)'
  <2>0. PICK d \in Clients : \E n \in 1..Len(queue[d]) : queue[d][n] = w
    BY <1>2 DEF Waits
  <2>1. PICK n \in 1..Len(queue[d]) : queue[d][n] = w
    BY <2>0
  <2>2. n \in 1..Len(queue'[d]) /\ queue'[d][n] = w
    BY <2>1, EnqueuePlaces
  <2>. QED
    BY <2>2 DEF Waits
<1>3. ASSUME NEW n \in 1..Len(new), new[n] = w PROVE Waits(w)'
  <2>1. /\ Len(queue[client]) + n \in 1..Len(queue'[client])
        /\ queue'[client][Len(queue[client]) + n] = w
    BY <1>0, <1>3, EnqueuePlaces
  <2>. QED
    BY <1>0, <2>1 DEF Waits
<1>4. ASSUME Waits(w)', ~Waits(w) PROVE \E n \in 1..Len(new) : new[n] = w
  <2>0. PICK d \in Clients : \E n \in 1..Len(queue'[d]) : queue'[d][n] = w
    BY <1>4 DEF Waits
  <2>1. PICK n \in 1..Len(queue'[d]) : queue'[d][n] = w
    BY <2>0
  <2>2. ~(n \in 1..Len(queue[d]) /\ queue'[d][n] = queue[d][n])
    BY <1>4, <2>1 DEF Waits
  <2>3. \E k \in 1..Len(new) : queue'[d][n] = new[k]
    BY <2>1, <2>2, EnqueuePlaces
  <2>. QED
    BY <2>1, <2>3
<1>. QED
  BY <1>2, <1>3, <1>4

\* An answer takes the first write from the client's queue.
LEMMA DropProperties ==
  ASSUME CloudTypeOK, WQ!Drop
  PROVE  /\ queue' \in [Clients -> Seq(Writes)] /\ client' = client /\ client \in Clients
         /\ Len(queue[client]) \in Nat /\ Len(queue[client]) >= 1
         /\ Len(queue'[client]) = Len(queue[client]) - 1
         /\ Head(queue[client]) = queue[client][1] /\ Head(queue[client]) \in Writes
         /\ \A n \in 1..Len(queue'[client]) :
              n + 1 \in 1..Len(queue[client]) /\ queue'[client][n] = queue[client][n + 1]
         /\ \A d \in Clients \ {client} : queue'[d] = queue[d]
<1> DEFINE q == queue[client]
<1>1. /\ q # <<>> /\ queue' = [queue EXCEPT ![client] = Tail(q)]
      /\ queue \in [Clients -> Seq(Writes)] /\ q \in Seq(Writes)
      /\ client' = client /\ client \in Clients
  BY DEF WQ!Drop, CloudTypeOK
<1> HIDE DEF q
<1>2. Len(q) \in Nat /\ Len(q) >= 1 /\ q[1] \in Writes
  BY <1>1, EmptySeq, LenProperties, ElementOfSeq
<1>3. /\ Head(q) = q[1] /\ Tail(q) \in Seq(Writes) /\ Len(Tail(q)) = Len(q) - 1
      /\ \A n \in 1..Len(Tail(q)) : Tail(q)[n] = q[n + 1]
  BY <1>1, HeadTailProperties
<1>4. queue'[client] = Tail(q) /\ queue' \in [Clients -> Seq(Writes)]
      /\ \A d \in Clients \ {client} : queue'[d] = queue[d]
  BY <1>1, <1>3
<1>5. \A n \in 1..Len(queue'[client]) :
        n + 1 \in 1..Len(q) /\ queue'[client][n] = q[n + 1]
  BY <1>2, <1>3, <1>4
<1>. QED
  BY <1>1, <1>2, <1>3, <1>4, <1>5 DEF q

\* How far the places of a queue move.
Shift(d) == IF d = client THEN 1 ELSE 0

LEMMA DropPlaces ==
  ASSUME CloudTypeOK, WQ!Drop, NEW d \in Clients
  PROVE  /\ Shift(d) \in {0, 1} /\ Shift(client) = 1
         /\ \A n \in 1..Len(queue'[d]) :
              /\ n + Shift(d) \in 1..Len(queue[d])
              /\ queue'[d][n] = queue[d][n + Shift(d)]
         /\ \A n \in 1..Len(queue[d]) :
              n - Shift(d) \in 1..Len(queue'[d]) \/ (d = client /\ n = 1)
<1>1. /\ Len(queue[client]) \in Nat /\ Len(queue[client]) >= 1
      /\ Len(queue'[client]) = Len(queue[client]) - 1
      /\ \A n \in 1..Len(queue'[client]) :
           n + 1 \in 1..Len(queue[client]) /\ queue'[client][n] = queue[client][n + 1]
      /\ \A c \in Clients \ {client} : queue'[c] = queue[c]
  BY DropProperties
<1>2. CASE d # client
  <2>1. Shift(d) = 0 /\ Shift(client) = 1 /\ queue'[d] = queue[d]
    BY <1>1, <1>2 DEF Shift
  <2>. QED
    BY <2>1
<1>3. CASE d = client
  <2>1. Shift(d) = 1 /\ Shift(client) = 1
    BY <1>3 DEF Shift
  <2>. QED
    BY <1>1, <1>3, <2>1
<1>. QED
  BY <1>2, <1>3

\* What waits afterwards waited before, and of what waited only the first write
\* of that queue may be gone.
LEMMA DropWaits ==
  ASSUME CloudTypeOK, WQ!Drop
  PROVE  /\ \A w : Waits(w)' => Waits(w)
         /\ \A w : Waits(w) => Waits(w)' \/ w = Head(queue[client])
         /\ Waits(Head(queue[client]))
<1>1. /\ Len(queue[client]) \in Nat /\ Len(queue[client]) >= 1 /\ client \in Clients
      /\ Head(queue[client]) = queue[client][1]
  BY DropProperties
<1>2. Waits(Head(queue[client]))
  BY <1>1 DEF Waits
<1>3. ASSUME NEW w, Waits(w)' PROVE Waits(w)
  <2>0. PICK d \in Clients : \E n \in 1..Len(queue'[d]) : queue'[d][n] = w
    BY <1>3 DEF Waits
  <2>1. PICK n \in 1..Len(queue'[d]) : queue'[d][n] = w
    BY <2>0
  <2>2. n + Shift(d) \in 1..Len(queue[d]) /\ queue[d][n + Shift(d)] = w
    BY <2>1, DropPlaces
  <2>. QED
    BY <2>2 DEF Waits
<1>4. ASSUME NEW w, Waits(w), w # Head(queue[client]) PROVE Waits(w)'
  <2>0. PICK d \in Clients : \E n \in 1..Len(queue[d]) : queue[d][n] = w
    BY <1>4 DEF Waits
  <2>1. PICK n \in 1..Len(queue[d]) : queue[d][n] = w
    BY <2>0
  <2>2. n - Shift(d) \in 1..Len(queue'[d]) /\ (n - Shift(d)) + Shift(d) = n
    BY <1>1, <1>4, <2>1, DropPlaces
  <2>3. queue'[d][n - Shift(d)] = w
    BY <2>1, <2>2, DropPlaces
  <2>. QED
    BY <2>2, <2>3 DEF Waits
<1>. QED
  BY <1>2, <1>3, <1>4

\* What waits is a write.
LEMMA WaitsType ==
  ASSUME CloudTypeOK, NEW w, Waits(w)
  PROVE  w \in Writes
<1>1. PICK d \in Clients : \E n \in 1..Len(queue[d]) : queue[d][n] = w
  BY DEF Waits
<1>2. queue[d] \in Seq(Writes)
  BY <1>1 DEF CloudTypeOK
<1>. QED
  BY <1>1, <1>2, ElementOfSeq

\* The three ways a write is applied, by what the documents are afterwards.
LEMMA ApplyProperties ==
  ASSUME CloudTypeOK, Apply
  PROVE  /\ UNCHANGED <<queue, client, allExists>> /\ CloudTypeOK'
         /\ ahead' = ahead + 1 /\ ahead + 1 \in 1..Len(queue[client])
         /\ \/ \E u \in Users :
                 /\ queue[client][ahead + 1] = SetProfile(u)
                 /\ profiles' = profiles \cup {u}
                 /\ results' = [results EXCEPT ![u] = {}]
                 /\ UNCHANGED allResults
            \/ \E u \in Users, t \in Tests :
                 /\ queue[client][ahead + 1] = AddOwn(u, t)
                 /\ u \in profiles
                 /\ results' = [results EXCEPT ![u] = @ \cup {t}]
                 /\ UNCHANGED <<profiles, allResults>>
            \/ \E u \in Users, t \in Tests :
                 /\ queue[client][ahead + 1] = AddAll(u, t)
                 /\ allResults' = allResults \cup {[uid |-> u, test |-> t]}
                 /\ UNCHANGED <<profiles, results>>
<1> DEFINE w == queue[client][ahead + 1]
<1>1. /\ ahead < Len(queue[client]) /\ ahead' = ahead + 1
      /\ UNCHANGED <<queue, client, allExists>> /\ Effect(w)
      /\ queue \in [Clients -> Seq(Writes)] /\ client \in Clients /\ ahead \in Nat
  BY DEF Apply, WQ!Apply, CloudTypeOK
<1>2. queue[client] \in Seq(Writes) /\ Len(queue[client]) \in Nat
  BY <1>1, LenProperties
<1>3. ahead + 1 \in 1..Len(queue[client])
  BY <1>1, <1>2
<1>4. w \in Writes
  BY <1>2, <1>3, ElementOfSeq
<1>5. ahead' \in Nat /\ ahead' <= Len(queue'[client'])
  BY <1>1, <1>2
<1> HIDE DEF w
<1>6. /\ w.op \in {"set", "own", "all"} /\ w.uid \in Users
      /\ w.op = "set" => w = SetProfile(w.uid)
      /\ w.op = "own" => w.test \in Tests /\ w = AddOwn(w.uid, w.test)
      /\ w.op = "all" => w.test \in Tests /\ w = AddAll(w.uid, w.test)
  BY <1>4, WriteKinds
<1>7. CASE w.op = "set"
  <2>1. /\ profiles' = profiles \cup {w.uid} /\ results' = [results EXCEPT ![w.uid] = {}]
        /\ UNCHANGED allResults /\ w = SetProfile(w.uid)
    BY <1>1, <1>6, <1>7 DEF Effect, ApplySet
  <2>2. CloudTypeOK'
    BY <1>1, <1>5, <1>6, <2>1 DEF CloudTypeOK
  <2>. QED
    BY <1>1, <1>3, <1>6, <2>1, <2>2 DEF w
<1>8. CASE w.op = "own"
  <2>1. /\ w.uid \in profiles /\ results' = [results EXCEPT ![w.uid] = @ \cup {w.test}]
        /\ UNCHANGED <<profiles, allResults>> /\ w = AddOwn(w.uid, w.test) /\ w.test \in Tests
    BY <1>1, <1>6, <1>8 DEF Effect, ApplyOwn
  <2>2. CloudTypeOK'
    BY <1>1, <1>5, <1>6, <2>1 DEF CloudTypeOK
  <2>. QED
    BY <1>1, <1>3, <1>6, <2>1, <2>2 DEF w
<1>9. CASE w.op = "all"
  <2>1. /\ allResults' = allResults \cup {[uid |-> w.uid, test |-> w.test]}
        /\ UNCHANGED <<profiles, results>> /\ w = AddAll(w.uid, w.test) /\ w.test \in Tests
    BY <1>1, <1>6, <1>9 DEF Effect, ApplyAll
  <2>2. CloudTypeOK'
    BY <1>1, <1>5, <1>6, <2>1 DEF CloudTypeOK
  <2>. QED
    BY <1>1, <1>3, <1>6, <2>1, <2>2 DEF w
<1>. QED
  BY <1>6, <1>7, <1>8, <1>9

\* The two ways a write leaves the queue.
LEMMA AnswerProperties ==
  ASSUME CloudTypeOK, Acknowledge \/ Refuse
  PROVE  /\ WQ!Drop /\ CloudTypeOK'
         /\ UNCHANGED <<profiles, results, allExists, allResults>>
         /\ ahead' \in Nat /\ (ahead' = 0 \/ ahead' = ahead - 1)
         /\ Acknowledge => ahead > 0
<1>1. /\ WQ!Drop /\ UNCHANGED <<profiles, results, allExists, allResults>>
      /\ Acknowledge => ahead > 0
      /\ ahead' = 0 \/ (ahead > 0 /\ ahead' = ahead - 1)
  BY DEF Acknowledge, Refuse, WQ!Acknowledge, WQ!Refuse, docVars
<1>2. /\ queue' \in [Clients -> Seq(Writes)] /\ client' = client
      /\ Len(queue'[client]) = Len(queue[client]) - 1 /\ Len(queue[client]) \in Nat
      /\ Len(queue[client]) >= 1
  BY <1>1, DropProperties
<1>3. ahead' \in Nat /\ (ahead' = 0 \/ ahead' = ahead - 1) /\ ahead' <= Len(queue'[client'])
  BY <1>1, <1>2 DEF CloudTypeOK
<1>4. CloudTypeOK'
  BY <1>1, <1>2, <1>3 DEF CloudTypeOK
<1>. QED
  BY <1>1, <1>3, <1>4

\* Nothing changes but the connection and whose it is.
Calm == /\ UNCHANGED <<queue, profiles, results, allExists, allResults>>
        /\ (client' \in Clients /\ ahead' = 0) \/ UNCHANGED <<ahead, client>>

LEMMA CalmTypes ==
  ASSUME CloudTypeOK, Calm
  PROVE  CloudTypeOK'
<1>1. /\ UNCHANGED <<queue, profiles, results, allExists, allResults>>
      /\ (client' \in Clients /\ ahead' = 0) \/ UNCHANGED <<ahead, client>>
      /\ queue \in [Clients -> Seq(Writes)]
  BY DEF Calm, CloudTypeOK
<1>2. client' \in Clients
  BY <1>1 DEF CloudTypeOK
<1>3. Len(queue[client']) \in Nat
  BY <1>1, <1>2, LenProperties
<1>4. ahead' \in Nat /\ ahead' <= Len(queue'[client'])
  BY <1>1, <1>3 DEF CloudTypeOK
<1>. QED
  BY <1>1, <1>2, <1>4 DEF CloudTypeOK

LEMMA CalmWaits ==
  ASSUME Calm
  PROVE  \A w : Waits(w)' <=> Waits(w)
BY DEF Calm, Waits

LEMMA CalmActions ==
  ASSUME CloudTypeOK
  PROVE  /\ UNCHANGED cloudVars => Calm
         /\ Disconnect => Calm
         /\ \A c \in Clients : SwitchTo(c) => Calm
<1>1. UNCHANGED cloudVars => Calm
  BY DEF Calm, cloudVars, docVars
<1>2. Disconnect => Calm
  BY DEF Calm, Disconnect, WQ!Disconnect, docVars, CloudTypeOK
<1>3. ASSUME NEW c \in Clients, SwitchTo(c) PROVE Calm
  BY <1>3 DEF Calm, SwitchTo, WQ!SwitchTo, docVars
<1>. QED
  BY <1>1, <1>2, <1>3

-------------------------------------------------------------------------------
(* The main queue. *)

LEMMA BlockKinds ==
  /\ \A b \in Blocks : /\ b.kind = "notify" => b.uid \in Clients /\ b = Notification(b.uid)
                       /\ b.kind # "notify" => b.uid \in Users /\ b = Callback(b.uid)
  /\ \A c \in Clients : Notification(c) \in Blocks /\ Notification(c).kind = "notify"
                        /\ Notification(c).uid = c
  /\ \A u \in Users : Callback(u) \in Blocks /\ Callback(u).kind = "created"
                      /\ Callback(u).uid = u
  /\ \A c, u : Notification(c) # Callback(u)
  /\ \A u, v : Callback(u) = Callback(v) => u = v
<1>1. \A c : Notification(c).kind = "notify" /\ Notification(c).uid = c
  BY DEF Notification
<1>2. \A u : Callback(u).kind = "created" /\ Callback(u).uid = u
  BY DEF Callback
<1>3. /\ \A c \in Clients : Notification(c) \in Blocks
      /\ \A u \in Users : Callback(u) \in Blocks
      /\ \A b \in Blocks : \/ \E c \in Clients : b = Notification(c)
                          \/ \E u \in Users : b = Callback(u)
  BY DEF Blocks
<1>4. "notify" # "created"
  OBVIOUS
<1>5. /\ \A c, u : Notification(c) # Callback(u)
      /\ \A u, v : Callback(u) = Callback(v) => u = v
  BY <1>1, <1>2, <1>4
<1>6. ASSUME NEW b \in Blocks
      PROVE  /\ b.kind = "notify" => b.uid \in Clients /\ b = Notification(b.uid)
             /\ b.kind # "notify" => b.uid \in Users /\ b = Callback(b.uid)
  <2>1. ASSUME NEW c \in Clients, b = Notification(c)
        PROVE  b.kind = "notify" /\ b.uid \in Clients /\ b = Notification(b.uid)
    BY <1>1, <2>1
  <2>2. ASSUME NEW u \in Users, b = Callback(u)
        PROVE  b.kind # "notify" /\ b.uid \in Users /\ b = Callback(b.uid)
    BY <1>2, <1>4, <2>2
  <2>. QED
    BY <1>3, <2>1, <2>2
<1>. QED
  BY <1>1, <1>2, <1>3, <1>5, <1>6

LEMMA TailOfMain ==
  ASSUME main \in Seq(Blocks), main # <<>>, main' = Tail(main)
  PROVE  /\ main' \in Seq(Blocks) /\ Head(main) \in Blocks /\ Head(main) = main[1]
         /\ Len(main) \in Nat /\ 1 \in 1..Len(main) /\ Len(main') = Len(main) - 1
         /\ \A n \in 1..Len(main') : n + 1 \in 1..Len(main) /\ main'[n] = main[n + 1]
<1>1. Len(main) \in Nat /\ Len(main) >= 1
  BY EmptySeq, LenProperties
<1>2. main[1] \in Blocks
  BY <1>1, ElementOfSeq
<1>3. /\ Head(main) = main[1] /\ Tail(main) \in Seq(Blocks)
      /\ Len(Tail(main)) = Len(main) - 1
      /\ \A n \in 1..Len(Tail(main)) : Tail(main)[n] = main[n + 1]
  BY HeadTailProperties
<1>. QED
  BY <1>1, <1>2, <1>3

LEMMA EndOfMain ==
  ASSUME main \in Seq(Blocks), NEW new \in Seq(Blocks), main' = main \o new
  PROVE  /\ main' \in Seq(Blocks) /\ Len(main) \in Nat /\ Len(new) \in Nat
         /\ Len(main') = Len(main) + Len(new)
         /\ \A n \in 1..Len(main) : n \in 1..Len(main') /\ main'[n] = main[n]
         /\ \A n \in 1..Len(main') :
              \/ n \in 1..Len(main)
              \/ \E k \in 1..Len(new) : n = Len(main) + k /\ main'[n] = new[k]
         /\ \A k \in 1..Len(new) : main'[Len(main) + k] = new[k]
<1>1. Len(main) \in Nat /\ Len(new) \in Nat
  BY LenProperties
<1>2. /\ main' \in Seq(Blocks) /\ Len(main') = Len(main) + Len(new)
      /\ \A n \in 1..Len(main) + Len(new) :
           main'[n] = IF n <= Len(main) THEN main[n] ELSE new[n - Len(main)]
  BY ConcatProperties
<1>3. \A n \in 1..Len(main) : n \in 1..Len(main') /\ main'[n] = main[n]
  BY <1>1, <1>2
<1>4. ASSUME NEW k \in 1..Len(new) PROVE main'[Len(main) + k] = new[k]
  <2>1. /\ Len(main) + k \in 1..Len(main) + Len(new)
        /\ ~(Len(main) + k <= Len(main)) /\ Len(main) + k - Len(main) = k
    BY <1>1
  <2>. QED
    BY <1>2, <2>1
<1>5. ASSUME NEW n \in 1..Len(main'), n \notin 1..Len(main)
      PROVE  \E k \in 1..Len(new) : n = Len(main) + k /\ main'[n] = new[k]
  <2>1. n - Len(main) \in 1..Len(new) /\ Len(main) + (n - Len(main)) = n
    BY <1>1, <1>2, <1>5
  <2>. QED
    BY <1>4, <2>1
<1>. QED
  BY <1>1, <1>2, <1>3, <1>4, <1>5

\* What Auth puts on the main queue when it grants a request.
Granted(r) == IF r.kind = "create" THEN <<Notification(r.uid), Callback(r.uid)>>
              ELSE <<Notification(r.uid)>>

LEMMA GrantedProperties ==
  ASSUME TypeOK, NEW r \in requests
  PROVE  /\ r.uid \in Users /\ Granted(r) \in Seq(Blocks)
         /\ Granted(r)[1] = Notification(r.uid)
         /\ r.kind = "create" => Len(Granted(r)) = 2 /\ Granted(r)[2] = Callback(r.uid)
         /\ r.kind # "create" => Len(Granted(r)) = 1
<1>1. r.uid \in Users
  BY DEF TypeOK, Requests
<1>2. Notification(r.uid) \in Blocks /\ Callback(r.uid) \in Blocks
  BY <1>1, BlockKinds DEF Clients
<1>3. CASE r.kind = "create"
  <2>1. Granted(r) = <<Notification(r.uid), Callback(r.uid)>>
    BY <1>3 DEF Granted
  <2>. QED
    BY <1>1, <1>2, <1>3, <2>1
<1>4. CASE r.kind # "create"
  <2>1. Granted(r) = <<Notification(r.uid)>>
    BY <1>4 DEF Granted
  <2>. QED
    BY <1>1, <1>2, <1>4, <2>1
<1>. QED
  BY <1>3, <1>4

-------------------------------------------------------------------------------
(* The steps. *)

\* The end of the process forgets what was under way.
LEMMA StopsProperties ==
  ASSUME TypeOK, Stops
  PROVE  /\ running' = FALSE /\ configured' = FALSE /\ cached' = Unset /\ switched' = FALSE
         /\ requests' = {} /\ main' = <<>> /\ main' \in Seq(Blocks) /\ Len(main') = 0
         /\ authUser' = authUser /\ refused' = refused
         /\ accounts \subseteq accounts' /\ accounts' \in SUBSET Users
         /\ mishaps' \in SUBSET Users
         /\ accounts' \ mishaps' \subseteq (accounts \ mishaps) \ Created
<1>1. PICK new \in SUBSET {r.uid : r \in {q \in requests : q.kind = "create"}} :
        /\ running' = FALSE /\ configured' = FALSE
        /\ accounts' = accounts \cup new
        /\ mishaps' = mishaps \cup (new \ accounts) \cup Created
        /\ cached' = Unset /\ switched' = FALSE
        /\ requests' = {} /\ main' = <<>>
        /\ UNCHANGED <<authUser, refused>>
  BY DEF Stops
<1>2. new \subseteq Users
  BY DEF TypeOK, Requests
<1>3. Created \subseteq Users
  BY DEF Created
<1>4. main' \in Seq(Blocks) /\ Len(main') = 0
  BY <1>1, EmptySeq
<1>5. /\ accounts' \in SUBSET Users /\ mishaps' \in SUBSET Users
      /\ accounts' \ mishaps' \subseteq (accounts \ mishaps) \ Created
  BY <1>1, <1>2, <1>3 DEF TypeOK
<1>. QED
  BY <1>1, <1>4, <1>5

LEMMA ProcessEndsStops == ASSUME TypeOK, ProcessEnds PROVE Stops /\ Calm
BY CalmActions DEF ProcessEnds, TypeOK

LEMMA CurrentUserType ==
  ASSUME TypeOK
  PROVE  CurrentUser \in Clients
BY DEF TypeOK, CurrentUser

\* Test t is filed under uid u: by both writes, after which the handler returns, or
\* by the first of them, with which the process stops.
Returns(u) ==
  cached' = u /\ UNCHANGED <<running, configured, authVars, switched, mishaps, refused>>

FiledBy(u, t) == {<<AddOwn(u, t), AddAll(u, t)>>, <<AddOwn(u, t)>>}

Files(u, t) ==
  /\ configured /\ u = CurrentUser
  /\ t.n = taken + 1 /\ t.by = authUser /\ t.sure = ~switched /\ t.kept = client
  /\ taken' = taken + 1 /\ taken \in Nat /\ taken + 1 \in 1..MaxTests
  /\ \E s \in FiledBy(u, t) : s \in Seq(Writes) /\ Puts(s)
  /\ Returns(u) \/ Stops

LEMMA NextTestType ==
  ASSUME TypeOK, taken < MaxTests
  PROVE  /\ taken \in Nat /\ taken + 1 \in 1..MaxTests /\ NextTest \in Tests
         /\ NextTest.n = taken + 1 /\ NextTest.by = authUser
         /\ NextTest.sure = ~switched /\ NextTest.kept = client
<1>1. taken \in Nat /\ taken + 1 \in 1..MaxTests
  <2>1. taken \in 0..MaxTests /\ MaxTests \in Nat
    BY TestsAssumption DEF TypeOK
  <2>. QED
    BY <2>1
<1>2. authUser \in Clients /\ client \in Clients /\ (~switched) \in BOOLEAN
  <2>1. authUser \in Clients /\ client \in Clients
    BY DEF TypeOK, CloudTypeOK
  <2>2. \A b : (~b) \in BOOLEAN
    OBVIOUS
  <2>. QED
    BY <2>1, <2>2, Zenon
<1>3. \A n \in 1..MaxTests, by \in Clients, sure \in BOOLEAN, kept \in Clients :
        [n |-> n, by |-> by, sure |-> sure, kept |-> kept] \in Tests
  BY TestsAssumption
<1>4. NextTest \in Tests
  BY <1>1, <1>2, <1>3, Zenon DEF NextTest
<1>. QED
  BY <1>1, <1>4, Zenon DEF NextTest

\* A finished test is filed under a user's uid, or ends the process.
LEMMA FinishTestProperties ==
  ASSUME TypeOK, FinishTest \/ KillInFinishTest
  PROVE  /\ taken \in Nat /\ taken' = taken + 1 /\ taken' \in 1..MaxTests
         /\ (\E u \in Users, t \in Tests : Files(u, t)) \/ ProcessEnds
<1> DEFINE u == CurrentUser
           t == NextTest
           two == <<AddOwn(u, t), AddAll(u, t)>>
           one == <<AddOwn(u, t)>>
<1>1. /\ configured /\ taken < MaxTests /\ taken' = taken + 1
      /\ \/ u # NoUser /\ cached' = u /\ Enqueue(two)
            /\ UNCHANGED <<running, configured, authVars, switched, mishaps, refused>>
         \/ ProcessEnds
         \/ u # NoUser /\ Stops /\ EnqueueLast(one)
  BY DEF FinishTest, KillInFinishTest, UpdateTestScores, TrapsOnEmptyName
<1>2. /\ taken \in Nat /\ taken + 1 \in 1..MaxTests /\ t \in Tests
      /\ t.n = taken + 1 /\ t.by = authUser /\ t.sure = ~switched /\ t.kept = client
  BY <1>1, NextTestType
<1> HIDE DEF t
<1>3. ASSUME u # NoUser
      PROVE  u \in Users /\ two \in Seq(Writes) /\ one \in Seq(Writes)
  <2>1. u \in Users
    BY <1>3, CurrentUserType DEF Clients
  <2>2. AddOwn(u, t) \in Writes /\ AddAll(u, t) \in Writes
    BY <1>2, <2>1, WritesMade
  <2>. QED
    BY <2>1, <2>2
<1>4. one \in FiledBy(u, t) /\ two \in FiledBy(u, t)
  BY DEF FiledBy
<1> HIDE DEF u, one, two
<1>5. CASE u # NoUser /\ cached' = u /\ Enqueue(two)
           /\ UNCHANGED <<running, configured, authVars, switched, mishaps, refused>>
  <2>1. Puts(two) /\ Returns(u)
    BY <1>5, EnqueuePuts DEF Returns
  <2>2. Files(u, t)
    BY <1>1, <1>2, <1>3, <1>4, <1>5, <2>1 DEF Files, u
  <2>. QED
    BY <1>1, <1>2, <1>3, <1>5, <2>2
<1>6. CASE u # NoUser /\ Stops /\ EnqueueLast(one)
  <2>1. Puts(one)
    BY <1>6, EnqueuePuts
  <2>2. Files(u, t)
    BY <1>1, <1>2, <1>3, <1>4, <1>6, <2>1 DEF Files, u
  <2>. QED
    BY <1>1, <1>2, <1>3, <1>6, <2>2
<1>. QED
  BY <1>1, <1>2, <1>5, <1>6

\* What filing a test leaves alone.
LEMMA FilesProperties ==
  ASSUME TypeOK, NEW u \in Users, NEW t \in Tests, Files(u, t)
  PROVE  /\ CloudTypeOK' /\ UNCHANGED <<client, profiles, results, allExists, allResults>>
         /\ ahead' = 0 \/ UNCHANGED ahead
         /\ refused' = refused
         /\ Returns(u) \/ Stops
<1>1. PICK s \in Seq(Writes) : Puts(s)
  BY DEF Files
<1>2. CloudTypeOK
  BY DEF TypeOK
<1>3. Stops => refused' = refused
  BY StopsProperties
<1>. QED
  BY <1>1, <1>2, <1>3, EnqueueProperties DEF Files, Returns

\* The profile of u is written.
Writes1(u) ==
  /\ main # <<>> /\ main' = Tail(main) /\ Head(main) = Callback(u)
  /\ <<SetProfile(u)>> \in Seq(Writes) /\ Puts(<<SetProfile(u)>>)
  /\ UNCHANGED <<running, configured, accounts, authUser, requests, cached, switched,
                 taken, mishaps, refused>>

\* Firestore is told of user c.
Tells(c) ==
  /\ main # <<>> /\ main' = Tail(main) /\ Head(main) = Notification(c)
  /\ Notified(c) /\ Calm
  /\ UNCHANGED <<running, configured, accounts, authUser, requests, cached, switched,
                 taken, mishaps, refused>>

LEMMA RunMainProperties ==
  ASSUME TypeOK, RunMain
  PROVE  (\E u \in Users : Writes1(u)) \/ (\E c \in Clients : Tells(c))
<1> DEFINE b == Head(main)
<1>1. /\ main # <<>> /\ main' = Tail(main)
      /\ IF b.kind = "notify" THEN Notified(b.uid) ELSE WriteData(b.uid)
      /\ UNCHANGED <<running, configured, accounts, authUser, requests, cached, switched,
                     taken, mishaps, refused>>
  BY DEF RunMain
<1>2. b \in Blocks
  BY <1>1, TailOfMain DEF TypeOK
<1> HIDE DEF b
<1>3. CASE b.kind = "notify"
  <2>1. b.uid \in Clients /\ b = Notification(b.uid) /\ Notified(b.uid)
    BY <1>1, <1>2, <1>3, BlockKinds
  <2>2. Calm
    BY <2>1, CalmActions DEF Notified, TypeOK
  <2>3. Tells(b.uid)
    BY <1>1, <2>1, <2>2 DEF Tells, b
  <2>. QED
    BY <2>1, <2>3
<1>4. CASE b.kind # "notify"
  <2>1. b.uid \in Users /\ b = Callback(b.uid) /\ Enqueue(<<SetProfile(b.uid)>>)
    BY <1>1, <1>2, <1>4, BlockKinds DEF WriteData
  <2>2. SetProfile(b.uid) \in Writes
    BY <2>1, WritesMade
  <2>3. <<SetProfile(b.uid)>> \in Seq(Writes) /\ Puts(<<SetProfile(b.uid)>>)
    BY <2>1, <2>2, EnqueuePuts
  <2>4. Writes1(b.uid)
    BY <1>1, <2>1, <2>3 DEF Writes1, b
  <2>. QED
    BY <2>1, <2>4
<1>. QED
  BY <1>3, <1>4

\* The kinds of steps.  All but the last four leave the writes alone.
Delivery == UNCHANGED <<running, configured, authVars, cached, switched, taken>>

LEMMA DeliverProperties ==
  ASSUME TypeOK, Deliver
  PROVE  /\ Delivery
         /\ \/ Apply /\ UNCHANGED <<mishaps, refused>>
            \/ Acknowledge /\ UNCHANGED <<mishaps, refused>>
            \/ Calm /\ UNCHANGED <<mishaps, refused>>
            \/ Refused
<1>1. Disconnect => Calm
  BY CalmActions DEF TypeOK
<1>. QED
  BY <1>1 DEF Deliver, Delivery

\* A refusal is remembered if the test's own copy, or a profile, is lost by it.
LEMMA RefusedProperties ==
  ASSUME TypeOK, Refused
  PROVE  /\ Refuse
         /\ mishaps \subseteq mishaps' /\ mishaps' \in SUBSET Users
         /\ refused \subseteq refused' /\ refused' \in SUBSET Tests
         /\ \A u \in Users : Head(queue[client]) = SetProfile(u) => ahead > 0 \/ u \in mishaps'
         /\ \A u \in Users, t \in Tests : Head(queue[client]) = AddOwn(u, t) => t \in refused'
<1> DEFINE w == Head(queue[client])
<1>1. /\ Refuse
      /\ mishaps' = IF w.op = "set" /\ ahead = 0 THEN mishaps \cup {w.uid} ELSE mishaps
      /\ refused' = IF w.op = "own" THEN refused \cup {w.test} ELSE refused
  BY DEF Refused
<1>2. w \in Writes
  BY <1>1, AnswerProperties, DropProperties DEF TypeOK
<1> HIDE DEF w
<1>3. w.uid \in Users /\ (w.op = "own" => w.test \in Tests)
  BY <1>2, WriteKinds
<1>4. /\ mishaps \subseteq mishaps' /\ mishaps' \in SUBSET Users
      /\ refused \subseteq refused' /\ refused' \in SUBSET Tests
  BY <1>1, <1>3 DEF TypeOK
<1>5. ASSUME NEW u \in Users, w = SetProfile(u) PROVE ahead > 0 \/ u \in mishaps'
  <2>1. w.op = "set" /\ w.uid = u
    BY <1>5, WriteFields
  <2>2. ahead = 0 \/ ahead > 0
    BY DEF TypeOK, CloudTypeOK
  <2>. QED
    BY <1>1, <2>1, <2>2
<1>6. ASSUME NEW u \in Users, NEW t \in Tests, w = AddOwn(u, t) PROVE t \in refused'
  <2>1. w.op = "own" /\ w.test = t
    BY <1>6, WriteFields
  <2>. QED
    BY <1>1, <2>1
<1>. QED
  BY <1>1, <1>4, <1>5, <1>6 DEF w

-------------------------------------------------------------------------------
(* Types. *)

LEMMA TypesInit == Init => TypeOK
<1> SUFFICES ASSUME Init PROVE TypeOK
  OBVIOUS
<1>1. /\ running = FALSE /\ configured = FALSE /\ accounts = {} /\ authUser = NoUser
      /\ cached = Unset /\ switched = FALSE /\ requests = {} /\ main = <<>>
      /\ taken = 0 /\ mishaps = {} /\ refused = {}
  BY DEF Init
<1>2. /\ queue = [c \in Clients |-> <<>>] /\ ahead = 0 /\ client \in Clients
      /\ profiles = {} /\ results = [u \in Users |-> {}] /\ allExists \in BOOLEAN
      /\ allResults = {}
  BY DEF Init, CloudInit, WQ!Init
<1>3. main \in Seq(Blocks) /\ <<>> \in Seq(Writes) /\ Len(queue[client]) = 0
  BY <1>1, <1>2, EmptySeq
<1>4. CloudTypeOK
  BY <1>2, <1>3 DEF CloudTypeOK
<1>5. authUser \in Clients /\ taken \in 0..MaxTests
  <2>1. MaxTests \in Nat
    BY TestsAssumption, Zenon
  <2>2. taken \in 0..MaxTests
    BY <1>1, <2>1
  <2>3. authUser \in Clients
    BY <1>1 DEF Clients
  <2>. QED
    BY <2>2, <2>3
<1>6. running \in BOOLEAN /\ configured \in BOOLEAN /\ switched \in BOOLEAN
  BY <1>1, Zenon
<1>. QED
  BY <1>1, <1>3, <1>4, <1>5, <1>6 DEF TypeOK

LEMMA SignsInTypes ==
  ASSUME TypeOK, NEW r \in requests, Grant(r)
  PROVE  TypeOK' /\ Calm /\ main' = main \o Granted(r)
<1>1. /\ accounts' = accounts \cup {r.uid} /\ authUser' = r.uid
      /\ switched' = (switched \/ (cached # Unset /\ authUser' # authUser))
      /\ requests' = requests \ {r} /\ main' = main \o Granted(r)
      /\ UNCHANGED <<running, configured, cached, taken, mishaps, refused, cloudVars>>
  BY DEF Grant, SignsIn, Granted
<1>2. r.uid \in Users /\ Granted(r) \in Seq(Blocks)
  BY GrantedProperties
<1>3. main' \in Seq(Blocks)
  BY <1>1, <1>2, EndOfMain DEF TypeOK
<1>4. switched' \in BOOLEAN
  BY <1>1, Zenon DEF TypeOK
<1>5. Calm /\ CloudTypeOK'
  BY <1>1, CalmActions, CalmTypes DEF TypeOK
<1>6. requests' \in SUBSET Requests /\ accounts' \in SUBSET Users /\ authUser' \in Clients
  BY <1>1, <1>2 DEF TypeOK, Clients
<1>. QED
  BY <1>1, <1>3, <1>4, <1>5, <1>6 DEF TypeOK

LEMMA DeliverTypes ==
  ASSUME TypeOK, Deliver
  PROVE  TypeOK'
<1>1. UNCHANGED <<running, configured, accounts, authUser, requests, main, cached, switched, taken>>
  BY DeliverProperties DEF Delivery, authVars
<1>2. CASE (Apply \/ Acknowledge \/ Calm) /\ UNCHANGED <<mishaps, refused>>
  <2>1. CloudTypeOK'
    BY <1>2, ApplyProperties, AnswerProperties, CalmTypes DEF TypeOK
  <2>. QED
    BY <1>1, <1>2, <2>1 DEF TypeOK
<1>3. CASE Refused
  <2>1. CloudTypeOK' /\ mishaps' \in SUBSET Users /\ refused' \in SUBSET Tests
    BY <1>3, RefusedProperties, AnswerProperties DEF TypeOK
  <2>. QED
    BY <1>1, <2>1 DEF TypeOK
<1>. QED
  BY <1>2, <1>3, DeliverProperties

\* Steps that leave Firestore alone, and what Auth and the singleton do in them.
LEMMA AloneTypes ==
  ASSUME TypeOK, UNCHANGED cloudVars,
         \/ Launch \/ ProfileAppears \/ SignOut \/ UNCHANGED vars
         \/ \E u \in Users, kind \in {"signIn", "create"} : Ask(kind, u)
         \/ \E r \in requests : Fail(r)
  PROVE  TypeOK'
<1>1. CloudTypeOK'
  BY CalmActions, CalmTypes DEF TypeOK
<1>2. CASE Launch
  BY <1>1, <1>2 DEF Launch, TypeOK, authVars
<1>3. CASE ProfileAppears
  BY <1>1, <1>3, CurrentUserType DEF ProfileAppears, TypeOK, authVars
<1>4. CASE SignOut
  <2>1. /\ UNCHANGED <<running, configured, accounts, requests, taken, mishaps, refused>>
        /\ cached' = CurrentUser
        /\ \/ UNCHANGED <<authUser, switched, main>>
           \/ /\ authUser' = NoUser /\ switched' = TRUE
              /\ main' = Append(main, Notification(NoUser))
    BY <1>4 DEF SignOut
  <2>2. main' \in Seq(Blocks)
    <3>1. Notification(NoUser) \in Blocks
      BY BlockKinds DEF Clients
    <3>. QED
      BY <2>1, <3>1, AppendProperties DEF TypeOK
  <2>3. authUser' \in Clients
    BY <2>1 DEF TypeOK, Clients
  <2>4. switched' \in BOOLEAN
    BY <2>1, Zenon DEF TypeOK
  <2>. QED
    BY <1>1, <2>1, <2>2, <2>3, <2>4, CurrentUserType DEF TypeOK
<1>5. ASSUME NEW u \in Users, NEW kind \in {"signIn", "create"}, Ask(kind, u)
      PROVE  TypeOK'
  <2>1. requests' \in SUBSET Requests
    BY <1>5 DEF Ask, TypeOK, Requests
  <2>. QED
    BY <1>1, <1>5, <2>1 DEF Ask, TypeOK
<1>6. ASSUME NEW r \in requests, Fail(r) PROVE TypeOK'
  <2>1. r.uid \in Users
    BY DEF TypeOK, Requests
  <2>2. accounts' \in SUBSET Users /\ mishaps' \in SUBSET Users
    BY <1>6, <2>1 DEF Fail, TypeOK
  <2>. QED
    BY <1>1, <1>6, <2>2 DEF Fail, TypeOK
<1>7. CASE UNCHANGED vars
  BY <1>1, <1>7 DEF vars, authVars, TypeOK
<1>. QED
  BY <1>2, <1>3, <1>4, <1>5, <1>6, <1>7

LEMMA TypesStep ==
  ASSUME TypeOK, [Next]_vars
  PROVE  TypeOK'
<1>1. CASE \/ Launch \/ ProfileAppears \/ SignOut \/ UNCHANGED vars
           \/ \E u \in Users, kind \in {"signIn", "create"} : Ask(kind, u)
           \/ \E r \in requests : Fail(r)
  <2>1. UNCHANGED cloudVars
    BY <1>1 DEF Launch, ProfileAppears, SignOut, Ask, Fail, vars
  <2>. QED
    BY <1>1, <2>1, AloneTypes
<1>2. ASSUME Stops, CloudTypeOK', taken' \in 0..MaxTests PROVE TypeOK'
  BY <1>2, StopsProperties DEF TypeOK
<1>3. ASSUME ProcessEnds, taken' \in 0..MaxTests PROVE TypeOK'
  BY <1>2, <1>3, ProcessEndsStops, CalmTypes DEF TypeOK
<1>9. CASE Kill
  BY <1>3, <1>9 DEF Kill, TypeOK
<1>4. CASE Configure
  <2>1. CloudTypeOK'
    BY <1>4, CalmActions, CalmTypes DEF Configure, TypeOK
  <2>. QED
    BY <1>4, <2>1 DEF Configure, TypeOK, authVars
<1>5. ASSUME NEW r \in requests, Grant(r) PROVE TypeOK'
  BY <1>5, SignsInTypes
<1>6. ASSUME RunMain PROVE TypeOK'
  <2>1. /\ main # <<>> /\ main' = Tail(main)
        /\ UNCHANGED <<running, configured, accounts, authUser, requests, cached, switched,
                       taken, mishaps, refused>>
    BY <1>6 DEF RunMain
  <2>2. main' \in Seq(Blocks)
    BY <2>1, TailOfMain DEF TypeOK
  <2>3. CloudTypeOK'
    <3>1. ASSUME NEW u \in Users, Writes1(u) PROVE CloudTypeOK'
      BY <3>1, EnqueueProperties DEF Writes1, TypeOK
    <3>2. ASSUME NEW c \in Clients, Tells(c) PROVE CloudTypeOK'
      BY <3>2, CalmTypes DEF Tells, TypeOK
    <3>. QED
      BY <1>6, <3>1, <3>2, RunMainProperties
  <2>. QED
    BY <2>1, <2>2, <2>3 DEF TypeOK
<1>7. ASSUME FinishTest \/ KillInFinishTest PROVE TypeOK'
  <2>1. taken' \in 0..MaxTests
    BY <1>7, FinishTestProperties
  <2>2. ASSUME NEW u \in Users, NEW t \in Tests, Files(u, t) PROVE TypeOK'
    <3>1. CloudTypeOK'
      BY <2>2, FilesProperties
    <3>2. CASE Returns(u)
      BY <2>1, <3>1, <3>2 DEF Returns, authVars, TypeOK, Clients
    <3>. QED
      BY <1>2, <2>1, <2>2, <3>1, <3>2, FilesProperties
  <2>. QED
    BY <1>3, <1>7, <2>1, <2>2, FinishTestProperties
<1>8. CASE Deliver
  BY <1>8, DeliverTypes
<1>. QED
  BY <1>1, <1>4, <1>5, <1>6, <1>7, <1>8, <1>9 DEF Next

\* SessionTypeOK: see TypeOK of Session.
THEOREM SessionTypeOK == Spec => []TypeOK
<1>1. Init => TypeOK
  BY TypesInit
<1>2. TypeOK /\ [Next]_vars => TypeOK'
  BY TypesStep
<1>. QED
  BY <1>1, <1>2, PTL DEF Spec

-------------------------------------------------------------------------------
(* What a step is for the writes. *)

\* An answer: the first write leaves the queue.
Answers ==
  /\ WQ!Drop /\ Delivery
  /\ UNCHANGED <<profiles, results, allExists, allResults>>
  /\ ahead' \in Nat /\ (ahead' = 0 \/ ahead' = ahead - 1)
  /\ mishaps \subseteq mishaps' /\ refused \subseteq refused'
  /\ \A u \in Users : Head(queue[client]) = SetProfile(u) => (ahead > 0 \/ u \in mishaps')
  /\ \A u \in Users, t \in Tests :
       Head(queue[client]) = AddOwn(u, t) => (ahead > 0 \/ t \in refused')

LEMMA Steps ==
  ASSUME TypeOK, [Next]_vars
  PROVE  \/ Calm /\ UNCHANGED refused /\ taken' \in Nat /\ taken <= taken'
         \/ \E u \in Users : Writes1(u)
         \/ \E u \in Users, t \in Tests : Files(u, t)
         \/ Apply /\ Delivery /\ UNCHANGED <<mishaps, refused>>
         \/ Answers
<1>0. taken \in Nat /\ CloudTypeOK /\ ahead \in Nat
  <2>1. taken \in 0..MaxTests /\ MaxTests \in Nat
    BY TestsAssumption DEF TypeOK
  <2>. QED
    BY <2>1 DEF TypeOK, CloudTypeOK
<1>1. CASE \/ Launch \/ ProfileAppears \/ SignOut \/ UNCHANGED vars
           \/ \E u \in Users, kind \in {"signIn", "create"} : Ask(kind, u)
           \/ \E r \in requests : Grant(r) \/ Fail(r)
  <2>1. UNCHANGED cloudVars /\ UNCHANGED <<refused, taken>>
    BY <1>1 DEF Launch, ProfileAppears, SignOut, Ask, Grant, SignsIn, Fail, vars
  <2>. QED
    BY <1>0, <2>1, CalmActions
<1>2. CASE Kill
  BY <1>0, <1>2, ProcessEndsStops, StopsProperties DEF Kill
<1>3. CASE Configure
  <2>1. authUser \in Clients /\ SwitchTo(authUser) /\ UNCHANGED <<refused, taken>>
    BY <1>3 DEF Configure, TypeOK
  <2>. QED
    BY <1>0, <2>1, CalmActions
<1>4. CASE RunMain
  BY <1>0, <1>4, RunMainProperties DEF Tells
<1>5. CASE FinishTest \/ KillInFinishTest
  <2>1. taken' \in Nat /\ taken <= taken'
    BY <1>0, <1>5, FinishTestProperties
  <2>. QED
    BY <1>5, <2>1, FinishTestProperties, ProcessEndsStops, StopsProperties
<1>6. CASE Deliver
  <2>1. Delivery /\ UNCHANGED taken
    BY <1>6, DeliverProperties DEF Delivery
  <2>2. CASE Apply /\ UNCHANGED <<mishaps, refused>>
    BY <2>1, <2>2
  <2>3. CASE Acknowledge /\ UNCHANGED <<mishaps, refused>>
    BY <1>0, <2>1, <2>3, AnswerProperties DEF Answers
  <2>4. CASE Calm /\ UNCHANGED <<mishaps, refused>>
    BY <1>0, <2>1, <2>4
  <2>5. CASE Refused
    BY <1>0, <2>1, <2>5, AnswerProperties, RefusedProperties DEF Answers
  <2>. QED
    BY <1>6, <2>2, <2>3, <2>4, <2>5, DeliverProperties
<1>. QED
  BY <1>1, <1>2, <1>3, <1>4, <1>5, <1>6 DEF Next

\* The writes that file a test, by place.
LEMMA FiledByWrites ==
  ASSUME NEW u \in Users, NEW t \in Tests, NEW s \in FiledBy(u, t)
  PROVE  /\ Len(s) \in 1..2 /\ s[1] = AddOwn(u, t)
         /\ Len(s) = 2 => s[2] = AddAll(u, t)
         /\ Len(s) >= 1 /\ Len(s) \in Nat
         /\ \A n \in 1..Len(s) : s[n] = AddOwn(u, t) \/ s[n] = AddAll(u, t)
<1>1. CASE s = <<AddOwn(u, t)>>
  <2>1. Len(s) = 1 /\ s[1] = AddOwn(u, t)
    BY <1>1
  <2>. QED
    BY <2>1
<1>2. CASE s = <<AddOwn(u, t), AddAll(u, t)>>
  <2>1. Len(s) = 2 /\ s[1] = AddOwn(u, t) /\ s[2] = AddAll(u, t)
    BY <1>2
  <2>. QED
    BY <2>1
<1>. QED
  BY <1>1, <1>2 DEF FiledBy

\* What waits after the two steps that make writes.
LEMMA MadeWaits ==
  ASSUME TypeOK
  PROVE  /\ \A u \in Users : Writes1(u) =>
              \A w : Waits(w)' <=> Waits(w) \/ w = SetProfile(u)
         /\ \A u \in Users, t \in Tests : Files(u, t) =>
              /\ \A w : Waits(w) => Waits(w)'
              /\ Waits(AddOwn(u, t))'
              /\ \A w : Waits(w)' => Waits(w) \/ w = AddOwn(u, t) \/ w = AddAll(u, t)
<1>0. CloudTypeOK
  BY DEF TypeOK
<1>1. ASSUME NEW u \in Users, Writes1(u), NEW w
      PROVE  Waits(w)' <=> Waits(w) \/ w = SetProfile(u)
  <2> DEFINE s == <<SetProfile(u)>>
  <2>1. s \in Seq(Writes) /\ Puts(s)
    BY <1>1 DEF Writes1
  <2>2. Len(s) = 1 /\ s[1] = SetProfile(u)
    OBVIOUS
  <2> HIDE DEF s
  <2>3. Waits(w)' <=> Waits(w) \/ \E n \in 1..Len(s) : s[n] = w
    BY <1>0, <2>1, EnqueueWaits
  <2>. QED
    BY <2>2, <2>3
<1>2. ASSUME NEW u \in Users, NEW t \in Tests, Files(u, t)
      PROVE  /\ \A w : Waits(w) => Waits(w)'
             /\ Waits(AddOwn(u, t))'
             /\ \A w : Waits(w)' => Waits(w) \/ w = AddOwn(u, t) \/ w = AddAll(u, t)
  <2>1. PICK s \in FiledBy(u, t) : s \in Seq(Writes) /\ Puts(s)
    BY <1>2 DEF Files
  <2>2. /\ Len(s) >= 1 /\ Len(s) \in Nat /\ s[1] = AddOwn(u, t)
        /\ \A n \in 1..Len(s) : s[n] = AddOwn(u, t) \/ s[n] = AddAll(u, t)
    BY FiledByWrites
  <2>3. \A w : Waits(w)' <=> Waits(w) \/ \E n \in 1..Len(s) : s[n] = w
    BY <1>0, <2>1, EnqueueWaits
  <2>4. 1 \in 1..Len(s)
    BY <2>2
  <2>. QED
    BY <2>2, <2>3, <2>4
<1>. QED
  BY <1>1, <1>2

-------------------------------------------------------------------------------
(* Whose test a result is. *)

\* Test t is on its way to user u's results, or among them.
Mentions(u, t) ==
  \/ Waits(AddOwn(u, t)) \/ Waits(AddAll(u, t))
  \/ t \in results[u] \/ [uid |-> u, test |-> t] \in allResults

\* The uid the singleton has read is the current user's until that changes.
CachedInv == ~switched => cached \in {Unset, authUser}

\* A test is filed once, under one uid.
MentionInv ==
  \A u \in Users, t \in Tests : Mentions(u, t) =>
    /\ t.n <= taken
    /\ t.sure => t.by = u
    /\ \A v \in Users : Mentions(v, t) => v = u

LEMMA CachedStep ==
  ASSUME TypeOK, CachedInv, [Next]_vars
  PROVE  CachedInv'
<1>1. CASE Stops
  BY <1>1, StopsProperties DEF CachedInv
<1>2. CASE Launch \/ Configure \/ RunMain \/ Deliver \/ UNCHANGED vars
  BY <1>2 DEF Launch, Configure, RunMain, Deliver, vars, authVars, CachedInv
<1>3. CASE ProfileAppears \/ SignOut
  BY <1>3 DEF ProfileAppears, SignOut, CurrentUser, authVars, CachedInv, TypeOK
<1>4. CASE \/ \E u \in Users, kind \in {"signIn", "create"} : Ask(kind, u)
           \/ \E r \in requests : Fail(r)
  BY <1>4 DEF Ask, Fail, CachedInv
<1>5. CASE \E r \in requests : Grant(r)
  BY <1>5 DEF Grant, SignsIn, CachedInv
<1>6. ASSUME NEW u \in Users, NEW t \in Tests, Files(u, t) PROVE CachedInv'
  <2>1. CASE Returns(u)
    BY <1>6, <2>1 DEF Returns, Files, CurrentUser, authVars, CachedInv
  <2>. QED
    BY <1>1, <1>6, <2>1, FilesProperties
<1>. QED
  BY <1>1, <1>2, <1>3, <1>4, <1>5, <1>6, FinishTestProperties, ProcessEndsStops DEF Next, Kill

\* Only filing makes a mention.
LEMMA MentionsMade ==
  ASSUME TypeOK, [Next]_vars, NEW u \in Users, NEW t \in Tests, Mentions(u, t)'
  PROVE  Mentions(u, t) \/ Files(u, t)
<1>0. CloudTypeOK
  BY DEF TypeOK
<1>1. CASE Calm
  BY <1>1, CalmWaits DEF Calm, Mentions
<1>2. ASSUME NEW v \in Users, Writes1(v) PROVE Mentions(u, t)
  <2>1. UNCHANGED <<results, allResults>>
    BY <1>0, <1>2, EnqueueProperties DEF Writes1
  <2>2. AddOwn(u, t) # SetProfile(v) /\ AddAll(u, t) # SetProfile(v)
    BY WriteFields
  <2>. QED
    BY <1>2, <2>1, <2>2, MadeWaits DEF Mentions
<1>3. ASSUME NEW v \in Users, NEW s \in Tests, Files(v, s) PROVE Mentions(u, t) \/ Files(u, t)
  <2>1. UNCHANGED <<results, allResults>>
    BY <1>0, <1>3, FilesProperties
  <2>2. /\ AddOwn(u, t) # AddAll(v, s) /\ AddAll(u, t) # AddOwn(v, s)
        /\ AddOwn(u, t) = AddOwn(v, s) => u = v /\ t = s
        /\ AddAll(u, t) = AddAll(v, s) => u = v /\ t = s
    BY WriteFields
  <2>. QED
    BY <1>3, <2>1, <2>2, MadeWaits DEF Mentions
<1>4. CASE Apply
  <2>1. UNCHANGED queue /\ client \in Clients /\ ahead + 1 \in 1..Len(queue[client])
    BY <1>0, <1>4, ApplyProperties DEF CloudTypeOK
  <2>2. \A w : Waits(w)' <=> Waits(w)
    BY <2>1 DEF Waits
  <2>3. Waits(queue[client][ahead + 1])
    BY <2>1 DEF Waits
  <2>4. results \in [Users -> SUBSET Tests]
    BY <1>0 DEF CloudTypeOK
  <2>5. CASE t \in results'[u] /\ t \notin results[u]
    <3>1. PICK v \in Users, s \in Tests :
            /\ queue[client][ahead + 1] = AddOwn(v, s)
            /\ results' = [results EXCEPT ![v] = @ \cup {s}]
      BY <1>0, <1>4, <2>4, <2>5, ApplyProperties
    <3>. QED
      BY <2>3, <2>4, <2>5, <3>1 DEF Mentions
  <2>6. CASE [uid |-> u, test |-> t] \in allResults' \ allResults
    <3>1. PICK v \in Users, s \in Tests :
            /\ queue[client][ahead + 1] = AddAll(v, s)
            /\ allResults' = allResults \cup {[uid |-> v, test |-> s]}
      BY <1>0, <1>4, <2>6, ApplyProperties
    <3>2. v = u /\ s = t
      BY <2>6, <3>1
    <3>. QED
      BY <2>3, <3>1, <3>2 DEF Mentions
  <2>. QED
    BY <2>2, <2>5, <2>6 DEF Mentions
<1>5. CASE Answers
  BY <1>0, <1>5, DropWaits DEF Answers, Mentions
<1>. QED
  BY <1>1, <1>2, <1>3, <1>4, <1>5, Steps

LEMMA MentionStep ==
  ASSUME TypeOK, CachedInv, MentionInv, [Next]_vars
  PROVE  MentionInv'
<1>1. taken \in Nat /\ taken' \in Nat /\ taken <= taken'
  <2>1. taken \in 0..MaxTests /\ MaxTests \in Nat
    BY TestsAssumption DEF TypeOK
  <2>2. UNCHANGED taken => taken' \in Nat /\ taken <= taken'
    BY <2>1
  <2>3. ASSUME NEW u \in Users, NEW t \in Tests, Files(u, t) PROVE taken' \in Nat /\ taken <= taken'
    BY <2>3 DEF Files
  <2>4. \/ UNCHANGED taken
        \/ (taken' \in Nat /\ taken <= taken')
        \/ \E u \in Users, t \in Tests : Files(u, t)
    <3>1. \A u \in Users : Writes1(u) => UNCHANGED taken
      BY DEF Writes1
    <3>2. Delivery => UNCHANGED taken
      BY DEF Delivery
    <3>3. Answers => UNCHANGED taken
      BY <3>2 DEF Answers
    <3>. QED
      BY <3>1, <3>2, <3>3, Steps
  <2>. QED
    BY <2>1, <2>2, <2>3, <2>4
<1>2. \A t \in Tests : t.n \in Nat
  <2>1. \A t \in Tests : t.n \in 1..MaxTests
    BY TestsAssumption
  <2>2. MaxTests \in Nat
    BY TestsAssumption, Zenon
  <2>. QED
    BY <2>1, <2>2
<1>3. ASSUME NEW u \in Users, NEW t \in Tests, Files(u, t)
      PROVE  t.n = taken + 1 /\ taken' = taken + 1 /\ (t.sure => t.by = u)
             /\ \A v \in Users : ~Mentions(v, t) /\ (Files(v, t) => v = u)
  <2>1. t.n = taken + 1 /\ taken' = taken + 1 /\ u = CurrentUser /\ u # Unset
    BY <1>3, UnsetAssumption DEF Files, Clients
  <2>2. t.sure => t.by = u
    BY <1>3, <2>1 DEF Files, CurrentUser, CachedInv
  <2>3. ASSUME NEW v \in Users PROVE ~Mentions(v, t) /\ (Files(v, t) => v = u)
    <3>1. ~Mentions(v, t)
      BY <1>1, <2>1 DEF MentionInv
    <3>. QED
      BY <2>1, <3>1 DEF Files
  <2>. QED
    BY <2>1, <2>2, <2>3
<1>4. ASSUME NEW u \in Users, NEW t \in Tests, Mentions(u, t)'
      PROVE  /\ t.n <= taken'
             /\ t.sure => t.by = u
             /\ \A v \in Users : Mentions(v, t)' => v = u
  <2>1. CASE Files(u, t)
    <3>1. \A v \in Users : Mentions(v, t)' => v = u
      BY <1>3, <2>1, MentionsMade
    <3>2. t.n <= taken'
      BY <1>1, <1>3, <2>1
    <3>. QED
      BY <1>3, <2>1, <3>1, <3>2
  <2>2. CASE Mentions(u, t)
    <3>1. t.n <= taken /\ (t.sure => t.by = u)
      BY <2>2 DEF MentionInv
    <3>2. t.n <= taken'
      BY <1>1, <1>2, <3>1
    <3>3. \A v \in Users : Mentions(v, t)' => v = u
      BY <1>3, <2>2, MentionsMade DEF MentionInv
    <3>. QED
      BY <3>1, <3>2, <3>3
  <2>. QED
    BY <1>4, <2>1, <2>2, MentionsMade
<1>. QED
  BY <1>4 DEF MentionInv

\* SessionSureResults: see SureResultsAreTheTakers of Session.
THEOREM SessionSureResults == Spec => []SureResultsAreTheTakers
<1> DEFINE Inv == TypeOK /\ CachedInv /\ MentionInv
<1>1. Init => Inv
  <2>1. Init => CachedInv
    BY DEF Init, CachedInv
  <2>2. Init => MentionInv
    <3> SUFFICES ASSUME Init, NEW u \in Users, NEW t \in Tests, Mentions(u, t)
                 PROVE  FALSE
      BY DEF MentionInv
    <3>1. results = [v \in Users |-> {}] /\ allResults = {} /\ queue = [c \in Clients |-> <<>>]
      BY DEF Init, CloudInit, WQ!Init
    <3>2. \A w : ~Waits(w)
      BY <3>1 DEF Waits
    <3>. QED
      BY <3>1, <3>2 DEF Mentions
  <2>. QED
    BY <2>1, <2>2, TypesInit
<1>2. Inv /\ [Next]_vars => Inv'
  BY TypesStep, CachedStep, MentionStep
<1>3. Inv => SureResultsAreTheTakers
  <2>1. ASSUME Inv, NEW u \in Users, NEW t \in results[u], t.sure PROVE t.by = u
    BY <2>1 DEF MentionInv, Mentions, TypeOK, CloudTypeOK
  <2>2. ASSUME Inv, NEW r \in allResults, r.test.sure PROVE r.test.by = r.uid
    <3>1. r \in [uid : Users, test : Tests]
      BY <2>2 DEF TypeOK, CloudTypeOK
    <3>2. r.uid \in Users /\ r.test \in Tests /\ r = [uid |-> r.uid, test |-> r.test]
      BY <3>1
    <3>3. Mentions(r.uid, r.test)
      BY <3>2 DEF Mentions
    <3>. QED
      BY <2>2, <3>2, <3>3 DEF MentionInv
  <2>. QED
    BY <2>1, <2>2 DEF SureResultsAreTheTakers
<1>. QED
  BY <1>1, <1>2, <1>3, PTL DEF Spec

-------------------------------------------------------------------------------
(* A profile's way from createUser to the server. *)

\* What is asked for, and whose profile is written or waits.
ProfileInv ==
  /\ \A r \in requests : r.kind = "create" => configured
  /\ profiles \subseteq accounts
  /\ \A u \in Users : Waits(SetProfile(u)) => u \in accounts

\* The callback at place n of the main queue will write u's first profile, once,
\* and when Firestore has been told of u.
Due(u, n) ==
  /\ configured /\ u \in accounts /\ u \notin profiles /\ ~Waits(SetProfile(u))
  /\ \A m \in 1..Len(main) : main[m] = Callback(u) => m = n
  /\ n = 1 => client = u
  /\ n > 1 => main[n - 1] = Notification(u)

CallbackInv ==
  \A u \in Users : \A n \in 1..Len(main) : main[n] = Callback(u) => Due(u, n)

\* Which profiles wait after a step, and which are written.
LEMMA ProfilesMade ==
  ASSUME TypeOK, [Next]_vars, NEW u \in Users
  PROVE  /\ Waits(SetProfile(u))' => Waits(SetProfile(u)) \/ Writes1(u)
         /\ u \in profiles' => u \in profiles \/ (Apply /\ Waits(SetProfile(u)))
         /\ u \in profiles => u \in profiles'
<1>0. CloudTypeOK
  BY DEF TypeOK
<1>1. CASE Calm
  BY <1>1, CalmWaits DEF Calm
<1>2. ASSUME NEW v \in Users, Writes1(v)
      PROVE  /\ Waits(SetProfile(u))' => Waits(SetProfile(u)) \/ Writes1(u)
             /\ UNCHANGED profiles
  <2>1. SetProfile(u) = SetProfile(v) => u = v
    BY WriteFields
  <2>2. UNCHANGED profiles
    BY <1>0, <1>2, EnqueueProperties DEF Writes1
  <2>. QED
    BY <1>2, <2>1, <2>2, MadeWaits
<1>3. ASSUME NEW v \in Users, NEW t \in Tests, Files(v, t)
      PROVE  /\ Waits(SetProfile(u))' => Waits(SetProfile(u))
             /\ UNCHANGED profiles
  <2>1. SetProfile(u) # AddOwn(v, t) /\ SetProfile(u) # AddAll(v, t)
    BY WriteFields
  <2>2. UNCHANGED profiles
    BY <1>0, <1>3, FilesProperties
  <2>. QED
    BY <1>3, <2>1, <2>2, MadeWaits
<1>4. CASE Apply
  <2>1. UNCHANGED queue /\ client \in Clients /\ ahead + 1 \in 1..Len(queue[client])
    BY <1>0, <1>4, ApplyProperties DEF CloudTypeOK
  <2>2. Waits(queue[client][ahead + 1]) /\ \A w : Waits(w)' <=> Waits(w)
    BY <2>1 DEF Waits
  <2>3. \/ UNCHANGED profiles
        \/ \E v \in Users : /\ queue[client][ahead + 1] = SetProfile(v)
                            /\ profiles' = profiles \cup {v}
    BY <1>0, <1>4, ApplyProperties
  <2>. QED
    BY <1>4, <2>2, <2>3
<1>5. CASE Answers
  BY <1>0, <1>5, DropWaits DEF Answers
<1>. QED
  BY <1>1, <1>2, <1>3, <1>4, <1>5, Steps

\* Accounts are never deleted.
LEMMA AccountsStay ==
  ASSUME TypeOK, [Next]_vars
  PROVE  accounts \subseteq accounts'
<1>1. CASE Stops
  BY <1>1, StopsProperties
<1>2. CASE Launch \/ Configure \/ ProfileAppears \/ SignOut \/ RunMain \/ Deliver \/ UNCHANGED vars
  BY <1>2 DEF Launch, Configure, ProfileAppears, SignOut, RunMain, Deliver, vars, authVars
<1>3. CASE \/ \E u \in Users, kind \in {"signIn", "create"} : Ask(kind, u)
           \/ \E r \in requests : Grant(r) \/ Fail(r)
  BY <1>3 DEF Ask, Grant, SignsIn, Fail
<1>4. ASSUME NEW u \in Users, NEW t \in Tests, Files(u, t), ~Stops PROVE UNCHANGED accounts
  BY <1>4, FilesProperties DEF Returns, authVars
<1>. QED
  BY <1>1, <1>2, <1>3, <1>4, FinishTestProperties, ProcessEndsStops DEF Next, Kill

LEMMA ProfileStep ==
  ASSUME TypeOK, ProfileInv, CallbackInv, [Next]_vars
  PROVE  ProfileInv'
<1>0. accounts \subseteq accounts' /\ profiles' \subseteq Users
  BY AccountsStay, TypesStep DEF TypeOK, CloudTypeOK
<1>1. ASSUME NEW u \in Users, Waits(SetProfile(u))' PROVE u \in accounts'
  <2>1. CASE Waits(SetProfile(u))
    BY <1>0, <2>1 DEF ProfileInv
  <2>2. CASE Writes1(u)
    <3>1. 1 \in 1..Len(main) /\ main[1] = Callback(u)
      BY <2>2, TailOfMain DEF Writes1, TypeOK
    <3>. QED
      BY <1>0, <3>1 DEF CallbackInv, Due
  <2>. QED
    BY <1>1, <2>1, <2>2, ProfilesMade
<1>2. ASSUME NEW u \in profiles' PROVE u \in accounts'
  BY <1>0, ProfilesMade DEF ProfileInv
<1>3. \A r \in requests' : r.kind = "create" => configured'
  <2>1. CASE Stops
    BY <2>1, StopsProperties
  <2>2. CASE Launch \/ Configure \/ ProfileAppears \/ SignOut \/ RunMain \/ Deliver \/ UNCHANGED vars
    BY <2>2 DEF Launch, Configure, ProfileAppears, SignOut, RunMain, Deliver, vars, authVars,
                ProfileInv
  <2>3. CASE \E r \in requests : Grant(r) \/ Fail(r)
    BY <2>3 DEF Grant, SignsIn, Fail, ProfileInv
  <2>5. ASSUME NEW u \in Users, NEW kind \in {"signIn", "create"}, Ask(kind, u)
        PROVE  \A r \in requests' : r.kind = "create" => configured'
    <3> DEFINE q == [kind |-> kind, uid |-> u]
    <3>1. requests' = requests \cup {q} /\ UNCHANGED configured /\ (kind = "create" => configured)
      BY <2>5 DEF Ask
    <3>2. q.kind = kind
      OBVIOUS
    <3> HIDE DEF q
    <3>. QED
      BY <3>1, <3>2 DEF ProfileInv
  <2>4. ASSUME NEW u \in Users, NEW t \in Tests, Files(u, t), ~Stops
        PROVE UNCHANGED <<requests, configured>>
    BY <2>4, FilesProperties DEF Returns, authVars
  <2>. QED
    BY <2>1, <2>2, <2>3, <2>4, <2>5, FinishTestProperties, ProcessEndsStops DEF Next, Kill, ProfileInv
<1>. QED
  BY <1>1, <1>2, <1>3 DEF ProfileInv

\* Steps that leave the main queue, the client and the profiles alone.
LEMMA CallbackKept ==
  ASSUME CallbackInv, UNCHANGED <<main, configured, client>>, accounts \subseteq accounts',
         \A u \in Users : Waits(SetProfile(u))' => Waits(SetProfile(u)),
         \A u \in Users : u \in profiles' => u \in profiles \/ Waits(SetProfile(u))
  PROVE  CallbackInv'
BY DEF CallbackInv, Due

\* Steps that put blocks at its end.
LEMMA CallbackGrant ==
  ASSUME TypeOK, ProfileInv, CallbackInv, NEW r \in requests, Grant(r)
  PROVE  CallbackInv'
<1> DEFINE g == Granted(r)
<1>1. /\ main \in Seq(Blocks) /\ main' = main \o g /\ r.uid \in Users /\ g \in Seq(Blocks)
      /\ g[1] = Notification(r.uid)
      /\ r.kind = "create" => Len(g) = 2 /\ g[2] = Callback(r.uid)
      /\ r.kind # "create" => Len(g) = 1
  BY GrantedProperties, SignsInTypes DEF TypeOK
<1>2. /\ UNCHANGED <<configured, queue, client, profiles>> /\ accounts' = accounts \cup {r.uid}
      /\ r.kind = "create" => r.uid \notin accounts /\ configured
  <2>1. r.kind = "signIn" <=> r.uid \in accounts
    BY DEF Grant, SignsIn
  <2>2. r.kind = "create" => r.kind # "signIn"
    OBVIOUS
  <2>. QED
    BY <2>1, <2>2 DEF Grant, SignsIn, cloudVars, docVars, ProfileInv
<1>3. \A w : Waits(w)' <=> Waits(w)
  BY <1>2 DEF Waits
<1> HIDE DEF g
<1>4. /\ Len(main) \in Nat /\ Len(g) \in Nat /\ Len(main') = Len(main) + Len(g)
      /\ \A n \in 1..Len(main) : n \in 1..Len(main') /\ main'[n] = main[n]
      /\ \A n \in 1..Len(main') : \/ n \in 1..Len(main)
                                  \/ \E k \in 1..Len(g) : n = Len(main) + k /\ main'[n] = g[k]
      /\ \A k \in 1..Len(g) : main'[Len(main) + k] = g[k]
  BY <1>1, EndOfMain
<1>7. \A k \in 1..Len(g) : \/ k = 1 /\ g[k] = Notification(r.uid)
                           \/ k = 2 /\ g[k] = Callback(r.uid) /\ r.kind = "create"
  <2>1. CASE r.kind = "create"
    <3>1. \A k \in 1..Len(g) : k = 1 \/ k = 2
      <4>1. Len(g) = 2
        BY <1>1, <2>1, Zenon
      <4>. QED
        BY <4>1
    <3>. QED
      BY <1>1, <2>1, <3>1
  <2>2. CASE r.kind # "create"
    <3>1. \A k \in 1..Len(g) : k = 1
      <4>1. Len(g) = 1
        BY <1>1, <2>2, Zenon
      <4>. QED
        BY <4>1
    <3>. QED
      BY <1>1, <3>1
  <2>. QED
    BY <2>1, <2>2
<1> SUFFICES ASSUME NEW u \in Users, NEW n \in 1..Len(main'), main'[n] = Callback(u)
             PROVE  Due(u, n)'
  BY DEF CallbackInv
<1>5. CASE n \in 1..Len(main)
  <2>1. Due(u, n) /\ main[n] = Callback(u)
    BY <1>4, <1>5 DEF CallbackInv
  <2>2. u \in accounts
    BY <2>1 DEF Due
  <2>3. ASSUME NEW m \in 1..Len(main'), main'[m] = Callback(u) PROVE m = n
    <3>1. CASE m \in 1..Len(main)
      BY <1>4, <2>1, <2>3, <3>1 DEF Due
    <3>2. ASSUME NEW k \in 1..Len(g), main'[m] = g[k] PROVE FALSE
      <4>0. g[k] = Callback(u)
        BY <2>3, <3>2
      <4>1. r.kind = "create" /\ g[k] = Callback(r.uid)
        BY <1>7, <4>0, BlockKinds
      <4>2. u = r.uid
        BY <4>0, <4>1, BlockKinds
      <4>. QED
        BY <1>2, <2>2, <4>1, <4>2
    <3>. QED
      BY <1>4, <3>1, <3>2
  <2>4. n > 1 => main'[n - 1] = Notification(u)
    <3>1. ASSUME n > 1 PROVE n - 1 \in 1..Len(main) /\ main[n - 1] = Notification(u)
      BY <1>4, <1>5, <2>1, <3>1 DEF Due
    <3>. QED
      BY <1>4, <3>1
  <2>. QED
    BY <1>2, <1>3, <2>1, <2>3, <2>4 DEF Due
<1>6. ASSUME NEW k \in 1..Len(g), n = Len(main) + k, main'[n] = g[k] PROVE Due(u, n)'
  <2>1. r.kind = "create" /\ k = 2 /\ u = r.uid /\ Len(g) = 2
    <3>1. r.kind = "create" /\ k = 2 /\ g[k] = Callback(r.uid)
      BY <1>6, <1>7, BlockKinds
    <3>2. Callback(u) = Callback(r.uid)
      BY <1>6, <3>1
    <3>. QED
      BY <1>1, <3>1, <3>2, BlockKinds
  <2>2. configured' /\ u \in accounts' /\ u \notin profiles' /\ ~Waits(SetProfile(u))'
    BY <1>2, <1>3, <2>1 DEF ProfileInv
  <2>3. ASSUME NEW m \in 1..Len(main'), main'[m] = Callback(u) PROVE m = n
    <3>1. m \notin 1..Len(main)
      BY <1>2, <1>4, <2>1, <2>3 DEF CallbackInv, Due
    <3>2. PICK j \in 1..Len(g) : m = Len(main) + j /\ main'[m] = g[j]
      BY <1>4, <3>1
    <3>3. j = 2
      BY <1>7, <2>3, <3>2, BlockKinds
    <3>. QED
      BY <1>6, <2>1, <3>2, <3>3
  <2>4. n > 1 /\ main'[n - 1] = Notification(u)
    <3>1. n - 1 = Len(main) + 1 /\ 1 \in 1..Len(g) /\ n > 1
      BY <1>4, <1>6, <2>1
    <3>. QED
      BY <1>1, <1>4, <2>1, <3>1
  <2>. QED
    BY <2>2, <2>3, <2>4 DEF Due
<1>. QED
  BY <1>4, <1>5, <1>6

LEMMA CallbackSignOut ==
  ASSUME TypeOK, CallbackInv, SignOut
  PROVE  CallbackInv'
<1>1. /\ UNCHANGED <<configured, accounts, queue, client, profiles>>
      /\ UNCHANGED main \/ main' = Append(main, Notification(NoUser))
  BY DEF SignOut, cloudVars, docVars
<1>2. \A w : Waits(w)' <=> Waits(w)
  BY <1>1 DEF Waits
<1>3. CASE UNCHANGED main
  BY <1>1, <1>2, <1>3, CallbackKept
<1>4. CASE main' = Append(main, Notification(NoUser))
  <2>1. Notification(NoUser) \in Blocks /\ main \in Seq(Blocks)
    BY BlockKinds DEF Clients, TypeOK
  <2>2. /\ Len(main) \in Nat /\ Len(main') = Len(main) + 1
        /\ \A n \in 1..Len(main) : main'[n] = main[n]
        /\ main'[Len(main) + 1] = Notification(NoUser)
    BY <1>4, <2>1, AppendProperties, LenProperties
  <2>3. ASSUME NEW u \in Users, NEW n \in 1..Len(main'), main'[n] = Callback(u)
        PROVE  n \in 1..Len(main) /\ main[n] = Callback(u)
    <3>1. n # Len(main) + 1
      BY <2>2, <2>3, BlockKinds
    <3>. QED
      BY <2>2, <2>3, <3>1
  <2>4. ASSUME NEW u \in Users, NEW n \in 1..Len(main'), main'[n] = Callback(u)
        PROVE  Due(u, n)'
    <3>1. Due(u, n) /\ n \in 1..Len(main)
      BY <2>3, <2>4 DEF CallbackInv
    <3>2. n > 1 => main'[n - 1] = Notification(u)
      <4>1. n > 1 => n - 1 \in 1..Len(main) /\ main[n - 1] = Notification(u)
        BY <2>2, <3>1 DEF Due
      <4>. QED
        BY <2>2, <4>1
    <3>. QED
      BY <1>1, <1>2, <2>3, <3>1, <3>2 DEF Due
  <2>. QED
    BY <2>4 DEF CallbackInv
<1>. QED
  BY <1>1, <1>3, <1>4

\* Steps that take its first block.
LEMMA CallbackRun ==
  ASSUME TypeOK, CallbackInv, RunMain
  PROVE  CallbackInv'
<1>0. CloudTypeOK
  BY DEF TypeOK
<1>1. /\ main # <<>> /\ main' = Tail(main) /\ main \in Seq(Blocks)
      /\ UNCHANGED <<configured, accounts>>
  BY DEF RunMain, TypeOK
<1>2. /\ Head(main) = main[1] /\ Len(main) \in Nat /\ 1 \in 1..Len(main)
      /\ Len(main') = Len(main) - 1
      /\ \A n \in 1..Len(main') : n + 1 \in 1..Len(main) /\ main'[n] = main[n + 1]
  BY <1>1, TailOfMain
<1>3. /\ UNCHANGED profiles
      /\ \A u \in Users : Waits(SetProfile(u))' => Waits(SetProfile(u)) \/ main[1] = Callback(u)
      /\ \A u \in Users : main[1] = Notification(u) /\ configured => client' = u
  <2>1. ASSUME NEW v \in Users, Writes1(v)
        PROVE  /\ UNCHANGED profiles
               /\ \A u \in Users : Waits(SetProfile(u))' => Waits(SetProfile(u)) \/ v = u
               /\ main[1] = Callback(v)
    <3>1. \A u \in Users : SetProfile(u) = SetProfile(v) => u = v
      BY WriteFields
    <3>2. UNCHANGED profiles
      BY <1>0, <2>1, EnqueueProperties DEF Writes1
    <3>3. main[1] = Callback(v)
      BY <1>2, <2>1 DEF Writes1
    <3>. QED
      BY <2>1, <3>1, <3>2, <3>3, MadeWaits
  <2>2. ASSUME NEW c \in Clients, Tells(c)
        PROVE  /\ UNCHANGED profiles /\ \A w : Waits(w)' => Waits(w)
               /\ main[1] = Notification(c) /\ (configured => client' = c)
    BY <1>2, <2>2, CalmWaits DEF Tells, Calm, Notified, SwitchTo, WQ!SwitchTo
  <2>3. \A u, c : Notification(u) = Notification(c) => u = c
    BY DEF Notification
  <2>4. \A u, c : Notification(u) # Callback(c)
    BY BlockKinds
  <2>5. CASE \E u \in Users : Writes1(u)
    <3>1. PICK v \in Users : Writes1(v)
      BY <2>5
    <3>2. /\ UNCHANGED profiles /\ main[1] = Callback(v)
          /\ \A u \in Users : Waits(SetProfile(u))' => Waits(SetProfile(u)) \/ v = u
      BY <2>1, <3>1
    <3>3. \A u : main[1] # Notification(u)
      BY <2>4, <3>2
    <3>. QED
      BY <3>2, <3>3
  <2>6. CASE \E c \in Clients : Tells(c)
    <3>1. PICK c \in Clients : Tells(c)
      BY <2>6
    <3>2. /\ UNCHANGED profiles /\ \A w : Waits(w)' => Waits(w)
          /\ main[1] = Notification(c) /\ (configured => client' = c)
      BY <2>2, <3>1
    <3>3. \A u : main[1] = Notification(u) => u = c
      BY <2>3, <3>2
    <3>. QED
      BY <3>2, <3>3
  <2>. QED
    BY <2>5, <2>6, RunMainProperties
<1> SUFFICES ASSUME NEW u \in Users, NEW n \in 1..Len(main'), main'[n] = Callback(u)
             PROVE  Due(u, n)'
  BY DEF CallbackInv
<1>4. n + 1 \in 1..Len(main) /\ main[n + 1] = Callback(u) /\ n + 1 > 1 /\ n + 1 # 1
  BY <1>2
<1>5. Due(u, n + 1)
  BY <1>4 DEF CallbackInv
<1>6. main[1] # Callback(u)
  BY <1>2, <1>4, <1>5 DEF Due
<1>7. n + 1 - 1 = n /\ main[n] = Notification(u)
  BY <1>4, <1>5 DEF Due
<1>8. configured' /\ u \in accounts' /\ u \notin profiles' /\ ~Waits(SetProfile(u))'
  BY <1>1, <1>3, <1>5, <1>6 DEF Due
<1>9. ASSUME NEW m \in 1..Len(main'), main'[m] = Callback(u) PROVE m = n
  <2>1. m + 1 \in 1..Len(main) /\ main[m + 1] = Callback(u)
    BY <1>2, <1>9
  <2>2. m + 1 = n + 1
    BY <1>5, <2>1 DEF Due
  <2>. QED
    BY <2>2
<1>10. n = 1 => client' = u
  BY <1>3, <1>5, <1>7 DEF Due
<1>11. n > 1 => main'[n - 1] = Notification(u)
  <2>1. ASSUME n > 1 PROVE n - 1 \in 1..Len(main') /\ (n - 1) + 1 = n
    BY <1>2, <2>1
  <2>. QED
    BY <1>2, <1>7, <2>1
<1>. QED
  BY <1>8, <1>9, <1>10, <1>11 DEF Due

LEMMA CallbackStep ==
  ASSUME TypeOK, ProfileInv, CallbackInv, [Next]_vars
  PROVE  CallbackInv'
<1>0. /\ CloudTypeOK /\ accounts \subseteq accounts'
      /\ \A u \in Users : u \in profiles' => u \in profiles \/ Waits(SetProfile(u))
  BY AccountsStay, ProfilesMade DEF TypeOK
<1>1. CASE Stops
  <2>1. Len(main') = 0
    BY <1>1, StopsProperties
  <2>. QED
    BY <2>1 DEF CallbackInv
<1>2. CASE \/ Launch \/ ProfileAppears \/ UNCHANGED vars
           \/ \E u \in Users, kind \in {"signIn", "create"} : Ask(kind, u)
           \/ \E r \in requests : Fail(r)
  <2>1. UNCHANGED <<main, configured, queue, client>>
    BY <1>2 DEF Launch, ProfileAppears, Ask, Fail, vars, authVars, cloudVars
  <2>2. \A w : Waits(w)' <=> Waits(w)
    BY <2>1 DEF Waits
  <2>. QED
    BY <1>0, <2>1, <2>2, CallbackKept
<1>3. CASE Configure
  <2>1. ~configured /\ UNCHANGED main
    BY <1>3 DEF Configure, authVars
  <2>. QED
    BY <2>1 DEF CallbackInv, Due
<1>4. ASSUME NEW u \in Users, NEW t \in Tests, Files(u, t), ~Stops PROVE CallbackInv'
  <2>1. UNCHANGED <<main, configured, client>>
    BY <1>0, <1>4, FilesProperties DEF Returns, authVars
  <2>2. \A v \in Users : SetProfile(v) # AddOwn(u, t) /\ SetProfile(v) # AddAll(u, t)
    BY WriteFields
  <2>. QED
    BY <1>0, <1>4, <2>1, <2>2, MadeWaits, CallbackKept
<1>5. CASE Deliver
  <2>1. UNCHANGED <<main, configured>>
    BY <1>5 DEF Deliver, authVars
  <2>2. UNCHANGED client /\ \A w : Waits(w)' => Waits(w)
    <3>1. CASE Apply
      <4>1. UNCHANGED <<queue, client>>
        BY <1>0, <3>1, ApplyProperties
      <4>. QED
        BY <4>1 DEF Waits
    <3>2. CASE Disconnect
      <4>1. UNCHANGED <<queue, client>>
        BY <3>2 DEF Disconnect, WQ!Disconnect
      <4>. QED
        BY <4>1 DEF Waits
    <3>3. CASE Acknowledge \/ Refuse
      BY <1>0, <3>3, AnswerProperties, DropProperties, DropWaits
    <3>. QED
      BY <1>5, <3>1, <3>2, <3>3 DEF Deliver, Refused
  <2>. QED
    BY <1>0, <2>1, <2>2, CallbackKept
<1>. QED
  BY <1>1, <1>2, <1>3, <1>4, <1>5, CallbackGrant, CallbackSignOut, CallbackRun,
     FinishTestProperties, ProcessEndsStops DEF Next, Kill

-------------------------------------------------------------------------------
(* The order of the writes in a queue. *)

\* The places of queue d afterwards: old ones, and at the end those of new.
Stays(d) == \A n \in 1..Len(queue[d]) : n \in 1..Len(queue'[d]) /\ queue'[d][n] = queue[d][n]
Old(d, n) == n \in 1..Len(queue[d]) /\ queue'[d][n] = queue[d][n]

\* The copy for all users stands behind the own copy that is filed, or is not made.
HasAll(d, u, t) == /\ Len(queue[d]) + 2 \in 1..Len(queue'[d])
                   /\ queue'[d][Len(queue[d]) + 2] = AddAll(u, t)
NoAll(u, t) == Waits(AddAll(u, t))' => Waits(AddAll(u, t))

LEMMA MadePlaces ==
  ASSUME TypeOK, NEW d \in Clients
  PROVE  /\ \A u \in Users : Writes1(u) =>
              /\ Stays(d)
              /\ \A n \in 1..Len(queue'[d]) :
                   Old(d, n) \/ (d = client /\ n = Len(queue[d]) + 1
                                 /\ queue'[d][n] = SetProfile(u))
         /\ \A u \in Users, t \in Tests : Files(u, t) =>
              /\ Stays(d)
              /\ \A n \in 1..Len(queue'[d]) :
                   Old(d, n) \/ (d = client /\ n > Len(queue[d])
                                 /\ \/ n = Len(queue[d]) + 1 /\ queue'[d][n] = AddOwn(u, t)
                                    \/ n = Len(queue[d]) + 2 /\ queue'[d][n] = AddAll(u, t))
              /\ d = client => HasAll(d, u, t) \/ NoAll(u, t)
<1>0. CloudTypeOK /\ Len(queue[d]) \in Nat
  <2>1. CloudTypeOK /\ queue[d] \in Seq(Writes)
    BY DEF TypeOK, CloudTypeOK
  <2>. QED
    BY <2>1, LenProperties
<1>1. ASSUME NEW u \in Users, Writes1(u)
      PROVE  /\ Stays(d)
             /\ \A n \in 1..Len(queue'[d]) :
                  Old(d, n) \/ (d = client /\ n = Len(queue[d]) + 1
                                /\ queue'[d][n] = SetProfile(u))
  <2> DEFINE s == <<SetProfile(u)>>
  <2>1. s \in Seq(Writes) /\ Puts(s)
    BY <1>1 DEF Writes1
  <2>2. Len(s) = 1 /\ s[1] = SetProfile(u)
    OBVIOUS
  <2> HIDE DEF s
  <2>3. Stays(d)
    BY <1>0, <2>1, EnqueuePlaces DEF Stays
  <2>4. ASSUME NEW n \in 1..Len(queue'[d]), ~Old(d, n)
        PROVE  d = client /\ n = Len(queue[d]) + 1 /\ queue'[d][n] = SetProfile(u)
    <3>1. d = client /\ \E k \in 1..Len(s) : n = Len(queue[d]) + k /\ queue'[d][n] = s[k]
      BY <1>0, <2>1, <2>4, EnqueuePlaces DEF Old
    <3>2. PICK k \in 1..Len(s) : n = Len(queue[d]) + k /\ queue'[d][n] = s[k]
      BY <3>1
    <3>3. k = 1
      BY <2>2
    <3>. QED
      BY <2>2, <3>1, <3>2, <3>3
  <2>. QED
    BY <2>3, <2>4
<1>2. ASSUME NEW u \in Users, NEW t \in Tests, Files(u, t)
      PROVE  /\ Stays(d)
             /\ \A n \in 1..Len(queue'[d]) :
                  Old(d, n) \/ (d = client /\ n > Len(queue[d])
                                /\ \/ n = Len(queue[d]) + 1 /\ queue'[d][n] = AddOwn(u, t)
                                   \/ n = Len(queue[d]) + 2 /\ queue'[d][n] = AddAll(u, t))
             /\ d = client => HasAll(d, u, t) \/ NoAll(u, t)
  <2>1. PICK s \in FiledBy(u, t) : s \in Seq(Writes) /\ Puts(s)
    BY <1>2 DEF Files
  <2>2. /\ Len(s) \in 1..2 /\ s[1] = AddOwn(u, t)
        /\ Len(s) = 2 => s[2] = AddAll(u, t)
    BY FiledByWrites
  <2>3. Stays(d)
    BY <1>0, <2>1, EnqueuePlaces DEF Stays
  <2>4. ASSUME NEW n \in 1..Len(queue'[d]), ~Old(d, n)
        PROVE  /\ d = client /\ n > Len(queue[d])
               /\ \/ n = Len(queue[d]) + 1 /\ queue'[d][n] = AddOwn(u, t)
                  \/ n = Len(queue[d]) + 2 /\ queue'[d][n] = AddAll(u, t)
    <3>1. d = client /\ n > Len(queue[d])
          /\ \E k \in 1..Len(s) : n = Len(queue[d]) + k /\ queue'[d][n] = s[k]
      BY <1>0, <2>1, <2>4, EnqueuePlaces DEF Old
    <3>2. PICK k \in 1..Len(s) : n = Len(queue[d]) + k /\ queue'[d][n] = s[k]
      BY <3>1
    <3>3. CASE Len(s) = 1
      <4>1. k = 1
        BY <3>3
      <4>. QED
        BY <2>2, <3>1, <3>2, <4>1
    <3>4. CASE Len(s) = 2
      <4>1. k = 1 \/ k = 2
        BY <3>4
      <4>. QED
        BY <2>2, <3>1, <3>2, <3>4, <4>1
    <3>5. Len(s) = 1 \/ Len(s) = 2
      BY <2>2
    <3>. QED
      BY <3>3, <3>4, <3>5
  <2>5. ASSUME d = client
        PROVE  HasAll(d, u, t) \/ NoAll(u, t)
    <3>1. CASE Len(s) = 2
      <4>1. 2 \in 1..Len(s) /\ s[2] = AddAll(u, t)
        BY <2>2, <3>1
      <4>. QED
        BY <1>0, <2>1, <2>5, <4>1, EnqueuePlaces DEF HasAll
    <3>2. CASE Len(s) = 1
      <4>1. ASSUME Waits(AddAll(u, t))' PROVE Waits(AddAll(u, t))
        <5>1. Waits(AddAll(u, t)) \/ \E n \in 1..Len(s) : s[n] = AddAll(u, t)
          BY <1>0, <2>1, <4>1, EnqueueWaits
        <5>2. ASSUME NEW n \in 1..Len(s) PROVE s[n] # AddAll(u, t)
          <6>1. n = 1 /\ AddOwn(u, t) # AddAll(u, t)
            BY <3>2, WriteFields
          <6>. QED
            BY <2>2, <6>1
        <5>. QED
          BY <5>1, <5>2
      <4>. QED
        BY <4>1 DEF NoAll
    <3>. QED
      BY <2>2, <3>1, <3>2
  <2>. QED
    BY <2>3, <2>4, <2>5
<1>. QED
  BY <1>1, <1>2

\* A copy for all users was made.
Copied(u, t) == Waits(AddAll(u, t)) \/ [uid |-> u, test |-> t] \in allResults

\* A profile waits in its user's own queue, once; an own copy in the queue of
\* the client it was handed to, with the copy for all behind it if one was made.
There ==
  \A d \in Clients : \A n \in 1..Len(queue[d]) : \A u \in Users :
    /\ queue[d][n] = SetProfile(u) => d = u
    /\ \A t \in Tests : queue[d][n] = AddOwn(u, t) => t.kept = d

Once ==
  \A u \in Users : \A n, m \in 1..Len(queue[u]) :
    queue[u][n] = SetProfile(u) /\ queue[u][m] = SetProfile(u) => n = m

Pairs ==
  \A d \in Clients : \A n \in 1..Len(queue[d]) : \A u \in Users, t \in Tests :
    queue[d][n] = AddOwn(u, t) /\ Copied(u, t) =>
      \E m \in 1..Len(queue[d]) : m > n /\ queue[d][m] = AddAll(u, t)

\* The callback that runs writes a profile that does not wait, for the client.
LEMMA WritesOwnProfile ==
  ASSUME TypeOK, CallbackInv, NEW u \in Users, Writes1(u)
  PROVE  client = u /\ ~Waits(SetProfile(u)) /\ u \notin profiles
<1>1. 1 \in 1..Len(main) /\ main[1] = Callback(u)
  BY TailOfMain DEF Writes1, TypeOK
<1>. QED
  BY <1>1 DEF CallbackInv, Due

LEMMA ThereStep ==
  ASSUME TypeOK, CallbackInv, There, [Next]_vars
  PROVE  There'
<1>0. CloudTypeOK
  BY DEF TypeOK
<1>1. CASE UNCHANGED queue
  BY <1>1 DEF There
<1>2. ASSUME NEW u \in Users, Writes1(u) PROVE There'
  <2> SUFFICES ASSUME NEW d \in Clients, NEW n \in 1..Len(queue'[d]), NEW v \in Users
               PROVE  /\ queue'[d][n] = SetProfile(v) => d = v
                      /\ \A t \in Tests : queue'[d][n] = AddOwn(v, t) => t.kept = d
    BY DEF There
  <2>1. CASE Old(d, n)
    BY <2>1 DEF Old, There
  <2>2. CASE d = client /\ queue'[d][n] = SetProfile(u)
    <3>1. SetProfile(u) = SetProfile(v) => u = v
      BY WriteFields
    <3>2. \A t \in Tests : SetProfile(u) # AddOwn(v, t)
      BY WriteFields
    <3>. QED
      BY <1>2, <2>2, <3>1, <3>2, WritesOwnProfile
  <2>. QED
    BY <1>2, <2>1, <2>2, MadePlaces
<1>3. ASSUME NEW u \in Users, NEW s \in Tests, Files(u, s) PROVE There'
  <2> SUFFICES ASSUME NEW d \in Clients, NEW n \in 1..Len(queue'[d]), NEW v \in Users
               PROVE  /\ queue'[d][n] = SetProfile(v) => d = v
                      /\ \A t \in Tests : queue'[d][n] = AddOwn(v, t) => t.kept = d
    BY DEF There
  <2>1. CASE Old(d, n)
    BY <2>1 DEF Old, There
  <2>2. CASE d = client /\ (queue'[d][n] = AddOwn(u, s) \/ queue'[d][n] = AddAll(u, s))
    <3>1. AddOwn(u, s) # SetProfile(v) /\ AddAll(u, s) # SetProfile(v)
      BY WriteFields
    <3>2. \A t \in Tests : AddAll(u, s) # AddOwn(v, t) /\ (AddOwn(u, s) = AddOwn(v, t) => t = s)
      BY WriteFields
    <3>3. s.kept = client
      BY <1>3 DEF Files
    <3>. QED
      BY <2>2, <3>1, <3>2, <3>3
  <2>. QED
    BY <1>3, <2>1, <2>2, MadePlaces
<1>4. CASE WQ!Drop
  <2> SUFFICES ASSUME NEW d \in Clients, NEW n \in 1..Len(queue'[d]), NEW v \in Users
               PROVE  /\ queue'[d][n] = SetProfile(v) => d = v
                      /\ \A t \in Tests : queue'[d][n] = AddOwn(v, t) => t.kept = d
    BY DEF There
  <2>1. n + Shift(d) \in 1..Len(queue[d]) /\ queue'[d][n] = queue[d][n + Shift(d)]
    BY <1>0, <1>4, DropPlaces
  <2>. QED
    BY <2>1 DEF There
<1>. QED
  BY <1>0, <1>1, <1>2, <1>3, <1>4, Steps, ApplyProperties DEF Calm, Answers

LEMMA OnceStep ==
  ASSUME TypeOK, CallbackInv, Once, [Next]_vars
  PROVE  Once'
<1>0. CloudTypeOK /\ Users \subseteq Clients
  BY DEF TypeOK, Clients
<1>1. CASE UNCHANGED queue
  BY <1>1 DEF Once
<1>2. ASSUME NEW v \in Users, Writes1(v) PROVE Once'
  <2> SUFFICES ASSUME NEW u \in Users, NEW n \in 1..Len(queue'[u]), NEW m \in 1..Len(queue'[u]),
                      queue'[u][n] = SetProfile(u), queue'[u][m] = SetProfile(u)
               PROVE  n = m
    BY DEF Once
  <2>1. CASE u = v
    <3>1. ~Old(u, n) /\ ~Old(u, m)
      BY <1>0, <1>2, <2>1, WritesOwnProfile DEF Old, Waits
    <3>2. n = Len(queue[u]) + 1 /\ m = Len(queue[u]) + 1
      BY <1>0, <1>2, <3>1, MadePlaces
    <3>. QED
      BY <3>2
  <2>2. CASE u # v
    <3>1. SetProfile(u) # SetProfile(v)
      BY <2>2, WriteFields
    <3>2. Old(u, n) /\ Old(u, m)
      BY <1>0, <1>2, <3>1, MadePlaces
    <3>. QED
      BY <3>2 DEF Old, Once
  <2>. QED
    BY <2>1, <2>2
<1>3. ASSUME NEW v \in Users, NEW s \in Tests, Files(v, s) PROVE Once'
  <2> SUFFICES ASSUME NEW u \in Users, NEW n \in 1..Len(queue'[u]), NEW m \in 1..Len(queue'[u]),
                      queue'[u][n] = SetProfile(u), queue'[u][m] = SetProfile(u)
               PROVE  n = m
    BY DEF Once
  <2>1. AddOwn(v, s) # SetProfile(u) /\ AddAll(v, s) # SetProfile(u)
    BY WriteFields
  <2>2. Old(u, n) /\ Old(u, m)
    BY <1>0, <1>3, <2>1, MadePlaces
  <2>. QED
    BY <2>2 DEF Old, Once
<1>4. CASE WQ!Drop
  <2> SUFFICES ASSUME NEW u \in Users, NEW n \in 1..Len(queue'[u]), NEW m \in 1..Len(queue'[u]),
                      queue'[u][n] = SetProfile(u), queue'[u][m] = SetProfile(u)
               PROVE  n = m
    BY DEF Once
  <2>1. /\ Shift(u) \in {0, 1}
        /\ n + Shift(u) \in 1..Len(queue[u]) /\ queue[u][n + Shift(u)] = SetProfile(u)
        /\ m + Shift(u) \in 1..Len(queue[u]) /\ queue[u][m + Shift(u)] = SetProfile(u)
    BY <1>0, <1>4, DropPlaces
  <2>2. n + Shift(u) = m + Shift(u)
    BY <2>1 DEF Once
  <2>. QED
    BY <2>1, <2>2
<1>. QED
  BY <1>0, <1>1, <1>2, <1>3, <1>4, Steps, ApplyProperties DEF Calm, Answers

\* Only filing makes a copy for all users.
LEMMA CopiedMade ==
  ASSUME TypeOK, [Next]_vars, NEW u \in Users, NEW t \in Tests, Copied(u, t)'
  PROVE  Copied(u, t) \/ Files(u, t)
<1>0. CloudTypeOK
  BY DEF TypeOK
<1>1. CASE Calm
  BY <1>1, CalmWaits DEF Calm, Copied
<1>2. ASSUME NEW v \in Users, Writes1(v) PROVE Copied(u, t)
  <2>1. UNCHANGED allResults
    BY <1>0, <1>2, EnqueueProperties DEF Writes1
  <2>2. AddAll(u, t) # SetProfile(v)
    BY WriteFields
  <2>. QED
    BY <1>2, <2>1, <2>2, MadeWaits DEF Copied
<1>3. ASSUME NEW v \in Users, NEW s \in Tests, Files(v, s) PROVE Copied(u, t) \/ Files(u, t)
  <2>1. UNCHANGED allResults
    BY <1>3, FilesProperties
  <2>2. /\ AddAll(u, t) # AddOwn(v, s)
        /\ AddAll(u, t) = AddAll(v, s) => u = v /\ t = s
    BY WriteFields
  <2>. QED
    BY <1>3, <2>1, <2>2, MadeWaits DEF Copied
<1>4. CASE Apply
  <2>1. UNCHANGED queue /\ client \in Clients /\ ahead + 1 \in 1..Len(queue[client])
    BY <1>0, <1>4, ApplyProperties DEF CloudTypeOK
  <2>2. (\A w : Waits(w)' <=> Waits(w)) /\ Waits(queue[client][ahead + 1])
    BY <2>1 DEF Waits
  <2>3. CASE [uid |-> u, test |-> t] \in allResults' \ allResults
    <3>1. PICK v \in Users, s \in Tests :
            /\ queue[client][ahead + 1] = AddAll(v, s)
            /\ allResults' = allResults \cup {[uid |-> v, test |-> s]}
      BY <1>0, <1>4, <2>3, ApplyProperties
    <3>2. v = u /\ s = t
      BY <2>3, <3>1
    <3>. QED
      BY <2>2, <3>1, <3>2 DEF Copied
  <2>. QED
    BY <2>2, <2>3 DEF Copied
<1>5. CASE Answers
  BY <1>0, <1>5, DropWaits DEF Answers, Copied
<1>. QED
  BY <1>1, <1>2, <1>3, <1>4, <1>5, Steps

\* A test that is filed has not been mentioned.
LEMMA FiledIsNew ==
  ASSUME TypeOK, MentionInv, NEW u \in Users, NEW t \in Tests, Files(u, t)
  PROVE  ~Mentions(u, t)
<1>1. t.n = taken + 1 /\ taken \in Nat
  BY DEF Files
<1>2. Mentions(u, t) => t.n <= taken
  BY DEF MentionInv
<1>. QED
  BY <1>1, <1>2

LEMMA PairsStep ==
  ASSUME TypeOK, MentionInv, Pairs, [Next]_vars
  PROVE  Pairs'
<1>0. CloudTypeOK
  BY DEF TypeOK
<1> SUFFICES ASSUME NEW d \in Clients, NEW n \in 1..Len(queue'[d]), NEW u \in Users,
                    NEW t \in Tests, queue'[d][n] = AddOwn(u, t), Copied(u, t)'
             PROVE  \E m \in 1..Len(queue'[d]) : m > n /\ queue'[d][m] = AddAll(u, t)
  BY DEF Pairs
<1>1. CASE Old(d, n) /\ Stays(d)
  <2>1. ~Files(u, t)
    <3>1. Waits(AddOwn(u, t))
      BY <1>1 DEF Old, Waits
    <3>. QED
      BY <3>1, FiledIsNew DEF Mentions
  <2>2. Copied(u, t)
    BY <2>1, CopiedMade
  <2>3. PICK m \in 1..Len(queue[d]) : m > n /\ queue[d][m] = AddAll(u, t)
    BY <1>1, <2>2 DEF Old, Pairs
  <2>. QED
    BY <1>1, <2>3 DEF Stays
<1>2. CASE UNCHANGED queue
  BY <1>1, <1>2 DEF Old, Stays
<1>3. ASSUME NEW v \in Users, Writes1(v)
      PROVE  \E m \in 1..Len(queue'[d]) : m > n /\ queue'[d][m] = AddAll(u, t)
  <2>1. AddOwn(u, t) # SetProfile(v)
    BY WriteFields
  <2>. QED
    BY <1>1, <1>3, <2>1, MadePlaces
<1>4. ASSUME NEW v \in Users, NEW s \in Tests, Files(v, s), ~Old(d, n)
      PROVE  \E m \in 1..Len(queue'[d]) : m > n /\ queue'[d][m] = AddAll(u, t)
  <2>1. AddOwn(u, t) # AddAll(v, s) /\ (AddOwn(u, t) = AddOwn(v, s) => u = v /\ t = s)
    BY WriteFields
  <2>2. d = client /\ n = Len(queue[d]) + 1 /\ u = v /\ t = s
    BY <1>4, <2>1, MadePlaces
  <2>3. HasAll(d, u, t)
    <3>1. ~Mentions(u, t)
      BY <1>4, <2>2, FiledIsNew
    <3>2. Waits(AddAll(u, t))' /\ ~Waits(AddAll(u, t))
      BY <1>4, <2>2, <3>1, FilesProperties DEF Copied, Mentions
    <3>. QED
      BY <1>4, <2>2, <3>2, MadePlaces DEF NoAll
  <2>4. Len(queue[d]) + 2 > n
    <3>1. queue[d] \in Seq(Writes)
      BY <1>0 DEF CloudTypeOK
    <3>2. Len(queue[d]) \in Nat
      BY <3>1, LenProperties
    <3>. QED
      BY <2>2, <3>2
  <2>. QED
    BY <2>3, <2>4 DEF HasAll
<1>5. CASE WQ!Drop /\ Copied(u, t)
  <2>1. /\ Shift(d) \in {0, 1} /\ n + Shift(d) \in 1..Len(queue[d])
        /\ queue[d][n + Shift(d)] = AddOwn(u, t)
    BY <1>0, <1>5, DropPlaces
  <2>2. PICK k \in 1..Len(queue[d]) : k > n + Shift(d) /\ queue[d][k] = AddAll(u, t)
    BY <1>5, <2>1 DEF Pairs
  <2>3. k # 1 /\ k - Shift(d) > n /\ (k - Shift(d)) + Shift(d) = k
    BY <2>1, <2>2
  <2>4. k - Shift(d) \in 1..Len(queue'[d])
    BY <1>0, <1>5, <2>3, DropPlaces
  <2>5. queue'[d][k - Shift(d)] = AddAll(u, t)
    BY <1>0, <1>5, <2>2, <2>3, <2>4, DropPlaces
  <2>. QED
    BY <2>3, <2>4, <2>5
<1>6. Answers => Copied(u, t) /\ WQ!Drop
  BY <1>0, DropWaits DEF Answers, Copied
<1>7. ASSUME NEW v \in Users, NEW s \in Tests, Files(v, s), Old(d, n)
      PROVE  Stays(d)
  BY <1>7, MadePlaces
<1>. QED
  BY <1>0, <1>1, <1>2, <1>3, <1>4, <1>5, <1>6, <1>7, Steps, ApplyProperties DEF Calm

-------------------------------------------------------------------------------
(* What was applied. *)

\* Once a profile is written, its write, if it is to be sent again, stands
\* before all results of that user.
Order ==
  \A u \in profiles : \A n, m \in 1..Len(queue[u]) : \A t \in Tests :
    queue[u][n] = SetProfile(u) /\ queue[u][m] = AddOwn(u, t) => n < m

\* What the server has applied on this connection is in the documents.
Applied ==
  \A n \in 1..Len(queue[client]) : n <= ahead =>
    \A u \in Users :
      /\ queue[client][n] = SetProfile(u) => u \in profiles
      /\ \A t \in Tests : queue[client][n] = AddOwn(u, t) => u \in profiles /\ t \in results[u]

\* Results are in documents; those a profile yet to be sent again will wipe
\* out are to be sent again as well.
Restored ==
  \A u \in Users : \A t \in results[u] :
    /\ u \in profiles
    /\ t.kept = u /\ Waits(SetProfile(u)) => Waits(AddOwn(u, t))

\* A copy for all users has its own copy.
CopyInv ==
  \A u \in Users, t \in Tests : Copied(u, t) =>
    t.kept # u \/ t \in results[u] \/ t \in refused \/ Waits(AddOwn(u, t))

QueueInv == There /\ Once /\ Pairs /\ Order /\ Applied /\ Restored /\ CopyInv

LEMMA OrderStep ==
  ASSUME TypeOK, CallbackInv, There, Once, Order, Applied, [Next]_vars
  PROVE  Order'
<1>0. /\ CloudTypeOK /\ Users \subseteq Clients /\ profiles \subseteq Users
      /\ profiles' \subseteq Users
  BY TypesStep DEF TypeOK, CloudTypeOK, Clients
<1>1. CASE UNCHANGED <<queue, profiles>>
  BY <1>1 DEF Order
<1>2. ASSUME NEW v \in Users, Writes1(v) PROVE Order'
  <2>1. UNCHANGED profiles
    BY <1>0, <1>2, EnqueueProperties DEF Writes1
  <2> SUFFICES ASSUME NEW u \in profiles, NEW n \in 1..Len(queue'[u]),
                      NEW m \in 1..Len(queue'[u]), NEW t \in Tests,
                      queue'[u][n] = SetProfile(u), queue'[u][m] = AddOwn(u, t)
               PROVE  n < m
    BY <2>1 DEF Order
  <2>2. u # v
    BY <1>2, WritesOwnProfile
  <2>3. SetProfile(u) # SetProfile(v) /\ AddOwn(u, t) # SetProfile(v)
    BY <2>2, WriteFields
  <2>4. Old(u, n) /\ Old(u, m)
    BY <1>0, <1>2, <2>3, MadePlaces
  <2>. QED
    BY <2>4 DEF Old, Order
<1>3. ASSUME NEW v \in Users, NEW s \in Tests, Files(v, s) PROVE Order'
  <2>1. UNCHANGED profiles
    BY <1>0, <1>3, FilesProperties
  <2> SUFFICES ASSUME NEW u \in profiles, NEW n \in 1..Len(queue'[u]),
                      NEW m \in 1..Len(queue'[u]), NEW t \in Tests,
                      queue'[u][n] = SetProfile(u), queue'[u][m] = AddOwn(u, t)
               PROVE  n < m
    BY <2>1 DEF Order
  <2>2. AddOwn(v, s) # SetProfile(u) /\ AddAll(v, s) # SetProfile(u)
    BY WriteFields
  <2>3. Old(u, n)
    BY <1>0, <1>3, <2>2, MadePlaces
  <2>4. CASE Old(u, m)
    BY <2>3, <2>4 DEF Old, Order
  <2>5. CASE ~Old(u, m)
    <3>1. m > Len(queue[u])
      BY <1>0, <1>3, <2>5, MadePlaces
    <3>2. Len(queue[u]) \in Nat
      <4>1. queue[u] \in Seq(Writes)
        BY <1>0 DEF CloudTypeOK
      <4>. QED
        BY <4>1, LenProperties
    <3>. QED
      BY <2>3, <3>1, <3>2 DEF Old
  <2>. QED
    BY <2>4, <2>5
<1>4. CASE WQ!Drop /\ UNCHANGED profiles
  <2> SUFFICES ASSUME NEW u \in profiles, NEW n \in 1..Len(queue'[u]),
                      NEW m \in 1..Len(queue'[u]), NEW t \in Tests,
                      queue'[u][n] = SetProfile(u), queue'[u][m] = AddOwn(u, t)
               PROVE  n < m
    BY <1>4 DEF Order
  <2>1. /\ Shift(u) \in {0, 1}
        /\ n + Shift(u) \in 1..Len(queue[u]) /\ queue[u][n + Shift(u)] = SetProfile(u)
        /\ m + Shift(u) \in 1..Len(queue[u]) /\ queue[u][m + Shift(u)] = AddOwn(u, t)
    BY <1>0, <1>4, DropPlaces
  <2>2. n + Shift(u) < m + Shift(u)
    BY <2>1 DEF Order
  <2>. QED
    BY <2>1, <2>2
<1>5. CASE Apply
  <2>1. /\ UNCHANGED <<queue, client>> /\ ahead + 1 \in 1..Len(queue[client])
        /\ ahead \in Nat /\ client \in Clients
    BY <1>0, <1>5, ApplyProperties DEF CloudTypeOK
  <2>2. CASE UNCHANGED profiles
    BY <1>1, <2>1, <2>2
  <2>3. ASSUME NEW v \in Users, queue[client][ahead + 1] = SetProfile(v),
               profiles' = profiles \cup {v}
        PROVE  Order'
    <3>1. client = v
      BY <2>1, <2>3 DEF There
    <3>2. ASSUME NEW n \in 1..Len(queue[v]), NEW m \in 1..Len(queue[v]), NEW t \in Tests,
                 queue[v][n] = SetProfile(v), queue[v][m] = AddOwn(v, t)
          PROVE  n < m
      <4>1. CASE v \in profiles
        BY <3>2, <4>1 DEF Order
      <4>2. CASE v \notin profiles
        <5>1. n = ahead + 1
          BY <2>1, <2>3, <3>1, <3>2 DEF Once
        <5>2. ~(m <= ahead)
          BY <3>1, <3>2, <4>2 DEF Applied
        <5>3. m # n
          BY <3>2, WriteFields
        <5>. QED
          BY <2>1, <5>1, <5>2, <5>3
      <4>. QED
        BY <4>1, <4>2
    <3>. QED
      BY <2>1, <2>3, <3>2 DEF Order
  <2>. QED
    BY <1>0, <1>5, <2>2, <2>3, ApplyProperties
<1>. QED
  BY <1>0, <1>1, <1>2, <1>3, <1>4, <1>5, Steps DEF Calm, Answers

LEMMA AppliedStep ==
  ASSUME TypeOK, There, Order, Applied, [Next]_vars
  PROVE  Applied'
<1>0. /\ CloudTypeOK /\ Users \subseteq Clients /\ client \in Clients
      /\ ahead \in Nat /\ ahead <= Len(queue[client]) /\ Len(queue[client]) \in Nat
      /\ results \in [Users -> SUBSET Tests]
  <2>1. CloudTypeOK /\ queue[client] \in Seq(Writes)
    BY DEF TypeOK, CloudTypeOK
  <2>. QED
    BY <2>1, LenProperties DEF CloudTypeOK, Clients
<1>1. CASE Calm
  <2>1. CASE ahead' = 0
    BY <2>1 DEF Applied
  <2>2. CASE UNCHANGED <<ahead, client>>
    BY <1>1, <2>2 DEF Calm, Applied
  <2>. QED
    BY <1>1, <2>1, <2>2 DEF Calm
<1>2. ASSUME UNCHANGED <<client, profiles, results>>, Stays(client), ahead' = 0 \/ UNCHANGED ahead
      PROVE  Applied'
  <2>1. ASSUME NEW n \in 1..Len(queue'[client]), n <= ahead
        PROVE  n \in 1..Len(queue[client]) /\ queue'[client][n] = queue[client][n]
    <3>1. n \in 1..Len(queue[client])
      BY <1>0, <2>1
    <3>. QED
      BY <1>2, <3>1 DEF Stays
  <2>2. CASE ahead' = 0
    BY <2>2 DEF Applied
  <2>3. CASE UNCHANGED ahead
    BY <1>2, <2>1, <2>3 DEF Applied
  <2>. QED
    BY <1>2, <2>2, <2>3
<1>3. ASSUME NEW v \in Users, Writes1(v) PROVE Applied'
  BY <1>0, <1>2, <1>3, EnqueueProperties, MadePlaces DEF Writes1
<1>4. ASSUME NEW v \in Users, NEW s \in Tests, Files(v, s) PROVE Applied'
  BY <1>0, <1>2, <1>4, FilesProperties, MadePlaces
<1>5. CASE Answers
  <2>1. /\ UNCHANGED <<profiles, results>> /\ client' = client
        /\ ahead' \in Nat /\ (ahead' = 0 \/ ahead' = ahead - 1)
    BY <1>0, <1>5, DropProperties DEF Answers
  <2> SUFFICES ASSUME NEW n \in 1..Len(queue'[client]), n <= ahead', NEW u \in Users
               PROVE  /\ queue'[client][n] = SetProfile(u) => u \in profiles
                      /\ \A t \in Tests : queue'[client][n] = AddOwn(u, t) =>
                           u \in profiles /\ t \in results[u]
    BY <2>1 DEF Applied
  <2>2. /\ n + 1 \in 1..Len(queue[client]) /\ queue'[client][n] = queue[client][n + 1]
    BY <1>0, <1>5, DropProperties DEF Answers
  <2>3. n + 1 <= ahead
    BY <1>0, <2>1
  <2>. QED
    BY <2>2, <2>3 DEF Applied
<1>6. CASE Apply
  <2>1. /\ UNCHANGED <<queue, client>> /\ ahead' = ahead + 1
        /\ ahead + 1 \in 1..Len(queue[client])
    BY <1>0, <1>6, ApplyProperties
  <2> SUFFICES ASSUME NEW n \in 1..Len(queue[client]), n <= ahead + 1, NEW u \in Users
               PROVE  /\ queue[client][n] = SetProfile(u) => u \in profiles'
                      /\ \A t \in Tests : queue[client][n] = AddOwn(u, t) =>
                           u \in profiles' /\ t \in results'[u]
    BY <2>1 DEF Applied
  <2>2. n <= ahead \/ n = ahead + 1
    BY <1>0
  <2>3. ASSUME NEW v \in Users, queue[client][ahead + 1] = SetProfile(v),
               profiles' = profiles \cup {v}, results' = [results EXCEPT ![v] = {}]
        PROVE  /\ queue[client][n] = SetProfile(u) => u \in profiles'
               /\ \A t \in Tests : queue[client][n] = AddOwn(u, t) =>
                    u \in profiles' /\ t \in results'[u]
    <3>1. SetProfile(v) = SetProfile(u) => u = v
      BY WriteFields
    <3>2. \A t \in Tests : SetProfile(v) # AddOwn(u, t)
      BY WriteFields
    <3>3. CASE n = ahead + 1
      BY <2>3, <3>1, <3>2, <3>3
    <3>4. CASE n <= ahead
      <4>1. queue[client][n] = SetProfile(u) => u \in profiles'
        BY <2>3, <3>4 DEF Applied
      <4>2. ASSUME NEW t \in Tests, queue[client][n] = AddOwn(u, t)
            PROVE  u \in profiles' /\ t \in results'[u]
        <5>1. u \in profiles /\ t \in results[u]
          BY <3>4, <4>2 DEF Applied
        <5>2. u # v
          <6>1. ASSUME u = v PROVE FALSE
            <7>1. client = u
              BY <1>0, <2>1, <2>3, <6>1 DEF There
            <7>2. ahead + 1 < n
              BY <2>1, <2>3, <4>2, <5>1, <6>1, <7>1 DEF Order
            <7>. QED
              BY <1>0, <3>4, <7>2
          <6>. QED
            BY <6>1
        <5>. QED
          BY <1>0, <2>3, <5>1, <5>2
      <4>. QED
        BY <4>1, <4>2
    <3>. QED
      BY <2>2, <3>3, <3>4
  <2>4. ASSUME NEW v \in Users, NEW s \in Tests, queue[client][ahead + 1] = AddOwn(v, s),
               v \in profiles, results' = [results EXCEPT ![v] = @ \cup {s}], UNCHANGED profiles
        PROVE  /\ queue[client][n] = SetProfile(u) => u \in profiles'
               /\ \A t \in Tests : queue[client][n] = AddOwn(u, t) =>
                    u \in profiles' /\ t \in results'[u]
    <3>1. AddOwn(v, s) # SetProfile(u)
      BY WriteFields
    <3>2. \A t \in Tests : AddOwn(v, s) = AddOwn(u, t) => u = v /\ t = s
      BY WriteFields
    <3>3. results[u] \subseteq results'[u]
      BY <1>0, <2>4
    <3>4. s \in results'[v]
      BY <1>0, <2>4
    <3>5. CASE n = ahead + 1
      BY <2>4, <3>1, <3>2, <3>4, <3>5
    <3>6. CASE n <= ahead
      BY <2>4, <3>3, <3>6 DEF Applied
    <3>. QED
      BY <2>2, <3>5, <3>6
  <2>5. ASSUME NEW v \in Users, NEW s \in Tests, queue[client][ahead + 1] = AddAll(v, s),
               UNCHANGED <<profiles, results>>
        PROVE  /\ queue[client][n] = SetProfile(u) => u \in profiles'
               /\ \A t \in Tests : queue[client][n] = AddOwn(u, t) =>
                    u \in profiles' /\ t \in results'[u]
    <3>1. AddAll(v, s) # SetProfile(u) /\ \A t \in Tests : AddAll(v, s) # AddOwn(u, t)
      BY WriteFields
    <3>. QED
      BY <2>2, <2>5, <3>1 DEF Applied
  <2>. QED
    BY <1>0, <1>6, <2>3, <2>4, <2>5, ApplyProperties
<1>. QED
  BY <1>1, <1>3, <1>4, <1>5, <1>6, Steps

LEMMA RestoredStep ==
  ASSUME TypeOK, CallbackInv, There, Order, Restored, [Next]_vars
  PROVE  Restored'
<1>0. /\ CloudTypeOK /\ Users \subseteq Clients /\ results \in [Users -> SUBSET Tests]
      /\ results' \in [Users -> SUBSET Tests]
  BY TypesStep DEF TypeOK, CloudTypeOK, Clients
<1>1. CASE Calm
  BY <1>1, CalmWaits DEF Calm, Restored
<1>2. ASSUME NEW v \in Users, Writes1(v) PROVE Restored'
  <2>1. UNCHANGED <<profiles, results>> /\ v \notin profiles
    BY <1>0, <1>2, EnqueueProperties, WritesOwnProfile DEF Writes1
  <2> SUFFICES ASSUME NEW u \in Users, NEW t \in results[u]
               PROVE  /\ u \in profiles
                      /\ t.kept = u /\ Waits(SetProfile(u))' => Waits(AddOwn(u, t))'
    BY <2>1 DEF Restored
  <2>2. u \in profiles /\ SetProfile(u) # SetProfile(v)
    <3>1. u \in profiles /\ u # v
      BY <2>1 DEF Restored
    <3>. QED
      BY <3>1, WriteFields
  <2>. QED
    BY <1>2, <2>2, MadeWaits DEF Restored
<1>3. ASSUME NEW v \in Users, NEW s \in Tests, Files(v, s) PROVE Restored'
  <2>1. UNCHANGED <<profiles, results>>
    BY <1>0, <1>3, FilesProperties
  <2> SUFFICES ASSUME NEW u \in Users, NEW t \in results[u]
               PROVE  /\ u \in profiles
                      /\ t.kept = u /\ Waits(SetProfile(u))' => Waits(AddOwn(u, t))'
    BY <2>1 DEF Restored
  <2>2. SetProfile(u) # AddOwn(v, s) /\ SetProfile(u) # AddAll(v, s)
    BY WriteFields
  <2>. QED
    BY <1>3, <2>2, MadeWaits DEF Restored
<1>4. CASE Apply
  <2>1. /\ UNCHANGED queue /\ client \in Clients /\ ahead + 1 \in 1..Len(queue[client])
    BY <1>0, <1>4, ApplyProperties DEF CloudTypeOK
  <2>2. (\A w : Waits(w)' <=> Waits(w)) /\ Waits(queue[client][ahead + 1])
    BY <2>1 DEF Waits
  <2> SUFFICES ASSUME NEW u \in Users, NEW t \in results'[u]
               PROVE  /\ u \in profiles'
                      /\ t.kept = u /\ Waits(SetProfile(u)) => Waits(AddOwn(u, t))
    BY <2>2 DEF Restored
  <2>3. profiles \subseteq profiles'
    BY ProfilesMade DEF TypeOK, CloudTypeOK
  <2>4. CASE t \in results[u]
    BY <2>3, <2>4 DEF Restored
  <2>5. CASE t \notin results[u]
    <3>1. PICK v \in Users, s \in Tests :
            /\ queue[client][ahead + 1] = AddOwn(v, s) /\ v \in profiles
            /\ results' = [results EXCEPT ![v] = @ \cup {s}]
      BY <1>0, <1>4, <2>5, ApplyProperties
    <3>2. u = v /\ t = s
      BY <1>0, <2>5, <3>1
    <3>. QED
      BY <2>2, <2>3, <3>1, <3>2
  <2>. QED
    BY <2>4, <2>5
<1>5. CASE Answers
  <2>1. WQ!Drop /\ UNCHANGED <<profiles, results>>
    BY <1>5 DEF Answers
  <2> SUFFICES ASSUME NEW u \in Users, NEW t \in results[u]
               PROVE  /\ u \in profiles
                      /\ t.kept = u /\ Waits(SetProfile(u))' => Waits(AddOwn(u, t))'
    BY <2>1 DEF Restored
  <2>2. u \in profiles /\ t \in Tests
    BY <1>0 DEF Restored
  <2>3. ASSUME t.kept = u, Waits(SetProfile(u))', ~Waits(AddOwn(u, t))'
        PROVE  FALSE
    <3>1. Waits(SetProfile(u)) /\ Waits(AddOwn(u, t)) /\ AddOwn(u, t) = Head(queue[client])
      BY <1>0, <2>1, <2>3, DropWaits DEF Restored
    <3>2. client \in Clients /\ 1 \in 1..Len(queue[client]) /\ queue[client][1] = AddOwn(u, t)
      BY <1>0, <2>1, <3>1, DropProperties
    <3>3. client = u
      BY <2>2, <2>3, <3>2 DEF There
    <3>4. PICK d \in Clients : \E n \in 1..Len(queue'[d]) : queue'[d][n] = SetProfile(u)
      BY <2>3 DEF Waits
    <3>5. PICK n \in 1..Len(queue'[d]) : queue'[d][n] = SetProfile(u)
      BY <3>4
    <3>6. /\ Shift(client) = 1 /\ n + Shift(d) \in 1..Len(queue[d])
          /\ queue[d][n + Shift(d)] = SetProfile(u)
      BY <1>0, <2>1, <3>5, DropPlaces
    <3>7. d = u
      BY <3>6 DEF There
    <3>8. n + 1 \in 1..Len(queue[u]) /\ queue[u][n + 1] = SetProfile(u)
      BY <3>3, <3>6, <3>7
    <3>9. n + 1 < 1
      BY <2>2, <3>2, <3>3, <3>8 DEF Order
    <3>. QED
      BY <3>5, <3>9
  <2>. QED
    BY <2>2, <2>3
<1>. QED
  BY <1>1, <1>2, <1>3, <1>4, <1>5, Steps

LEMMA CopyStep ==
  ASSUME TypeOK, Applied, Restored, CopyInv, [Next]_vars
  PROVE  CopyInv'
<1>0. CloudTypeOK /\ results \in [Users -> SUBSET Tests]
  BY DEF TypeOK, CloudTypeOK
<1> SUFFICES ASSUME NEW u \in Users, NEW t \in Tests, Copied(u, t)', t.kept = u
             PROVE  t \in results'[u] \/ t \in refused' \/ Waits(AddOwn(u, t))'
  BY DEF CopyInv
<1>1. CASE Calm /\ UNCHANGED refused
  BY <1>1, CalmWaits DEF Calm, CopyInv, Copied
<1>2. ASSUME NEW v \in Users, Writes1(v)
      PROVE  t \in results'[u] \/ t \in refused' \/ Waits(AddOwn(u, t))'
  <2>1. UNCHANGED <<results, allResults, refused>>
    BY <1>0, <1>2, EnqueueProperties DEF Writes1
  <2>2. AddAll(u, t) # SetProfile(v)
    BY WriteFields
  <2>. QED
    BY <1>2, <2>1, <2>2, MadeWaits DEF CopyInv, Copied
<1>3. ASSUME NEW v \in Users, NEW s \in Tests, Files(v, s)
      PROVE  t \in results'[u] \/ t \in refused' \/ Waits(AddOwn(u, t))'
  <2>1. UNCHANGED <<results, allResults, refused>>
    BY <1>0, <1>3, FilesProperties
  <2>2. /\ AddAll(u, t) # AddOwn(v, s)
        /\ AddAll(u, t) = AddAll(v, s) => u = v /\ t = s
    BY WriteFields
  <2>. QED
    BY <1>3, <2>1, <2>2, MadeWaits DEF CopyInv, Copied
<1>4. CASE Apply /\ UNCHANGED refused
  <2>1. /\ UNCHANGED queue /\ client \in Clients /\ ahead + 1 \in 1..Len(queue[client])
    BY <1>0, <1>4, ApplyProperties DEF CloudTypeOK
  <2>2. (\A w : Waits(w)' <=> Waits(w)) /\ Waits(queue[client][ahead + 1])
    BY <2>1 DEF Waits
  <2>3. Copied(u, t)
    <3>1. CASE [uid |-> u, test |-> t] \in allResults' \ allResults
      <4>1. PICK v \in Users, s \in Tests :
              /\ queue[client][ahead + 1] = AddAll(v, s)
              /\ allResults' = allResults \cup {[uid |-> v, test |-> s]}
        BY <1>0, <1>4, <3>1, ApplyProperties
      <4>2. v = u /\ s = t
        BY <3>1, <4>1
      <4>. QED
        BY <2>2, <4>1, <4>2 DEF Copied
    <3>. QED
      BY <2>2, <3>1 DEF Copied
  <2>4. t \in results[u] \/ t \in refused \/ Waits(AddOwn(u, t))
    BY <2>3 DEF CopyInv
  <2>5. CASE t \in results[u] /\ t \notin results'[u]
    <3>1. queue[client][ahead + 1] = SetProfile(u)
      BY <1>0, <1>4, <2>5, ApplyProperties
    <3>2. Waits(SetProfile(u))
      BY <2>2, <3>1
    <3>. QED
      BY <2>2, <2>5, <3>2 DEF Restored
  <2>. QED
    BY <1>4, <2>2, <2>4, <2>5
<1>5. CASE Answers
  <2>1. /\ WQ!Drop /\ UNCHANGED <<results, allResults>> /\ refused \subseteq refused'
        /\ Head(queue[client]) = AddOwn(u, t) => ahead > 0 \/ t \in refused'
    BY <1>5 DEF Answers
  <2>2. Copied(u, t)
    BY <1>0, <2>1, DropWaits DEF Copied
  <2>3. t \in results[u] \/ t \in refused \/ Waits(AddOwn(u, t))
    BY <2>2 DEF CopyInv
  <2>4. CASE Waits(AddOwn(u, t)) /\ ~Waits(AddOwn(u, t))' /\ t \notin refused'
    <3>1. Head(queue[client]) = AddOwn(u, t) /\ ahead > 0
      BY <1>0, <2>1, <2>4, DropWaits
    <3>2. 1 \in 1..Len(queue[client]) /\ queue[client][1] = AddOwn(u, t) /\ 1 <= ahead
      BY <1>0, <2>1, <3>1, DropProperties DEF CloudTypeOK
    <3>3. t \in results[u]
      BY <3>2 DEF Applied
    <3>. QED
      BY <2>1, <3>3
  <2>. QED
    BY <2>1, <2>3, <2>4
<1>. QED
  BY <1>1, <1>2, <1>3, <1>4, <1>5, Steps

LEMMA AccountsStep ==
  ASSUME TypeOK, ProfileInv, CallbackInv, Applied, AccountsGetProfiles, [Next]_vars
  PROVE  AccountsGetProfiles'
<1>0. /\ CloudTypeOK /\ accounts \subseteq Users /\ accounts' \subseteq Users
      /\ main \in Seq(Blocks) /\ \A u \in Users : u \in profiles => u \in profiles'
  BY TypesStep, ProfilesMade DEF TypeOK
<1>1. ASSUME NEW u \in accounts' \ mishaps', u \in accounts \ mishaps,
             Waits(SetProfile(u)) => Waits(SetProfile(u))' \/ u \in profiles',
             u \in Created => u \in Created' \/ Waits(SetProfile(u))'
      PROVE  u \in profiles' \/ Waits(SetProfile(u))' \/ u \in Created'
  BY <1>0, <1>1 DEF AccountsGetProfiles
<1>2. ASSUME NEW u \in Users, Waits(SetProfile(u)), u \notin mishaps'
      PROVE  Waits(SetProfile(u))' \/ u \in profiles'
  <2>1. CASE Calm
    BY <1>2, <2>1, CalmWaits
  <2>2. CASE \/ \E v \in Users : Writes1(v)
             \/ \E v \in Users, t \in Tests : Files(v, t)
    BY <1>2, <2>2, MadeWaits
  <2>3. CASE Apply
    <3>1. UNCHANGED queue
      BY <1>0, <2>3, ApplyProperties
    <3>. QED
      BY <1>2, <3>1 DEF Waits
  <2>4. CASE Answers /\ ~Waits(SetProfile(u))'
    <3>1. /\ WQ!Drop /\ UNCHANGED profiles
          /\ Head(queue[client]) = SetProfile(u) => ahead > 0 \/ u \in mishaps'
      BY <2>4 DEF Answers
    <3>2. Head(queue[client]) = SetProfile(u) /\ ahead > 0
      BY <1>0, <1>2, <2>4, <3>1, DropWaits
    <3>3. 1 \in 1..Len(queue[client]) /\ queue[client][1] = SetProfile(u) /\ 1 <= ahead
      BY <1>0, <3>1, <3>2, DropProperties DEF CloudTypeOK
    <3>. QED
      BY <3>1, <3>3 DEF Applied
  <2>. QED
    BY <2>1, <2>2, <2>3, <2>4, Steps
<1> SUFFICES ASSUME NEW u \in accounts' \ mishaps'
             PROVE  u \in profiles' \/ Waits(SetProfile(u))' \/ u \in Created'
  BY DEF AccountsGetProfiles
<1>3. CASE Stops
  <2>1. u \in accounts \ mishaps /\ u \notin Created
    BY <1>3, StopsProperties
  <2>. QED
    BY <1>0, <1>1, <1>2, <2>1
<1>4. CASE UNCHANGED <<accounts, main>> /\ mishaps \subseteq mishaps'
  BY <1>0, <1>1, <1>2, <1>4 DEF Created
<1>5. CASE Launch \/ Configure \/ ProfileAppears \/ UNCHANGED vars \/ Deliver
           \/ \E v \in Users, kind \in {"signIn", "create"} : Ask(kind, v)
  <2>1. CASE Deliver
    BY <1>4, <2>1, RefusedProperties DEF Deliver, authVars
  <2>. QED
    BY <1>4, <1>5, <2>1 DEF Launch, Configure, ProfileAppears, Ask, vars, authVars
<1>6. ASSUME NEW v \in Users, NEW t \in Tests, Files(v, t)
      PROVE  u \in profiles' \/ Waits(SetProfile(u))' \/ u \in Created'
  BY <1>3, <1>4, <1>6, FilesProperties DEF Returns, authVars
<1>7. CASE SignOut
  <2>1. UNCHANGED <<accounts, mishaps>>
    BY <1>7 DEF SignOut
  <2>2. Created \subseteq Created'
    <3>1. CASE UNCHANGED main
      BY <3>1 DEF Created
    <3>2. CASE main' = Append(main, Notification(NoUser))
      <4>1. Notification(NoUser) \in Blocks
        BY BlockKinds DEF Clients
      <4>2. /\ Len(main) \in Nat /\ Len(main') = Len(main) + 1
            /\ \A n \in 1..Len(main) : main'[n] = main[n]
        BY <1>0, <3>2, <4>1, AppendProperties, LenProperties
      <4>. QED
        BY <4>2 DEF Created
    <3>. QED
      BY <1>7, <3>1, <3>2 DEF SignOut
  <2>. QED
    BY <1>0, <1>1, <1>2, <2>1, <2>2
<1>8. ASSUME NEW r \in requests, Grant(r)
      PROVE  u \in profiles' \/ Waits(SetProfile(u))' \/ u \in Created'
  <2>1. /\ accounts' = accounts \cup {r.uid} /\ UNCHANGED mishaps
        /\ main' = main \o Granted(r) /\ r.uid \in Users /\ Granted(r) \in Seq(Blocks)
        /\ (r.kind = "signIn" <=> r.uid \in accounts)
        /\ r.kind = "create" => Len(Granted(r)) = 2 /\ Granted(r)[2] = Callback(r.uid)
    BY <1>8, GrantedProperties DEF Grant, SignsIn, Granted
  <2>2. /\ \A n \in 1..Len(main) : n \in 1..Len(main') /\ main'[n] = main[n]
        /\ Len(main) \in Nat /\ Len(main') = Len(main) + Len(Granted(r))
        /\ \A k \in 1..Len(Granted(r)) : main'[Len(main) + k] = Granted(r)[k]
    BY <1>0, <2>1, EndOfMain
  <2>3. CASE u \in accounts
    <3>1. Created \subseteq Created'
      BY <2>2 DEF Created
    <3>. QED
      BY <1>0, <1>1, <1>2, <2>1, <2>3, <3>1
  <2>4. CASE u \notin accounts
    <3>1. u = r.uid /\ r.kind = "create"
      <4>1. u = r.uid /\ r.kind \in {"signIn", "create"}
        BY <2>1, <2>4 DEF TypeOK, Requests
      <4>2. r.kind # "signIn"
        BY <2>1, <2>4, <4>1
      <4>. QED
        BY <4>1, <4>2
    <3>2. Len(main) + 2 \in 1..Len(main') /\ main'[Len(main) + 2] = Callback(u)
      <4>1. Len(Granted(r)) = 2 /\ Granted(r)[2] = Callback(u)
        BY <2>1, <3>1
      <4>2. 2 \in 1..Len(Granted(r)) /\ Len(main) + 2 \in 1..Len(main')
        BY <2>2, <4>1
      <4>. QED
        BY <2>2, <4>1, <4>2
    <3>. QED
      BY <2>1, <3>1, <3>2 DEF Created
  <2>. QED
    BY <2>3, <2>4
<1>9. ASSUME NEW r \in requests, Fail(r)
      PROVE  u \in profiles' \/ Waits(SetProfile(u))' \/ u \in Created'
  <2>1. u \in accounts \ mishaps /\ UNCHANGED main
    BY <1>9 DEF Fail
  <2>. QED
    BY <1>0, <1>1, <1>2, <2>1 DEF Created
<1>10. CASE RunMain
  <2>1. /\ UNCHANGED <<accounts, mishaps>> /\ main # <<>> /\ main' = Tail(main)
    BY <1>10 DEF RunMain
  <2>2. ASSUME u \in Created PROVE u \in Created' \/ Waits(SetProfile(u))'
    <3>1. PICK n \in 1..Len(main) : main[n] = Callback(u)
      BY <2>2 DEF Created
    <3>2. /\ Head(main) = main[1] /\ Len(main) \in Nat /\ Len(main') = Len(main) - 1
          /\ \A m \in 1..Len(main') : main'[m] = main[m + 1]
      BY <1>0, <2>1, TailOfMain
    <3>3. CASE n = 1
      <4>1. Writes1(u)
        <5>1. \A c : ~Tells(c)
          BY <3>1, <3>2, <3>3, BlockKinds DEF Tells
        <5>2. PICK v \in Users : Writes1(v)
          BY <1>10, <5>1, RunMainProperties
        <5>3. v = u
          BY <3>1, <3>2, <3>3, <5>2, BlockKinds DEF Writes1
        <5>. QED
          BY <5>2, <5>3
      <4>. QED
        BY <1>0, <4>1, MadeWaits
    <3>4. CASE n # 1
      <4>1. n - 1 \in 1..Len(main') /\ (n - 1) + 1 = n
        BY <3>2, <3>4
      <4>2. main'[n - 1] = Callback(u)
        BY <3>1, <3>2, <4>1
      <4>. QED
        BY <1>0, <4>1, <4>2 DEF Created
    <3>. QED
      BY <3>3, <3>4
  <2>. QED
    BY <1>0, <1>1, <1>2, <2>1, <2>2
<1>. QED
  BY <1>3, <1>5, <1>6, <1>7, <1>8, <1>9, <1>10, FinishTestProperties,
     ProcessEndsStops DEF Next, Kill

-------------------------------------------------------------------------------
(* The theorems. *)

Inv == /\ TypeOK /\ CachedInv /\ MentionInv /\ ProfileInv /\ CallbackInv
       /\ QueueInv /\ AccountsGetProfiles

\* SessionProfiles: the inductive invariant.  What waits waits in the queue of
\* the client it was handed to, a profile before the results that came after
\* it, and the server has applied what the client is still to send again.
THEOREM SessionProfiles == Spec => []Inv
<1>1. Init => Inv
  <2> SUFFICES ASSUME Init PROVE Inv
    OBVIOUS
  <2>1. /\ results = [v \in Users |-> {}] /\ profiles = {} /\ allResults = {}
        /\ queue = [c \in Clients |-> <<>>] /\ client \in Clients
        /\ main = <<>> /\ requests = {} /\ accounts = {} /\ cached = Unset
    BY DEF Init, CloudInit, WQ!Init
  <2>2. (\A d \in Clients : Len(queue[d]) = 0) /\ Len(main) = 0
    BY <2>1
  <2>3. \A w : ~Waits(w)
    BY <2>2 DEF Waits
  <2>4. CachedInv /\ ProfileInv /\ CallbackInv /\ AccountsGetProfiles
    BY <2>1, <2>2, <2>3 DEF CachedInv, ProfileInv, CallbackInv, AccountsGetProfiles
  <2>5. MentionInv /\ CopyInv
    BY <2>1, <2>3 DEF MentionInv, Mentions, CopyInv, Copied
  <2>6. There /\ Pairs /\ Order /\ Applied /\ Restored
    BY <2>1, <2>2 DEF There, Pairs, Order, Applied, Restored
  <2>7. Once
    BY <2>2 DEF Once, Clients
  <2>. QED
    BY <2>4, <2>5, <2>6, <2>7, TypesInit DEF Inv, QueueInv
<1>2. Inv /\ [Next]_vars => Inv'
  BY TypesStep, CachedStep, MentionStep, ProfileStep, CallbackStep, ThereStep, OnceStep,
     PairsStep, OrderStep, AppliedStep, RestoredStep, CopyStep, AccountsStep
     DEF Inv, QueueInv
<1>. QED
  BY <1>1, <1>2, PTL DEF Spec

\* SessionAccountsGetProfiles: see AccountsGetProfiles of Session.
THEOREM SessionAccountsGetProfiles == Spec => []AccountsGetProfiles
<1>1. Inv => AccountsGetProfiles
  BY DEF Inv
<1>. QED
  BY <1>1, SessionProfiles, PTL

\* SessionOwnCopyFirst: see OwnCopyFirst of Session.
THEOREM SessionOwnCopyFirst == Spec => []OwnCopyFirst
<1>1. Inv => OwnCopyFirst
  <2> SUFFICES ASSUME Inv, NEW r \in allResults
               PROVE  /\ Waits(AddOwn(r.uid, r.test)) => Waits(AddAll(r.uid, r.test))
                      /\ \A u \in Users : r.test \in results[u] => u = r.uid
    BY DEF OwnCopyFirst
  <2>1. r.uid \in Users /\ r.test \in Tests /\ r = [uid |-> r.uid, test |-> r.test]
    <3>1. r \in [uid : Users, test : Tests]
      BY DEF Inv, TypeOK, CloudTypeOK
    <3>. QED
      BY <3>1
  <2>2. ASSUME Waits(AddOwn(r.uid, r.test)) PROVE Waits(AddAll(r.uid, r.test))
    <3>0. Copied(r.uid, r.test)
      BY <2>1 DEF Copied
    <3>1. PICK d \in Clients : \E n \in 1..Len(queue[d]) : queue[d][n] = AddOwn(r.uid, r.test)
      BY <2>2 DEF Waits
    <3>2. \E m \in 1..Len(queue[d]) : queue[d][m] = AddAll(r.uid, r.test)
      BY <2>1, <3>0, <3>1 DEF Inv, QueueInv, Pairs
    <3>. QED
      BY <3>2 DEF Waits
  <2>3. ASSUME NEW u \in Users, r.test \in results[u] PROVE u = r.uid
    BY <2>1, <2>3 DEF Inv, MentionInv, Mentions
  <2>. QED
    BY <2>2, <2>3
<1>. QED
  BY <1>1, SessionProfiles, PTL

\* SessionNoCopyIsLost: see NoCopyIsLost of Session.
THEOREM SessionNoCopyIsLost == Spec => []NoCopyIsLost
<1>1. Inv => NoCopyIsLost
  <2> SUFFICES ASSUME Inv, NEW r \in allResults
               PROVE  \/ r.test \in results[r.uid] \cup refused
                      \/ Waits(AddOwn(r.uid, r.test))
                      \/ r.test.kept # r.uid
    BY DEF NoCopyIsLost
  <2>1. r.uid \in Users /\ r.test \in Tests /\ r = [uid |-> r.uid, test |-> r.test]
    <3>1. r \in [uid : Users, test : Tests]
      BY DEF Inv, TypeOK, CloudTypeOK
    <3>. QED
      BY <3>1
  <2>2. Copied(r.uid, r.test)
    BY <2>1 DEF Copied
  <2>. QED
    BY <2>1, <2>2 DEF Inv, QueueInv, CopyInv
<1>. QED
  BY <1>1, SessionProfiles, PTL

\* SessionResultsStay: see ResultsStay of Session.
THEOREM SessionResultsStay == Spec => ResultsStay
<1>1. Inv /\ [Next]_vars =>
        [\A u \in Users : \A t \in results[u] :
           t.kept = u /\ ~Waits(AddOwn(u, t)) => t \in results'[u]]_vars
  <2> SUFFICES ASSUME Inv, [Next]_vars, NEW u \in Users, NEW t \in results[u],
                      t.kept = u, ~Waits(AddOwn(u, t))
               PROVE  t \in results'[u]
    OBVIOUS
  <2>1. CloudTypeOK /\ results \in [Users -> SUBSET Tests]
    BY DEF Inv, TypeOK, CloudTypeOK
  <2>2. CASE Apply /\ t \notin results'[u]
    <3>1. queue[client][ahead + 1] = SetProfile(u)
      BY <2>1, <2>2, ApplyProperties
    <3>2. client \in Clients /\ ahead + 1 \in 1..Len(queue[client])
      BY <2>1, <2>2, ApplyProperties DEF CloudTypeOK
    <3>3. Waits(SetProfile(u))
      BY <3>1, <3>2 DEF Waits
    <3>. QED
      BY <3>3 DEF Inv, QueueInv, Restored
  <2>3. CASE UNCHANGED results
    BY <2>3
  <2>4. TypeOK
    BY DEF Inv
  <2>5. \A v \in Users : Writes1(v) => UNCHANGED results
    BY <2>1, EnqueueProperties DEF Writes1
  <2>6. \A v \in Users, s \in Tests : Files(v, s) => UNCHANGED results
    BY <2>4, FilesProperties
  <2>. QED
    BY <2>2, <2>3, <2>4, <2>5, <2>6, Steps DEF Calm, Answers
<1>. QED
  BY <1>1, SessionProfiles, PTL DEF Spec, ResultsStay

-------------------------------------------------------------------------------
\* FinishTestReturns and FiledUnderTaker of Session fail.  What they need is that
\* the account has not changed in this process since its uid was read.

\* Only a process that runs has an instance of Firestore.
InstanceRuns == configured => running

\* While the uid that was read is the current user's, the test of somebody who is
\* signed in is filed and the process goes on.
FinishTestReturnsUnswitched ==
  [][FinishTest /\ authUser # NoUser /\ ~switched => running']_vars

\* A process that a test of somebody signed in ends had read that nobody was
\* signed in, and was signed in to afterwards.
TrapsOnStaleUid ==
  [][FinishTest /\ authUser # NoUser /\ ~running' => cached = NoUser /\ switched]_vars

\* The own copy of a test waits under the uid of who took it, in whichever queue,
\* if the account had not changed in the process that filed it.
FiledUnderTakerUnswitched ==
  \A c \in Clients : \A n \in 1..Len(queue[c]) :
    queue[c][n].op = "own" /\ queue[c][n].test.sure =>
      queue[c][n].uid = queue[c][n].test.by

LEMMA InstanceStep ==
  ASSUME TypeOK, InstanceRuns, [Next]_vars
  PROVE  InstanceRuns'
<1>1. CASE Stops
  BY <1>1 DEF Stops, InstanceRuns
<1>2. CASE \/ Launch \/ Configure \/ ProfileAppears \/ SignOut \/ RunMain \/ Deliver
           \/ \E u \in Users, kind \in {"signIn", "create"} : Ask(kind, u)
           \/ \E r \in requests : Grant(r) \/ Fail(r)
           \/ UNCHANGED vars
  BY <1>2 DEF Launch, Configure, ProfileAppears, SignOut, RunMain, Deliver, Ask, Grant,
              SignsIn, Fail, vars, InstanceRuns
<1>3. ASSUME FinishTest \/ KillInFinishTest PROVE InstanceRuns'
  BY <1>1, <1>3, ProcessEndsStops
     DEF FinishTest, KillInFinishTest, UpdateTestScores, TrapsOnEmptyName, InstanceRuns
<1>. QED
  BY <1>1, <1>2, <1>3, ProcessEndsStops DEF Next, Kill

\* SessionFinishReturns: for somebody who is signed in, the last answer of a test
\* ends the process only where the singleton read the uid while nobody was
\* signed in and somebody signed in since; with no change of account after the
\* uid was read, updateTestScore and updateAllTestScore return.
THEOREM SessionFinishReturns == Spec => FinishTestReturnsUnswitched /\ TrapsOnStaleUid
<1> DEFINE FInv == TypeOK /\ CachedInv /\ InstanceRuns
<1>1. Init => FInv
  BY TypesInit DEF Init, CachedInv, InstanceRuns
<1>2. FInv /\ [Next]_vars => FInv'
  BY TypesStep, CachedStep, InstanceStep
<1>3. ASSUME FInv, FinishTest, authUser # NoUser, CurrentUser # NoUser PROVE running'
  BY <1>3 DEF InstanceRuns, FinishTest, UpdateTestScores, TrapsOnEmptyName
<1>4. ASSUME FInv, authUser # NoUser, CurrentUser = NoUser PROVE cached = NoUser /\ switched
  BY <1>4, UnsetAssumption DEF CurrentUser, CachedInv, Clients
<1>5. FInv /\ [Next]_vars => [FinishTest /\ authUser # NoUser /\ ~switched => running']_vars
  BY <1>3, <1>4
<1>6. FInv /\ [Next]_vars =>
        [FinishTest /\ authUser # NoUser /\ ~running' => cached = NoUser /\ switched]_vars
  BY <1>3, <1>4
<1>. QED
  BY <1>1, <1>2, <1>5, <1>6, PTL DEF Spec, FinishTestReturnsUnswitched, TrapsOnStaleUid

\* SessionFiledUnderTaker: a test that waits in any queue, that of its user or of
\* another, names the user who took it, unless the account had changed in the
\* process that filed it; a test nobody was signed in for waits in none.
THEOREM SessionFiledUnderTaker == Spec => []FiledUnderTakerUnswitched
<1>1. Inv => FiledUnderTakerUnswitched
  <2> SUFFICES ASSUME Inv, NEW c \in Clients, NEW n \in 1..Len(queue[c]),
                      queue[c][n].op = "own", queue[c][n].test.sure
               PROVE  queue[c][n].uid = queue[c][n].test.by
    BY DEF FiledUnderTakerUnswitched
  <2> DEFINE w == queue[c][n]
  <2>1. w \in Writes /\ Waits(w)
    BY DEF Inv, TypeOK, CloudTypeOK, Waits
  <2>2. PICK u \in Users, t \in Tests : w = AddOwn(u, t)
    BY <2>1, WriteKinds DEF Writes
  <2>3. w.uid = u /\ w.test = t
    BY <2>2, WriteFields
  <2>4. Mentions(u, t)
    BY <2>1, <2>2 DEF Mentions
  <2>5. t.sure => t.by = u
    BY <2>4 DEF Inv, MentionInv
  <2>. QED
    BY <2>3, <2>5
<1>. QED
  BY <1>1, SessionProfiles, PTL
===============================================================================
