-------------------------- MODULE WritePipelineProofs --------------------------
(***************************************************************************)
(* The safety properties of WritePipeline for any clients, any room in the *)
(* pipeline and any number of writes and faults, and that it implements    *)
(* WriteQueue.                                                             *)
(*                                                                         *)
(* The invariant has three parts.  Rows: the queues, what is sent of them  *)
(* and what has been answered.  Line: the write stream, its timers and     *)
(* what is on the wire.  Accounts: what is on its way from Auth to the     *)
(* stream.                                                                 *)
(***************************************************************************)
EXTENDS WritePipeline, SequenceTheorems, WellFoundedInduction, TLAPS

-------------------------------------------------------------------------------
(* The invariant.                                                          *)

\* What fits into the pipeline of the queue q.
First(q) == SubSeq(q, 1, IF kMaxPendingWrites < Len(q) THEN kMaxPendingWrites ELSE Len(q))

\* Rows in the order of their ids, and of the writes.
Ascending(q) ==
  \A m, n \in 1..Len(q) : m < n => q[m].id < q[n].id /\ q[m].write < q[n].write

\* Ids that were given and writes that were made, after the last acknowledged.
RowsOf(c) ==
  /\ Ascending(queue[c]) /\ acked[c] <= made
  /\ \A n \in 1..Len(queue[c]) :
       /\ queue[c][n].id < nextId
       /\ acked[c] < queue[c][n].write /\ queue[c][n].write <= made

\* A completion waits for a row.
RowsWaited(c) ==
  \A x \in callbacks[c] : \E n \in 1..Len(queue[c]) : queue[c][n] = x

RowsInv ==
  /\ \A c \in Clients : RowsOf(c) /\ RowsWaited(c)
  /\ pipeline = IF running THEN First(queue[user]) ELSE <<>>
  /\ AckedNotUndone

\* The stream is needed: it waits for its token, its backoff or its greeting.
Expected(st) == st.state \in {"Starting", "Backoff"} \/ (st.state = "Open" /\ ~st.handshake)

LineFlags ==
  /\ stream.state # "Open" => /\ ~stream.handshake /\ ~stream.idle
                              /\ requests = <<>> /\ responses = <<>>
  /\ stream.backoff <=> stream.state = "Backoff"
  /\ stream.idle => pipeline = <<>>
  /\ Expected(stream) => pipeline # <<>>
  /\ pipeline # <<>> => Started(stream)
  /\ stream.state = "Open" => speaker = user

\* Before the handshake is answered nothing else is sent.
Greeting ==
  stream.state = "Open" /\ ~stream.handshake =>
    \/ requests = <<Handshake>> /\ responses = <<>>
    \/ requests = <<>> /\ responses = <<Handshake>>
    \/ requests = <<>> /\ responses = <<Refused>>

\* After it the responses and the requests on the wire are the pipeline; the
\* last response may be a refusal.
Wire ==
  stream.handshake =>
    /\ Len(responses) + Len(requests) = Len(pipeline)
    /\ \A n \in 1..Len(responses) :
         \/ responses[n] = pipeline[n] /\ pipeline[n].write <= doc[user]
         \/ n = Len(responses) /\ responses[n] = Refused
    /\ \A n \in 1..Len(requests) : requests[n] = pipeline[Len(responses) + n]

LineInv == LineFlags /\ Greeting /\ Wire

\* Places in main and worker.
Notify_(n) == n \in 1..Len(main) /\ main[n].kind = "notify"
Token(n) == n \in 1..Len(main) /\ main[n].kind = "token"
Credential(n) == n \in 1..Len(worker) /\ worker[n].kind = "credential"
Resume(n) == n \in 1..Len(worker) /\ worker[n].kind = "resume"

\* The last account change on the way is the one Auth has made last.
LastChange ==
  /\ \A n \in 1..Len(main) :
       Notify_(n) /\ (\A m \in (n + 1)..Len(main) : ~Notify_(m)) => main[n].uid = authUser
  /\ (\A m \in 1..Len(main) : ~Notify_(m)) =>
       /\ \A n \in 1..Len(worker) :
            Credential(n) /\ (\A m \in (n + 1)..Len(worker) : ~Credential(m)) =>
              worker[n].uid = authUser
       /\ running /\ (\A m \in 1..Len(worker) : ~Credential(m)) => user = authUser

\* Calls and answers for no later stream or account than there is.
Counts ==
  /\ \A r \in asked : r.count <= stream.count /\ r.counter <= counter
  /\ \A n \in 1..Len(main) :
       Token(n) => main[n].count <= stream.count /\ main[n].counter <= counter
  /\ \A n \in 1..Len(worker) : Resume(n) => worker[n].count <= stream.count

\* The call or the answer the stream waits for.
LiveAsked(r) == r \in asked /\ r.count = stream.count
LiveMain(n) == Token(n) /\ main[n].count = stream.count
LiveWorker(n) == Resume(n) /\ worker[n].count = stream.count

\* There is one at most, and only while it waits.
OneLive ==
  /\ \A r \in asked : LiveAsked(r) =>
       /\ stream.state = "Starting"
       /\ \A s \in asked : LiveAsked(s) => s = r
       /\ \A n \in 1..Len(main) : ~LiveMain(n)
       /\ \A n \in 1..Len(worker) : ~LiveWorker(n)
  /\ \A n \in 1..Len(main) : LiveMain(n) =>
       /\ stream.state = "Starting"
       /\ \A m \in 1..Len(main) : LiveMain(m) => m = n
       /\ \A m \in 1..Len(worker) : ~LiveWorker(m)
  /\ \A n \in 1..Len(worker) : LiveWorker(n) =>
       /\ stream.state = "Starting"
       /\ \A m \in 1..Len(worker) : LiveWorker(m) => m = n

\* There is one while it waits.
CallIsOut ==
  \/ \E r \in asked : LiveAsked(r)
  \/ \E n \in 1..Len(main) : LiveMain(n)
  \/ \E n \in 1..Len(worker) : LiveWorker(n)

Called == stream.state = "Starting" => CallIsOut

\* Whose token it brings, unless an account change is before it.
RightUser ==
  /\ \A r \in asked :
       r.counter = counter /\ (\A m \in 1..Len(main) : ~Notify_(m)) => r.as = {authUser}
  /\ \A n \in 1..Len(main) :
       /\ LiveMain(n) /\ main[n].counter = counter
       /\ \A m \in 1..(n - 1) : ~Notify_(m)
       /\ \A m \in 1..Len(worker) : ~Credential(m)
       => main[n].token \in {Failed, user}
  /\ \A n \in 1..Len(worker) :
       LiveWorker(n) /\ (\A m \in 1..(n - 1) : ~Credential(m)) =>
         worker[n].token \in {Failed, user}

AccountsInv == LastChange /\ Counts /\ OneLive /\ Called /\ RightUser

\* A process that does not run has nothing under way.
Stopped == ~running => /\ asked = {} /\ main = <<>> /\ worker = <<>>
                       /\ stream = Idle0

\* What every state keeps, also the one in which the process has ended because the
\* server ended a stream that was needed.
Kept == TypeOK /\ RowsInv /\ LineInv /\ AccountsInv /\ Stopped

\* Before an assertion has failed, which is where steps are taken.
NotFailed == ~failed
Inv == TypeOK /\ NotFailed /\ RowsInv /\ LineInv /\ AccountsInv /\ Stopped

-------------------------------------------------------------------------------
(* Queues and the pipeline.                                                *)

\* The search from the k-th row ends there, as ids ascend.
LEMMA SeekFinds ==
  ASSUME NEW q \in Seq(Batches), Ascending(q), NEW k \in 0..Len(q)
  PROVE  Seek(q, IF k = 0 THEN 0 ELSE q[k].id) = k
<1> DEFINE last == IF k = 0 THEN 0 ELSE q[k].id
           Found(j) == /\ \A n \in 1..j : q[n].id <= last
                       /\ j = Len(q) \/ q[j + 1].id > last
<1>1. Len(q) \in Nat /\ \A n \in 1..Len(q) : q[n] \in Batches /\ q[n].id \in Nat \ {0}
  <2>1. Len(q) \in Nat /\ \A n \in 1..Len(q) : q[n] \in Batches
    BY LenProperties, ElementOfSeq
  <2> QED BY <2>1 DEF Batches
<1>2. Found(k)
  <2>1. ASSUME NEW n \in 1..k PROVE q[n].id <= last
    BY <1>1, <2>1 DEF Ascending
  <2>2. ASSUME k # Len(q) PROVE q[k + 1].id > last
    BY <1>1, <2>2 DEF Ascending
  <2> QED BY <2>1, <2>2
<1>3. ASSUME NEW j \in 0..Len(q), Found(j) PROVE j = k
  <2>1. CASE j < k
    <3>1. k \in 1..Len(q) /\ j + 1 \in 1..k /\ j # Len(q)
      BY <1>1, <2>1
    <3>2. q[j + 1].id > last /\ q[j + 1].id <= last
      BY <1>2, <1>3, <3>1
    <3> QED BY <1>1, <3>1, <3>2
  <2>2. CASE k < j
    <3>1. k + 1 \in 1..j /\ k # Len(q) /\ k + 1 \in 1..Len(q)
      BY <1>1, <2>2
    <3>2. q[k + 1].id > last /\ q[k + 1].id <= last
      BY <1>2, <1>3, <3>1
    <3> QED BY <1>1, <3>1, <3>2
  <2> QED BY <1>1, <2>1, <2>2
<1>4. Seek(q, last) = CHOOSE j \in 0..Len(q) : Found(j)
  BY DEF Seek
<1> HIDE DEF Found, last
<1>5. (CHOOSE j \in 0..Len(q) : Found(j)) = k
  BY <1>2, <1>3
<1> QED BY <1>4, <1>5 DEF last

\* What First is.
LEMMA FirstRows ==
  ASSUME NEW q \in Seq(Batches)
  PROVE  /\ First(q) \in Seq(Batches) /\ Len(First(q)) \in Nat /\ Len(q) \in Nat
         /\ Len(First(q)) <= Len(q) /\ Len(First(q)) <= kMaxPendingWrites
         /\ Len(First(q)) = Len(q) \/ Len(First(q)) = kMaxPendingWrites
         /\ \A n \in 1..Len(First(q)) : First(q)[n] = q[n]
         /\ First(q) = <<>> <=> q = <<>>
<1> DEFINE m == IF kMaxPendingWrites < Len(q) THEN kMaxPendingWrites ELSE Len(q)
<1>1. Len(q) \in Nat /\ kMaxPendingWrites \in Nat \ {0}
  BY LenProperties, PipelineAssumption
<1>2. m \in 0..Len(q) /\ First(q) = SubSeq(q, 1, m)
  BY <1>1 DEF First
<1>3. m <= kMaxPendingWrites /\ (m = Len(q) \/ m = kMaxPendingWrites) /\ (m = 0 <=> Len(q) = 0)
  BY <1>1
<1> HIDE DEF m
<1>4. /\ SubSeq(q, 1, m) \in Seq(Batches) /\ Len(SubSeq(q, 1, m)) = m
      /\ \A n \in 1..m : SubSeq(q, 1, m)[n] = q[n]
  BY <1>1, <1>2
<1>5. (First(q) = <<>> <=> m = 0) /\ (q = <<>> <=> Len(q) = 0)
  BY <1>1, <1>2, <1>4, EmptySeq
<1> QED BY <1>1, <1>2, <1>3, <1>4, <1>5

\* The pipeline, filled from its last batch on, is the first rows of the queue.
LEMMA Filled ==
  ASSUME NEW q \in Seq(Batches), Ascending(q),
         NEW p \in Seq(Batches), Len(p) <= Len(q), Len(p) <= kMaxPendingWrites,
         \A n \in 1..Len(p) : p[n] = q[n]
  PROVE  /\ p \o NextBatches(p, q) = First(q)
         /\ NextBatches(p, q) \in Seq(Batches) /\ Len(NextBatches(p, q)) \in Nat
         /\ Len(p) \in Nat
         /\ Len(p) + Len(NextBatches(p, q)) = Len(First(q))
         /\ \A n \in 1..Len(NextBatches(p, q)) : NextBatches(p, q)[n] = q[Len(p) + n]
<1> DEFINE k == Len(p)
           m == IF kMaxPendingWrites < Len(q) THEN kMaxPendingWrites ELSE Len(q)
<1>1. Len(q) \in Nat /\ k \in Nat /\ kMaxPendingWrites \in Nat \ {0} /\ k \in 0..Len(q)
  BY LenProperties, PipelineAssumption
<1>2. (IF p = <<>> THEN 0 ELSE p[Len(p)].id) = IF k = 0 THEN 0 ELSE q[k].id
  <2>1. p = <<>> <=> k = 0
    BY <1>1, EmptySeq
  <2> QED BY <1>1, <2>1
<1>3. Seek(q, IF p = <<>> THEN 0 ELSE p[Len(p)].id) = k
  BY <1>1, <1>2, SeekFinds
<1>4. NextBatches(p, q) = SubSeq(q, k + 1, m)
  <2>1. m = IF k + (kMaxPendingWrites - k) < Len(q) THEN k + (kMaxPendingWrites - k) ELSE Len(q)
    BY <1>1
  <2> HIDE DEF m
  <2>2. NextBatches(p, q) =
          SubSeq(q, k + 1, IF k + (kMaxPendingWrites - k) < Len(q)
                           THEN k + (kMaxPendingWrites - k) ELSE Len(q))
    BY <1>3, Zenon DEF NextBatches
  <2> QED BY <2>1, <2>2, Zenon
<1>5. m \in 0..Len(q) /\ k <= m /\ First(q) = SubSeq(q, 1, m)
  BY <1>1 DEF First
<1> HIDE DEF m
<1>6. /\ SubSeq(q, 1, m) \in Seq(Batches) /\ Len(SubSeq(q, 1, m)) = m
      /\ \A n \in 1..m : SubSeq(q, 1, m)[n] = q[n]
  BY <1>1, <1>5
<1>7. /\ SubSeq(q, k + 1, m) \in Seq(Batches) /\ Len(SubSeq(q, k + 1, m)) = m - k
      /\ \A n \in 1..(m - k) : SubSeq(q, k + 1, m)[n] = q[k + n]
  BY <1>1, <1>5
<1> DEFINE new == SubSeq(q, k + 1, m)
<1>8. /\ p \o new \in Seq(Batches) /\ Len(p \o new) = m
      /\ \A n \in 1..m : (p \o new)[n] = IF n <= k THEN p[n] ELSE new[n - k]
  BY <1>1, <1>5, <1>7, ConcatProperties
<1>9. \A n \in 1..m : (p \o new)[n] = SubSeq(q, 1, m)[n]
  <2> SUFFICES ASSUME NEW n \in 1..m PROVE (p \o new)[n] = q[n]
    BY <1>6
  <2> HIDE DEF new, m
  <2>1. CASE n <= k
    BY <1>1, <1>5, <1>8, <2>1
  <2>2. CASE ~(n <= k)
    <3>1. n - k \in 1..(m - k) /\ k + (n - k) = n
      BY <1>1, <1>5, <2>2
    <3>2. new[n - k] = q[k + (n - k)]
      BY <1>7, <3>1 DEF new
    <3> QED BY <1>8, <2>2, <3>1, <3>2
  <2> QED BY <2>1, <2>2
<1>10. p \o new = SubSeq(q, 1, m)
  <2> DEFINE s == p \o new
             t == SubSeq(q, 1, m)
  <2>1. s \in Seq(Batches) /\ t \in Seq(Batches) /\ Len(s) = m /\ Len(t) = m
    BY <1>6, <1>8
  <2>2. \A n \in 1..m : s[n] = t[n]
    BY <1>9
  <2> HIDE DEF s, t, new, m
  <2>3. s = t
    BY <2>1, <2>2, SeqEqual
  <2> QED BY <2>3 DEF s, t
<1> HIDE DEF new
<1>11. /\ NextBatches(p, q) = new /\ p \o new = First(q)
       /\ new \in Seq(Batches) /\ Len(new) = m - k /\ Len(First(q)) = m
       /\ \A n \in 1..(m - k) : new[n] = q[k + n]
  BY <1>4, <1>5, <1>6, <1>7, <1>10 DEF new
<1>12. m - k \in Nat /\ k + (m - k) = m
  BY <1>1, <1>5
<1> QED BY <1>1, <1>11, <1>12

\* Removing the first row.
LEMMA WithoutFirst ==
  ASSUME NEW q \in Seq(Batches), Ascending(q), q # <<>>
  PROVE  /\ Without(q, q[1].id) = Tail(q)
         /\ Tail(q) \in Seq(Batches) /\ Len(q) \in Nat \ {0} /\ Len(Tail(q)) = Len(q) - 1
         /\ \A n \in 1..Len(Tail(q)) : Tail(q)[n] = q[n + 1]
<1>1. Len(q) \in Nat \ {0} /\ \A n \in 1..Len(q) : q[n] \in Batches /\ q[n].id \in Nat \ {0}
  <2>1. Len(q) \in Nat \ {0} /\ \A n \in 1..Len(q) : q[n] \in Batches
    BY LenProperties, ElementOfSeq, EmptySeq
  <2> QED BY <2>1 DEF Batches
<1>2. \A k \in 1..Len(q) : q[k].id = q[1].id <=> k = 1
  BY <1>1 DEF Ascending
<1>3. (CHOOSE k \in 1..Len(q) : q[k].id = q[1].id) = 1
  <2> DEFINE Found(k) == q[k].id = q[1].id
  <2>1. 1 \in 1..Len(q) /\ Found(1) /\ \A k \in 1..Len(q) : Found(k) => k = 1
    BY <1>1, <1>2
  <2> HIDE DEF Found
  <2>2. (CHOOSE k \in 1..Len(q) : Found(k)) = 1
    BY <2>1
  <2> QED BY <2>2, Zenon DEF Found
<1>4. Without(q, q[1].id) = SubSeq(q, 1, 0) \o SubSeq(q, 2, Len(q))
  <2>1. Without(q, q[1].id) = SubSeq(q, 1, 1 - 1) \o SubSeq(q, 1 + 1, Len(q))
    BY <1>3, Zenon DEF Without
  <2> QED BY <2>1
<1>5. /\ Tail(q) \in Seq(Batches) /\ Len(Tail(q)) = Len(q) - 1
      /\ \A n \in 1..Len(Tail(q)) : Tail(q)[n] = q[n + 1]
  BY <1>1, HeadTailProperties
<1>6. SubSeq(q, 1, 0) = <<>> /\ SubSeq(q, 2, Len(q)) = Tail(q)
  BY <1>1, SubSeqEmpty, TailIsSubSeq
<1>7. <<>> \o Tail(q) = Tail(q)
  BY <1>5, ConcatEmptySeq
<1> QED BY <1>1, <1>4, <1>5, <1>6, <1>7

Streams == [state : {"Initial", "Starting", "Open", "Error", "Backoff"},
            handshake : BOOLEAN, idle : BOOLEAN, backoff : BOOLEAN, count : Nat]

\* The call of getToken for a stream.
LEMMA GetTokenType ==
  ASSUME TypeOK, NEW n \in Nat
  PROVE  /\ GetToken(n) \in [count : Nat, counter : Nat, as : SUBSET Clients]
         /\ GetToken(n).count = n /\ GetToken(n).counter = counter
         /\ GetToken(n).as = {authUser}
BY DEF TypeOK, GetToken

\* Starting a stream that has ended or has not begun.
LEMMA StartEffect ==
  ASSUME TypeOK, NEW STATE st, st \in Streams, Start(st)
  PROVE  /\ stream' \in Streams
         /\ stream'.count = st.count /\ stream'.handshake = st.handshake
         /\ stream'.idle = st.idle
         /\ \/ /\ st.state = "Error" /\ stream'.state = "Backoff" /\ stream'.backoff = TRUE
               /\ asked' = asked
            \/ /\ st.state # "Error" /\ stream'.state = "Starting"
               /\ stream'.backoff = st.backoff
               /\ asked' = asked \cup {GetToken(st.count)}
<1>1. CASE st.state = "Error"
  <2>1. stream' = [st EXCEPT !.state = "Backoff", !.backoff = TRUE] /\ asked' = asked
    BY <1>1 DEF Start
  <2> QED BY <1>1, <2>1 DEF Streams
<1>2. CASE st.state # "Error"
  <2>1. /\ stream' = [st EXCEPT !.state = "Starting"]
        /\ asked' = asked \cup {GetToken(st.count)}
    BY <1>2 DEF Start
  <2> HIDE DEF GetToken
  <2> QED BY <1>2, <2>1 DEF Streams
<1> QED BY <1>1, <1>2

\* Closing a stream.
LEMMA ClosedIs ==
  ASSUME TypeOK, NEW s \in {"Initial", "Error"}
  PROVE  /\ stream \in Streams /\ Closed(stream, s) \in Streams
         /\ Closed(stream, s).state = s /\ Closed(stream, s).count = stream.count + 1
         /\ ~Closed(stream, s).handshake /\ ~Closed(stream, s).idle
         /\ ~Closed(stream, s).backoff
<1>1. stream \in Streams
  BY DEF TypeOK, Streams
<1>2. stream.count \in Nat
  BY <1>1 DEF Streams
<1> QED BY <1>1, <1>2 DEF Streams, Closed

\* What filling the pipeline does.
LEMMA FillEffect ==
  ASSUME TypeOK,
         NEW STATE q, q \in Seq(Batches), Ascending(q),
         NEW STATE p, p \in Seq(Batches), Len(p) <= Len(q), Len(p) <= kMaxPendingWrites,
         \A n \in 1..Len(p) : p[n] = q[n],
         NEW STATE st, st \in Streams, NEW STATE reqs,
         st.idle => st.state = "Open" /\ st.handshake /\ p = <<>>,
         FillWritePipeline(p, q, st, reqs)
  PROVE  /\ pipeline' = First(q)
         /\ \/ st.state = "Open" /\ st.handshake /\ requests' = reqs \o NextBatches(p, q)
            \/ NextBatches(p, q) = <<>> /\ requests' = reqs
            \/ ~(st.state = "Open" /\ st.handshake) /\ requests' = reqs
         /\ stream' \in Streams
         /\ stream'.count = st.count /\ stream'.handshake = st.handshake
         /\ stream'.idle => st.state = "Open" /\ First(q) = <<>>
         /\ \/ /\ Started(st) \/ First(q) = <<>>
               /\ stream'.state = st.state /\ stream'.backoff = st.backoff
               /\ asked' = asked
            \/ /\ First(q) # <<>> /\ st.state = "Error" /\ stream'.state = "Backoff"
               /\ stream'.backoff = TRUE /\ asked' = asked
            \/ /\ First(q) # <<>> /\ st.state = "Initial" /\ stream'.state = "Starting"
               /\ stream'.backoff = st.backoff
               /\ asked' = asked \cup {GetToken(st.count)}
<1> DEFINE new == NextBatches(p, q)
           sends == st.state = "Open" /\ st.handshake /\ new # <<>>
           idle == ~sends /\ (st.idle \/ (st.state = "Open" /\ p \o new = <<>>))
<1>1. p \o new = First(q) /\ new \in Seq(Batches)
  BY Filled
<1>2. /\ pipeline' = p \o new
      /\ requests' = IF sends THEN reqs \o new ELSE reqs
      /\ IF p \o new # <<>> /\ ~Started(st)
         THEN Start(st)
         ELSE stream' = [st EXCEPT !.idle = idle] /\ UNCHANGED asked
  BY Zenon DEF FillWritePipeline
<1>3. p = <<>> => First(q) = new
  BY <1>1, ConcatEmptySeq
<1>4. idle \in BOOLEAN /\ (idle => st.state = "Open" /\ First(q) = <<>>)
  BY <1>1, <1>3
<1> HIDE DEF new
<1>5. CASE p \o new # <<>> /\ ~Started(st)
  <2>1. Start(st) /\ First(q) # <<>>
    BY <1>1, <1>2, <1>5
  <2>2. st.state \in {"Initial", "Error"} /\ ~st.idle
    BY <1>5 DEF Started, Streams
  <2> QED BY <1>1, <1>2, <2>1, <2>2, StartEffect
<1>6. CASE ~(p \o new # <<>> /\ ~Started(st))
  <2>1. stream' = [st EXCEPT !.idle = idle] /\ asked' = asked
    BY <1>2, <1>6
  <2>2. Started(st) \/ First(q) = <<>>
    BY <1>1, <1>6
  <2> HIDE DEF idle
  <2>3. /\ stream' \in Streams /\ stream'.count = st.count
        /\ stream'.handshake = st.handshake /\ stream'.idle = idle
        /\ stream'.state = st.state /\ stream'.backoff = st.backoff
    BY <1>4, <2>1 DEF Streams
  <2> QED BY <1>1, <1>2, <1>4, <2>1, <2>2, <2>3 DEF new
<1> QED BY <1>5, <1>6

Less == {r \in Nat \X Nat : r[1] < r[2]}

\* Every set of numbers has a smallest.
LEMMA LessWellFounded == IsWellFoundedOn(Less, Nat)
BY NatLessThanWellFounded, Zenon DEF OpToRel, Less

\* The next batch id is after those of all rows.
LEMMA NextIdIsNew ==
  ASSUME TypeOK, RowsInv
  PROVE  /\ LoadNextBatchId \in Nat \ {0}
         /\ \A c \in Clients : \A n \in 1..Len(queue[c]) : queue[c][n].id < LoadNextBatchId
<1> DEFINE ids == {0} \cup UNION {Ids(queue[c]) : c \in Clients}
           bounds == {m \in Nat : \A i \in ids : i <= m}
<1>1. \A c \in Clients : \A n \in 1..Len(queue[c]) :
        queue[c][n].id \in Nat \ {0} /\ queue[c][n].id < nextId
  <2> SUFFICES ASSUME NEW c \in Clients, NEW n \in 1..Len(queue[c])
               PROVE  queue[c][n].id \in Nat \ {0} /\ queue[c][n].id < nextId
    OBVIOUS
  <2>1. queue[c] \in Seq(Batches)
    BY DEF TypeOK
  <2>2. queue[c][n] \in Batches
    BY <2>1, ElementOfSeq
  <2> QED BY <2>2 DEF Batches, RowsInv, RowsOf
<1>2. \A i \in ids : i \in Nat /\ (i = 0 \/ i < nextId)
  BY <1>1 DEF Ids
<1>3. nextId \in bounds
  <2>1. nextId \in Nat
    BY DEF TypeOK
  <2>2. \A i \in ids : i <= nextId
    BY <1>2, <2>1
  <2> QED BY <2>1, <2>2
<1>4. PICK m \in bounds : \A k \in bounds : ~(<<k, m>> \in Less)
  <2>1. bounds \subseteq Nat /\ bounds # {}
    BY <1>3
  <2> HIDE DEF bounds
  <2> QED BY <2>1, LessWellFounded, WFMin
<1>5. \A k \in bounds : m <= k
  <2> SUFFICES ASSUME NEW k \in bounds, k < m PROVE FALSE
    OBVIOUS
  <2>1. k \in Nat /\ m \in Nat /\ ~(<<k, m>> \in Less)
    BY <1>4
  <2> HIDE DEF bounds
  <2> QED BY <2>1 DEF Less
<1>6. m \in ids
  <2> SUFFICES ASSUME m \notin ids PROVE FALSE
    OBVIOUS
  <2>1. m \in Nat /\ m # 0 /\ \A i \in ids : i \in Nat /\ i <= m /\ i # m
    BY <1>2
  <2>2. m - 1 \in bounds
    BY <2>1
  <2> QED BY <1>5, <2>1, <2>2
<1>7. m \in Nat /\ \A j \in ids : j <= m
  OBVIOUS
<1> HIDE DEF ids, bounds
<1>8. \A i \in ids : (\A j \in ids : j <= i) => i = m
  BY <1>2, <1>6, <1>7
<1>9. (CHOOSE i \in ids : \A j \in ids : j <= i) = m
  <2> DEFINE Largest(i) == \A j \in ids : j <= i
  <2>1. Largest(m) /\ \A i \in ids : Largest(i) => i = m
    BY <1>7, <1>8
  <2> HIDE DEF Largest
  <2>2. (CHOOSE i \in ids : Largest(i)) = m
    BY <1>6, <2>1
  <2> QED BY <2>2, Zenon DEF Largest
<1>10. LoadNextBatchId = 1 + m
  <2>1. LoadNextBatchId = 1 + CHOOSE i \in ids : \A j \in ids : j <= i
    BY Zenon DEF LoadNextBatchId, ids
  <2> QED BY <1>9, <2>1
<1>11. ASSUME NEW c \in Clients, NEW n \in 1..Len(queue[c]) PROVE queue[c][n].id <= m
  <2>1. queue[c][n].id \in ids
    BY DEF ids, Ids
  <2> QED BY <1>7, <2>1
<1> QED BY <1>1, <1>7, <1>10, <1>11

-------------------------------------------------------------------------------
(* What is on its way from Auth to the stream.                             *)

\* Blocks by their kinds.
LEMMA Blocks ==
  ASSUME TypeOK
  PROVE  /\ Len(main) \in Nat /\ Len(worker) \in Nat
         /\ \A n \in 1..Len(main) :
              /\ main[n] \in MainBlocks
              /\ Notify_(n) => main[n].uid \in Clients /\ ~Token(n)
              /\ Token(n) => /\ main[n].token \in Tokens
                             /\ main[n].count \in Nat /\ main[n].counter \in Nat
              /\ Notify_(n) \/ Token(n)
         /\ \A n \in 1..Len(worker) :
              /\ worker[n] \in WorkerBlocks
              /\ Credential(n) => worker[n].uid \in Clients /\ ~Resume(n)
              /\ Resume(n) => worker[n].token \in Tokens /\ worker[n].count \in Nat
              /\ Credential(n) \/ Resume(n)
<1>1. main \in Seq(MainBlocks) /\ worker \in Seq(WorkerBlocks)
  BY DEF TypeOK
<1>2. /\ Len(main) \in Nat /\ \A n \in 1..Len(main) : main[n] \in MainBlocks
      /\ Len(worker) \in Nat /\ \A n \in 1..Len(worker) : worker[n] \in WorkerBlocks
  BY <1>1, LenProperties, ElementOfSeq
<1>3. \A b \in MainBlocks :
        /\ b.kind = "notify" => b.uid \in Clients
        /\ b.kind = "token" => b.token \in Tokens /\ b.count \in Nat /\ b.counter \in Nat
        /\ b.kind \in {"notify", "token"}
  BY DEF MainBlocks
<1>4. \A b \in WorkerBlocks :
        /\ b.kind = "credential" => b.uid \in Clients
        /\ b.kind = "resume" => b.token \in Tokens /\ b.count \in Nat
        /\ b.kind \in {"credential", "resume"}
  BY DEF WorkerBlocks
<1> QED BY <1>2, <1>3, <1>4 DEF Notify_, Token, Credential, Resume

\* Accounts neither change nor does the client hear of one.
LEMMA LastChangeStays ==
  ASSUME LastChange, UNCHANGED <<main, worker, authUser, user, running>>
  PROVE  LastChange'
BY DEF LastChange, Notify_, Credential

\* The worker queue runs a block.
LEMMA LastChangeTaken ==
  ASSUME TypeOK, LastChange, UNCHANGED <<main, authUser, running>>,
         worker # <<>>, worker' = Tail(worker),
         user' = IF worker[1].kind = "credential" THEN worker[1].uid ELSE user
  PROVE  LastChange'
<1>1. /\ Len(worker) \in Nat \ {0} /\ Len(worker') = Len(worker) - 1
      /\ \A n \in 1..Len(worker') : worker'[n] = worker[n + 1]
  <2>1. worker \in Seq(WorkerBlocks)
    BY DEF TypeOK
  <2> QED BY <2>1, HeadTailProperties, LenProperties, EmptySeq
<1>2. \A n \in 1..Len(worker') : Credential(n)' <=> Credential(n + 1)
  BY <1>1 DEF Credential
<1>3. \A n \in 1..Len(main) : Notify_(n)' <=> Notify_(n)
  BY DEF Notify_
<1>4. ASSUME \A m \in 1..Len(main) : ~Notify_(m),
             NEW n \in 1..Len(worker'), Credential(n)',
             \A m \in (n + 1)..Len(worker') : ~Credential(m)'
      PROVE  worker'[n].uid = authUser
  <2>1. n + 1 \in 1..Len(worker) /\ Credential(n + 1) /\ worker'[n] = worker[n + 1]
    BY <1>1, <1>2, <1>4
  <2>2. ASSUME NEW m \in ((n + 1) + 1)..Len(worker) PROVE ~Credential(m)
    <3>1. m - 1 \in (n + 1)..Len(worker') /\ m - 1 \in 1..Len(worker') /\ (m - 1) + 1 = m
      BY <1>1
    <3> QED BY <1>2, <1>4, <3>1
  <2> QED BY <1>4, <2>1, <2>2 DEF LastChange
<1>5. ASSUME \A m \in 1..Len(main) : ~Notify_(m), running,
             \A m \in 1..Len(worker') : ~Credential(m)'
      PROVE  user' = authUser
  <2>1. ASSUME NEW m \in (1 + 1)..Len(worker) PROVE ~Credential(m)
    <3>1. m - 1 \in 1..Len(worker') /\ (m - 1) + 1 = m
      BY <1>1
    <3> QED BY <1>2, <1>5, <3>1
  <2>2. CASE worker[1].kind = "credential"
    <3>1. 1 \in 1..Len(worker) /\ Credential(1)
      BY <1>1, <2>2 DEF Credential
    <3> QED BY <1>5, <2>1, <2>2, <3>1 DEF LastChange
  <2>3. CASE worker[1].kind # "credential"
    <3>1. \A m \in 1..Len(worker) : ~Credential(m)
      BY <1>1, <2>1, <2>3 DEF Credential
    <3> QED BY <1>5, <2>3, <3>1 DEF LastChange
  <2> QED BY <2>2, <2>3
<1>6. \A n \in 1..Len(main') :
        Notify_(n)' /\ (\A m \in (n + 1)..Len(main') : ~Notify_(m)') => main'[n].uid = authUser'
  BY <1>3 DEF LastChange, Notify_
<1>7. (\A m \in 1..Len(main') : ~Notify_(m)') => \A m \in 1..Len(main) : ~Notify_(m)
  BY <1>3
<1> QED BY <1>4, <1>5, <1>6, <1>7 DEF LastChange

\* Nothing on its way is for the stream, except a token asked for now.
LEMMA NothingLive ==
  ASSUME TypeOK, Counts, RightUser, UNCHANGED <<main, counter, authUser>>,
         stream'.count \in Nat, stream.count <= stream'.count,
         \A n \in 1..Len(worker') : \E m \in 1..Len(worker) : worker'[n] = worker[m],
         \A r \in asked : r.count # stream'.count,
         \A n \in 1..Len(main) : Token(n) => main[n].count # stream'.count,
         \A n \in 1..Len(worker') : Resume(n)' => worker'[n].count # stream'.count,
         \/ asked' = asked
         \/ stream'.state = "Starting" /\ asked' = asked \cup {GetToken(stream'.count)}
  PROVE  Counts' /\ OneLive' /\ RightUser'
<1>1. \A n \in 1..Len(main) : /\ Notify_(n)' <=> Notify_(n)
                              /\ Token(n)' <=> Token(n)
                              /\ ~LiveMain(n)'
  BY DEF Notify_, Token, LiveMain
<1>2. \A n \in 1..Len(worker') : ~LiveWorker(n)'
  BY DEF LiveWorker
<1>3. stream.count \in Nat /\ counter \in Nat
      /\ \A r \in asked : r.count \in Nat /\ r.counter \in Nat
  BY DEF TypeOK
<1> DEFINE r0 == GetToken(stream'.count)
<1>4. r0.count = stream'.count /\ r0.counter = counter /\ r0.as = {authUser}
  BY DEF GetToken
<1>5. asked' = asked \/ (stream'.state = "Starting" /\ asked' = asked \cup {r0})
  OBVIOUS
<1> HIDE DEF r0
<1>6. Counts'
  <2>1. \A r \in asked' : r.count <= stream'.count /\ r.counter <= counter'
    BY <1>3, <1>4, <1>5 DEF Counts
  <2>2. \A n \in 1..Len(main') :
          Token(n)' => main'[n].count <= stream'.count /\ main'[n].counter <= counter'
    BY <1>1, <1>3, Blocks DEF Counts
  <2>3. ASSUME NEW n \in 1..Len(worker'), Resume(n)' PROVE worker'[n].count <= stream'.count
    <3>1. PICK m \in 1..Len(worker) : worker'[n] = worker[m]
      OBVIOUS
    <3>2. Resume(m)
      BY <2>3, <3>1 DEF Resume
    <3>3. worker[m].count \in Nat /\ worker[m].count <= stream.count
      BY <3>2, Blocks DEF Counts
    <3> QED BY <1>3, <3>1, <3>3
  <2> QED BY <2>1, <2>2, <2>3 DEF Counts
<1>7. \A r \in asked' : LiveAsked(r)' => r = r0 /\ stream'.state = "Starting"
  BY <1>5 DEF LiveAsked
<1>8. OneLive'
  BY <1>1, <1>2, <1>7 DEF OneLive
<1>9. RightUser'
  <2>1. ASSUME NEW r \in asked', r.counter = counter', \A m \in 1..Len(main') : ~Notify_(m)'
        PROVE  r.as = {authUser'}
    <3>1. CASE r \in asked
      BY <1>1, <2>1, <3>1 DEF RightUser
    <3>2. CASE r = r0
      BY <1>4, <3>2
    <3> QED BY <1>5, <3>1, <3>2
  <2> QED BY <1>1, <1>2, <2>1 DEF RightUser
<1> QED BY <1>6, <1>8, <1>9

\* A stream that was closed, or does not wait for a token, goes on or asks for one.
NewLine ==
  /\ stream' \in Streams
  /\ \/ stream.state # "Starting" /\ stream'.count = stream.count
     \/ stream'.count = stream.count + 1
  /\ \/ stream'.state # "Starting" /\ asked' = asked
     \/ stream'.state = "Starting" /\ asked' = asked \cup {GetToken(stream'.count)}

\* A new stream that waits for its token has just asked for it.
LEMMA NewLineCalls ==
  ASSUME NewLine
  PROVE  Called'
<1>1. GetToken(stream'.count).count = stream'.count
  BY DEF GetToken
<1>2. stream'.state = "Starting" => GetToken(stream'.count) \in asked'
  BY DEF NewLine
<1>3. \A r \in asked' : r.count = stream'.count => LiveAsked(r)'
  BY DEF LiveAsked
<1> QED BY <1>1, <1>2, <1>3 DEF Called, CallIsOut

\* Nothing that is on its way is for the new stream, except what it asks for itself.
LEMMA NewLineLive ==
  ASSUME TypeOK, Counts, OneLive, RightUser, NewLine, UNCHANGED <<main, counter, authUser>>,
         \A n \in 1..Len(worker') : \E m \in 1..Len(worker) : worker'[n] = worker[m]
  PROVE  Counts' /\ OneLive' /\ RightUser'
<1>1. stream.count \in Nat /\ stream'.count \in Nat /\ stream.count <= stream'.count
  <2>1. stream \in Streams
    BY DEF TypeOK, Streams
  <2>2. /\ stream' \in Streams
        /\ stream'.count = stream.count \/ stream'.count = stream.count + 1
    BY DEF NewLine
  <2>3. stream.count \in Nat /\ stream'.count \in Nat
    BY <2>1, <2>2 DEF Streams
  <2> QED BY <2>2, <2>3
<1>2. \A r \in asked : r.count \in Nat /\ r.count # stream'.count
  <2>1. \A r \in asked : r.count \in Nat
    BY DEF TypeOK
  <2> QED BY <1>1, <2>1 DEF NewLine, Counts, OneLive, LiveAsked
<1>3. \A n \in 1..Len(main) : Token(n) => main[n].count # stream'.count
  BY <1>1, Blocks DEF NewLine, Counts, OneLive, LiveMain
<1>4. \A n \in 1..Len(worker) : Resume(n) => worker[n].count # stream'.count
  BY <1>1, Blocks DEF NewLine, Counts, OneLive, LiveWorker
<1>5. \A n \in 1..Len(worker') : Resume(n)' => worker'[n].count # stream'.count
  BY <1>4 DEF Resume
<1> QED BY <1>1, <1>2, <1>3, <1>5, NothingLive DEF NewLine

\* The stream and what is on its way to it stay as they are.
SameLine == stream'.state = stream.state /\ stream'.count = stream.count /\ asked' = asked

\* Of a stream that stays, what it waits for stays.
LEMMA SameLineLive ==
  ASSUME Counts, OneLive, RightUser, SameLine,
         UNCHANGED <<main, counter, authUser, worker, user>>
  PROVE  Counts' /\ OneLive' /\ RightUser'
<1>1. Counts'
  BY DEF Counts, SameLine, Token, Resume
<1>2. OneLive'
  BY DEF OneLive, SameLine, LiveAsked, LiveMain, LiveWorker, Token, Resume
<1>3. RightUser'
  BY DEF RightUser, SameLine, LiveMain, LiveWorker, Token, Resume, Notify_, Credential
<1> QED BY <1>1, <1>2, <1>3

\* And what it waits for is still on its way.
LEMMA SameLineCalls ==
  ASSUME Called, SameLine, UNCHANGED <<main, worker>>
  PROVE  Called'
BY DEF Called, CallIsOut, SameLine, LiveAsked, LiveMain, LiveWorker, Token, Resume

\* A handler of the stream leaves its invariant.
LEMMA LineKeepsAccounts ==
  ASSUME TypeOK, AccountsInv, SameLine \/ NewLine,
         UNCHANGED <<main, counter, authUser, worker, user, running>>
  PROVE  AccountsInv'
<1>1. LastChange'
  BY LastChangeStays DEF AccountsInv
<1>2. \A n \in 1..Len(worker') : \E m \in 1..Len(worker) : worker'[n] = worker[m]
  OBVIOUS
<1>3. Counts' /\ OneLive' /\ RightUser'
  BY <1>2, SameLineLive, NewLineLive DEF AccountsInv
<1>4. Called'
  BY SameLineCalls, NewLineCalls DEF AccountsInv
<1> QED BY <1>1, <1>3, <1>4 DEF AccountsInv

\* Taking the first block.
LEMMA TakenFromMain ==
  ASSUME TypeOK, main # <<>>, main' = Tail(main)
  PROVE  /\ Len(main) \in Nat \ {0} /\ Len(main') = Len(main) - 1
         /\ main' \in Seq(MainBlocks) /\ Head(main) = main[1]
         /\ \A n \in 1..Len(main') : /\ n + 1 \in 1..Len(main) /\ main'[n] = main[n + 1]
                                     /\ Notify_(n)' <=> Notify_(n + 1)
                                     /\ Token(n)' <=> Token(n + 1)
<1>1. main \in Seq(MainBlocks)
  BY DEF TypeOK
<1>2. /\ Len(main) \in Nat \ {0} /\ Len(main') = Len(main) - 1
      /\ main' \in Seq(MainBlocks) /\ Head(main) = main[1]
      /\ \A n \in 1..Len(main') : main'[n] = main[n + 1]
  BY <1>1, HeadTailProperties, LenProperties, EmptySeq
<1> QED BY <1>2 DEF Notify_, Token

\* The first block of the worker queue is taken.
LEMMA TakenFromWorker ==
  ASSUME TypeOK, worker # <<>>, worker' = Tail(worker)
  PROVE  /\ Len(worker) \in Nat \ {0} /\ Len(worker') = Len(worker) - 1
         /\ worker' \in Seq(WorkerBlocks) /\ Head(worker) = worker[1]
         /\ \A n \in 1..Len(worker') : /\ n + 1 \in 1..Len(worker)
                                       /\ worker'[n] = worker[n + 1]
                                       /\ Credential(n)' <=> Credential(n + 1)
                                       /\ Resume(n)' <=> Resume(n + 1)
<1>1. worker \in Seq(WorkerBlocks)
  BY DEF TypeOK
<1>2. /\ Len(worker) \in Nat \ {0} /\ Len(worker') = Len(worker) - 1
      /\ worker' \in Seq(WorkerBlocks) /\ Head(worker) = worker[1]
      /\ \A n \in 1..Len(worker') : worker'[n] = worker[n + 1]
  BY <1>1, HeadTailProperties, LenProperties, EmptySeq
<1> QED BY <1>2 DEF Credential, Resume

\* A token for a stream that was closed in the meantime.
LEMMA StaleTokenDropped ==
  ASSUME TypeOK, AccountsInv, worker # <<>>, worker' = Tail(worker),
         worker[1].kind = "resume", worker[1].count # stream.count, SameLine,
         UNCHANGED <<main, counter, authUser, user, running>>
  PROVE  AccountsInv'
<1>1. LastChange'
  BY LastChangeTaken DEF AccountsInv
<1>2. \A n \in 1..Len(worker') : LiveWorker(n)' <=> LiveWorker(n + 1)
  BY TakenFromWorker DEF LiveWorker, SameLine
<1>3. /\ main' = main /\ asked' = asked /\ counter' = counter /\ authUser' = authUser
      /\ stream'.count = stream.count
      /\ \A n \in 1..Len(main) : /\ Notify_(n)' <=> Notify_(n)
                                 /\ Token(n)' <=> Token(n)
                                 /\ LiveMain(n)' <=> LiveMain(n)
  <2>1. main' = main /\ asked' = asked /\ counter' = counter /\ authUser' = authUser
        /\ stream'.count = stream.count
    BY DEF SameLine
  <2> QED BY <2>1 DEF Notify_, Token, LiveMain
<1>4. Counts'
  <2>1. \A r \in asked' : r.count <= stream'.count /\ r.counter <= counter'
    BY <1>3 DEF Counts, AccountsInv
  <2>2. \A n \in 1..Len(main') :
          Token(n)' => main'[n].count <= stream'.count /\ main'[n].counter <= counter'
    BY <1>3 DEF Counts, AccountsInv
  <2>3. \A n \in 1..Len(worker') : Resume(n)' => worker'[n].count <= stream'.count
    BY <1>3, TakenFromWorker DEF Counts, AccountsInv
  <2> QED BY <2>1, <2>2, <2>3 DEF Counts
<1>5. OneLive'
  <2>1. \A r \in asked' : LiveAsked(r)' <=> LiveAsked(r)
    BY DEF LiveAsked, SameLine
  <2>2. ASSUME NEW n \in 1..Len(worker'), LiveWorker(n)',
               NEW m \in 1..Len(worker'), LiveWorker(m)'
        PROVE  m = n
    <3>1. n + 1 \in 1..Len(worker) /\ m + 1 \in 1..Len(worker)
          /\ LiveWorker(n + 1) /\ LiveWorker(m + 1)
      BY <1>2, <2>2, TakenFromWorker
    <3> QED BY <3>1 DEF OneLive, AccountsInv
  <2>3. \A n \in 1..Len(worker') : LiveWorker(n)' => stream'.state = "Starting"
    BY <1>2, TakenFromWorker DEF OneLive, AccountsInv, SameLine
  <2>4. ASSUME NEW r \in asked', LiveAsked(r)'
        PROVE  /\ stream'.state = "Starting"
               /\ \A s \in asked' : LiveAsked(s)' => s = r
               /\ \A n \in 1..Len(main') : ~LiveMain(n)'
               /\ \A n \in 1..Len(worker') : ~LiveWorker(n)'
    BY <1>2, <1>3, <2>1, <2>4, TakenFromWorker DEF OneLive, AccountsInv, SameLine
  <2>5. ASSUME NEW n \in 1..Len(main'), LiveMain(n)'
        PROVE  /\ stream'.state = "Starting"
               /\ \A m \in 1..Len(main') : LiveMain(m)' => m = n
               /\ \A m \in 1..Len(worker') : ~LiveWorker(m)'
    BY <1>2, <1>3, <2>5, TakenFromWorker DEF OneLive, AccountsInv, SameLine
  <2> QED BY <2>2, <2>3, <2>4, <2>5 DEF OneLive
<1>6. RightUser'
  <2>1. Len(worker) \in Nat \ {0} /\ Len(worker') = Len(worker) - 1 /\ ~Credential(1) /\ ~LiveWorker(1)
    BY TakenFromWorker DEF Credential, LiveWorker
  <2>2. ASSUME NEW n \in 1..Len(worker'), LiveWorker(n)',
               \A m \in 1..(n - 1) : ~Credential(m)'
        PROVE  worker'[n].token \in {Failed, user'}
    <3>1. LiveWorker(n + 1) /\ n + 1 \in 1..Len(worker) /\ worker'[n] = worker[n + 1]
      BY <1>2, <2>2, TakenFromWorker
    <3>2. ASSUME NEW m \in 1..((n + 1) - 1) PROVE ~Credential(m)
      <4>1. m = 1 \/ (m - 1 \in 1..(n - 1) /\ m - 1 \in 1..Len(worker') /\ (m - 1) + 1 = m)
        BY <2>1
      <4> QED BY <2>1, <2>2, <4>1, TakenFromWorker
    <3> QED BY <3>1, <3>2 DEF RightUser, AccountsInv
  <2>3. (\A m \in 1..Len(worker') : ~Credential(m)') => \A m \in 1..Len(worker) : ~Credential(m)
    <3> SUFFICES ASSUME \A m \in 1..Len(worker') : ~Credential(m)', NEW m \in 1..Len(worker)
                 PROVE  ~Credential(m)
      OBVIOUS
    <3>1. m = 1 \/ (m - 1 \in 1..Len(worker') /\ (m - 1) + 1 = m)
      BY <2>1
    <3> QED BY <2>1, <3>1, TakenFromWorker
  <2>4. ASSUME NEW n \in 1..Len(main'), LiveMain(n)', main'[n].counter = counter',
               \A m \in 1..(n - 1) : ~Notify_(m)',
               \A m \in 1..Len(worker') : ~Credential(m)'
        PROVE  main'[n].token \in {Failed, user'}
    <3>1. \A m \in 1..(n - 1) : ~Notify_(m)
      BY <2>4 DEF Notify_
    <3> QED BY <1>3, <2>3, <2>4, <3>1 DEF RightUser, AccountsInv
  <2>5. \A r \in asked' : r.counter = counter' /\ (\A m \in 1..Len(main') : ~Notify_(m)') =>
                            r.as = {authUser'}
    BY <1>3 DEF RightUser, AccountsInv, SameLine
  <2> QED BY <2>2, <2>4, <2>5 DEF RightUser
<1>7. Called'
  <2>1. \A r \in asked : LiveAsked(r)' <=> LiveAsked(r)
    BY <1>3 DEF LiveAsked
  <2>2. ASSUME NEW n \in 1..Len(worker), LiveWorker(n)
        PROVE  \E m \in 1..Len(worker') : LiveWorker(m)'
    <3>1. /\ Len(worker) \in Nat \ {0} /\ Len(worker') = Len(worker) - 1
          /\ Head(worker) = worker[1] /\ ~LiveWorker(1)
      BY TakenFromWorker DEF LiveWorker
    <3>2. n - 1 \in 1..Len(worker') /\ (n - 1) + 1 = n
      BY <2>2, <3>1
    <3> QED BY <1>2, <2>2, <3>2
  <2> QED BY <1>3, <2>1, <2>2 DEF AccountsInv, Called, CallIsOut, SameLine
<1> QED BY <1>1, <1>4, <1>5, <1>6, <1>7 DEF AccountsInv

\* The token the stream waits for.
LEMMA LiveTokenTaken ==
  ASSUME TypeOK, AccountsInv, worker # <<>>, worker' = Tail(worker),
         worker[1].kind = "resume", worker[1].count = stream.count,
         UNCHANGED <<main, counter, authUser, user, running>>,
         \/ stream'.state # "Starting" /\ stream'.count = stream.count /\ asked' = asked
         \/ NewLine
  PROVE  /\ stream.state = "Starting" /\ worker[1].token \in {Failed, user}
         /\ AccountsInv'
<1>1. Len(worker) \in Nat \ {0} /\ Len(worker') = Len(worker) - 1
      /\ \A n \in 1..Len(worker') : worker'[n] = worker[n + 1] /\ n + 1 \in 1..Len(worker)
                                    /\ (Resume(n)' <=> Resume(n + 1))
  BY TakenFromWorker
<1>2. 1 \in 1..Len(worker) /\ LiveWorker(1)
  BY <1>1 DEF LiveWorker, Resume
<1>3. stream.state = "Starting" /\ worker[1].token \in {Failed, user}
  <2>1. \A m \in 1..(1 - 1) : ~Credential(m)
    OBVIOUS
  <2> QED BY <1>2, <2>1 DEF AccountsInv, OneLive, RightUser
<1>4. LastChange'
  BY LastChangeTaken DEF AccountsInv
<1>5. \A n \in 1..Len(worker') : \E m \in 1..Len(worker) : worker'[n] = worker[m]
  BY <1>1
<1>6. CASE stream'.state # "Starting" /\ stream'.count = stream.count /\ asked' = asked
  <2>0. Called'
    BY <1>6 DEF Called
  <2>1. stream.count \in Nat
    BY DEF TypeOK
  <2>2. \A r \in asked : r.count # stream'.count
    BY <1>2, <1>6 DEF AccountsInv, OneLive, LiveAsked
  <2>3. \A n \in 1..Len(main) : Token(n) => main[n].count # stream'.count
    BY <1>2, <1>6 DEF AccountsInv, OneLive, LiveMain
  <2>4. ASSUME NEW n \in 1..Len(worker'), Resume(n)' PROVE worker'[n].count # stream'.count
    <3>1. n + 1 # 1 /\ Resume(n + 1) /\ n + 1 \in 1..Len(worker) /\ worker'[n] = worker[n + 1]
      BY <1>1, <2>4
    <3> QED BY <1>2, <1>6, <3>1 DEF AccountsInv, OneLive, LiveWorker
  <2> QED BY <1>3, <1>4, <1>5, <1>6, <2>0, <2>1, <2>2, <2>3, <2>4, NothingLive DEF AccountsInv
<1>7. CASE NewLine
  BY <1>3, <1>4, <1>5, <1>7, NewLineLive, NewLineCalls DEF AccountsInv
<1> QED BY <1>3, <1>6, <1>7

\* The client is told of an account.
LEMMA CredentialTaken ==
  ASSUME TypeOK, AccountsInv, worker # <<>>, worker' = Tail(worker),
         worker[1].kind = "credential", user' = worker[1].uid, NewLine,
         UNCHANGED <<main, counter, authUser, running>>
  PROVE  AccountsInv'
<1>1. LastChange'
  BY LastChangeTaken DEF AccountsInv
<1>2. \A n \in 1..Len(worker') : \E m \in 1..Len(worker) : worker'[n] = worker[m]
  BY TakenFromWorker
<1> QED BY <1>1, <1>2, NewLineLive, NewLineCalls DEF AccountsInv

\* A block is put behind the others.
LEMMA PutOnMain ==
  ASSUME TypeOK, NEW b \in MainBlocks, main' = Append(main, b)
  PROVE  /\ Len(main) \in Nat /\ Len(main') = Len(main) + 1
         /\ main' \in Seq(MainBlocks) /\ main'[Len(main) + 1] = b
         /\ \A n \in 1..Len(main) : /\ main'[n] = main[n] /\ n \in 1..Len(main')
                                    /\ Notify_(n)' <=> Notify_(n)
                                    /\ Token(n)' <=> Token(n)
<1>1. main \in Seq(MainBlocks)
  BY DEF TypeOK
<1>2. /\ Len(main) \in Nat /\ Len(main') = Len(main) + 1
      /\ main' \in Seq(MainBlocks) /\ main'[Len(main) + 1] = b
      /\ \A n \in 1..Len(main) : main'[n] = main[n]
  BY <1>1, AppendProperties, LenProperties
<1> QED BY <1>2 DEF Notify_, Token

\* A block is put behind those of the worker queue.
LEMMA PutOnWorker ==
  ASSUME TypeOK, NEW b \in WorkerBlocks, worker' = Append(worker, b)
  PROVE  /\ Len(worker) \in Nat /\ Len(worker') = Len(worker) + 1
         /\ worker' \in Seq(WorkerBlocks) /\ worker'[Len(worker) + 1] = b
         /\ \A n \in 1..Len(worker) : /\ worker'[n] = worker[n] /\ n \in 1..Len(worker')
                                      /\ Credential(n)' <=> Credential(n)
                                      /\ Resume(n)' <=> Resume(n)
<1>1. worker \in Seq(WorkerBlocks)
  BY DEF TypeOK
<1>2. /\ Len(worker) \in Nat /\ Len(worker') = Len(worker) + 1
      /\ worker' \in Seq(WorkerBlocks) /\ worker'[Len(worker) + 1] = b
      /\ \A n \in 1..Len(worker) : worker'[n] = worker[n]
  BY <1>1, AppendProperties, LenProperties
<1> QED BY <1>2 DEF Credential, Resume

\* Auth's user changes.
LEMMA AuthChangesAccounts ==
  ASSUME TypeOK, AccountsInv, NEW u \in Clients, AuthChanges(u)
  PROVE  /\ AccountsInv' /\ main' \in Seq(MainBlocks)
         /\ asked' \in SUBSET [count : Nat, counter : Nat, as : SUBSET Clients]
<1> DEFINE b == [kind |-> "notify", uid |-> u]
           With(r) == [r EXCEPT !.as = @ \cup {u}]
<1>1. /\ main' = Append(main, b) /\ authUser' = u
      /\ asked' = {With(r) : r \in asked}
      /\ UNCHANGED <<running, counter, worker, user, stream>>
  BY DEF AuthChanges, localVars
<1>2. b \in MainBlocks
  BY DEF MainBlocks
<1>3. \A r \in asked : /\ With(r) \in [count : Nat, counter : Nat, as : SUBSET Clients]
                       /\ With(r).count = r.count /\ With(r).counter = r.counter
  <2>1. \A r \in asked : r \in [count : Nat, counter : Nat, as : SUBSET Clients]
    BY DEF TypeOK
  <2> QED BY <2>1
<1> HIDE DEF b, With
<1>0. PICK last \in Nat : last = Len(main)
  BY Blocks
<1>4. /\ Len(main') = last + 1
      /\ main' \in Seq(MainBlocks) /\ main'[last + 1] = b
      /\ \A n \in 1..last : /\ main'[n] = main[n] /\ n \in 1..Len(main')
                            /\ Notify_(n)' <=> Notify_(n)
                            /\ Token(n)' <=> Token(n)
  BY <1>0, <1>1, <1>2, PutOnMain
<1>5. Notify_(last + 1)' /\ ~Token(last + 1)' /\ b.uid = u
      /\ last + 1 \in 1..Len(main')
  BY <1>4 DEF Notify_, Token, b
<1>6. \A n \in 1..Len(main') : n = last + 1 \/ (n \in 1..last /\ last + 1 \in (n + 1)..Len(main'))
  BY <1>4
<1>7. LastChange'
  <2>1. \A n \in 1..Len(main') :
          Notify_(n)' /\ (\A m \in (n + 1)..Len(main') : ~Notify_(m)') => main'[n].uid = authUser'
    BY <1>1, <1>4, <1>5, <1>6
  <2>2. ~ \A m \in 1..Len(main') : ~Notify_(m)'
    BY <1>5
  <2> QED BY <2>1, <2>2 DEF LastChange
<1>8. Counts'
  <2>1. \A r \in asked' : r.count <= stream'.count /\ r.counter <= counter'
    BY <1>1, <1>3 DEF AccountsInv, Counts
  <2>2. \A n \in 1..Len(main') :
          Token(n)' => main'[n].count <= stream'.count /\ main'[n].counter <= counter'
    BY <1>1, <1>4, <1>5, <1>6 DEF AccountsInv, Counts
  <2>3. \A n \in 1..Len(worker') : Resume(n)' => worker'[n].count <= stream'.count
    BY <1>1 DEF AccountsInv, Counts, Resume
  <2> QED BY <2>1, <2>2, <2>3 DEF Counts
<1>9. /\ \A n \in 1..Len(main') : LiveMain(n)' => n \in 1..last /\ LiveMain(n)
      /\ \A n \in 1..Len(worker') : LiveWorker(n)' <=> LiveWorker(n)
  BY <1>1, <1>4, <1>5, <1>6 DEF LiveMain, LiveWorker, Resume
<1>10. \A r \in asked : LiveAsked(With(r))' => LiveAsked(r)
  BY <1>1, <1>3 DEF LiveAsked
<1>11. OneLive'
  <2>1. ASSUME NEW r \in asked', LiveAsked(r)'
        PROVE  /\ stream'.state = "Starting"
               /\ \A s \in asked' : LiveAsked(s)' => s = r
               /\ \A n \in 1..Len(main') : ~LiveMain(n)'
               /\ \A n \in 1..Len(worker') : ~LiveWorker(n)'
    <3>1. PICK r1 \in asked : r = With(r1)
      BY <1>1
    <3>2. LiveAsked(r1)
      BY <1>10, <2>1, <3>1
    <3>3. ASSUME NEW s \in asked', LiveAsked(s)' PROVE s = r
      <4>1. PICK s1 \in asked : s = With(s1)
        BY <1>1
      <4>2. LiveAsked(s1)
        BY <1>10, <3>3, <4>1
      <4> QED BY <3>1, <3>2, <4>1, <4>2 DEF AccountsInv, OneLive
    <3> QED BY <1>0, <1>1, <1>9, <3>2, <3>3 DEF AccountsInv, OneLive
  <2>2. \A n \in 1..Len(main') : LiveMain(n)' =>
          /\ stream'.state = "Starting"
          /\ \A m \in 1..Len(main') : LiveMain(m)' => m = n
          /\ \A m \in 1..Len(worker') : ~LiveWorker(m)'
    BY <1>0, <1>1, <1>9 DEF AccountsInv, OneLive
  <2>3. \A n \in 1..Len(worker') : LiveWorker(n)' =>
          /\ stream'.state = "Starting"
          /\ \A m \in 1..Len(worker') : LiveWorker(m)' => m = n
    BY <1>1, <1>9 DEF AccountsInv, OneLive
  <2> QED BY <2>1, <2>2, <2>3 DEF OneLive
<1>12. RightUser'
  <2>1. \A n \in 1..Len(worker') : Credential(n)' <=> Credential(n)
    BY <1>1 DEF Credential
  <2>2. ASSUME NEW n \in 1..Len(main'), LiveMain(n)', main'[n].counter = counter',
               \A m \in 1..(n - 1) : ~Notify_(m)',
               \A m \in 1..Len(worker') : ~Credential(m)'
        PROVE  main'[n].token \in {Failed, user'}
    <3>1. n \in 1..last /\ LiveMain(n) /\ main'[n] = main[n]
      BY <1>4, <1>9, <2>2
    <3>2. \A m \in 1..(n - 1) : m \in 1..last /\ ~Notify_(m)
      BY <1>4, <2>2, <3>1
    <3> QED BY <1>0, <1>1, <2>1, <2>2, <3>1, <3>2 DEF AccountsInv, RightUser
  <2>3. ASSUME NEW n \in 1..Len(worker'), LiveWorker(n)', \A m \in 1..(n - 1) : ~Credential(m)'
        PROVE  worker'[n].token \in {Failed, user'}
    <3>1. \A m \in 1..(n - 1) : ~Credential(m)
      BY <1>1, <2>3 DEF Credential
    <3> QED BY <1>1, <1>9, <2>3, <3>1 DEF AccountsInv, RightUser
  <2> QED BY <1>5, <2>2, <2>3 DEF RightUser
<1>13. asked' \in SUBSET [count : Nat, counter : Nat, as : SUBSET Clients]
  BY <1>1, <1>3
<1>14. Called'
  <2>1. \A r \in asked : LiveAsked(r) => With(r) \in asked' /\ LiveAsked(With(r))'
    BY <1>1, <1>3 DEF LiveAsked
  <2>2. \A n \in 1..last : LiveMain(n) => n \in 1..Len(main') /\ LiveMain(n)'
    BY <1>1, <1>4 DEF LiveMain
  <2>3. worker' = worker /\ stream' = stream
    BY <1>1
  <2> QED BY <1>0, <1>9, <2>1, <2>2, <2>3 DEF AccountsInv, Called, CallIsOut
<1> QED BY <1>4, <1>7, <1>8, <1>11, <1>12, <1>13, <1>14 DEF AccountsInv

\* Auth answers a call of getToken.
LEMMA AuthAnswersAccounts ==
  ASSUME TypeOK, AccountsInv, Stopped, NEW r \in asked, AuthAnswers(r)
  PROVE  AccountsInv' /\ main' \in Seq(MainBlocks)
<1>1. PICK token \in r.as \cup {Failed} :
        main' = Append(main, [kind |-> "token", token |-> token,
                              count |-> r.count, counter |-> r.counter])
  BY DEF AuthAnswers
<1> DEFINE b == [kind |-> "token", token |-> token, count |-> r.count, counter |-> r.counter]
<1>2. asked' = asked \ {r} /\ UNCHANGED <<running, authUser, counter, worker, user, stream>>
  BY DEF AuthAnswers, localVars
<1>3. /\ r.count \in Nat /\ r.counter \in Nat /\ token \in Tokens
      /\ r.count <= stream.count /\ r.counter <= counter
  BY DEF TypeOK, Tokens, AccountsInv, Counts
<1>4. b \in MainBlocks
  BY <1>3 DEF MainBlocks
<1>5. b.kind = "token" /\ b.token = token /\ b.count = r.count /\ b.counter = r.counter
  OBVIOUS
<1>6. running
  BY DEF Stopped
<1>7. main' = Append(main, b)
  BY <1>1
<1> HIDE DEF b
<1>0. PICK last \in Nat : last = Len(main)
  BY Blocks
<1>8. /\ Len(main') = last + 1
      /\ main' \in Seq(MainBlocks) /\ main'[last + 1] = b
      /\ \A n \in 1..last : /\ main'[n] = main[n] /\ n \in 1..Len(main')
                            /\ Notify_(n)' <=> Notify_(n)
                            /\ Token(n)' <=> Token(n)
  BY <1>0, <1>4, <1>7, PutOnMain
<1>9. Token(last + 1)' /\ ~Notify_(last + 1)' /\ last + 1 \in 1..Len(main')
  BY <1>5, <1>8 DEF Notify_, Token
<1>10. \A n \in 1..Len(main') : n = last + 1 \/ n \in 1..last
  BY <1>8
<1>11. (\A m \in 1..Len(main') : ~Notify_(m)') <=> \A m \in 1..last : ~Notify_(m)
  BY <1>8, <1>9, <1>10
<1>12. \A n \in 1..Len(worker) : /\ Credential(n)' <=> Credential(n)
                                 /\ Resume(n)' <=> Resume(n)
                                 /\ LiveWorker(n)' <=> LiveWorker(n)
  BY <1>2 DEF Credential, Resume, LiveWorker
<1>13. LastChange'
  <2>1. ASSUME NEW n \in 1..Len(main'), Notify_(n)', \A m \in (n + 1)..Len(main') : ~Notify_(m)'
        PROVE  main'[n].uid = authUser'
    <3>1. n \in 1..last /\ Notify_(n) /\ main'[n] = main[n]
      BY <1>8, <1>9, <1>10, <2>1
    <3>2. \A m \in (n + 1)..last : ~Notify_(m)
      BY <1>8, <2>1, <3>1
    <3> QED BY <1>0, <1>2, <3>1, <3>2 DEF AccountsInv, LastChange
  <2>2. (\A m \in 1..Len(main') : ~Notify_(m)') =>
          /\ \A n \in 1..Len(worker') :
               Credential(n)' /\ (\A m \in (n + 1)..Len(worker') : ~Credential(m)') =>
                 worker'[n].uid = authUser'
          /\ running' /\ (\A m \in 1..Len(worker') : ~Credential(m)') => user' = authUser'
    BY <1>0, <1>2, <1>11 DEF AccountsInv, LastChange, Credential
  <2> QED BY <2>1, <2>2 DEF LastChange
<1>14. Counts'
  <2>1. \A n \in 1..Len(main') :
          Token(n)' => main'[n].count <= stream'.count /\ main'[n].counter <= counter'
    BY <1>0, <1>2, <1>3, <1>5, <1>8, <1>10 DEF AccountsInv, Counts
  <2> QED BY <1>2, <1>12, <2>1 DEF AccountsInv, Counts
<1>15. /\ \A n \in 1..last : LiveMain(n)' <=> LiveMain(n)
       /\ LiveMain(last + 1)' <=> LiveAsked(r)
  BY <1>2, <1>5, <1>8, <1>9 DEF LiveMain, LiveAsked
<1>16. OneLive'
  <2>1. \A s \in asked' : s \in asked /\ s # r /\ (LiveAsked(s)' <=> LiveAsked(s))
    BY <1>2 DEF LiveAsked
  <2>2. ASSUME NEW s \in asked', LiveAsked(s)'
        PROVE  /\ stream'.state = "Starting"
               /\ \A t \in asked' : LiveAsked(t)' => t = s
               /\ \A n \in 1..Len(main') : ~LiveMain(n)'
               /\ \A n \in 1..Len(worker') : ~LiveWorker(n)'
    BY <1>0, <1>2, <1>10, <1>12, <1>15, <2>1, <2>2 DEF AccountsInv, OneLive
  <2>3. ASSUME NEW n \in 1..Len(main'), LiveMain(n)'
        PROVE  /\ stream'.state = "Starting"
               /\ \A m \in 1..Len(main') : LiveMain(m)' => m = n
               /\ \A m \in 1..Len(worker') : ~LiveWorker(m)'
    <3>1. CASE n = last + 1
      BY <1>0, <1>2, <1>10, <1>12, <1>15, <2>3, <3>1 DEF AccountsInv, OneLive
    <3>2. CASE n \in 1..last
      BY <1>0, <1>2, <1>10, <1>12, <1>15, <2>3, <3>2 DEF AccountsInv, OneLive
    <3> QED BY <1>10, <3>1, <3>2
  <2>4. \A n \in 1..Len(worker') : LiveWorker(n)' =>
          /\ stream'.state = "Starting"
          /\ \A m \in 1..Len(worker') : LiveWorker(m)' => m = n
    BY <1>2, <1>12 DEF AccountsInv, OneLive
  <2> QED BY <2>2, <2>3, <2>4 DEF OneLive
<1>17. RightUser'
  <2>1. \A s \in asked' : s.counter = counter' /\ (\A m \in 1..Len(main') : ~Notify_(m)') =>
                            s.as = {authUser'}
    BY <1>0, <1>2, <1>11 DEF AccountsInv, RightUser
  <2>2. ASSUME NEW n \in 1..Len(main'), LiveMain(n)', main'[n].counter = counter',
               \A m \in 1..(n - 1) : ~Notify_(m)',
               \A m \in 1..Len(worker') : ~Credential(m)'
        PROVE  main'[n].token \in {Failed, user'}
    <3>1. \A m \in 1..Len(worker) : ~Credential(m)
      BY <1>2, <1>12, <2>2
    <3>2. CASE n = last + 1
      <4>1. \A m \in 1..last : ~Notify_(m)
        BY <1>8, <2>2, <3>2
      <4>2. r.as = {authUser} /\ user = authUser
        BY <1>0, <1>2, <1>5, <1>6, <1>8, <2>2, <3>1, <3>2, <4>1 DEF AccountsInv, RightUser, LastChange
      <4> QED BY <1>2, <1>5, <1>8, <3>2, <4>2
    <3>3. CASE n \in 1..last
      <4>1. \A m \in 1..(n - 1) : ~Notify_(m)
        BY <1>8, <2>2, <3>3
      <4> QED BY <1>0, <1>2, <1>8, <1>15, <2>2, <3>1, <3>3, <4>1 DEF AccountsInv, RightUser
    <3> QED BY <1>10, <3>2, <3>3
  <2>3. ASSUME NEW n \in 1..Len(worker'), LiveWorker(n)', \A m \in 1..(n - 1) : ~Credential(m)'
        PROVE  worker'[n].token \in {Failed, user'}
    <3>1. \A m \in 1..(n - 1) : ~Credential(m)
      BY <1>2, <2>3 DEF Credential
    <3> QED BY <1>2, <1>12, <2>3, <3>1 DEF AccountsInv, RightUser
  <2> QED BY <2>1, <2>2, <2>3 DEF RightUser
<1>18. Called'
  <2>1. \A s \in asked : LiveAsked(s) => s = r \/ (s \in asked' /\ LiveAsked(s)')
    BY <1>2 DEF LiveAsked
  <2>2. worker' = worker /\ stream' = stream
    BY <1>2
  <2> QED BY <1>0, <1>8, <1>9, <1>12, <1>15, <2>1, <2>2 DEF AccountsInv, Called, CallIsOut
<1> QED BY <1>8, <1>13, <1>14, <1>16, <1>17, <1>18 DEF AccountsInv

\* An account change is told to the worker queue.
LEMMA NotifiedAccounts ==
  ASSUME TypeOK, AccountsInv, main # <<>>, main' = Tail(main), main[1].kind = "notify",
         Notified(main[1].uid), UNCHANGED <<running, authUser, user, stream>>
  PROVE  AccountsInv' /\ worker' \in Seq(WorkerBlocks) /\ counter' \in Nat
<1>0. PICK last \in Nat : last = Len(worker)
  BY Blocks
<1> DEFINE b == [kind |-> "credential", uid |-> main[1].uid]
<1>1. /\ counter' = counter + 1 /\ worker' = Append(worker, b) /\ asked' = asked
      /\ UNCHANGED <<running, authUser, user, stream>>
  BY DEF Notified
<1>2. /\ Len(main) \in Nat \ {0} /\ Len(main') = Len(main) - 1
      /\ \A n \in 1..Len(main') : /\ n + 1 \in 1..Len(main) /\ main'[n] = main[n + 1]
                                  /\ Notify_(n)' <=> Notify_(n + 1)
                                  /\ Token(n)' <=> Token(n + 1)
  BY TakenFromMain
<1>3. Notify_(1) /\ ~Token(1) /\ main[1].uid \in Clients /\ 1 \in 1..Len(main)
  BY <1>2, Blocks DEF Notify_, Token
<1>4. b \in WorkerBlocks /\ b.kind = "credential" /\ b.uid = main[1].uid
  BY <1>3 DEF WorkerBlocks
<1> HIDE DEF b
<1>5. /\ Len(worker') = last + 1 /\ worker' \in Seq(WorkerBlocks)
      /\ worker'[last + 1] = b
      /\ \A n \in 1..last : /\ worker'[n] = worker[n] /\ n \in 1..Len(worker')
                            /\ Credential(n)' <=> Credential(n)
                            /\ Resume(n)' <=> Resume(n)
  BY <1>0, <1>1, <1>4, PutOnWorker
<1>6. Credential(last + 1)' /\ ~Resume(last + 1)' /\ last + 1 \in 1..Len(worker')
  BY <1>4, <1>5 DEF Credential, Resume
<1>7. \A n \in 1..Len(worker') :
        n = last + 1 \/ (n \in 1..last /\ last + 1 \in (n + 1)..Len(worker'))
  BY <1>5
<1>8. counter \in Nat /\ \A r \in asked : r.counter \in Nat /\ r.counter <= counter
  BY DEF TypeOK, AccountsInv, Counts
<1>9. LastChange'
  <2>1. ASSUME NEW n \in 1..Len(main'), Notify_(n)', \A m \in (n + 1)..Len(main') : ~Notify_(m)'
        PROVE  main'[n].uid = authUser'
    <3>1. n + 1 \in 1..Len(main) /\ Notify_(n + 1) /\ main'[n] = main[n + 1]
      BY <1>2, <2>1
    <3>2. ASSUME NEW m \in ((n + 1) + 1)..Len(main) PROVE ~Notify_(m)
      <4>1. m - 1 \in (n + 1)..Len(main') /\ m - 1 \in 1..Len(main') /\ (m - 1) + 1 = m
        BY <1>2
      <4> QED BY <1>2, <2>1, <4>1
    <3> QED BY <1>1, <3>1, <3>2 DEF AccountsInv, LastChange
  <2>2. ASSUME \A m \in 1..Len(main') : ~Notify_(m)' PROVE main[1].uid = authUser
    <3>1. ASSUME NEW m \in (1 + 1)..Len(main) PROVE ~Notify_(m)
      <4>1. m - 1 \in 1..Len(main') /\ (m - 1) + 1 = m
        BY <1>2
      <4> QED BY <1>2, <2>2, <4>1
    <3> QED BY <1>3, <3>1 DEF AccountsInv, LastChange
  <2>3. ASSUME \A m \in 1..Len(main') : ~Notify_(m)',
               NEW n \in 1..Len(worker'),
               \A m \in (n + 1)..Len(worker') : ~Credential(m)'
        PROVE  worker'[n].uid = authUser'
    <3>1. n = last + 1
      BY <1>6, <1>7, <2>3
    <3> QED BY <1>1, <1>4, <1>5, <2>2, <2>3, <3>1
  <2>4. ~ \A m \in 1..Len(worker') : ~Credential(m)'
    BY <1>6
  <2> QED BY <2>1, <2>3, <2>4 DEF LastChange
<1>10. Counts'
  <2>1. \A r \in asked' : r.count <= stream'.count /\ r.counter <= counter'
    BY <1>1, <1>8 DEF AccountsInv, Counts
  <2>2. ASSUME NEW n \in 1..Len(main'), Token(n)'
        PROVE  main'[n].count <= stream'.count /\ main'[n].counter <= counter'
    <3>1. /\ n + 1 \in 1..Len(main) /\ Token(n + 1) /\ main'[n] = main[n + 1]
          /\ main[n + 1].counter \in Nat
      BY <1>2, <2>2, Blocks
    <3> QED BY <1>1, <1>8, <3>1 DEF AccountsInv, Counts
  <2>3. \A n \in 1..Len(worker') : Resume(n)' => worker'[n].count <= stream'.count
    BY <1>0, <1>1, <1>5, <1>6, <1>7 DEF AccountsInv, Counts
  <2> QED BY <2>1, <2>2, <2>3 DEF Counts
<1>11. /\ \A n \in 1..Len(main') : LiveMain(n)' => n + 1 \in 1..Len(main) /\ LiveMain(n + 1)
       /\ \A n \in 1..Len(worker') : LiveWorker(n)' => n \in 1..Len(worker) /\ LiveWorker(n)
       /\ \A r \in asked' : r \in asked /\ (LiveAsked(r)' => LiveAsked(r))
  BY <1>0, <1>1, <1>2, <1>5, <1>6, <1>7 DEF LiveMain, LiveWorker, LiveAsked
<1>12. OneLive'
  <2>1. \A r \in asked' : LiveAsked(r)' =>
          /\ stream'.state = "Starting"
          /\ \A s \in asked' : LiveAsked(s)' => s = r
          /\ \A n \in 1..Len(main') : ~LiveMain(n)'
          /\ \A n \in 1..Len(worker') : ~LiveWorker(n)'
    BY <1>1, <1>11 DEF AccountsInv, OneLive
  <2>2. ASSUME NEW n \in 1..Len(main'), LiveMain(n)'
        PROVE  /\ stream'.state = "Starting"
               /\ \A m \in 1..Len(main') : LiveMain(m)' => m = n
               /\ \A m \in 1..Len(worker') : ~LiveWorker(m)'
    <3>1. n + 1 \in 1..Len(main) /\ LiveMain(n + 1)
      BY <1>11, <2>2
    <3>2. ASSUME NEW m \in 1..Len(main'), LiveMain(m)' PROVE m = n
      <4>1. m + 1 \in 1..Len(main) /\ LiveMain(m + 1)
        BY <1>11, <3>2
      <4>2. m + 1 = n + 1
        BY <3>1, <4>1 DEF AccountsInv, OneLive
      <4> QED BY <4>2
    <3> QED BY <1>1, <1>11, <3>1, <3>2 DEF AccountsInv, OneLive
  <2>3. \A n \in 1..Len(worker') : LiveWorker(n)' =>
          /\ stream'.state = "Starting"
          /\ \A m \in 1..Len(worker') : LiveWorker(m)' => m = n
    BY <1>1, <1>11 DEF AccountsInv, OneLive
  <2> QED BY <2>1, <2>2, <2>3 DEF OneLive
<1>13. RightUser'
  <2>1. \A r \in asked' : r.counter # counter'
    BY <1>1, <1>8
  <2>2. ASSUME NEW n \in 1..Len(main'), LiveMain(n)' PROVE main'[n].counter # counter'
    <3>1. /\ Token(n + 1) /\ n + 1 \in 1..Len(main) /\ main'[n] = main[n + 1]
          /\ main[n + 1].counter \in Nat /\ main[n + 1].counter <= counter
      BY <1>2, <1>11, <2>2, Blocks DEF LiveMain, AccountsInv, Counts
    <3> QED BY <1>1, <1>8, <3>1
  <2>3. ASSUME NEW n \in 1..Len(worker'), LiveWorker(n)', \A m \in 1..(n - 1) : ~Credential(m)'
        PROVE  worker'[n].token \in {Failed, user'}
    <3>1. n \in 1..last /\ LiveWorker(n) /\ worker'[n] = worker[n]
      BY <1>0, <1>5, <1>11, <2>3
    <3>2. \A m \in 1..(n - 1) : ~Credential(m)
      BY <1>5, <2>3, <3>1
    <3> QED BY <1>0, <1>1, <3>1, <3>2 DEF AccountsInv, RightUser
  <2> QED BY <2>1, <2>2, <2>3 DEF RightUser
<1>14. counter' \in Nat
  BY <1>1, <1>8
<1>15. Called'
  <2>1. \A r \in asked : LiveAsked(r) => r \in asked' /\ LiveAsked(r)'
    BY <1>1 DEF LiveAsked
  <2>2. ASSUME NEW n \in 1..Len(main), LiveMain(n)
        PROVE  \E m \in 1..Len(main') : LiveMain(m)'
    <3>1. n # 1
      BY <1>3, <2>2 DEF LiveMain
    <3>2. n - 1 \in 1..Len(main') /\ (n - 1) + 1 = n
      BY <1>2, <3>1
    <3>3. LiveMain(n - 1)'
      BY <1>1, <1>2, <2>2, <3>2 DEF LiveMain
    <3> QED BY <3>2, <3>3
  <2>3. \A n \in 1..last : LiveWorker(n) => n \in 1..Len(worker') /\ LiveWorker(n)'
    BY <1>1, <1>5 DEF LiveWorker
  <2>4. stream' = stream
    BY <1>1
  <2> QED BY <1>0, <2>1, <2>2, <2>3, <2>4 DEF AccountsInv, Called, CallIsOut
<1> QED BY <1>5, <1>9, <1>10, <1>12, <1>13, <1>14, <1>15 DEF AccountsInv

\* A token is passed on, or asked for again.
LEMMA TokenAnsweredAccounts ==
  ASSUME TypeOK, AccountsInv, main # <<>>, main' = Tail(main), main[1].kind = "token",
         TokenAnswered(main[1]), UNCHANGED <<running, authUser, user, stream>>
  PROVE  /\ AccountsInv' /\ worker' \in Seq(WorkerBlocks) /\ counter' \in Nat
         /\ asked' \in SUBSET [count : Nat, counter : Nat, as : SUBSET Clients]
<1>0. PICK last \in Nat : last = Len(worker)
  BY Blocks
<1> DEFINE r0 == GetToken(main[1].count)
           b == [kind |-> "resume", token |-> main[1].token, count |-> main[1].count]
<1>1. /\ counter' = counter
      /\ \/ main[1].counter = counter /\ worker' = Append(worker, b) /\ asked' = asked
         \/ main[1].counter # counter /\ asked' = asked \cup {r0} /\ worker' = worker
      /\ running' = running /\ authUser' = authUser /\ user' = user /\ stream' = stream
  BY DEF TokenAnswered
<1>2. /\ Len(main) \in Nat \ {0} /\ Len(main') = Len(main) - 1
      /\ \A n \in 1..Len(main') : /\ n + 1 \in 1..Len(main) /\ main'[n] = main[n + 1]
                                  /\ Notify_(n)' <=> Notify_(n + 1)
                                  /\ Token(n)' <=> Token(n + 1)
  BY TakenFromMain
<1>3. Token(1) /\ ~Notify_(1) /\ 1 \in 1..Len(main)
  BY <1>2 DEF Notify_, Token
<1>4. /\ main[1].token \in Tokens /\ main[1].count \in Nat
      /\ main[1].count <= stream.count /\ stream.count \in Nat
  BY <1>3, Blocks DEF AccountsInv, Counts, TypeOK
<1>5. /\ r0 \in [count : Nat, counter : Nat, as : SUBSET Clients]
      /\ r0.count = main[1].count /\ r0.counter = counter /\ r0.as = {authUser}
  BY <1>4, GetTokenType
<1>6. b \in WorkerBlocks /\ b.kind = "resume" /\ b.token = main[1].token /\ b.count = main[1].count
  BY <1>4 DEF WorkerBlocks
<1> HIDE DEF b, r0
<1>7. (\A m \in 1..Len(main') : ~Notify_(m)') => \A m \in 1..Len(main) : ~Notify_(m)
  <2> SUFFICES ASSUME \A m \in 1..Len(main') : ~Notify_(m)', NEW m \in 1..Len(main)
               PROVE  ~Notify_(m)
    OBVIOUS
  <2>1. m = 1 \/ (m - 1 \in 1..Len(main') /\ (m - 1) + 1 = m)
    BY <1>2
  <2> QED BY <1>2, <1>3, <2>1
<1>8. ASSUME NEW n \in 1..Len(main'), \A m \in (n + 1)..Len(main') : ~Notify_(m)',
             NEW m \in ((n + 1) + 1)..Len(main)
      PROVE  ~Notify_(m)
  <2>1. m - 1 \in (n + 1)..Len(main') /\ m - 1 \in 1..Len(main') /\ (m - 1) + 1 = m
    BY <1>2
  <2> QED BY <1>2, <1>8, <2>1
<1>9. ASSUME NEW n \in 1..Len(main'), \A m \in 1..(n - 1) : ~Notify_(m)',
             NEW m \in 1..((n + 1) - 1)
      PROVE  ~Notify_(m)
  <2>1. m = 1 \/ (m - 1 \in 1..(n - 1) /\ m - 1 \in 1..Len(main') /\ (m - 1) + 1 = m)
    BY <1>2
  <2> QED BY <1>2, <1>3, <1>9, <2>1
<1>10. \A n \in 1..Len(main') : LiveMain(n)' => n + 1 \in 1..Len(main) /\ LiveMain(n + 1) /\ n + 1 # 1
  BY <1>1, <1>2 DEF LiveMain
<1>11. \A n \in 1..Len(main') :
         Notify_(n)' /\ (\A m \in (n + 1)..Len(main') : ~Notify_(m)') => main'[n].uid = authUser'
  BY <1>1, <1>2, <1>8 DEF AccountsInv, LastChange
<1>12. \A n \in 1..Len(main') :
         Token(n)' => main'[n].count <= stream'.count /\ main'[n].counter <= counter'
  BY <1>1, <1>2 DEF AccountsInv, Counts
<1>13. \A n, m \in 1..Len(main') : LiveMain(n)' /\ LiveMain(m)' => stream'.state = "Starting" /\ n = m
  <2> SUFFICES ASSUME NEW n \in 1..Len(main'), NEW m \in 1..Len(main'), LiveMain(n)', LiveMain(m)'
               PROVE  stream'.state = "Starting" /\ n = m
    OBVIOUS
  <2>1. /\ n + 1 \in 1..Len(main) /\ LiveMain(n + 1)
        /\ m + 1 \in 1..Len(main) /\ LiveMain(m + 1)
    BY <1>10
  <2>2. stream.state = "Starting" /\ n + 1 = m + 1
    BY <2>1 DEF AccountsInv, OneLive
  <2> QED BY <1>1, <2>2
<1>14. ASSUME NEW n \in 1..Len(main'), LiveMain(n)', main'[n].counter = counter',
              \A m \in 1..(n - 1) : ~Notify_(m)', \A m \in 1..Len(worker) : ~Credential(m)
       PROVE  main'[n].token \in {Failed, user'}
  <2>1. LiveMain(n + 1) /\ n + 1 \in 1..Len(main) /\ main'[n] = main[n + 1]
    BY <1>2, <1>10, <1>14
  <2>2. \A m \in 1..((n + 1) - 1) : ~Notify_(m)
    BY <1>9, <1>14
  <2> QED BY <1>1, <1>14, <2>1, <2>2 DEF AccountsInv, RightUser
<1>15. main[1].count = stream.count => LiveMain(1)
  BY <1>3 DEF LiveMain
<1>18. ASSUME NEW n \in 1..Len(main), LiveMain(n)
       PROVE  \/ main[1].count = stream.count
              \/ \E m \in 1..Len(main') : LiveMain(m)'
  <2>1. CASE n = 1
    BY <1>18, <2>1 DEF LiveMain
  <2>2. CASE n # 1
    <3>1. n - 1 \in 1..Len(main') /\ (n - 1) + 1 = n
      BY <1>2, <2>2
    <3>2. LiveMain(n - 1)'
      BY <1>1, <1>2, <1>18, <3>1 DEF LiveMain
    <3> QED BY <3>1, <3>2
  <2> QED BY <2>1, <2>2
<1>16. CASE main[1].counter = counter /\ worker' = Append(worker, b) /\ asked' = asked
  <2>1. /\ Len(worker') = last + 1 /\ worker' \in Seq(WorkerBlocks)
        /\ worker'[last + 1] = b
        /\ \A n \in 1..last : /\ worker'[n] = worker[n] /\ n \in 1..Len(worker')
                              /\ Credential(n)' <=> Credential(n)
                              /\ Resume(n)' <=> Resume(n)
    BY <1>0, <1>6, <1>16, PutOnWorker
  <2>2. Resume(last + 1)' /\ ~Credential(last + 1)' /\ last + 1 \in 1..Len(worker')
    BY <1>6, <2>1 DEF Credential, Resume
  <2>3. \A n \in 1..Len(worker') : n = last + 1 \/ n \in 1..last
    BY <2>1
  <2>4. (\A m \in 1..Len(worker') : ~Credential(m)') <=> \A m \in 1..Len(worker) : ~Credential(m)
    BY <1>0, <2>1, <2>2, <2>3
  <2>5. /\ \A n \in 1..last : LiveWorker(n)' <=> LiveWorker(n)
        /\ LiveWorker(last + 1)' => LiveMain(1)
    BY <1>1, <1>6, <1>15, <2>1, <2>2 DEF LiveWorker
  <2>6. LastChange'
    <3>1. ASSUME \A m \in 1..Len(main') : ~Notify_(m)',
                 NEW n \in 1..Len(worker'), Credential(n)',
                 \A m \in (n + 1)..Len(worker') : ~Credential(m)'
          PROVE  worker'[n].uid = authUser'
      <4>1. n \in 1..last /\ Credential(n) /\ worker'[n] = worker[n]
        BY <2>1, <2>2, <2>3, <3>1
      <4>2. \A m \in (n + 1)..last : ~Credential(m)
        BY <2>1, <3>1, <4>1
      <4> QED BY <1>0, <1>1, <1>7, <3>1, <4>1, <4>2 DEF AccountsInv, LastChange
    <3>2. (\A m \in 1..Len(main') : ~Notify_(m)') =>
            (running' /\ (\A m \in 1..Len(worker') : ~Credential(m)') => user' = authUser')
      BY <1>1, <1>7, <2>4 DEF AccountsInv, LastChange
    <3> QED BY <1>11, <3>1, <3>2 DEF LastChange
  <2>7. Counts'
    <3>1. \A n \in 1..Len(worker') : Resume(n)' => worker'[n].count <= stream'.count
      BY <1>0, <1>1, <1>4, <1>6, <2>1, <2>3 DEF AccountsInv, Counts
    <3> QED BY <1>1, <1>12, <1>16, <3>1 DEF AccountsInv, Counts
  <2>8. OneLive'
    <3>1. \A r \in asked' : r \in asked /\ (LiveAsked(r)' <=> LiveAsked(r))
      BY <1>1, <1>16 DEF LiveAsked
    <3>2. ASSUME NEW r \in asked', LiveAsked(r)'
          PROVE  /\ stream'.state = "Starting"
                 /\ \A s \in asked' : LiveAsked(s)' => s = r
                 /\ \A n \in 1..Len(main') : ~LiveMain(n)'
                 /\ \A n \in 1..Len(worker') : ~LiveWorker(n)'
      BY <1>0, <1>1, <1>3, <1>10, <2>3, <2>5, <3>1, <3>2 DEF AccountsInv, OneLive
    <3>3. ASSUME NEW n \in 1..Len(main'), LiveMain(n)', NEW m \in 1..Len(worker')
          PROVE  ~LiveWorker(m)'
      BY <1>0, <1>3, <1>10, <2>3, <2>5, <3>3 DEF AccountsInv, OneLive
    <3>4. ASSUME NEW n \in 1..Len(worker'), LiveWorker(n)'
          PROVE  /\ stream'.state = "Starting"
                 /\ \A m \in 1..Len(worker') : LiveWorker(m)' => m = n
      <4>1. CASE n = last + 1
        BY <1>0, <1>1, <1>3, <2>3, <2>5, <3>4, <4>1 DEF AccountsInv, OneLive
      <4>2. CASE n \in 1..last
        BY <1>0, <1>1, <1>3, <2>3, <2>5, <3>4, <4>2 DEF AccountsInv, OneLive
      <4> QED BY <2>3, <4>1, <4>2
    <3> QED BY <1>13, <3>2, <3>3, <3>4 DEF OneLive
  <2>9. RightUser'
    <3>1. ASSUME NEW n \in 1..Len(worker'), LiveWorker(n)', \A m \in 1..(n - 1) : ~Credential(m)'
          PROVE  worker'[n].token \in {Failed, user'}
      <4>1. CASE n = last + 1
        <5>1. \A m \in 1..Len(worker) : ~Credential(m)
          BY <1>0, <2>1, <3>1, <4>1
        <5>2. LiveMain(1) /\ \A m \in 1..(1 - 1) : ~Notify_(m)
          BY <2>5, <3>1, <4>1
        <5>3. main[1].token \in {Failed, user}
          BY <1>3, <1>16, <5>1, <5>2 DEF AccountsInv, RightUser
        <5> QED BY <1>1, <1>6, <2>1, <4>1, <5>3
      <4>2. CASE n \in 1..last
        <5>1. \A m \in 1..(n - 1) : ~Credential(m)
          BY <2>1, <3>1, <4>2
        <5> QED BY <1>0, <1>1, <2>1, <2>5, <3>1, <4>2, <5>1 DEF AccountsInv, RightUser
      <4> QED BY <2>3, <4>1, <4>2
    <3>2. \A r \in asked' : r.counter = counter' /\ (\A m \in 1..Len(main') : ~Notify_(m)') =>
                              r.as = {authUser'}
      BY <1>1, <1>7, <1>16 DEF AccountsInv, RightUser
    <3> QED BY <1>14, <2>4, <3>1, <3>2 DEF RightUser
  <2>10. asked' \in SUBSET [count : Nat, counter : Nat, as : SUBSET Clients]
    BY <1>16 DEF TypeOK
  <2>11. counter' \in Nat
    BY <1>1 DEF TypeOK
  <2>12. Called'
    <3>1. \A r \in asked : LiveAsked(r) => r \in asked' /\ LiveAsked(r)'
      BY <1>1, <1>16 DEF LiveAsked
    <3>2. main[1].count = stream.count => LiveWorker(last + 1)'
      BY <1>1, <1>6, <2>1, <2>2 DEF LiveWorker
    <3> QED BY <1>0, <1>1, <1>18, <2>1, <2>2, <2>5, <3>1, <3>2 DEF AccountsInv, Called, CallIsOut
  <2> QED BY <2>1, <2>6, <2>7, <2>8, <2>9, <2>10, <2>11, <2>12 DEF AccountsInv
<1>17. CASE main[1].counter # counter /\ asked' = asked \cup {r0} /\ worker' = worker
  <2>1. \A n \in 1..Len(worker) : /\ Credential(n)' <=> Credential(n)
                                  /\ Resume(n)' <=> Resume(n)
                                  /\ LiveWorker(n)' <=> LiveWorker(n)
    BY <1>1, <1>17 DEF Credential, Resume, LiveWorker
  <2>2. LastChange'
    <3>1. (\A m \in 1..Len(main') : ~Notify_(m)') =>
            /\ \A n \in 1..Len(worker') :
                 Credential(n)' /\ (\A m \in (n + 1)..Len(worker') : ~Credential(m)') =>
                   worker'[n].uid = authUser'
            /\ running' /\ (\A m \in 1..Len(worker') : ~Credential(m)') => user' = authUser'
      BY <1>1, <1>7, <1>17 DEF AccountsInv, LastChange, Credential
    <3> QED BY <1>11, <3>1 DEF LastChange
  <2>3. Counts'
    <3>1. counter \in Nat
      BY DEF TypeOK
    <3>2. \A r \in asked' : r.count <= stream'.count /\ r.counter <= counter'
      BY <1>1, <1>4, <1>5, <1>17, <3>1 DEF AccountsInv, Counts
    <3> QED BY <1>1, <1>12, <1>17, <2>1, <3>2 DEF AccountsInv, Counts
  <2>4. \A r \in asked' : LiveAsked(r)' => \/ r \in asked /\ LiveAsked(r)
                                           \/ r = r0 /\ LiveMain(1)
    BY <1>1, <1>5, <1>15, <1>17 DEF LiveAsked
  <2>5. OneLive'
    <3>1. ASSUME NEW r \in asked', LiveAsked(r)'
          PROVE  /\ stream'.state = "Starting"
                 /\ \A s \in asked' : LiveAsked(s)' => s = r
                 /\ \A n \in 1..Len(main') : ~LiveMain(n)'
                 /\ \A n \in 1..Len(worker') : ~LiveWorker(n)'
      <4>1. CASE r \in asked /\ LiveAsked(r)
        BY <1>1, <1>3, <1>10, <1>17, <2>1, <2>4, <4>1 DEF AccountsInv, OneLive
      <4>2. CASE r = r0 /\ LiveMain(1)
        BY <1>1, <1>3, <1>10, <1>17, <2>1, <2>4, <4>2 DEF AccountsInv, OneLive
      <4> QED BY <2>4, <3>1, <4>1, <4>2
    <3>2. \A n \in 1..Len(main') : LiveMain(n)' => \A m \in 1..Len(worker') : ~LiveWorker(m)'
      BY <1>10, <1>17, <2>1 DEF AccountsInv, OneLive
    <3>3. \A n \in 1..Len(worker') : LiveWorker(n)' =>
            /\ stream'.state = "Starting"
            /\ \A m \in 1..Len(worker') : LiveWorker(m)' => m = n
      BY <1>1, <1>17, <2>1 DEF AccountsInv, OneLive
    <3> QED BY <1>13, <3>1, <3>2, <3>3 DEF OneLive
  <2>6. RightUser'
    <3>1. \A r \in asked' : r.counter = counter' /\ (\A m \in 1..Len(main') : ~Notify_(m)') =>
                              r.as = {authUser'}
      BY <1>1, <1>5, <1>7, <1>17 DEF AccountsInv, RightUser
    <3>2. (\A m \in 1..Len(worker') : ~Credential(m)') => \A m \in 1..Len(worker) : ~Credential(m)
      BY <1>17, <2>1
    <3>3. ASSUME NEW n \in 1..Len(worker'), LiveWorker(n)', \A m \in 1..(n - 1) : ~Credential(m)'
          PROVE  worker'[n].token \in {Failed, user'}
      <4>1. \A m \in 1..(n - 1) : ~Credential(m)
        BY <1>17, <3>3 DEF Credential
      <4> QED BY <1>1, <1>17, <2>1, <3>3, <4>1 DEF AccountsInv, RightUser
    <3> QED BY <1>14, <3>1, <3>2, <3>3 DEF RightUser
  <2>7. asked' \in SUBSET [count : Nat, counter : Nat, as : SUBSET Clients]
    BY <1>5, <1>17 DEF TypeOK
  <2>8. counter' \in Nat /\ worker' \in Seq(WorkerBlocks)
    BY <1>1, <1>17 DEF TypeOK
  <2>9. Called'
    <3>1. \A r \in asked : LiveAsked(r) => r \in asked' /\ LiveAsked(r)'
      BY <1>1, <1>17 DEF LiveAsked
    <3>2. main[1].count = stream.count => \E r \in asked' : LiveAsked(r)'
      <4>1. \A r \in asked' : r.count = stream'.count => LiveAsked(r)'
        BY DEF LiveAsked
      <4> QED BY <1>1, <1>5, <1>17, <4>1
    <3> QED BY <1>1, <1>17, <1>18, <2>1, <3>1, <3>2 DEF AccountsInv, Called, CallIsOut
  <2> QED BY <2>2, <2>3, <2>5, <2>6, <2>7, <2>8, <2>9 DEF AccountsInv
<1> QED BY <1>1, <1>16, <1>17

-------------------------------------------------------------------------------
(* The write stream.                                                       *)

\* The pipeline as rows of the queue.
LEMMA PipelineRows ==
  ASSUME TypeOK, RowsInv
  PROVE  /\ user \in Clients /\ queue[user] \in Seq(Batches) /\ Len(queue[user]) \in Nat
         /\ Ascending(queue[user])
         /\ pipeline \in Seq(Batches) /\ Len(pipeline) \in Nat
         /\ Len(pipeline) <= kMaxPendingWrites /\ Len(pipeline) <= Len(queue[user])
         /\ \A n \in 1..Len(pipeline) : pipeline[n] = queue[user][n]
         /\ pipeline # <<>> => running /\ queue[user] # <<>>
         /\ running => pipeline = First(queue[user])
         /\ \A n \in 1..Len(queue[user]) : queue[user][n] \in Batches
<1>1. user \in Clients /\ queue[user] \in Seq(Batches) /\ Ascending(queue[user])
  BY DEF TypeOK, RowsInv, RowsOf
<1>2. Len(queue[user]) \in Nat /\ \A n \in 1..Len(queue[user]) : queue[user][n] \in Batches
  BY <1>1, LenProperties, ElementOfSeq
<1>3. CASE running
  <2>1. pipeline = First(queue[user])
    BY <1>3 DEF RowsInv
  <2> QED BY <1>1, <1>2, <1>3, <2>1, FirstRows
<1>4. CASE ~running
  <2>1. pipeline = <<>>
    BY <1>4 DEF RowsInv
  <2>2. Len(pipeline) = 0 /\ pipeline \in Seq(Batches)
    BY <2>1, EmptySeq
  <2> QED BY <1>1, <1>2, <1>4, <2>1, <2>2, PipelineAssumption
<1> QED BY <1>3, <1>4

\* The pipeline is filled for a stream that has not begun.
LEMMA FilledAnew ==
  ASSUME TypeOK,
         NEW STATE q, q \in Seq(Batches), Ascending(q),
         NEW STATE p, p \in Seq(Batches), Len(p) <= Len(q), Len(p) <= kMaxPendingWrites,
         \A n \in 1..Len(p) : p[n] = q[n],
         NEW STATE st, st \in Streams, st.state = "Initial",
         ~st.handshake, ~st.idle, ~st.backoff,
         FillWritePipeline(p, q, st, <<>>), responses' = <<>>
  PROVE  /\ pipeline' = First(q) /\ requests' = <<>> /\ LineInv'
         /\ stream' \in Streams /\ stream'.count = st.count /\ ~stream'.handshake
         /\ \/ stream'.state # "Starting" /\ asked' = asked
            \/ stream'.state = "Starting" /\ asked' = asked \cup {GetToken(stream'.count)}
<1>1. /\ pipeline' = First(q) /\ requests' = <<>>
      /\ stream' \in Streams
      /\ stream'.count = st.count /\ ~stream'.handshake /\ ~stream'.idle
      /\ \/ /\ First(q) = <<>> /\ stream'.state = "Initial"
            /\ ~stream'.backoff /\ asked' = asked
         \/ /\ First(q) # <<>> /\ stream'.state = "Starting"
            /\ ~stream'.backoff /\ asked' = asked \cup {GetToken(st.count)}
  <2>1. \/ st.state = "Open" /\ st.handshake /\ requests' = <<>> \o NextBatches(p, q)
        \/ NextBatches(p, q) = <<>> /\ requests' = <<>>
        \/ ~(st.state = "Open" /\ st.handshake) /\ requests' = <<>>
    BY FillEffect
  <2>2. /\ pipeline' = First(q) /\ stream' \in Streams
        /\ stream'.count = st.count /\ stream'.handshake = st.handshake
        /\ stream'.idle => st.state = "Open" /\ First(q) = <<>>
        /\ \/ /\ Started(st) \/ First(q) = <<>>
              /\ stream'.state = st.state /\ stream'.backoff = st.backoff
              /\ asked' = asked
           \/ /\ First(q) # <<>> /\ st.state = "Error" /\ stream'.state = "Backoff"
              /\ stream'.backoff = TRUE /\ asked' = asked
           \/ /\ First(q) # <<>> /\ st.state = "Initial" /\ stream'.state = "Starting"
              /\ stream'.backoff = st.backoff
              /\ asked' = asked \cup {GetToken(st.count)}
    BY FillEffect
  <2>3. ~Started(st)
    BY DEF Started
  <2> QED BY <2>1, <2>2, <2>3
<1>2. LineFlags'
  BY <1>1 DEF LineFlags, Expected, Started
<1>3. Greeting' /\ Wire'
  BY <1>1 DEF Greeting, Wire
<1> QED BY <1>1, <1>2, <1>3 DEF LineInv

\* The network begins again with the first rows of the queue q.
LEMMA RestartNetworkEffect ==
  ASSUME TypeOK, LineInv,
         NEW STATE q, q \in Seq(Batches), Ascending(q), RestartNetwork(q)
  PROVE  /\ pipeline' = First(q) /\ requests' = <<>> /\ responses' = <<>>
         /\ LineInv' /\ NewLine /\ ~stream'.handshake
<1> DEFINE st == IF Started(stream) THEN Closed(stream, "Initial")
                 ELSE [stream EXCEPT !.state = "Initial"]
<1>1. responses' = <<>> /\ FillWritePipeline(<<>>, q, st, <<>>)
  BY DEF RestartNetwork
<1>2. stream \in Streams
  BY DEF TypeOK, Streams
<1>3. /\ st \in Streams /\ st.state = "Initial" /\ ~st.handshake /\ ~st.idle /\ ~st.backoff
      /\ \/ stream.state # "Starting" /\ st.count = stream.count
         \/ st.count = stream.count + 1
  <2>1. CASE Started(stream)
    <3>1. st = Closed(stream, "Initial")
      BY <2>1
    <3> HIDE DEF st
    <3> QED BY <1>2, <3>1 DEF Closed, Streams
  <2>2. CASE ~Started(stream)
    <3>1. st = [stream EXCEPT !.state = "Initial"]
      BY <2>2
    <3>2. /\ stream.state \notin {"Starting", "Backoff", "Open"}
          /\ ~stream.handshake /\ ~stream.idle /\ ~stream.backoff
      BY <2>2 DEF Started, LineInv, LineFlags
    <3> HIDE DEF st
    <3> QED BY <1>2, <3>1, <3>2 DEF Streams
  <2> QED BY <2>1, <2>2
<1> HIDE DEF st
<1>4. <<>> \in Seq(Batches) /\ Len(<<>>) = 0 /\ Len(q) \in Nat /\ kMaxPendingWrites \in Nat
  BY LenProperties, EmptySeq, PipelineAssumption
<1>5. /\ Len(<<>>) <= Len(q) /\ Len(<<>>) <= kMaxPendingWrites
      /\ \A n \in 1..Len(<<>>) : <<>>[n] = q[n]
  BY <1>4
<1>6. /\ pipeline' = First(q) /\ requests' = <<>> /\ LineInv'
      /\ stream' \in Streams /\ stream'.count = st.count /\ ~stream'.handshake
      /\ \/ stream'.state # "Starting" /\ asked' = asked
         \/ stream'.state = "Starting" /\ asked' = asked \cup {GetToken(stream'.count)}
  BY <1>1, <1>3, <1>4, <1>5, FilledAnew
<1> QED BY <1>1, <1>3, <1>6 DEF NewLine

\* The stream is closed and, where it is needed, waits before it begins again.
LEMMA CloseAndRetryEffect ==
  ASSUME TypeOK, LineInv, CloseAndRetry
  PROVE  /\ UNCHANGED <<localVars, pipeline>>
         /\ requests' = <<>> /\ responses' = <<>>
         /\ LineInv' /\ NewLine /\ ~stream'.handshake
<1> DEFINE st == Closed(stream, "Error")
<1>1. /\ st \in Streams /\ st.state = "Error" /\ st.count = stream.count + 1
      /\ ~st.handshake /\ ~st.idle /\ ~st.backoff
  BY ClosedIs
<1>2. /\ UNCHANGED <<localVars, pipeline>> /\ requests' = <<>> /\ responses' = <<>>
      /\ IF pipeline # <<>> THEN Start(st) ELSE stream' = st /\ UNCHANGED asked
  BY DEF CloseAndRetry
<1> HIDE DEF st
<1>3. /\ stream' \in Streams /\ stream'.count = stream.count + 1 /\ asked' = asked
      /\ ~stream'.handshake /\ ~stream'.idle
      /\ \/ pipeline # <<>> /\ stream'.state = "Backoff" /\ stream'.backoff
         \/ pipeline = <<>> /\ stream'.state = "Error" /\ ~stream'.backoff
  <2>1. CASE pipeline # <<>>
    BY <1>1, <1>2, <2>1, StartEffect
  <2>2. CASE pipeline = <<>>
    BY <1>1, <1>2, <2>2
  <2> QED BY <2>1, <2>2
<1>4. LineFlags'
  BY <1>2, <1>3 DEF LineFlags, Expected, Started
<1>5. Greeting' /\ Wire' /\ NewLine
  BY <1>2, <1>3 DEF Greeting, Wire, NewLine
<1> QED BY <1>2, <1>3, <1>4, <1>5 DEF LineInv

\* Nothing happens to the rows.
LEMMA RowsStay ==
  ASSUME RowsInv, UNCHANGED <<running, user, queue, nextId, callbacks, pipeline, made, doc, acked>>
  PROVE  RowsInv'
BY DEF RowsInv, RowsOf, RowsWaited, Ascending, AckedNotUndone, First

\* The calls of getToken after a handler of the stream.
LEMMA AskedType ==
  ASSUME TypeOK, SameLine \/ NewLine
  PROVE  asked' \in SUBSET [count : Nat, counter : Nat, as : SUBSET Clients]
<1>1. asked \in SUBSET [count : Nat, counter : Nat, as : SUBSET Clients]
  BY DEF TypeOK
<1>2. CASE SameLine
  BY <1>1, <1>2 DEF SameLine
<1>3. CASE NewLine
  <2>1. stream'.count \in Nat
    BY <1>3 DEF NewLine, Streams
  <2>2. GetToken(stream'.count) \in [count : Nat, counter : Nat, as : SUBSET Clients]
    BY <2>1, GetTokenType
  <2> QED BY <1>1, <1>3, <2>2 DEF NewLine
<1> QED BY <1>2, <1>3

\* Where something is under way the process runs.
LEMMA RunningIfBusy ==
  ASSUME Inv, \/ asked # {} \/ main # <<>> \/ worker # <<>>
              \/ requests # <<>> \/ responses # <<>>
              \/ stream.state # "Initial" \/ stream.backoff \/ stream.idle
  PROVE  running
BY DEF Inv, Stopped, Idle0, LineInv, LineFlags

\* What is left to show of a handler of the stream.
LEMMA LineHandler ==
  ASSUME Inv, running, SameLine \/ NewLine, stream' \in Streams,
         UNCHANGED <<running, authUser, main, counter, worker, user>>
  PROVE  /\ AccountsInv' /\ Stopped'
         /\ asked' \in SUBSET [count : Nat, counter : Nat, as : SUBSET Clients]
<1>1. AccountsInv'
  BY LineKeepsAccounts DEF Inv
<1>2. Stopped'
  BY DEF Stopped
<1> QED BY <1>1, <1>2, AskedType DEF Inv

\* The empty wire.
LEMMA EmptyWire ==
  /\ <<>> \in Seq(Batches \cup {Handshake})
  /\ <<>> \in Seq(Batches \cup {Handshake, Refused})
  /\ <<>> \in Seq(Batches) /\ Len(<<>>) = 0
BY EmptySeq

\* Faults stay within their bound.
LEMMA CountsFaults ==
  ASSUME TypeOK, Fault
  PROVE  faults' \in 0..MaxFaults
BY PipelineAssumption DEF TypeOK, Fault

\* The stream finishes with an error of its own.
LEMMA StreamBreaksKeeps ==
  ASSUME Inv, StreamBreaks
  PROVE  Inv'
<1>1. /\ CloseAndRetry /\ stream.state = "Open" /\ faults' \in 0..MaxFaults
      /\ UNCHANGED <<running, authUser, main, counter, worker, speaker, made,
                     doc, acked, failed>>
  BY CountsFaults DEF StreamBreaks, Inv
<1>2. running
  BY <1>1, RunningIfBusy
<1>3. /\ UNCHANGED <<user, queue, nextId, callbacks, pipeline>>
      /\ requests' = <<>> /\ responses' = <<>> /\ LineInv' /\ NewLine
  BY <1>1, CloseAndRetryEffect DEF Inv, localVars
<1>4. stream' \in Streams
  BY <1>3 DEF NewLine
<1>5. /\ AccountsInv' /\ Stopped'
      /\ asked' \in SUBSET [count : Nat, counter : Nat, as : SUBSET Clients]
  BY <1>1, <1>2, <1>3, <1>4, LineHandler
<1>6. RowsInv'
  BY <1>1, <1>3, RowsStay DEF Inv
<1>7. TypeOK'
  BY <1>1, <1>3, <1>4, <1>5, EmptyWire DEF TypeOK, Inv, Streams
<1> QED BY <1>1, <1>3, <1>5, <1>6, <1>7 DEF Inv, NotFailed

\* The network changes.
LEMMA ConnectivityChangesKeeps ==
  ASSUME Inv, ConnectivityChanges
  PROVE  Inv'
<1>1. /\ running /\ RestartNetwork(queue[user]) /\ faults' \in 0..MaxFaults
      /\ UNCHANGED <<running, authUser, main, counter, worker, user, queue, nextId,
                     callbacks, speaker, made, doc, acked, failed>>
  BY CountsFaults DEF ConnectivityChanges, localVars, Inv
<1>2. /\ queue[user] \in Seq(Batches) /\ Ascending(queue[user])
      /\ pipeline = First(queue[user])
  BY <1>1, PipelineRows DEF Inv
<1>3. /\ pipeline' = First(queue[user]) /\ requests' = <<>> /\ responses' = <<>>
      /\ LineInv' /\ NewLine
  BY <1>1, <1>2, RestartNetworkEffect DEF Inv
<1>4. stream' \in Streams
  BY <1>3 DEF NewLine
<1>5. /\ AccountsInv' /\ Stopped'
      /\ asked' \in SUBSET [count : Nat, counter : Nat, as : SUBSET Clients]
  BY <1>1, <1>3, <1>4, LineHandler
<1>6. RowsInv' /\ pipeline' = pipeline
  BY <1>1, <1>2, <1>3, RowsStay DEF Inv
<1>7. TypeOK'
  BY <1>1, <1>3, <1>4, <1>5, <1>6, EmptyWire DEF TypeOK, Inv, Streams
<1> QED BY <1>1, <1>3, <1>5, <1>6, <1>7 DEF Inv, NotFailed

\* A stream that nothing is sent on is closed.
LEMMA GracefulStopKeeps ==
  ASSUME Inv, StopGracefully, stream.state = "Open", pipeline = <<>>, ~failed',
         failed' \in BOOLEAN, faults' \in 0..MaxFaults, UNCHANGED <<speaker, made, doc, acked>>
  PROVE  Inv'
<1>1. /\ stream' = Closed(stream, "Initial") /\ requests' = <<>> /\ responses' = <<>>
      /\ UNCHANGED <<running, authUser, asked, main, counter, worker, user, queue, nextId,
                     callbacks, pipeline, speaker, made, doc, acked>>
  BY DEF StopGracefully, authVars, localVars
<1>2. running /\ stream \in Streams
  BY RunningIfBusy DEF Inv, TypeOK, Streams
<1>3. /\ stream' \in Streams /\ stream'.state = "Initial" /\ ~stream'.handshake
      /\ ~stream'.idle /\ ~stream'.backoff /\ stream'.count = stream.count + 1
  BY <1>1, <1>2 DEF Closed, Streams
<1>4. LineInv' /\ NewLine
  BY <1>1, <1>2, <1>3 DEF LineInv, LineFlags, Expected, Started, Greeting, Wire, NewLine
<1>5. /\ AccountsInv' /\ Stopped'
      /\ asked' \in SUBSET [count : Nat, counter : Nat, as : SUBSET Clients]
  BY <1>1, <1>2, <1>3, <1>4, LineHandler
<1>6. RowsInv'
  BY <1>1, RowsStay DEF Inv
<1>7. TypeOK'
  BY <1>1, <1>3, <1>5, EmptyWire DEF TypeOK, Inv, Streams
<1> QED BY <1>4, <1>5, <1>6, <1>7 DEF Inv, NotFailed

\* The idle timer fires where the pipeline is empty.
LEMMA IdleTimeoutKeeps ==
  ASSUME Inv, IdleTimeout
  PROVE  Inv'
<1>1. /\ stream.idle /\ StopGracefully /\ failed' = (pipeline # <<>>)
      /\ UNCHANGED <<speaker, made, doc, acked, faults>>
  BY DEF IdleTimeout
<1>2. pipeline = <<>> /\ stream.state = "Open" /\ faults \in 0..MaxFaults
  BY <1>1 DEF Inv, LineInv, LineFlags, TypeOK
<1>3. failed' = FALSE
  BY <1>1, <1>2
<1> QED BY <1>1, <1>2, <1>3, GracefulStopKeeps

\* The wait after an error ends.
LEMMA BackoffElapsesKeeps ==
  ASSUME Inv, BackoffElapses
  PROVE  Inv'
<1> DEFINE st == [stream EXCEPT !.state = "Initial", !.backoff = FALSE]
<1>1. /\ stream.backoff /\ failed' = (stream.state # "Backoff") /\ Start(st)
      /\ UNCHANGED <<running, authUser, main, counter, worker, user, queue, nextId,
                     callbacks, pipeline, speaker, requests, responses, made, doc,
                     acked, faults>>
  BY DEF BackoffElapses, localVars, wireVars
<1>2. /\ running /\ stream.state = "Backoff" /\ stream \in Streams /\ pipeline # <<>>
      /\ ~stream.handshake /\ ~stream.idle /\ requests = <<>> /\ responses = <<>>
  BY <1>1, RunningIfBusy DEF Inv, LineInv, LineFlags, Expected, Started, TypeOK, Streams
<1>3. /\ st \in Streams /\ st.state = "Initial" /\ st.count = stream.count
      /\ ~st.handshake /\ ~st.idle /\ ~st.backoff
  BY <1>2 DEF Streams
<1> HIDE DEF st
<1>4. /\ stream' \in Streams /\ stream'.state = "Starting" /\ stream'.count = stream.count
      /\ ~stream'.handshake /\ ~stream'.idle /\ ~stream'.backoff
      /\ asked' = asked \cup {GetToken(stream.count)}
  BY <1>1, <1>3, StartEffect DEF Inv
<1>5. LineInv' /\ NewLine
  BY <1>1, <1>2, <1>4 DEF LineInv, LineFlags, Expected, Started, Greeting, Wire, NewLine
<1>6. /\ AccountsInv' /\ Stopped'
      /\ asked' \in SUBSET [count : Nat, counter : Nat, as : SUBSET Clients]
  BY <1>1, <1>2, <1>4, <1>5, LineHandler
<1>7. RowsInv'
  BY <1>1, RowsStay DEF Inv
<1>8. failed' = FALSE
  BY <1>1, <1>2
<1>9. TypeOK'
  BY <1>1, <1>4, <1>6, <1>8 DEF TypeOK, Inv, Streams
<1> QED BY <1>5, <1>6, <1>7, <1>8, <1>9 DEF Inv, NotFailed

\* The wire's messages are told apart.
LEMMA Messages ==
  /\ Handshake \notin Batches /\ Refused \notin Batches /\ Handshake # Refused
  /\ \A b \in Batches : b # Handshake /\ b # Refused
BY DEF Batches, Handshake, Refused

\* What is on the wire.
LEMMA WireType ==
  ASSUME TypeOK
  PROVE  /\ requests \in Seq(Batches \cup {Handshake}) /\ Len(requests) \in Nat
         /\ responses \in Seq(Batches \cup {Handshake, Refused}) /\ Len(responses) \in Nat
<1>1. /\ requests \in Seq(Batches \cup {Handshake})
      /\ responses \in Seq(Batches \cup {Handshake, Refused})
  BY DEF TypeOK
<1> QED BY <1>1, LenProperties

\* Auth changes the account.
LEMMA AuthChangesKeeps ==
  ASSUME Inv, NEW u \in Clients, AuthChanges(u)
  PROVE  Inv'
<1>1. /\ running /\ authUser' = u /\ faults' \in 0..MaxFaults
      /\ UNCHANGED <<running, counter, worker, user, queue, nextId, callbacks,
                     pipeline, stream, speaker, requests, responses, made, doc,
                     acked, failed>>
  BY CountsFaults DEF AuthChanges, localVars, wireVars, Inv
<1>2. /\ AccountsInv' /\ main' \in Seq(MainBlocks)
      /\ asked' \in SUBSET [count : Nat, counter : Nat, as : SUBSET Clients]
  BY AuthChangesAccounts DEF Inv
<1>3. RowsInv'
  BY <1>1, RowsStay DEF Inv
<1>4. LineInv'
  BY <1>1 DEF Inv, LineInv, LineFlags, Expected, Started, Greeting, Wire
<1>5. TypeOK'
  BY <1>1, <1>2 DEF Inv, TypeOK
<1> QED BY <1>1, <1>2, <1>3, <1>4, <1>5 DEF Inv, NotFailed, Stopped

\* Auth answers getToken.
LEMMA AuthAnswersKeeps ==
  ASSUME Inv, NEW r \in asked, AuthAnswers(r)
  PROVE  Inv'
<1>1. /\ asked' = asked \ {r} /\ faults' \in 0..MaxFaults
      /\ UNCHANGED <<running, authUser, counter, worker, user, queue, nextId, callbacks,
                     pipeline, stream, speaker, requests, responses, made, doc,
                     acked, failed>>
  BY CountsFaults DEF AuthAnswers, localVars, wireVars, Inv, TypeOK
<1>2. running
  BY RunningIfBusy
<1>3. AccountsInv' /\ main' \in Seq(MainBlocks)
  BY AuthAnswersAccounts DEF Inv
<1>4. RowsInv'
  BY <1>1, RowsStay DEF Inv
<1>5. LineInv'
  BY <1>1 DEF Inv, LineInv, LineFlags, Expected, Started, Greeting, Wire
<1>6. asked' \in SUBSET [count : Nat, counter : Nat, as : SUBSET Clients]
  BY <1>1 DEF Inv, TypeOK
<1>7. TypeOK'
  BY <1>1, <1>3, <1>6 DEF Inv, TypeOK
<1> QED BY <1>1, <1>2, <1>3, <1>4, <1>5, <1>7 DEF Inv, NotFailed, Stopped

\* The main queue runs a block.
LEMMA RunMainKeeps ==
  ASSUME Inv, RunMain
  PROVE  Inv'
<1>1. /\ main # <<>> /\ main' = Tail(main)
      /\ IF Head(main).kind = "notify" THEN Notified(Head(main).uid) ELSE TokenAnswered(Head(main))
      /\ UNCHANGED <<running, authUser, user, queue, nextId, callbacks,
                     pipeline, stream, speaker, requests, responses, made, doc,
                     acked, faults, failed>>
  BY DEF RunMain, localVars, wireVars
<1>2. /\ running /\ Head(main) = main[1] /\ main' \in Seq(MainBlocks)
      /\ main[1].kind \in {"notify", "token"}
  <2>1. 1 \in 1..Len(main) /\ Head(main) = main[1] /\ main' \in Seq(MainBlocks)
    BY <1>1, TakenFromMain DEF Inv
  <2>2. Notify_(1) \/ Token(1)
    BY <2>1, Blocks DEF Inv
  <2> QED BY <1>1, <2>1, <2>2, RunningIfBusy DEF Notify_, Token
<1>3. /\ AccountsInv' /\ worker' \in Seq(WorkerBlocks) /\ counter' \in Nat
      /\ asked' \in SUBSET [count : Nat, counter : Nat, as : SUBSET Clients]
  <2>1. CASE main[1].kind = "notify"
    <3>1. Notified(main[1].uid)
      BY <1>1, <1>2, <2>1
    <3>2. AccountsInv' /\ worker' \in Seq(WorkerBlocks) /\ counter' \in Nat
      BY <1>1, <2>1, <3>1, NotifiedAccounts DEF Inv
    <3>3. asked' = asked
      BY <3>1 DEF Notified
    <3> QED BY <3>2, <3>3 DEF Inv, TypeOK
  <2>2. CASE main[1].kind = "token"
    <3>1. TokenAnswered(main[1])
      BY <1>1, <1>2, <2>2
    <3> QED BY <1>1, <2>2, <3>1, TokenAnsweredAccounts DEF Inv
  <2> QED BY <1>2, <2>1, <2>2
<1>4. RowsInv'
  BY <1>1, RowsStay DEF Inv
<1>5. LineInv'
  BY <1>1 DEF Inv, LineInv, LineFlags, Expected, Started, Greeting, Wire
<1>6. TypeOK'
  BY <1>1, <1>2, <1>3 DEF Inv, TypeOK
<1> QED BY <1>1, <1>2, <1>3, <1>4, <1>5, <1>6 DEF Inv, NotFailed, Stopped

\* The client goes over to the queue of another user.
LEMMA CredentialChangeKeeps ==
  ASSUME Inv, worker # <<>>, worker' = Tail(worker), worker[1].kind = "credential",
         HandleCredentialChange(worker[1].uid),
         UNCHANGED <<running, authUser, main, counter, made, doc, acked, faults>>
  PROVE  Inv'
<1> DEFINE u == worker[1].uid
<1>1. /\ user' = u /\ nextId' = (IF u = user THEN nextId ELSE LoadNextBatchId)
      /\ RestartNetwork(queue[u])
      /\ UNCHANGED <<queue, callbacks, speaker, failed>>
  BY DEF HandleCredentialChange
<1>2. running /\ worker' \in Seq(WorkerBlocks) /\ u \in Clients
  <2>1. 1 \in 1..Len(worker) /\ worker' \in Seq(WorkerBlocks)
    BY TakenFromWorker DEF Inv
  <2>2. Credential(1)
    BY <2>1 DEF Credential
  <2> QED BY <2>1, <2>2, Blocks, RunningIfBusy DEF Inv
<1>3. queue[u] \in Seq(Batches) /\ Ascending(queue[u])
  BY <1>2 DEF Inv, TypeOK, RowsInv, RowsOf
<1>4. /\ pipeline' = First(queue[u]) /\ requests' = <<>> /\ responses' = <<>>
      /\ LineInv' /\ NewLine
  BY <1>1, <1>3, RestartNetworkEffect DEF Inv
<1>5. AccountsInv'
  BY <1>1, <1>4, CredentialTaken DEF Inv
<1>6. /\ nextId' \in Nat \ {0}
      /\ \A c \in Clients : \A n \in 1..Len(queue[c]) : queue[c][n].id < nextId'
  BY <1>1, NextIdIsNew DEF Inv, TypeOK, RowsInv, RowsOf
<1>7. RowsInv'
  <2>1. \A c \in Clients : RowsOf(c)' /\ RowsWaited(c)'
    BY <1>1, <1>6 DEF Inv, RowsInv, RowsOf, RowsWaited, Ascending
  <2>2. pipeline' = IF running' THEN First(queue'[user']) ELSE <<>>
    BY <1>1, <1>2, <1>4 DEF First
  <2>3. AckedNotUndone'
    BY DEF Inv, RowsInv, AckedNotUndone
  <2> QED BY <2>1, <2>2, <2>3 DEF RowsInv
<1>8. /\ pipeline' \in Seq(Batches) /\ Len(pipeline') <= kMaxPendingWrites
      /\ stream' \in Streams
  BY <1>3, <1>4, FirstRows DEF NewLine
<1>9. asked' \in SUBSET [count : Nat, counter : Nat, as : SUBSET Clients]
  BY <1>4, AskedType DEF Inv
<1>10. TypeOK'
  BY <1>1, <1>2, <1>4, <1>6, <1>8, <1>9, EmptyWire DEF Inv, TypeOK, Streams
<1> QED BY <1>1, <1>2, <1>4, <1>5, <1>7, <1>10 DEF Inv, NotFailed, Stopped

\* The stream gets a token.
LEMMA ResumeStartKeeps ==
  ASSUME Inv, worker # <<>>, worker' = Tail(worker), worker[1].kind = "resume",
         ResumeStart(worker[1]),
         UNCHANGED <<running, authUser, main, counter, made, doc, acked, faults>>
  PROVE  Inv'
<1> DEFINE b == worker[1]
<1>1. /\ running /\ worker' \in Seq(WorkerBlocks) /\ b.token \in Tokens
      /\ stream \in Streams
  <2>1. 1 \in 1..Len(worker) /\ worker' \in Seq(WorkerBlocks)
    BY TakenFromWorker DEF Inv
  <2>2. Resume(1)
    BY <2>1 DEF Resume
  <2> QED BY <2>1, <2>2, Blocks, RunningIfBusy DEF Inv, TypeOK, Streams
<1>2. CASE b.count # stream.count
  <2>1. UNCHANGED <<asked, user, queue, nextId, callbacks, pipeline, stream, speaker,
                    requests, responses, failed>>
    BY <1>2 DEF ResumeStart, localVars, wireVars
  <2>2. AccountsInv'
    BY <1>2, <2>1, StaleTokenDropped DEF Inv, SameLine
  <2>3. RowsInv'
    BY <2>1, RowsStay DEF Inv
  <2>4. LineInv'
    BY <2>1 DEF Inv, LineInv, LineFlags, Expected, Started, Greeting, Wire
  <2>5. TypeOK'
    BY <1>1, <2>1 DEF Inv, TypeOK
  <2> QED BY <1>1, <2>1, <2>2, <2>3, <2>4, <2>5 DEF Inv, NotFailed, Stopped
<1>3. CASE b.count = stream.count
  <2>1. /\ failed' = (stream.state # "Starting")
        /\ IF b.token = Failed THEN CloseAndRetry /\ UNCHANGED speaker ELSE Open(b.token)
    BY <1>3 DEF ResumeStart
  <2>2. CASE b.token = Failed
    <3>1. /\ UNCHANGED <<user, queue, nextId, callbacks, pipeline, speaker>>
          /\ requests' = <<>> /\ responses' = <<>> /\ LineInv' /\ NewLine
      BY <2>1, <2>2, CloseAndRetryEffect DEF Inv, localVars
    <3>2. stream.state = "Starting" /\ AccountsInv'
      BY <1>3, <3>1, LiveTokenTaken DEF Inv
    <3>3. RowsInv'
      BY <3>1, RowsStay DEF Inv
    <3>4. asked' \in SUBSET [count : Nat, counter : Nat, as : SUBSET Clients] /\ stream' \in Streams
      BY <3>1, AskedType DEF Inv, NewLine
    <3>5. failed' = FALSE
      BY <2>1, <3>2
    <3>6. TypeOK'
      BY <1>1, <3>1, <3>4, <3>5, EmptyWire DEF Inv, TypeOK, Streams
    <3> QED BY <1>1, <3>1, <3>2, <3>3, <3>5, <3>6 DEF Inv, NotFailed, Stopped
  <2>3. CASE b.token # Failed
    <3>1. /\ stream' = [stream EXCEPT !.state = "Open", !.idle = FALSE]
          /\ speaker' = b.token /\ requests' = <<Handshake>> /\ responses' = <<>>
          /\ UNCHANGED <<asked, user, queue, nextId, callbacks, pipeline>>
      BY <2>1, <2>3 DEF Open, localVars
    <3>2. /\ stream' \in Streams /\ stream'.state = "Open" /\ stream'.idle = FALSE
          /\ stream'.count = stream.count /\ stream'.handshake = stream.handshake
          /\ stream'.backoff = stream.backoff
      BY <1>1, <3>1 DEF Streams
    <3>3. stream.state = "Starting" /\ b.token \in {Failed, user} /\ AccountsInv'
      BY <1>3, <3>1, <3>2, LiveTokenTaken DEF Inv
    <3>4. /\ ~stream.handshake /\ ~stream.backoff /\ pipeline # <<>>
      BY <3>3 DEF Inv, LineInv, LineFlags, Expected, Started
    <3>5. LineInv'
      BY <2>3, <3>1, <3>2, <3>3, <3>4 DEF LineInv, LineFlags, Expected, Started, Greeting, Wire
    <3>6. RowsInv'
      BY <3>1, RowsStay DEF Inv
    <3>7. failed' = FALSE /\ speaker' \in Clients /\ requests' \in Seq(Batches \cup {Handshake})
      <4>1. failed' = FALSE
        BY <2>1, <3>3
      <4>2. b.token = user /\ user \in Clients
        BY <2>3, <3>3 DEF Inv, TypeOK
      <4>3. <<Handshake>> \in Seq(Batches \cup {Handshake})
        OBVIOUS
      <4> QED BY <3>1, <4>1, <4>2, <4>3
    <3>8. TypeOK'
      BY <1>1, <3>1, <3>2, <3>7, EmptyWire DEF Inv, TypeOK, Streams
    <3> QED BY <1>1, <3>3, <3>5, <3>6, <3>7, <3>8 DEF Inv, NotFailed, Stopped
  <2> QED BY <2>2, <2>3
<1> QED BY <1>2, <1>3

\* The worker queue runs a block.
LEMMA RunWorkerKeeps ==
  ASSUME Inv, RunWorker
  PROVE  Inv'
<1>1. /\ worker # <<>> /\ worker' = Tail(worker)
      /\ IF Head(worker).kind = "credential" THEN HandleCredentialChange(Head(worker).uid)
         ELSE ResumeStart(Head(worker))
      /\ UNCHANGED <<running, authUser, main, counter, made, doc, acked, faults>>
  BY DEF RunWorker
<1>2. Head(worker) = worker[1] /\ worker[1].kind \in {"credential", "resume"}
  <2>1. 1 \in 1..Len(worker) /\ Head(worker) = worker[1]
    BY <1>1, TakenFromWorker DEF Inv
  <2>2. Credential(1) \/ Resume(1)
    BY <2>1, Blocks DEF Inv
  <2> QED BY <2>1, <2>2 DEF Credential, Resume
<1>3. CASE worker[1].kind = "credential"
  BY <1>1, <1>2, <1>3, CredentialChangeKeeps
<1>4. CASE worker[1].kind = "resume"
  BY <1>1, <1>2, <1>4, ResumeStartKeeps
<1> QED BY <1>2, <1>3, <1>4

\* The first request is taken.
LEMMA RequestTaken ==
  ASSUME TypeOK, requests # <<>>
  PROVE  /\ Len(requests) \in Nat \ {0} /\ Head(requests) = requests[1]
         /\ Tail(requests) \in Seq(Batches \cup {Handshake})
         /\ Len(Tail(requests)) = Len(requests) - 1
         /\ \A n \in 1..Len(Tail(requests)) : Tail(requests)[n] = requests[n + 1]
         /\ requests[1] \in Batches \cup {Handshake}
<1>1. requests \in Seq(Batches \cup {Handshake}) /\ Len(requests) \in Nat
  BY WireType
<1> QED BY <1>1, HeadTailProperties, EmptySeq, ElementOfSeq

\* The first response is taken.
LEMMA ResponseTaken ==
  ASSUME TypeOK, responses # <<>>
  PROVE  /\ Len(responses) \in Nat \ {0} /\ Head(responses) = responses[1]
         /\ Tail(responses) \in Seq(Batches \cup {Handshake, Refused})
         /\ Len(Tail(responses)) = Len(responses) - 1
         /\ \A n \in 1..Len(Tail(responses)) : Tail(responses)[n] = responses[n + 1]
<1>1. responses \in Seq(Batches \cup {Handshake, Refused}) /\ Len(responses) \in Nat
  BY WireType
<1> QED BY <1>1, HeadTailProperties, EmptySeq

\* A response is put behind the others.
LEMMA ResponsePut ==
  ASSUME TypeOK, NEW b \in Batches \cup {Handshake, Refused}
  PROVE  /\ Len(responses) \in Nat /\ Len(Append(responses, b)) = Len(responses) + 1
         /\ Append(responses, b) \in Seq(Batches \cup {Handshake, Refused})
         /\ Append(responses, b)[Len(responses) + 1] = b
         /\ \A n \in 1..Len(responses) : Append(responses, b)[n] = responses[n]
BY WireType, AppendProperties

\* After the handshake requests are batches of the pipeline, in its order.
LEMMA RequestsAreRows ==
  ASSUME TypeOK, RowsInv, LineInv, requests # <<>>
  PROVE  /\ stream.state = "Open"
         /\ ~stream.handshake => requests = <<Handshake>> /\ responses = <<>>
         /\ stream.handshake =>
              /\ requests[1] = pipeline[Len(responses) + 1] /\ requests[1] \in Batches
              /\ Len(responses) + 1 \in 1..Len(pipeline)
              /\ requests[1] # Handshake
<1>1. stream.state = "Open"
  BY DEF LineInv, LineFlags
<1>2. ~stream.handshake => requests = <<Handshake>> /\ responses = <<>>
  BY <1>1 DEF LineInv, Greeting
<1>3. ASSUME stream.handshake
      PROVE  /\ requests[1] = pipeline[Len(responses) + 1] /\ requests[1] \in Batches
             /\ Len(responses) + 1 \in 1..Len(pipeline)
             /\ requests[1] # Handshake
  <2>1. Len(requests) \in Nat \ {0} /\ Len(responses) \in Nat /\ Len(pipeline) \in Nat
    BY RequestTaken, WireType, PipelineRows
  <2>2. /\ Len(responses) + Len(requests) = Len(pipeline)
        /\ requests[1] = pipeline[Len(responses) + 1]
    BY <1>3, <2>1 DEF LineInv, Wire
  <2>3. Len(responses) + 1 \in 1..Len(pipeline)
    BY <2>1, <2>2
  <2>4. pipeline[Len(responses) + 1] \in Batches
    BY <2>3, PipelineRows, ElementOfSeq
  <2> QED BY <2>2, <2>3, <2>4, Messages
<1> QED BY <1>1, <1>2, <1>3

\* The server reads a request: what it leaves alone.
LEMMA ServerKeeps ==
  ASSUME Inv, ServerReads, RowsInv', LineInv',
         responses' \in Seq(Batches \cup {Handshake, Refused}),
         doc' \in [Clients -> 0..MaxWrites], faults' \in 0..MaxFaults
  PROVE  Inv'
<1>1. /\ requests # <<>> /\ requests' = Tail(requests)
      /\ UNCHANGED <<running, authUser, asked, main, counter, worker, user, queue, nextId,
                     callbacks, pipeline, stream, speaker, made, acked, failed>>
  BY DEF ServerReads, authVars, localVars
<1>2. running /\ requests' \in Seq(Batches \cup {Handshake})
  BY <1>1, RunningIfBusy, RequestTaken DEF Inv
<1>3. AccountsInv'
  BY <1>1, LineKeepsAccounts DEF Inv, SameLine
<1>4. TypeOK'
  BY <1>1, <1>2 DEF Inv, TypeOK
<1> QED BY <1>1, <1>2, <1>3, <1>4 DEF Inv, NotFailed, Stopped

\* The server answers the handshake.
LEMMA ServerGreetsKeeps ==
  ASSUME Inv, ServerGreets
  PROVE  Inv'
<1>1. /\ ServerReads /\ Head(requests) = Handshake
      /\ responses' = Append(responses, Handshake) /\ doc' = doc /\ faults' = faults
  BY DEF ServerGreets
<1>2. /\ requests # <<>> /\ requests' = Tail(requests)
      /\ UNCHANGED <<running, user, queue, nextId, callbacks, pipeline, stream,
                     speaker, made, acked>>
  BY <1>1 DEF ServerReads, localVars
<1>3. /\ stream.state = "Open" /\ ~stream.handshake
      /\ requests = <<Handshake>> /\ responses = <<>>
  BY <1>1, <1>2, RequestTaken, RequestsAreRows DEF Inv
<1>4. requests' = <<>> /\ responses' = <<Handshake>>
  BY <1>1, <1>2, <1>3
<1>5. LineInv'
  BY <1>2, <1>3, <1>4 DEF Inv, LineInv, LineFlags, Expected, Started, Greeting, Wire
<1>6. RowsInv'
  BY <1>1, <1>2, RowsStay DEF Inv
<1>7. responses' \in Seq(Batches \cup {Handshake, Refused})
  BY <1>1, ResponsePut DEF Inv
<1> QED BY <1>1, <1>5, <1>6, <1>7, ServerKeeps DEF Inv, TypeOK

\* The server refuses what it reads.
LEMMA ServerRefusesKeeps ==
  ASSUME Inv, ServerRefuses
  PROVE  Inv'
<1>1. /\ ServerReads /\ responses' = Append(responses, Refused) /\ doc' = doc
      /\ faults' \in 0..MaxFaults /\ ~IsRefused
  BY CountsFaults DEF ServerRefuses, ServerReads, Inv, TypeOK
<1>2. /\ requests # <<>> /\ requests' = Tail(requests)
      /\ UNCHANGED <<running, user, queue, nextId, callbacks, pipeline, stream,
                     speaker, made, acked>>
  BY <1>1 DEF ServerReads, localVars
<1>3. PICK last \in Nat : last = Len(responses)
  BY WireType DEF Inv
<1>4. /\ Len(responses') = last + 1 /\ responses'[last + 1] = Refused
      /\ responses' \in Seq(Batches \cup {Handshake, Refused})
      /\ \A n \in 1..last : responses'[n] = responses[n]
  BY <1>1, <1>3, ResponsePut DEF Inv
<1>5. LineInv'
  <2>1. CASE ~stream.handshake
    <3>1. stream.state = "Open" /\ requests = <<Handshake>> /\ responses = <<>>
      BY <1>2, <2>1, RequestsAreRows DEF Inv
    <3>2. requests' = <<>> /\ responses' = <<Refused>>
      BY <1>1, <1>2, <3>1
    <3> QED BY <1>2, <2>1, <3>1, <3>2 DEF Inv, LineInv, LineFlags, Expected, Started, Greeting, Wire
  <2>2. CASE stream.handshake
    <3>1. /\ stream.state = "Open" /\ Len(requests) \in Nat \ {0}
          /\ Len(requests') = Len(requests) - 1
          /\ \A n \in 1..Len(requests') : requests'[n] = requests[n + 1]
      BY <1>2, RequestsAreRows, RequestTaken DEF Inv
    <3>2. /\ last + Len(requests) = Len(pipeline)
          /\ \A n \in 1..last : responses[n] = pipeline[n] /\ pipeline[n].write <= doc[user]
          /\ \A n \in 1..Len(requests) : requests[n] = pipeline[last + n]
      BY <1>1, <1>3, <2>2 DEF Inv, LineInv, Wire, IsRefused
    <3>3. \A n \in 1..Len(requests') : requests'[n] = pipeline[(last + 1) + n]
      <4> SUFFICES ASSUME NEW n \in 1..Len(requests')
                   PROVE  requests'[n] = pipeline[(last + 1) + n]
        OBVIOUS
      <4>1. n + 1 \in 1..Len(requests) /\ last + (n + 1) = (last + 1) + n
        BY <1>3, <3>1
      <4>2. requests[n + 1] = pipeline[last + (n + 1)]
        BY <3>2, <4>1
      <4> QED BY <3>1, <4>1, <4>2
    <3>4. Wire'
      <4>1. Len(responses') + Len(requests') = Len(pipeline')
        BY <1>2, <1>4, <3>1, <3>2
      <4>2. ASSUME NEW n \in 1..Len(responses')
            PROVE  \/ responses'[n] = pipeline'[n] /\ pipeline'[n].write <= doc'[user']
                   \/ n = Len(responses') /\ responses'[n] = Refused
        <5>1. CASE n = last + 1
          BY <1>4, <5>1
        <5>2. CASE n \in 1..last
          BY <1>1, <1>2, <1>4, <3>2, <5>2
        <5> QED BY <1>4, <5>1, <5>2
      <4>3. \A n \in 1..Len(requests') : requests'[n] = pipeline'[Len(responses') + n]
        BY <1>2, <1>4, <3>3
      <4> QED BY <4>1, <4>2, <4>3 DEF Wire
    <3> QED BY <1>2, <2>2, <3>1, <3>4 DEF Inv, LineInv, LineFlags, Expected, Started, Greeting
  <2> QED BY <2>1, <2>2
<1>6. RowsInv'
  BY <1>1, <1>2, RowsStay DEF Inv
<1> QED BY <1>1, <1>4, <1>5, <1>6, ServerKeeps DEF Inv, TypeOK

\* The server applies the write it reads.
LEMMA ServerAppliesKeeps ==
  ASSUME Inv, ServerApplies
  PROVE  Inv'
<1> DEFINE b == requests[1]
<1>1. /\ ServerReads /\ Head(requests) # Handshake /\ faults' = faults
      /\ responses' = Append(responses, Head(requests))
      /\ doc' = [doc EXCEPT ![user] = Head(requests).write] /\ ~IsRefused
  BY DEF ServerApplies, ServerReads
<1>2. /\ requests # <<>> /\ requests' = Tail(requests)
      /\ UNCHANGED <<running, user, queue, nextId, callbacks, pipeline, stream,
                     speaker, made, acked>>
  BY <1>1 DEF ServerReads, localVars
<1>3. PICK last \in Nat : last = Len(responses)
  BY WireType DEF Inv
<1>4. /\ stream.state = "Open" /\ stream.handshake /\ Head(requests) = b
      /\ b = pipeline[last + 1] /\ b \in Batches /\ last + 1 \in 1..Len(pipeline)
      /\ Len(requests) \in Nat \ {0} /\ Len(requests') = Len(requests) - 1
      /\ \A n \in 1..Len(requests') : requests'[n] = requests[n + 1]
  <2>1. Head(requests) = b
    BY <1>2, RequestTaken DEF Inv
  <2>2. stream.handshake
    <3>1. requests = <<Handshake>> => b = Handshake
      OBVIOUS
    <3> QED BY <1>1, <1>2, <2>1, <3>1, RequestsAreRows DEF Inv
  <2> QED BY <1>2, <1>3, <2>1, <2>2, RequestsAreRows, RequestTaken DEF Inv
<1> HIDE DEF b
<1>5. /\ Len(responses') = last + 1 /\ responses'[last + 1] = b
      /\ responses' \in Seq(Batches \cup {Handshake, Refused})
      /\ \A n \in 1..last : responses'[n] = responses[n]
  BY <1>1, <1>3, <1>4, ResponsePut DEF Inv
<1>6. /\ user \in Clients /\ doc \in [Clients -> 0..MaxWrites]
      /\ b.write \in 1..MaxWrites /\ MaxWrites \in Nat
  BY <1>4, PipelineAssumption DEF Inv, TypeOK, Batches
<1>7. /\ doc' \in [Clients -> 0..MaxWrites] /\ doc'[user] = b.write
      /\ \A c \in Clients : c # user => doc'[c] = doc[c]
  BY <1>1, <1>4, <1>6
<1>8. /\ acked[user] \in Nat /\ acked[user] < b.write
      /\ \A n \in 1..last : pipeline[n].write \in Nat /\ pipeline[n].write <= b.write
  <2>1. /\ b = queue[user][last + 1] /\ last + 1 \in 1..Len(queue[user])
        /\ Len(queue[user]) \in Nat
        /\ \A n \in 1..last : pipeline[n] = queue[user][n] /\ n \in 1..Len(queue[user])
    BY <1>4, PipelineRows DEF Inv
  <2>2. acked[user] < b.write
    BY <1>6, <2>1 DEF Inv, RowsInv, RowsOf
  <2>3. acked[user] \in Nat
    BY <1>6 DEF Inv, TypeOK
  <2>4. \A n \in 1..last : queue[user][n].write < b.write
    BY <2>1, PipelineRows DEF Inv, Ascending
  <2>5. \A n \in 1..last : queue[user][n].write \in Nat
    <3> SUFFICES ASSUME NEW n \in 1..last PROVE queue[user][n].write \in Nat
      OBVIOUS
    <3>1. queue[user][n] \in Batches
      BY <2>1, PipelineRows DEF Inv
    <3> QED BY <3>1 DEF Batches
  <2>6. ASSUME NEW n \in 1..last
        PROVE  pipeline[n].write \in Nat /\ pipeline[n].write <= b.write
    <3>1. queue[user][n].write < b.write /\ queue[user][n].write \in Nat
      BY <2>4, <2>5
    <3>2. b.write \in Nat /\ pipeline[n] = queue[user][n]
      BY <1>6, <2>1
    <3> QED BY <3>1, <3>2
  <2> QED BY <2>2, <2>3, <2>6
<1>9. /\ last + Len(requests) = Len(pipeline)
      /\ \A n \in 1..last : responses[n] = pipeline[n]
      /\ \A n \in 1..Len(requests) : requests[n] = pipeline[last + n]
  BY <1>1, <1>3, <1>4 DEF Inv, LineInv, Wire, IsRefused
<1>10. Wire'
  <2>1. ASSUME NEW n \in 1..Len(requests') PROVE requests'[n] = pipeline[(last + 1) + n]
    <3>1. n + 1 \in 1..Len(requests) /\ last + (n + 1) = (last + 1) + n
      BY <1>4
    <3>2. requests[n + 1] = pipeline[last + (n + 1)]
      BY <1>9, <3>1
    <3> QED BY <1>4, <3>1, <3>2
  <2>2. Len(responses') + Len(requests') = Len(pipeline')
    BY <1>2, <1>4, <1>5, <1>9
  <2>3. ASSUME NEW n \in 1..Len(responses')
        PROVE  responses'[n] = pipeline'[n] /\ pipeline'[n].write <= doc'[user']
    <3>1. CASE n = last + 1
      BY <1>2, <1>4, <1>5, <1>6, <1>7, <3>1
    <3>2. CASE n \in 1..last
      BY <1>2, <1>5, <1>7, <1>8, <1>9, <3>2
    <3> QED BY <1>5, <3>1, <3>2
  <2> QED BY <1>2, <1>5, <2>1, <2>2, <2>3 DEF Wire
<1>11. LineInv'
  BY <1>2, <1>4, <1>10 DEF Inv, LineInv, LineFlags, Expected, Started, Greeting
<1>12. RowsInv'
  <2>1. AckedNotUndone'
    <3> SUFFICES ASSUME NEW c \in Clients PROVE acked'[c] <= doc'[c]
      BY DEF AckedNotUndone
    <3>1. acked[c] <= doc[c]
      BY DEF Inv, RowsInv, AckedNotUndone
    <3>2. CASE c = user
      BY <1>2, <1>6, <1>7, <1>8, <3>2
    <3> QED BY <1>2, <1>7, <3>1, <3>2
  <2>2. \A c \in Clients : RowsOf(c)' /\ RowsWaited(c)'
    BY <1>2 DEF Inv, RowsInv, RowsOf, RowsWaited, Ascending
  <2>3. pipeline' = IF running' THEN First(queue'[user']) ELSE <<>>
    BY <1>2 DEF Inv, RowsInv, First
  <2> QED BY <2>1, <2>2, <2>3 DEF RowsInv
<1> QED BY <1>1, <1>5, <1>7, <1>11, <1>12, ServerKeeps DEF Inv, TypeOK

\* The first row of the pipeline is the first of the queue.
LEMMA FirstRow ==
  ASSUME TypeOK, RowsInv, pipeline # <<>>
  PROVE  /\ running /\ Answerable /\ Head(pipeline) = queue[user][1] /\ Head(pipeline) = pipeline[1]
         /\ 1 \in 1..Len(queue[user]) /\ queue[user][1] \in Batches
         /\ Without(queue[user], Head(pipeline).id) = Tail(queue[user])
         /\ Tail(queue[user]) \in Seq(Batches) /\ Ascending(Tail(queue[user]))
         /\ Len(queue[user]) \in Nat /\ Len(Tail(queue[user])) = Len(queue[user]) - 1
         /\ \A n \in 1..Len(Tail(queue[user])) : Tail(queue[user])[n] = queue[user][n + 1]
<1>1. /\ running /\ queue[user] \in Seq(Batches) /\ Ascending(queue[user]) /\ queue[user] # <<>>
      /\ pipeline \in Seq(Batches) /\ Len(pipeline) \in Nat
      /\ \A n \in 1..Len(pipeline) : pipeline[n] = queue[user][n]
      /\ \A n \in 1..Len(queue[user]) : queue[user][n] \in Batches
  BY PipelineRows
<1>2. Head(pipeline) = pipeline[1] /\ 1 \in 1..Len(pipeline)
  BY <1>1, HeadTailProperties, EmptySeq
<1>3. Head(pipeline) = queue[user][1]
  BY <1>1, <1>2
<1>4. /\ Without(queue[user], queue[user][1].id) = Tail(queue[user])
      /\ Tail(queue[user]) \in Seq(Batches)
      /\ Len(queue[user]) \in Nat \ {0} /\ Len(Tail(queue[user])) = Len(queue[user]) - 1
      /\ \A n \in 1..Len(Tail(queue[user])) : Tail(queue[user])[n] = queue[user][n + 1]
  BY <1>1, WithoutFirst
<1>5. Ascending(Tail(queue[user]))
  BY <1>1, <1>4 DEF Ascending
<1>6. Answerable
  BY <1>3, <1>4 DEF Answerable, Ids
<1> QED BY <1>1, <1>2, <1>3, <1>4, <1>5, <1>6

\* What is left of the pipeline is the front of what is left of the queue.
LEMMA PipelineLeft ==
  ASSUME TypeOK, RowsInv, pipeline # <<>>
  PROVE  /\ Tail(pipeline) \in Seq(Batches) /\ Len(pipeline) \in Nat \ {0}
         /\ Len(Tail(pipeline)) = Len(pipeline) - 1
         /\ Len(Tail(pipeline)) <= Len(Tail(queue[user]))
         /\ Len(Tail(pipeline)) <= kMaxPendingWrites
         /\ \A n \in 1..Len(Tail(pipeline)) : /\ Tail(pipeline)[n] = Tail(queue[user])[n]
                                              /\ Tail(pipeline)[n] = pipeline[n + 1]
<1>1. /\ pipeline \in Seq(Batches) /\ Len(pipeline) \in Nat
      /\ Len(pipeline) <= kMaxPendingWrites /\ Len(pipeline) <= Len(queue[user])
      /\ \A n \in 1..Len(pipeline) : pipeline[n] = queue[user][n]
  BY PipelineRows
<1>2. /\ Tail(pipeline) \in Seq(Batches) /\ Len(pipeline) \in Nat \ {0}
      /\ Len(Tail(pipeline)) = Len(pipeline) - 1
      /\ \A n \in 1..Len(Tail(pipeline)) : Tail(pipeline)[n] = pipeline[n + 1]
  BY <1>1, HeadTailProperties, EmptySeq
<1>3. /\ Len(queue[user]) \in Nat /\ Len(Tail(queue[user])) = Len(queue[user]) - 1
      /\ \A n \in 1..Len(Tail(queue[user])) : Tail(queue[user])[n] = queue[user][n + 1]
  BY FirstRow
<1>4. /\ Len(Tail(pipeline)) <= Len(Tail(queue[user]))
      /\ Len(Tail(pipeline)) <= kMaxPendingWrites
  BY <1>1, <1>2, <1>3, PipelineAssumption
<1>5. ASSUME NEW n \in 1..Len(Tail(pipeline))
      PROVE  Tail(pipeline)[n] = Tail(queue[user])[n]
  <2>1. n + 1 \in 1..Len(pipeline) /\ n \in 1..Len(Tail(queue[user]))
    BY <1>2, <1>3, <1>4
  <2>2. pipeline[n + 1] = queue[user][n + 1]
    BY <1>1, <2>1
  <2> QED BY <1>2, <1>3, <2>1, <2>2
<1> QED BY <1>2, <1>4, <1>5

\* The first row is answered and leaves the queue with its completion.
LEMMA FirstRowGone ==
  ASSUME TypeOK, RowsInv, pipeline # <<>>, UNCHANGED <<running, user, nextId, made, doc>>,
         queue' = [queue EXCEPT ![user] = Tail(queue[user])],
         callbacks' = [callbacks EXCEPT ![user] =
                         {x \in callbacks[user] : x.id # Head(pipeline).id}],
         pipeline' = First(Tail(queue[user])),
         \/ acked' = acked
         \/ /\ acked' = [acked EXCEPT ![user] = Head(pipeline).write]
            /\ Head(pipeline).write <= doc[user]
  PROVE  /\ RowsInv'
         /\ queue' \in [Clients -> Seq(Batches)]
         /\ callbacks' \in [Clients -> SUBSET Batches]
         /\ pipeline' \in Seq(Batches) /\ Len(pipeline') <= kMaxPendingWrites
         /\ acked' \in [Clients -> 0..MaxWrites]
<1> DEFINE q == queue[user]
           r == Tail(queue[user])
           b == queue[user][1]
<1>1. /\ running /\ Head(pipeline) = b /\ 1 \in 1..Len(q) /\ b \in Batches
      /\ r \in Seq(Batches) /\ Ascending(r)
      /\ Len(q) \in Nat /\ Len(r) = Len(q) - 1
      /\ \A n \in 1..Len(r) : r[n] = q[n + 1]
  BY FirstRow
<1>2. /\ user \in Clients /\ queue \in [Clients -> Seq(Batches)]
      /\ callbacks \in [Clients -> SUBSET Batches]
      /\ acked \in [Clients -> 0..MaxWrites] /\ doc \in [Clients -> 0..MaxWrites]
  BY DEF TypeOK
<1>3. /\ queue'[user] = r /\ \A c \in Clients : c # user => queue'[c] = queue[c]
      /\ queue' \in [Clients -> Seq(Batches)]
  BY <1>1, <1>2
<1>4. /\ callbacks'[user] = {x \in callbacks[user] : x.id # b.id}
      /\ \A c \in Clients : c # user => callbacks'[c] = callbacks[c]
      /\ callbacks' \in [Clients -> SUBSET Batches]
  BY <1>1, <1>2
<1>5. /\ acked' \in [Clients -> 0..MaxWrites]
      /\ acked'[user] \in {acked[user], b.write}
      /\ acked'[user] = b.write => b.write <= doc[user] \/ acked[user] = b.write
      /\ \A c \in Clients : c # user => acked'[c] = acked[c]
  <2>1. b.write \in 0..MaxWrites
    BY <1>1, PipelineAssumption DEF Batches
  <2>2. CASE acked' = acked
    BY <1>2, <2>2
  <2>3. CASE acked' = [acked EXCEPT ![user] = b.write] /\ b.write <= doc[user]
    BY <1>2, <2>1, <2>3
  <2> QED BY <1>1, <2>2, <2>3
<1>6. pipeline' \in Seq(Batches) /\ Len(pipeline') <= kMaxPendingWrites
  BY <1>1, FirstRows
<1>7. /\ \A n \in 1..Len(q) : /\ q[n].id < nextId /\ acked[user] < q[n].write
                              /\ q[n].write <= made /\ q[n] \in Batches
      /\ \A m, n \in 1..Len(q) : m < n => q[m].id < q[n].id /\ q[m].write < q[n].write
      /\ RowsWaited(user)
  BY <1>2, PipelineRows DEF RowsInv, RowsOf, Ascending
<1> HIDE DEF q, r, b
<1>8. ASSUME NEW n \in 1..Len(r)
      PROVE  /\ r[n].id < nextId /\ acked'[user] < r[n].write
             /\ r[n].write <= made
  <2>1. /\ n + 1 \in 1..Len(q) /\ 1 < n + 1 /\ r[n] = q[n + 1] /\ b = q[1]
    BY <1>1 DEF b, q
  <2>2. b.write < q[n + 1].write
    BY <1>1, <1>7, <2>1
  <2> QED BY <1>5, <1>7, <2>1, <2>2
<1>9. RowsOf(user)'
  <2>1. Ascending(queue[user])'
    BY <1>1, <1>3 DEF Ascending
  <2>2. acked'[user] <= made
    <3>1. acked[user] <= made
      BY <1>2 DEF RowsInv, RowsOf
    <3>2. b.write <= made
      BY <1>1, <1>7 DEF b, q
    <3> QED BY <1>5, <3>1, <3>2
  <2> QED BY <1>3, <1>8, <2>1, <2>2 DEF RowsOf
<1>10. RowsWaited(user)'
  <2>0. user' = user /\ queue'[user'] = r
    BY <1>3
  <2> SUFFICES ASSUME NEW x \in callbacks'[user]
               PROVE  \E n \in 1..Len(r) : r[n] = x
    BY <2>0, Zenon DEF RowsWaited
  <2>1. PICK n \in 1..Len(q) : q[n] = x
    BY <1>4, <1>7 DEF RowsWaited, q
  <2>2. n # 1
    BY <1>4, <2>1 DEF b, q
  <2>3. n - 1 \in 1..Len(r) /\ r[n - 1] = q[n]
    BY <1>1, <2>2
  <2> QED BY <2>1, <2>3
<1>11. ASSUME NEW c \in Clients, c # user PROVE RowsOf(c)' /\ RowsWaited(c)'
  <2>1. /\ queue'[c] = queue[c] /\ callbacks'[c] = callbacks[c] /\ acked'[c] = acked[c]
        /\ nextId' = nextId /\ made' = made
    BY <1>3, <1>4, <1>5, <1>11
  <2>2. RowsOf(c) /\ RowsWaited(c)
    BY DEF RowsInv
  <2>3. RowsOf(c)'
    BY <2>1, <2>2 DEF RowsOf, Ascending
  <2>4. RowsWaited(c)'
    BY <2>1, <2>2, Zenon DEF RowsWaited
  <2> QED BY <2>3, <2>4
<1>12. AckedNotUndone'
  <2> SUFFICES ASSUME NEW c \in Clients PROVE acked'[c] <= doc[c]
    BY DEF AckedNotUndone
  <2>1. acked[c] <= doc[c]
    BY DEF RowsInv, AckedNotUndone
  <2> QED BY <1>5, <2>1
<1>13. pipeline' = IF running' THEN First(queue'[user']) ELSE <<>>
  BY <1>1, <1>3 DEF r
<1> QED BY <1>2, <1>3, <1>4, <1>5, <1>6, <1>9, <1>10, <1>11, <1>12, <1>13 DEF RowsInv

\* The requests are the end of the pipeline p, after the first `last'.
Follow(reqs, p, last) ==
  last + Len(reqs) = Len(p) /\ \A n \in 1..Len(reqs) : reqs[n] = p[last + n]

\* What is put behind the requests is put behind the pipeline.
LEMMA WireExtends ==
  ASSUME NEW p \in Seq(Batches), NEW new \in Seq(Batches),
         NEW reqs \in Seq(Batches \cup {Handshake}), NEW last \in Nat,
         Follow(reqs, p, last)
  PROVE  /\ reqs \o new \in Seq(Batches \cup {Handshake})
         /\ Follow(reqs \o new, p \o new, last)
         /\ \A n \in 1..last : (p \o new)[n] = p[n]
<1>0. last + Len(reqs) = Len(p) /\ \A n \in 1..Len(reqs) : reqs[n] = p[last + n]
  BY DEF Follow
<1>1. new \in Seq(Batches \cup {Handshake})
  BY ElementOfSeq, LenProperties
<1>2. /\ reqs \o new \in Seq(Batches \cup {Handshake})
      /\ Len(reqs \o new) = Len(reqs) + Len(new)
      /\ \A n \in 1..Len(reqs) + Len(new) :
           (reqs \o new)[n] = IF n <= Len(reqs) THEN reqs[n] ELSE new[n - Len(reqs)]
  BY <1>1, ConcatProperties
<1>3. /\ Len(p \o new) = Len(p) + Len(new)
      /\ \A n \in 1..Len(p) + Len(new) :
           (p \o new)[n] = IF n <= Len(p) THEN p[n] ELSE new[n - Len(p)]
  BY ConcatProperties
<1>4. Len(reqs) \in Nat /\ Len(p) \in Nat /\ Len(new) \in Nat
  BY LenProperties
<1>5. ASSUME NEW n \in 1..Len(reqs \o new)
      PROVE  (reqs \o new)[n] = (p \o new)[last + n]
  <2>1. n \in 1..(Len(reqs) + Len(new)) /\ last + n \in 1..(Len(p) + Len(new))
    BY <1>0, <1>2, <1>4
  <2>2. CASE n <= Len(reqs)
    <3>1. last + n <= Len(p) /\ n \in 1..Len(reqs)
      BY <1>0, <1>4, <2>1, <2>2
    <3>2. (p \o new)[last + n] = p[last + n]
      BY <1>3, <2>1, <3>1
    <3> QED BY <1>0, <1>2, <2>1, <2>2, <3>1, <3>2
  <2>3. CASE Len(reqs) < n
    <3> DEFINE k == Len(reqs)
               j == Len(p)
    <3>0. k \in Nat /\ n \in Nat /\ k < n /\ j = last + k
      BY <1>0, <1>2, <1>4, <2>1, <2>3
    <3> HIDE DEF k, j
    <3>a. ~(last + n <= j) /\ (last + n) - j = n - k /\ ~(n <= k)
      BY <3>0
    <3>1. ~(last + n <= Len(p)) /\ (last + n) - Len(p) = n - Len(reqs) /\ ~(n <= Len(reqs))
      BY <3>a DEF k, j
    <3>2. (p \o new)[last + n] = new[n - Len(reqs)]
      BY <1>3, <2>1, <3>1
    <3> QED BY <1>2, <2>1, <3>1, <3>2
  <2> QED BY <1>4, <2>1, <2>2, <2>3
<1>6. ASSUME NEW n \in 1..last PROVE (p \o new)[n] = p[n]
  <2>1. n \in 1..(Len(p) + Len(new)) /\ n <= Len(p)
    BY <1>0, <1>4
  <2> QED BY <1>3, <2>1
<1>7. last + Len(reqs \o new) = Len(p \o new)
  <2> DEFINE a == Len(reqs)
             b == Len(p)
             c == Len(new)
  <2>1. Len(reqs \o new) = a + c /\ Len(p \o new) = b + c /\ last + a = b
    BY <1>0, <1>2, <1>3
  <2>2. a \in Nat /\ b \in Nat /\ c \in Nat
    BY <1>4
  <2> HIDE DEF a, b, c
  <2> QED BY <2>1, <2>2
<1> QED BY <1>2, <1>5, <1>6, <1>7 DEF Follow

Extensible(p, new, reqs, last) ==
  /\ p \in Seq(Batches) /\ new \in Seq(Batches)
  /\ reqs \in Seq(Batches \cup {Handshake}) /\ last \in Nat
  /\ Follow(reqs, p, last)

Extended(p, new, reqs, last) ==
  /\ reqs \o new \in Seq(Batches \cup {Handshake})
  /\ Follow(reqs \o new, p \o new, last)
  /\ \A n \in 1..last : (p \o new)[n] = p[n]

\* The same in one word.
LEMMA WireExtended ==
  ASSUME NEW p, NEW new, NEW reqs, NEW last, Extensible(p, new, reqs, last)
  PROVE  Extended(p, new, reqs, last)
BY WireExtends DEF Extensible, Extended

\* The pipeline p of an open stream is filled from the queue q.
LEMMA FilledOpen ==
  ASSUME TypeOK, LineInv, stream.state = "Open", stream.handshake,
         NEW STATE q, q \in Seq(Batches), Ascending(q),
         NEW STATE p, p \in Seq(Batches), Len(p) <= Len(q), Len(p) <= kMaxPendingWrites,
         \A n \in 1..Len(p) : p[n] = q[n],
         stream.idle => p = <<>>,
         FillWritePipeline(p, q, stream, requests),
         UNCHANGED <<user, speaker>>,
         NEW last \in Nat, last = Len(responses'),
         Follow(requests, p, last),
         \A n \in 1..last : \/ responses'[n] = p[n] /\ p[n].write <= doc'[user]
                            \/ n = last /\ responses'[n] = Refused
  PROVE  /\ LineInv' /\ SameLine /\ stream' \in Streams /\ pipeline' = First(q)
         /\ requests' \in Seq(Batches \cup {Handshake})
<1> DEFINE new == NextBatches(p, q)
<1>1. stream \in Streams /\ requests \in Seq(Batches \cup {Handshake})
  BY DEF TypeOK, Streams
<1>2. p \o new = First(q) /\ new \in Seq(Batches)
  BY Filled
<1>3. /\ pipeline' = First(q) /\ stream' \in Streams
      /\ stream'.count = stream.count /\ stream'.handshake
      /\ stream'.idle => First(q) = <<>>
      /\ stream'.state = "Open" /\ stream'.backoff = stream.backoff /\ asked' = asked
      /\ requests' = requests \o new \/ (new = <<>> /\ requests' = requests)
  <2>1. \/ /\ stream.state = "Open" /\ stream.handshake
           /\ requests' = requests \o NextBatches(p, q)
        \/ NextBatches(p, q) = <<>> /\ requests' = requests
        \/ ~(stream.state = "Open" /\ stream.handshake) /\ requests' = requests
    BY <1>1, FillEffect
  <2>2. /\ pipeline' = First(q)
        /\ stream' \in Streams
        /\ stream'.count = stream.count /\ stream'.handshake = stream.handshake
        /\ stream'.idle => stream.state = "Open" /\ First(q) = <<>>
        /\ \/ /\ Started(stream) \/ First(q) = <<>>
              /\ stream'.state = stream.state /\ stream'.backoff = stream.backoff
              /\ asked' = asked
           \/ /\ First(q) # <<>> /\ stream.state = "Error" /\ stream'.state = "Backoff"
              /\ stream'.backoff = TRUE /\ asked' = asked
           \/ /\ First(q) # <<>> /\ stream.state = "Initial" /\ stream'.state = "Starting"
              /\ stream'.backoff = stream.backoff
              /\ asked' = asked \cup {GetToken(stream.count)}
    BY <1>1, FillEffect
  <2>3. requests' = requests \o new \/ (new = <<>> /\ requests' = requests)
    BY <2>1
  <2>4. Started(stream)
    BY DEF Started
  <2> HIDE DEF new
  <2> QED BY <2>2, <2>3, <2>4
<1> HIDE DEF new
<1>4. requests' = requests \o new
  <2>1. requests \o <<>> = requests
    BY <1>1, ConcatEmptySeq
  <2> QED BY <1>3, <2>1
<1>5. /\ requests' \in Seq(Batches \cup {Handshake})
      /\ last + Len(requests') = Len(pipeline')
      /\ \A n \in 1..Len(requests') : requests'[n] = pipeline'[last + n]
      /\ \A n \in 1..last : pipeline'[n] = p[n]
  <2>1. /\ requests \o new \in Seq(Batches \cup {Handshake})
        /\ Follow(requests \o new, p \o new, last)
        /\ \A n \in 1..last : (p \o new)[n] = p[n]
    <3>1. Extensible(p, new, requests, last)
      BY <1>1, <1>2 DEF Extensible
    <3>2. Extended(p, new, requests, last)
      BY <3>1, WireExtended
    <3> QED BY <3>2 DEF Extended
  <2>2. Follow(requests', pipeline', last)
    BY <1>2, <1>3, <1>4, <2>1
  <2> QED BY <1>2, <1>3, <1>4, <2>1, <2>2 DEF Follow
<1>6. Wire'
  <2>1. Len(responses') + Len(requests') = Len(pipeline')
    BY <1>5
  <2>2. \A n \in 1..Len(responses') :
          \/ responses'[n] = pipeline'[n] /\ pipeline'[n].write <= doc'[user']
          \/ n = Len(responses') /\ responses'[n] = Refused
    BY <1>5
  <2>3. \A n \in 1..Len(requests') : requests'[n] = pipeline'[Len(responses') + n]
    BY <1>5
  <2> QED BY <2>1, <2>2, <2>3 DEF Wire
<1>7. LineInv'
  BY <1>3, <1>6 DEF LineInv, LineFlags, Expected, Started, Greeting
<1> QED BY <1>3, <1>5, <1>7 DEF SameLine

\* The server greets: the pipeline is sent.
LEMMA HandshakeCompleteKeeps ==
  ASSUME Inv, OnStreamRead, OnHandshakeComplete
  PROVE  Inv'
<1>1. /\ responses # <<>> /\ Head(responses) # Refused /\ responses' = Tail(responses)
      /\ ~stream.handshake /\ requests' = requests \o pipeline
      /\ stream' = [stream EXCEPT !.handshake = TRUE, !.idle = @ /\ pipeline = <<>>]
      /\ UNCHANGED <<running, authUser, asked, main, counter, worker, user, queue, nextId,
                     callbacks, pipeline, speaker, made, doc, acked, faults, failed>>
  BY DEF OnStreamRead, OnHandshakeComplete, localVars
<1>2. /\ running /\ stream.state = "Open" /\ stream \in Streams /\ pipeline # <<>>
      /\ stream.backoff = FALSE
  BY <1>1, RunningIfBusy DEF Inv, LineInv, LineFlags, Expected, Started, TypeOK, Streams
<1>3. requests = <<>> /\ responses' = <<>>
  <2>1. responses # <<Refused>>
    <3>1. Head(<<Refused>>) = Refused
      OBVIOUS
    <3> QED BY <1>1, <3>1
  <2>2. requests = <<>> /\ responses = <<Handshake>>
    BY <1>1, <1>2, <2>1 DEF Inv, LineInv, Greeting
  <2>3. Tail(<<Handshake>>) = <<>>
    OBVIOUS
  <2> QED BY <1>1, <2>2, <2>3
<1>4. /\ stream' \in Streams /\ stream'.state = "Open" /\ stream'.handshake
      /\ stream'.idle = FALSE /\ stream'.backoff = FALSE /\ stream'.count = stream.count
  BY <1>1, <1>2 DEF Streams
<1>5. /\ requests' = pipeline /\ pipeline \in Seq(Batches) /\ Len(pipeline) \in Nat
      /\ pipeline \in Seq(Batches \cup {Handshake})
  <2>1. pipeline \in Seq(Batches) /\ Len(pipeline) \in Nat
    BY PipelineRows DEF Inv
  <2>2. <<>> \o pipeline = pipeline
    BY <2>1, ConcatEmptySeq
  <2>3. pipeline \in Seq(Batches \cup {Handshake})
    BY <2>1, ElementOfSeq, LenProperties
  <2> QED BY <1>1, <1>3, <2>1, <2>2, <2>3
<1>6. Wire'
  <2>1. Len(responses') = 0 /\ pipeline' = pipeline
    BY <1>1, <1>3, EmptyWire
  <2>2. Len(responses') + Len(requests') = Len(pipeline')
    BY <1>5, <2>1
  <2>3. \A n \in 1..Len(requests') : requests'[n] = pipeline'[Len(responses') + n]
    BY <1>5, <2>1
  <2> QED BY <2>1, <2>2, <2>3 DEF Wire
<1>7. LineInv'
  BY <1>1, <1>2, <1>4, <1>6 DEF Inv, LineInv, LineFlags, Expected, Started, Greeting
<1>8. SameLine
  BY <1>1, <1>2, <1>4 DEF SameLine
<1>9. /\ AccountsInv' /\ Stopped'
      /\ asked' \in SUBSET [count : Nat, counter : Nat, as : SUBSET Clients]
  BY <1>1, <1>2, <1>4, <1>8, LineHandler
<1>10. RowsInv'
  BY <1>1, RowsStay DEF Inv
<1>11. TypeOK'
  BY <1>1, <1>3, <1>4, <1>5, <1>9, EmptyWire DEF TypeOK, Inv, Streams
<1> QED BY <1>1, <1>7, <1>9, <1>10, <1>11 DEF Inv, NotFailed

\* What is read after the greeting is the answer to the first of the pipeline.
LEMMA ResultIsOfFirst ==
  ASSUME Inv, responses # <<>>, Head(responses) # Refused, stream.handshake
  PROVE  /\ stream.state = "Open" /\ pipeline # <<>> /\ stream.idle = FALSE
         /\ Head(pipeline).write <= doc[user]
         /\ Follow(requests, Tail(pipeline), Len(Tail(responses)))
         /\ \A n \in 1..Len(Tail(responses)) :
              \/ /\ Tail(responses)[n] = Tail(pipeline)[n]
                 /\ Tail(pipeline)[n].write <= doc[user]
              \/ n = Len(Tail(responses)) /\ Tail(responses)[n] = Refused
<1> DEFINE rest == Tail(responses)
           left == Tail(pipeline)
<1>1. /\ Len(responses) \in Nat \ {0} /\ Head(responses) = responses[1]
      /\ Len(rest) = Len(responses) - 1
      /\ \A n \in 1..Len(rest) : rest[n] = responses[n + 1]
  BY ResponseTaken DEF Inv
<1>2. pipeline \in Seq(Batches) /\ Len(pipeline) \in Nat /\ Len(requests) \in Nat
  BY PipelineRows, WireType DEF Inv
<1>3. /\ Len(responses) + Len(requests) = Len(pipeline)
      /\ \A n \in 1..Len(responses) :
           \/ responses[n] = pipeline[n] /\ pipeline[n].write <= doc[user]
           \/ n = Len(responses) /\ responses[n] = Refused
      /\ \A n \in 1..Len(requests) : requests[n] = pipeline[Len(responses) + n]
  BY DEF Inv, LineInv, Wire
<1>4. pipeline # <<>> /\ Len(pipeline) \in Nat \ {0}
  <2>1. Len(pipeline) \in Nat \ {0}
    <3>1. Len(responses) \in Nat \ {0} /\ Len(requests) \in Nat
      BY <1>1, <1>2
    <3>2. Len(responses) + Len(requests) = Len(pipeline)
      BY <1>3
    <3> QED BY <1>2, <3>1, <3>2
  <2> QED BY <1>2, <2>1, EmptySeq
<1>5. /\ Head(pipeline) = pipeline[1] /\ Len(left) = Len(pipeline) - 1
      /\ \A n \in 1..Len(left) : left[n] = pipeline[n + 1]
  BY <1>2, <1>4, HeadTailProperties
<1> HIDE DEF rest, left
<1>6. stream.state = "Open" /\ stream.idle = FALSE
  BY <1>4 DEF Inv, LineInv, LineFlags, TypeOK
<1>7. Head(pipeline).write <= doc[user]
  <2>1. 1 \in 1..Len(responses) /\ responses[1] # Refused
    BY <1>1
  <2> QED BY <1>3, <1>5, <2>1
<1>8. Follow(requests, left, Len(rest))
  <2>1. Len(rest) + Len(requests) = Len(left)
    BY <1>1, <1>2, <1>3, <1>5
  <2>2. ASSUME NEW n \in 1..Len(requests)
        PROVE  requests[n] = left[Len(rest) + n]
    <3> DEFINE k == Len(rest) + n
    <3>1. k \in 1..Len(left) /\ k + 1 = Len(responses) + n
      BY <1>1, <1>2, <1>3, <1>5
    <3>2. requests[n] = pipeline[Len(responses) + n]
      BY <1>3
    <3> HIDE DEF k
    <3>3. requests[n] = left[k]
      BY <1>5, <3>1, <3>2
    <3> QED BY <3>3 DEF k
  <2> QED BY <2>1, <2>2 DEF Follow
<1>9. ASSUME NEW n \in 1..Len(rest)
      PROVE  \/ /\ rest[n] = left[n]
                /\ left[n].write <= doc[user]
             \/ n = Len(rest) /\ rest[n] = Refused
  <2>1. n + 1 \in 1..Len(responses) /\ n \in 1..Len(left)
    BY <1>1, <1>2, <1>3, <1>5
  <2>2. \/ responses[n + 1] = pipeline[n + 1] /\ pipeline[n + 1].write <= doc[user]
        \/ n + 1 = Len(responses) /\ responses[n + 1] = Refused
    BY <1>3, <2>1
  <2>3. n + 1 = Len(responses) => n = Len(rest)
    BY <1>1
  <2> QED BY <1>1, <1>5, <2>1, <2>2, <2>3
<1> QED BY <1>4, <1>6, <1>7, <1>8, <1>9 DEF rest, left

\* The first of the pipeline leaves it and the queue.
LEMMA MutationResultKeeps ==
  ASSUME Inv, OnStreamRead, OnMutationResult
  PROVE  Inv'
<1> DEFINE q == Tail(queue[user])
           p == Tail(pipeline)
<1>1. /\ responses # <<>> /\ Head(responses) # Refused /\ responses' = Tail(responses)
      /\ stream.handshake
      /\ UNCHANGED <<running, authUser, main, counter, worker, speaker, user, nextId, made,
                     doc, faults>>
  BY DEF OnStreamRead, OnMutationResult
<1>2. running
  BY <1>1, RunningIfBusy
<1>3. /\ stream.state = "Open" /\ pipeline # <<>> /\ stream.idle = FALSE
      /\ Head(pipeline).write <= doc[user]
      /\ Follow(requests, p, Len(responses'))
      /\ \A n \in 1..Len(responses') :
           \/ responses'[n] = p[n] /\ p[n].write <= doc'[user]
           \/ n = Len(responses') /\ responses'[n] = Refused
  BY <1>1, ResultIsOfFirst
<1>4. /\ Answerable /\ Without(queue[user], Head(pipeline).id) = q
      /\ q \in Seq(Batches) /\ Ascending(q)
  BY <1>3, FirstRow DEF Inv
<1>5. /\ p \in Seq(Batches) /\ Len(p) <= Len(q) /\ Len(p) <= kMaxPendingWrites
      /\ \A n \in 1..Len(p) : p[n] = q[n]
  BY <1>3, PipelineLeft DEF Inv
<1>6. /\ Answered(stream, requests)
      /\ acked' = [acked EXCEPT ![user] = Head(pipeline).write]
      /\ failed' = failed
  BY <1>4 DEF OnMutationResult
<1>7. /\ queue' = [queue EXCEPT ![user] = q]
      /\ callbacks' = [callbacks EXCEPT ![user] =
                         {x \in callbacks[user] : x.id # Head(pipeline).id}]
      /\ FillWritePipeline(p, q, stream, requests)
  BY <1>4, <1>6 DEF Answered, Notify
<1> HIDE DEF q, p
<1>8. PICK last \in Nat : last = Len(responses')
  <2>1. Len(Tail(responses)) \in Nat
    BY <1>1, ResponseTaken DEF Inv
  <2> QED BY <1>1, <2>1
<1>9. /\ LineInv' /\ SameLine /\ stream' \in Streams /\ pipeline' = First(q)
      /\ requests' \in Seq(Batches \cup {Handshake})
  <2>1. /\ Follow(requests, p, last)
        /\ \A n \in 1..last : \/ responses'[n] = p[n] /\ p[n].write <= doc'[user]
                              \/ n = last /\ responses'[n] = Refused
    BY <1>3, <1>8
  <2>2. stream.idle => p = <<>>
    BY <1>3
  <2> QED BY <1>1, <1>3, <1>4, <1>5, <1>7, <1>8, <2>1, <2>2, FilledOpen DEF Inv
<1>10. /\ RowsInv'
       /\ queue' \in [Clients -> Seq(Batches)]
       /\ callbacks' \in [Clients -> SUBSET Batches]
       /\ pipeline' \in Seq(Batches) /\ Len(pipeline') <= kMaxPendingWrites
       /\ acked' \in [Clients -> 0..MaxWrites]
  BY <1>1, <1>3, <1>6, <1>7, <1>9, FirstRowGone DEF Inv, q
<1>11. /\ AccountsInv' /\ Stopped'
       /\ asked' \in SUBSET [count : Nat, counter : Nat, as : SUBSET Clients]
  BY <1>1, <1>2, <1>9, LineHandler
<1>12. responses' \in Seq(Batches \cup {Handshake, Refused})
  BY <1>1, ResponseTaken DEF Inv
<1>13. TypeOK'
  BY <1>1, <1>6, <1>9, <1>10, <1>11, <1>12 DEF TypeOK, Inv, Streams
<1> QED BY <1>6, <1>9, <1>10, <1>11, <1>13 DEF Inv, NotFailed

\* A response is read.
LEMMA StreamReadKeeps ==
  ASSUME Inv, OnStreamRead
  PROVE  Inv'
BY HandshakeCompleteKeeps, MutationResultKeeps DEF OnStreamRead

\* The stream finishes with an error that is the first write's.
LEMMA WriteErrorKeeps ==
  ASSUME Inv, IsRefused, HandleWriteError,
         UNCHANGED <<running, authUser, main, counter, worker, speaker, made,
                     doc, acked, faults>>
  PROVE  Inv'
<1> DEFINE q == Tail(queue[user])
           p == Tail(pipeline)
           st == Closed(stream, "Initial")
<1>1. pipeline # <<>> /\ responses' = <<>> /\ UNCHANGED <<user, nextId>>
  BY DEF HandleWriteError
<1>2. /\ running /\ Answerable /\ Without(queue[user], Head(pipeline).id) = q
      /\ q \in Seq(Batches) /\ Ascending(q)
  BY <1>1, FirstRow DEF Inv
<1>3. /\ p \in Seq(Batches) /\ Len(p) <= Len(q) /\ Len(p) <= kMaxPendingWrites
      /\ \A n \in 1..Len(p) : p[n] = q[n]
  BY <1>1, PipelineLeft DEF Inv
<1>4. Answered(st, <<>>) /\ failed' = failed
  BY <1>2 DEF HandleWriteError
<1>5. /\ queue' = [queue EXCEPT ![user] = q]
      /\ callbacks' = [callbacks EXCEPT ![user] =
                         {x \in callbacks[user] : x.id # Head(pipeline).id}]
      /\ FillWritePipeline(p, q, st, <<>>)
  BY <1>2, <1>4 DEF Answered, Notify
<1>6. /\ st \in Streams /\ st.state = "Initial" /\ ~st.handshake /\ ~st.idle /\ ~st.backoff
      /\ st.count = stream.count + 1
  BY ClosedIs DEF Inv
<1> HIDE DEF q, p, st
<1>7. /\ pipeline' = First(q) /\ requests' = <<>> /\ LineInv'
      /\ stream' \in Streams /\ stream'.count = st.count
      /\ \/ stream'.state # "Starting" /\ asked' = asked
         \/ stream'.state = "Starting" /\ asked' = asked \cup {GetToken(stream'.count)}
  BY <1>1, <1>2, <1>3, <1>5, <1>6, FilledAnew DEF Inv
<1>8. NewLine
  BY <1>6, <1>7 DEF NewLine
<1>9. /\ RowsInv'
      /\ queue' \in [Clients -> Seq(Batches)]
      /\ callbacks' \in [Clients -> SUBSET Batches]
      /\ pipeline' \in Seq(Batches) /\ Len(pipeline') <= kMaxPendingWrites
  BY <1>1, <1>5, <1>7, FirstRowGone DEF Inv, q
<1>10. /\ AccountsInv' /\ Stopped'
       /\ asked' \in SUBSET [count : Nat, counter : Nat, as : SUBSET Clients]
  BY <1>1, <1>2, <1>7, <1>8, LineHandler
<1>11. TypeOK'
  BY <1>1, <1>4, <1>7, <1>9, <1>10, EmptyWire DEF TypeOK, Inv, Streams
<1> QED BY <1>4, <1>7, <1>9, <1>10, <1>11 DEF Inv, NotFailed

\* The stream finishes with an error of its own.
LEMMA StreamErrorKeeps ==
  ASSUME Inv, running, CloseAndRetry, faults' \in 0..MaxFaults,
         UNCHANGED <<running, authUser, main, counter, worker, speaker, made,
                     doc, acked, failed>>
  PROVE  Inv'
<1>1. /\ UNCHANGED <<user, queue, nextId, callbacks, pipeline>>
      /\ requests' = <<>> /\ responses' = <<>> /\ LineInv' /\ NewLine
  BY CloseAndRetryEffect DEF Inv, localVars
<1>2. stream' \in Streams
  BY <1>1 DEF NewLine
<1>3. /\ AccountsInv' /\ Stopped'
      /\ asked' \in SUBSET [count : Nat, counter : Nat, as : SUBSET Clients]
  BY <1>1, <1>2, LineHandler
<1>4. RowsInv'
  BY <1>1, RowsStay DEF Inv
<1>5. TypeOK'
  BY <1>1, <1>2, <1>3, EmptyWire DEF TypeOK, Inv, Streams
<1> QED BY <1>1, <1>3, <1>4, <1>5 DEF Inv, NotFailed

\* The stream finishes with the server's error.
LEMMA StreamFinishKeeps ==
  ASSUME Inv, OnStreamFinish
  PROVE  Inv'
<1>1. /\ IsRefused
      /\ UNCHANGED <<running, authUser, main, counter, worker, speaker, made,
                     doc, acked, faults>>
  BY DEF OnStreamFinish
<1>2. responses # <<>>
  BY <1>1, EmptyWire DEF IsRefused
<1>3. running
  BY <1>2, RunningIfBusy
<1>4. CASE HandleWriteError
  BY <1>1, <1>4, WriteErrorKeeps
<1>5. CASE CloseAndRetry /\ failed' = failed
  BY <1>1, <1>3, <1>5, StreamErrorKeeps DEF Inv, TypeOK
<1> QED BY <1>4, <1>5 DEF OnStreamFinish

\* A row with the next id and the next write goes behind the others.
LEMMA RowAscends ==
  ASSUME TypeOK, RowsInv, made < MaxWrites,
         NEW b \in Batches, b = [id |-> nextId, write |-> made + 1]
  PROVE  Ascending(Append(queue[user], b))
<1> DEFINE q == queue[user]
           r == Append(queue[user], b)
<1>1. nextId \in Nat \ {0} /\ made \in Nat /\ b.id = nextId /\ b.write = made + 1
  BY DEF TypeOK
<1>2. /\ q \in Seq(Batches) /\ Len(q) \in Nat
      /\ Len(r) = Len(q) + 1 /\ r[Len(q) + 1] = b
      /\ \A n \in 1..Len(q) : r[n] = q[n]
  BY PipelineRows, AppendProperties
<1>3. /\ \A n \in 1..Len(q) : q[n] \in Batches /\ q[n].id < nextId /\ q[n].write <= made
      /\ Ascending(q)
  BY PipelineRows DEF RowsInv, RowsOf
<1> HIDE DEF q, r
<1> SUFFICES ASSUME NEW m \in 1..Len(r), NEW n \in 1..Len(r), m < n
             PROVE  r[m].id < r[n].id /\ r[m].write < r[n].write
  BY DEF Ascending, r
<1>4. m \in 1..Len(q) /\ r[m] = q[m]
  BY <1>2
<1>5. CASE n = Len(q) + 1
  BY <1>1, <1>2, <1>3, <1>4, <1>5 DEF Batches
<1>6. CASE n \in 1..Len(q)
  BY <1>2, <1>3, <1>4, <1>6 DEF Ascending
<1> QED BY <1>2, <1>5, <1>6

\* A row is put behind the queue, with the completion that waits for it.
LEMMA RowPut ==
  ASSUME TypeOK, RowsInv, running, made < MaxWrites,
         NEW STATE b, b = [id |-> nextId, write |-> made + 1],
         queue' = [queue EXCEPT ![user] = Append(queue[user], b)],
         callbacks' = [callbacks EXCEPT ![user] = callbacks[user] \cup {b}],
         pipeline' = First(Append(queue[user], b)),
         nextId' = nextId + 1, made' = made + 1,
         UNCHANGED <<running, user, doc, acked>>
  PROVE  /\ RowsInv'
         /\ queue' \in [Clients -> Seq(Batches)]
         /\ callbacks' \in [Clients -> SUBSET Batches]
         /\ pipeline' \in Seq(Batches) /\ Len(pipeline') <= kMaxPendingWrites
         /\ nextId' \in Nat \ {0} /\ made' \in 0..MaxWrites
<1> DEFINE q == queue[user]
           r == Append(queue[user], b)
<1>1. /\ user \in Clients /\ queue \in [Clients -> Seq(Batches)]
      /\ callbacks \in [Clients -> SUBSET Batches]
      /\ nextId \in Nat \ {0} /\ made \in Nat /\ MaxWrites \in Nat
      /\ acked \in [Clients -> 0..MaxWrites]
  <2>1. /\ user \in Clients /\ queue \in [Clients -> Seq(Batches)]
        /\ callbacks \in [Clients -> SUBSET Batches]
        /\ acked \in [Clients -> 0..MaxWrites]
    BY DEF TypeOK
  <2>2. nextId \in Nat \ {0} /\ made \in 0..MaxWrites /\ MaxWrites \in Nat
    BY PipelineAssumption DEF TypeOK
  <2> QED BY <2>1, <2>2
<1>2. /\ b \in Batches /\ b.id = nextId /\ b.write = made + 1
      /\ nextId' \in Nat \ {0} /\ made' \in 0..MaxWrites
  BY <1>1 DEF Batches
<1>3. /\ q \in Seq(Batches) /\ Len(q) \in Nat
      /\ r \in Seq(Batches) /\ Len(r) = Len(q) + 1 /\ r[Len(q) + 1] = b
      /\ \A n \in 1..Len(q) : r[n] = q[n]
  BY <1>1, <1>2, AppendProperties, LenProperties
<1>4. /\ \A n \in 1..Len(q) : /\ q[n] \in Batches /\ q[n].id < nextId
                              /\ acked[user] < q[n].write /\ q[n].write <= made
      /\ Ascending(q) /\ RowsWaited(user)
  BY <1>1, PipelineRows DEF RowsInv, RowsOf
<1>5. /\ queue'[user] = r /\ \A c \in Clients : c # user => queue'[c] = queue[c]
      /\ queue' \in [Clients -> Seq(Batches)]
  BY <1>1, <1>3
<1>6. /\ callbacks'[user] = callbacks[user] \cup {b}
      /\ \A c \in Clients : c # user => callbacks'[c] = callbacks[c]
      /\ callbacks' \in [Clients -> SUBSET Batches]
  BY <1>1, <1>2
<1>7. pipeline' \in Seq(Batches) /\ Len(pipeline') <= kMaxPendingWrites
  BY <1>3, FirstRows
<1>8. acked[user] \in Nat /\ acked[user] <= made
  <2>1. acked[user] <= made
    BY <1>1 DEF RowsInv, RowsOf
  <2> QED BY <1>1, <2>1
<1> HIDE DEF q, r
<1>9. ASSUME NEW n \in 1..Len(r)
      PROVE  /\ r[n].id < nextId' /\ acked[user] < r[n].write /\ r[n].write <= made'
  <2>1. CASE n = Len(q) + 1
    BY <1>1, <1>2, <1>3, <1>8, <2>1
  <2>2. CASE n \in 1..Len(q)
    <3>1. /\ q[n].id \in Nat /\ q[n].write \in Nat /\ q[n].id < nextId
          /\ acked[user] < q[n].write /\ q[n].write <= made
      BY <1>4, <2>2, <1>1 DEF Batches
    <3>2. r[n] = q[n] /\ nextId' = nextId + 1 /\ made' = made + 1
      BY <1>3, <2>2
    <3>3. nextId \in Nat /\ made \in Nat
      BY <1>1
    <3> QED BY <3>1, <3>2, <3>3
  <2> QED BY <1>3, <2>1, <2>2
<1>10. Ascending(r)
  BY <1>2, RowAscends DEF r
<1>11. RowsOf(user)'
  <2>1. Ascending(queue[user])'
    BY <1>5, <1>10 DEF Ascending
  <2>2. acked[user] <= made'
    BY <1>1, <1>8
  <2> QED BY <1>5, <1>9, <2>1, <2>2 DEF RowsOf
<1>12. RowsWaited(user)'
  <2>0. user' = user /\ queue'[user'] = r
    BY <1>5
  <2> SUFFICES ASSUME NEW x \in callbacks'[user]
               PROVE  \E n \in 1..Len(r) : r[n] = x
    BY <2>0, Zenon DEF RowsWaited
  <2>1. CASE x = b
    BY <1>3, <2>1
  <2>2. CASE x \in callbacks[user]
    <3>1. PICK n \in 1..Len(q) : q[n] = x
      BY <1>4, <2>2 DEF RowsWaited, q
    <3> QED BY <1>3, <3>1
  <2> QED BY <1>6, <2>1, <2>2
<1>13. ASSUME NEW c \in Clients, c # user PROVE RowsOf(c)' /\ RowsWaited(c)'
  <2>1. /\ queue'[c] = queue[c] /\ callbacks'[c] = callbacks[c] /\ acked'[c] = acked[c]
        /\ queue[c] \in Seq(Batches)
    BY <1>1, <1>5, <1>6, <1>13
  <2>2. RowsOf(c) /\ RowsWaited(c)
    BY DEF RowsInv
  <2>3. \A n \in 1..Len(queue[c]) : queue[c][n] \in Batches
    BY <2>1, ElementOfSeq, LenProperties
  <2>4. RowsOf(c)'
    <3>1. acked[c] \in Nat
      BY <1>1
    <3>2. Ascending(queue[c])' /\ acked[c] <= made
      BY <2>1, <2>2 DEF RowsOf, Ascending
    <3>3. ASSUME NEW n \in 1..Len(queue[c])
          PROVE  /\ queue[c][n].id < nextId' /\ queue[c][n].write <= made'
                 /\ acked[c] < queue[c][n].write
      <4>1. /\ queue[c][n].id < nextId /\ queue[c][n].write <= made
            /\ acked[c] < queue[c][n].write
        BY <2>2 DEF RowsOf
      <4>2. queue[c][n].id \in Nat /\ queue[c][n].write \in Nat
        BY <2>3 DEF Batches
      <4>3. /\ nextId \in Nat /\ nextId' = nextId + 1 /\ made \in Nat /\ made' = made + 1
        BY <1>1
      <4> QED BY <4>1, <4>2, <4>3
    <3>4. acked[c] <= made'
      BY <1>1, <3>1, <3>2
    <3> QED BY <2>1, <3>2, <3>3, <3>4 DEF RowsOf
  <2>5. RowsWaited(c)'
    BY <2>1, <2>2, Zenon DEF RowsWaited
  <2> QED BY <2>4, <2>5
<1>14. AckedNotUndone'
  BY DEF RowsInv, AckedNotUndone
<1>15. pipeline' = IF running' THEN First(queue'[user']) ELSE <<>>
  BY <1>1, <1>5 DEF r
<1>16. RowsInv'
  BY <1>1, <1>11, <1>12, <1>13, <1>14, <1>15 DEF RowsInv
<1> QED BY <1>2, <1>3, <1>5, <1>6, <1>7, <1>16

\* A write is made.
LEMMA WriteMutationsKeeps ==
  ASSUME Inv, WriteMutations
  PROVE  Inv'
<1> DEFINE b == [id |-> nextId, write |-> made + 1]
           q == Append(queue[user], b)
<1>1. /\ running /\ made < MaxWrites
      /\ queue' = [queue EXCEPT ![user] = q]
      /\ FillWritePipeline(pipeline, q, stream, requests)
      /\ nextId' = nextId + 1 /\ made' = made + 1
      /\ UNCHANGED <<running, authUser, main, counter, worker, user, speaker,
                     responses, doc, acked, faults, failed>>
  BY DEF WriteMutations
<1>2. ~ \E x \in callbacks[user] : x.id = nextId
  <2> SUFFICES ASSUME NEW x \in callbacks[user] PROVE x.id # nextId
    OBVIOUS
  <2>1. user \in Clients /\ nextId \in Nat
    BY DEF Inv, TypeOK
  <2>2. PICK n \in 1..Len(queue[user]) : queue[user][n] = x
    BY <2>1 DEF Inv, RowsInv, RowsWaited
  <2>3. queue[user][n].id < nextId /\ queue[user][n] \in Batches
    BY <2>1, PipelineRows DEF Inv, RowsInv, RowsOf
  <2> QED BY <2>1, <2>2, <2>3 DEF Batches
<1>3. callbacks' = [callbacks EXCEPT ![user] = callbacks[user] \cup {b}]
  BY <1>2 DEF WriteMutations
<1>4. /\ queue[user] \in Seq(Batches) /\ Len(queue[user]) \in Nat /\ Ascending(queue[user])
      /\ pipeline \in Seq(Batches) /\ Len(pipeline) \in Nat
      /\ Len(pipeline) <= kMaxPendingWrites /\ Len(pipeline) <= Len(queue[user])
      /\ \A n \in 1..Len(pipeline) : pipeline[n] = queue[user][n]
  BY PipelineRows DEF Inv
<1>5. b \in Batches /\ b = [id |-> nextId, write |-> made + 1]
  BY <1>1, PipelineAssumption DEF Inv, TypeOK, Batches
<1> HIDE DEF b
<1>6. /\ Len(q) = Len(queue[user]) + 1 /\ q \in Seq(Batches)
      /\ \A n \in 1..Len(queue[user]) : q[n] = queue[user][n]
  BY <1>4, <1>5, AppendProperties
<1>7. Ascending(q)
  BY <1>1, <1>5, RowAscends DEF Inv
<1> HIDE DEF q
<1>8. /\ Len(pipeline) <= Len(q) /\ \A n \in 1..Len(pipeline) : pipeline[n] = q[n]
  BY <1>4, <1>6
<1>9. stream \in Streams /\ (stream.idle => stream.state = "Open" /\ pipeline = <<>>)
  BY DEF Inv, TypeOK, Streams, LineInv, LineFlags
<1>10. stream.idle => stream.handshake
  BY <1>9 DEF Inv, LineInv, LineFlags, Expected, Started
<1>11. /\ LineInv' /\ (SameLine \/ NewLine) /\ stream' \in Streams /\ pipeline' = First(q)
       /\ requests' \in Seq(Batches \cup {Handshake})
  <2>1. CASE stream.state = "Open" /\ stream.handshake
    <3>1. PICK last \in Nat : last = Len(responses)
      BY WireType DEF Inv
    <3>2. /\ Follow(requests, pipeline, last)
          /\ \A n \in 1..last : \/ responses[n] = pipeline[n] /\ pipeline[n].write <= doc[user]
                                \/ n = last /\ responses[n] = Refused
      BY <2>1, <3>1 DEF Inv, LineInv, Wire, Follow
    <3>3. last = Len(responses')
      BY <1>1, <3>1
    <3>4. \A n \in 1..last : \/ responses'[n] = pipeline[n] /\ pipeline[n].write <= doc'[user]
                             \/ n = last /\ responses'[n] = Refused
      BY <1>1, <3>2
    <3> QED BY <1>1, <1>4, <1>6, <1>7, <1>8, <1>9, <2>1, <3>2, <3>3, <3>4, FilledOpen DEF Inv
  <2>2. CASE ~(stream.state = "Open" /\ stream.handshake)
    <3>0. stream.idle => stream.state = "Open" /\ stream.handshake /\ pipeline = <<>>
      BY <1>9, <1>10
    <3>1. /\ pipeline' = First(q)
          /\ stream' \in Streams
          /\ stream'.count = stream.count /\ stream'.handshake = stream.handshake
          /\ stream'.idle => stream.state = "Open" /\ First(q) = <<>>
          /\ \/ /\ Started(stream) \/ First(q) = <<>>
                /\ stream'.state = stream.state /\ stream'.backoff = stream.backoff
                /\ asked' = asked
             \/ /\ First(q) # <<>> /\ stream.state = "Error" /\ stream'.state = "Backoff"
                /\ stream'.backoff = TRUE /\ asked' = asked
             \/ /\ First(q) # <<>> /\ stream.state = "Initial" /\ stream'.state = "Starting"
                /\ stream'.backoff = stream.backoff
                /\ asked' = asked \cup {GetToken(stream.count)}
      BY <1>1, <1>4, <1>6, <1>7, <1>8, <1>9, <3>0, FillEffect DEF Inv
    <3>2. requests' = requests /\ responses' = responses
      <4>1. \/ /\ stream.state = "Open" /\ stream.handshake
               /\ requests' = requests \o NextBatches(pipeline, q)
            \/ NextBatches(pipeline, q) = <<>> /\ requests' = requests
            \/ ~(stream.state = "Open" /\ stream.handshake) /\ requests' = requests
        BY <1>1, <1>4, <1>6, <1>7, <1>8, <1>9, <1>10, FillEffect DEF Inv
      <4> QED BY <1>1, <2>2, <4>1
    <3>3. First(q) # <<>>
      <4>1. Len(q) # 0
        BY <1>4, <1>6
      <4> QED BY <1>6, <4>1, FirstRows, EmptySeq
    <3>4. ~stream.handshake
      BY <2>2 DEF Inv, LineInv, LineFlags
    <3>5. LineFlags' /\ Greeting' /\ Wire'
      <4>1. LineFlags'
        BY <1>1, <3>1, <3>2, <3>3, <3>4 DEF Inv, LineInv, LineFlags, Expected, Started, Streams
      <4>2. Greeting'
        BY <1>1, <3>1, <3>2, <3>3, <3>4 DEF Inv, LineInv, Greeting
      <4>3. Wire'
        BY <3>1, <3>4 DEF Wire
      <4> QED BY <4>1, <4>2, <4>3
    <3>6. SameLine \/ NewLine
      BY <3>1, <3>3 DEF SameLine, NewLine
    <3>7. requests' \in Seq(Batches \cup {Handshake})
      BY <3>2, WireType DEF Inv
    <3> QED BY <3>1, <3>5, <3>6, <3>7 DEF LineInv
  <2> QED BY <2>1, <2>2
<1>12. /\ RowsInv'
       /\ queue' \in [Clients -> Seq(Batches)]
       /\ callbacks' \in [Clients -> SUBSET Batches]
       /\ pipeline' \in Seq(Batches) /\ Len(pipeline') <= kMaxPendingWrites
       /\ nextId' \in Nat \ {0} /\ made' \in 0..MaxWrites
  BY <1>1, <1>3, <1>5, <1>11, RowPut DEF Inv, q
<1>13. /\ AccountsInv' /\ Stopped'
       /\ asked' \in SUBSET [count : Nat, counter : Nat, as : SUBSET Clients]
  BY <1>1, <1>11, LineHandler
<1>14. TypeOK'
  BY <1>1, <1>11, <1>12, <1>13 DEF TypeOK, Inv, Streams
<1> QED BY <1>1, <1>11, <1>12, <1>13, <1>14 DEF Inv, NotFailed

-------------------------------------------------------------------------------
(* The process ends and begins.                                            *)

\* What is not persisted is lost.
LEMMA ProcessEndsKeeps ==
  ASSUME Inv, ProcessEnds, failed' \in BOOLEAN, faults' \in 0..MaxFaults,
         UNCHANGED <<speaker, made, doc, acked>>
  PROVE  Kept'
<1>1. /\ running' = FALSE /\ asked' = {} /\ main' = <<>> /\ worker' = <<>> /\ counter' = 0
      /\ callbacks' = [c \in Clients |-> {}] /\ pipeline' = <<>> /\ stream' = Idle0
      /\ requests' = <<>> /\ responses' = <<>>
      /\ UNCHANGED <<authUser, user, queue, nextId, speaker, made, doc, acked>>
  BY DEF ProcessEnds
<1>2. \A c \in Clients : callbacks'[c] = {}
  BY <1>1
<1>3. RowsInv'
  <2>1. \A c \in Clients : RowsOf(c)' /\ RowsWaited(c)'
    BY <1>1, <1>2 DEF Inv, RowsInv, RowsOf, RowsWaited, Ascending
  <2> QED BY <1>1, <2>1 DEF Inv, RowsInv, AckedNotUndone
<1>4. LineInv'
  BY <1>1 DEF LineInv, LineFlags, Expected, Started, Greeting, Wire, Idle0
<1>5. AccountsInv'
  <2>1. LastChange'
    BY <1>1 DEF LastChange, Notify_, Credential
  <2>2. Counts' /\ OneLive' /\ RightUser'
    BY <1>1 DEF Counts, OneLive, RightUser, LiveAsked, LiveMain, LiveWorker, Token, Resume
  <2>3. Called'
    BY <1>1 DEF Called, Idle0
  <2> QED BY <2>1, <2>2, <2>3 DEF AccountsInv
<1>6. Stopped'
  BY <1>1 DEF Stopped
<1>7. stream' \in Streams
  BY <1>1 DEF Idle0, Streams
<1>8. callbacks' \in [Clients -> SUBSET Batches] /\ Len(pipeline') <= kMaxPendingWrites
  BY <1>1, PipelineAssumption
<1>9. main' \in Seq(MainBlocks) /\ worker' \in Seq(WorkerBlocks)
  BY <1>1, EmptySeq
<1>10. TypeOK'
  BY <1>1, <1>7, <1>8, <1>9, EmptyWire DEF Inv, TypeOK, Streams
<1> QED BY <1>3, <1>4, <1>5, <1>6, <1>10 DEF Kept

\* The process is killed.
LEMMA KillKeeps ==
  ASSUME Inv, Kill
  PROVE  Inv'
<1>1. ProcessEnds /\ faults' \in 0..MaxFaults /\ UNCHANGED <<speaker, made, doc, acked, failed>>
  BY CountsFaults DEF Kill, Inv
<1>2. failed \in BOOLEAN
  BY DEF Inv, TypeOK
<1>3. Kept'
  BY <1>1, <1>2, ProcessEndsKeeps
<1> QED BY <1>1, <1>3 DEF Inv, Kept, NotFailed

\* The server ends the stream: a graceful stop, or the end of the process.
LEMMA ServerEndsKeeps ==
  ASSUME Inv, ServerEnds
  PROVE  Kept'
<1>1. /\ stream.state = "Open" /\ faults' \in 0..MaxFaults
      /\ failed' = (pipeline # <<>>) /\ failed' \in BOOLEAN
      /\ IF pipeline = <<>> THEN StopGracefully ELSE ProcessEnds
      /\ UNCHANGED <<speaker, made, doc, acked>>
  BY CountsFaults DEF ServerEnds, Inv
<1>2. CASE pipeline = <<>>
  <2>1. StopGracefully /\ failed' = FALSE
    BY <1>1, <1>2
  <2>2. Inv'
    BY <1>1, <1>2, <2>1, GracefulStopKeeps
  <2> QED BY <2>2 DEF Inv, Kept
<1>3. CASE pipeline # <<>>
  <2>1. ProcessEnds
    BY <1>1, <1>3
  <2> QED BY <1>1, <2>1, ProcessEndsKeeps
<1> QED BY <1>2, <1>3

\* The queue of Auth's user is taken up again.
LEMMA LaunchKeeps ==
  ASSUME Inv, Launch
  PROVE  Inv'
<1> DEFINE q == queue[authUser]
<1>1. /\ ~running /\ running' = TRUE /\ user' = authUser /\ nextId' = LoadNextBatchId
      /\ FillWritePipeline(<<>>, q, stream, <<>>)
      /\ UNCHANGED <<authUser, main, counter, worker, queue, callbacks, speaker,
                     responses, made, doc, acked, faults, failed>>
  BY DEF Launch
<1>2. asked = {} /\ main = <<>> /\ worker = <<>> /\ stream = Idle0
  BY <1>1 DEF Inv, Stopped
<1>3. /\ stream \in Streams /\ stream.state = "Initial" /\ ~stream.handshake
      /\ ~stream.idle /\ ~stream.backoff /\ stream.count = 0
  BY <1>2 DEF Idle0, Streams
<1>4. responses' = <<>>
  BY <1>1, <1>3 DEF Inv, LineInv, LineFlags
<1>5. q \in Seq(Batches) /\ Ascending(q) /\ Len(q) \in Nat
  BY LenProperties DEF Inv, TypeOK, RowsInv, RowsOf
<1> HIDE DEF q
<1>6. /\ <<>> \in Seq(Batches) /\ Len(<<>>) <= Len(q) /\ Len(<<>>) <= kMaxPendingWrites
      /\ \A n \in 1..Len(<<>>) : <<>>[n] = q[n]
  BY <1>5, EmptyWire, PipelineAssumption
<1>7. /\ pipeline' = First(q) /\ requests' = <<>> /\ LineInv'
      /\ stream' \in Streams /\ stream'.count = stream.count
      /\ \/ stream'.state # "Starting" /\ asked' = asked
         \/ stream'.state = "Starting" /\ asked' = asked \cup {GetToken(stream'.count)}
  BY <1>1, <1>3, <1>4, <1>5, <1>6, FilledAnew DEF Inv
<1>8. NewLine
  BY <1>3, <1>7 DEF NewLine
<1>9. AccountsInv'
  <2>1. Counts' /\ OneLive' /\ Called' /\ RightUser'
    BY <1>1, <1>8, NewLineLive, NewLineCalls DEF Inv, AccountsInv
  <2>2. LastChange'
    BY <1>1, <1>2 DEF LastChange, Notify_, Credential
  <2> QED BY <2>1, <2>2 DEF AccountsInv
<1>10. /\ nextId' \in Nat \ {0}
       /\ \A c \in Clients : \A n \in 1..Len(queue[c]) : queue[c][n].id < nextId'
  BY <1>1, NextIdIsNew DEF Inv
<1>11. RowsInv'
  <2>1. \A c \in Clients : RowsOf(c)' /\ RowsWaited(c)'
    BY <1>1, <1>10 DEF Inv, RowsInv, RowsOf, RowsWaited, Ascending
  <2>2. pipeline' = IF running' THEN First(queue'[user']) ELSE <<>>
    BY <1>1, <1>7 DEF q
  <2> QED BY <1>1, <2>1, <2>2 DEF Inv, RowsInv, AckedNotUndone
<1>12. pipeline' \in Seq(Batches) /\ Len(pipeline') <= kMaxPendingWrites
  BY <1>5, <1>7, FirstRows
<1>13. asked' \in SUBSET [count : Nat, counter : Nat, as : SUBSET Clients]
  BY <1>8, AskedType DEF Inv
<1>14. TypeOK'
  BY <1>1, <1>4, <1>7, <1>10, <1>12, <1>13, EmptyWire DEF Inv, TypeOK, Streams
<1>15. Stopped'
  BY <1>1 DEF Stopped
<1> QED BY <1>1, <1>7, <1>9, <1>11, <1>14, <1>15 DEF Inv, NotFailed

-------------------------------------------------------------------------------
(* The specification.                                                      *)

\* The invariant holds at first.
LEMMA InitInv == Init => Inv
<1> SUFFICES ASSUME Init PROVE Inv
  OBVIOUS
<1>1. \A c \in Clients : queue[c] = <<>> /\ callbacks[c] = {} /\ doc[c] = 0 /\ acked[c] = 0
  BY DEF Init
<1>2. /\ queue \in [Clients -> Seq(Batches)] /\ callbacks \in [Clients -> SUBSET Batches]
      /\ doc \in [Clients -> 0..MaxWrites] /\ acked \in [Clients -> 0..MaxWrites]
  BY EmptyWire, PipelineAssumption DEF Init
<1>3. main \in Seq(MainBlocks) /\ worker \in Seq(WorkerBlocks)
  BY EmptySeq DEF Init
<1>4. TypeOK
  <2>1. stream \in Streams
    BY DEF Init, Idle0, Streams
  <2>2. /\ pipeline \in Seq(Batches) /\ Len(pipeline) <= kMaxPendingWrites
        /\ requests \in Seq(Batches \cup {Handshake})
        /\ responses \in Seq(Batches \cup {Handshake, Refused})
    BY EmptyWire, PipelineAssumption DEF Init
  <2>3. /\ authUser \in Clients /\ user \in Clients /\ speaker \in Clients
        /\ asked \in SUBSET [count : Nat, counter : Nat, as : SUBSET Clients]
        /\ counter \in Nat /\ nextId \in Nat \ {0}
        /\ made \in 0..MaxWrites /\ faults \in 0..MaxFaults
    BY PipelineAssumption DEF Init
  <2>4. running \in BOOLEAN /\ failed \in BOOLEAN
    BY Zenon DEF Init
  <2> QED BY <1>2, <1>3, <2>1, <2>2, <2>3, <2>4 DEF TypeOK, Streams
<1>5. RowsInv
  BY <1>1 DEF Init, RowsInv, RowsOf, RowsWaited, Ascending, AckedNotUndone
<1>6. LineInv
  BY DEF Init, LineInv, LineFlags, Expected, Started, Greeting, Wire, Idle0
<1>7. AccountsInv
  <2>1. LastChange
    BY DEF Init, LastChange, Notify_, Credential
  <2>2. Counts /\ OneLive /\ RightUser
    BY DEF Init, Counts, OneLive, RightUser, LiveAsked, LiveMain, LiveWorker, Token, Resume
  <2>3. Called
    BY DEF Init, Called, Idle0
  <2> QED BY <2>1, <2>2, <2>3 DEF AccountsInv
<1>8. Stopped /\ NotFailed
  BY DEF Init, Stopped, NotFailed
<1> QED BY <1>4, <1>5, <1>6, <1>7, <1>8 DEF Inv

\* It holds when nothing changes.
LEMMA StutterKeeps ==
  ASSUME Kept, UNCHANGED vars
  PROVE  Kept'
<1>1. UNCHANGED <<running, authUser, asked, main, counter, worker, user, queue, nextId,
                  callbacks, pipeline, stream, speaker, requests, responses, made, doc,
                  acked, faults, failed>>
  BY DEF vars, authVars, localVars, wireVars
<1>2. RowsInv'
  BY <1>1, RowsStay DEF Kept
<1>3. AccountsInv'
  BY <1>1, LineKeepsAccounts DEF Kept, SameLine
<1>4. LineInv'
  BY <1>1 DEF Kept, LineInv, LineFlags, Expected, Started, Greeting, Wire
<1>5. TypeOK' /\ Stopped'
  BY <1>1 DEF Kept, TypeOK, Stopped
<1> QED BY <1>2, <1>3, <1>4, <1>5 DEF Kept

\* Every step but one keeps it and fails no assertion.
LEMMA StepKeeps ==
  ASSUME Inv, Next
  PROVE  Inv' \/ ServerEnds
<1>1. CASE Launch
  BY <1>1, LaunchKeeps
<1>2. CASE Kill
  BY <1>2, KillKeeps
<1>3. CASE WriteMutations
  BY <1>3, WriteMutationsKeeps
<1>4. ASSUME NEW u \in Clients, AuthChanges(u) PROVE Inv'
  BY <1>4, AuthChangesKeeps
<1>5. ASSUME NEW r \in asked, AuthAnswers(r) PROVE Inv'
  BY <1>5, AuthAnswersKeeps
<1>6. CASE RunMain
  BY <1>6, RunMainKeeps
<1>7. CASE RunWorker
  BY <1>7, RunWorkerKeeps
<1>8. CASE OnStreamRead
  BY <1>8, StreamReadKeeps
<1>9. CASE OnStreamFinish
  BY <1>9, StreamFinishKeeps
<1>10. CASE StreamBreaks
  BY <1>10, StreamBreaksKeeps
<1>11. CASE BackoffElapses
  BY <1>11, BackoffElapsesKeeps
<1>12. CASE IdleTimeout
  BY <1>12, IdleTimeoutKeeps
<1>13. CASE ConnectivityChanges
  BY <1>13, ConnectivityChangesKeeps
<1>14. CASE ServerGreets
  BY <1>14, ServerGreetsKeeps
<1>15. CASE ServerApplies
  BY <1>15, ServerAppliesKeeps
<1>16. CASE ServerRefuses
  BY <1>16, ServerRefusesKeeps
<1> QED BY <1>1, <1>2, <1>3, <1>4, <1>5, <1>6, <1>7, <1>8, <1>9, <1>10, <1>11, <1>12,
           <1>13, <1>14, <1>15, <1>16 DEF Next

\* Where a step is taken no assertion has failed.
LEMMA StepsNotFailed == Kept /\ Next => Inv
BY DEF Next, Kept, Inv, NotFailed

\* It holds after every step.
LEMMA NextInv == Kept /\ [Next]_vars => Kept'
<1> SUFFICES ASSUME Kept, [Next]_vars PROVE Kept'
  OBVIOUS
<1>1. CASE Next
  <2>1. Inv
    BY <1>1, StepsNotFailed
  <2>2. Inv' \/ ServerEnds
    BY <1>1, <2>1, StepKeeps
  <2>3. Inv' => Kept'
    BY DEF Inv, Kept
  <2> QED BY <2>1, <2>2, <2>3, ServerEndsKeeps
<1>2. CASE UNCHANGED vars
  BY <1>2, StutterKeeps
<1> QED BY <1>1, <1>2

\* The rows, the line and the accounts stay as the invariant has them.
THEOREM WritePipelineInvariant == Spec => []Kept
<1>1. Init => Kept
  BY InitInv DEF Inv, Kept
<1>2. Kept /\ [Next]_vars => Kept'
  BY NextInv
<1> QED BY <1>1, <1>2, PTL DEF Spec

\* Variables keep their types, and the pipeline its limit.
THEOREM WritePipelineTypeOK == Spec => []TypeOK
<1>1. Kept => TypeOK
  BY DEF Kept
<1> QED BY <1>1, WritePipelineInvariant, PTL

\* An assertion that fails is that of a stream which the server itself ends with OK
\* while writes wait.  A result is never for an empty pipeline or for a batch that
\* is not in the queue, the idle timer never stops a stream that is needed, and no
\* token and no timer reaches a stream that has moved on.
THEOREM FailsOnlyOnServerEndHolds == Spec => FailsOnlyOnServerEnd
<1>1. Kept /\ [Next]_vars => [failed' => failed \/ (ServerEnds /\ pipeline # <<>>)]_vars
  <2> SUFFICES ASSUME Kept, Next, failed' PROVE ServerEnds /\ pipeline # <<>>
    BY DEF Next
  <2>1. Inv' \/ ServerEnds
    BY StepsNotFailed, StepKeeps
  <2>2. ServerEnds
    BY <2>1 DEF Inv, NotFailed
  <2>3. failed' = (pipeline # <<>>)
    BY <2>2 DEF ServerEnds
  <2> QED BY <2>2, <2>3
<1> QED BY <1>1, WritePipelineInvariant, PTL DEF Spec, FailsOnlyOnServerEnd

\* The stream that sends a user's writes was opened with the user's token.
THEOREM SentAsItsUserHolds == Spec => []SentAsItsUser
<1>1. Kept => SentAsItsUser
  BY DEF Kept, LineInv, LineFlags, SentAsItsUser
<1> QED BY <1>1, WritePipelineInvariant, PTL

\* The server never goes back behind a write that was acknowledged.
THEOREM AckedNotUndoneHolds == Spec => []AckedNotUndone
<1>1. Kept => AckedNotUndone
  BY DEF Kept, RowsInv
<1> QED BY <1>1, WritePipelineInvariant, PTL

\* A completion waits for a row of the queue, and no other row has its id.
LEMMA CompletionsFollow == Kept => CompletionIsItsWrites
<1> SUFFICES ASSUME Kept, NEW c \in Clients, NEW x \in callbacks[c]
             PROVE  /\ \E n \in 1..Len(queue[c]) : queue[c][n] = x
                    /\ \A n \in 1..Len(queue[c]) : queue[c][n].id = x.id => queue[c][n] = x
  BY DEF CompletionIsItsWrites
<1>1. PICK m \in 1..Len(queue[c]) : queue[c][m] = x
  BY DEF Kept, RowsInv, RowsWaited
<1>2. Ascending(queue[c]) /\ queue[c] \in Seq(Batches)
  BY DEF Kept, RowsInv, RowsOf, TypeOK
<1>3. \A n \in 1..Len(queue[c]) : queue[c][n].id \in Nat
  <2>1. \A n \in 1..Len(queue[c]) : queue[c][n] \in Batches
    BY <1>2, ElementOfSeq, LenProperties
  <2> QED BY <2>1 DEF Batches
<1>4. ASSUME NEW n \in 1..Len(queue[c]), queue[c][n].id = x.id PROVE n = m
  <2>1. Len(queue[c]) \in Nat
    BY <1>2, LenProperties
  <2>2. n < m \/ n = m \/ m < n
    BY <2>1
  <2>3. ~(n < m) /\ ~(m < n)
    BY <1>1, <1>2, <1>3, <1>4 DEF Ascending
  <2> QED BY <2>2, <2>3
<1> QED BY <1>1, <1>4

\* A completion is called for the write it was given with.
THEOREM CompletionIsItsWritesHolds == Spec => []CompletionIsItsWrites
<1> QED BY CompletionsFollow, WritePipelineInvariant, PTL

\* While the user has writes that wait, something is under way that goes on with
\* them: a backoff timer, a message on the wire, or a call of getToken or its
\* answer for this very start of the stream.
NoWriteIsStranded ==
  running /\ queue[user] # <<>> =>
    stream.backoff \/ requests # <<>> \/ responses # <<>> \/ CallIsOut

LEMMA NothingStranded == Kept => NoWriteIsStranded
<1> SUFFICES ASSUME Kept, running, queue[user] # <<>>
             PROVE  stream.backoff \/ requests # <<>> \/ responses # <<>> \/ CallIsOut
  BY DEF NoWriteIsStranded
<1>1. pipeline # <<>> /\ pipeline \in Seq(Batches)
  <2>1. queue[user] \in Seq(Batches) /\ pipeline = First(queue[user])
    BY PipelineRows DEF Kept
  <2>2. First(queue[user]) \in Seq(Batches) /\ (First(queue[user]) = <<>> <=> queue[user] = <<>>)
    BY <2>1, FirstRows
  <2> QED BY <2>1, <2>2
<1>2. Started(stream)
  BY <1>1 DEF Kept, LineInv, LineFlags
<1>3. CASE stream.state = "Starting"
  BY <1>3 DEF Kept, AccountsInv, Called
<1>4. CASE stream.state = "Backoff"
  BY <1>4 DEF Kept, LineInv, LineFlags
<1>5. CASE stream.state = "Open" /\ ~stream.handshake
  BY <1>5 DEF Kept, LineInv, Greeting
<1>6. CASE stream.handshake
  <2>1. Len(responses) + Len(requests) = Len(pipeline)
    BY <1>6 DEF Kept, LineInv, Wire
  <2>2. Len(pipeline) \in Nat /\ Len(pipeline) # 0
    BY <1>1, LenProperties, EmptySeq
  <2>3. requests = <<>> /\ responses = <<>> => Len(requests) = 0 /\ Len(responses) = 0
    BY EmptySeq
  <2> QED BY <2>1, <2>2, <2>3
<1> QED BY <1>2, <1>3, <1>4, <1>5, <1>6 DEF Started

\* No handler leaves a write of the signed-in user behind with no stream on its
\* way, no timer and no message: what WriteIsAnswered needs of every state.
THEOREM NoWriteIsStrandedHolds == Spec => []NoWriteIsStranded
<1> QED BY NothingStranded, WritePipelineInvariant, PTL

-------------------------------------------------------------------------------
(* The pipeline implements WriteQueue.                                     *)

\* The writes of the rows q, and of all queues.
WritesIn(q) == [n \in 1..Len(q) |-> q[n].write]
Queues == [c \in Clients |-> WritesIn(queue[c])]

\* As many writes as rows, in their order.
LEMMA WritesOf ==
  ASSUME NEW q \in Seq(Batches)
  PROVE  /\ WritesIn(q) \in Seq(1..MaxWrites) /\ Len(WritesIn(q)) = Len(q) /\ Len(q) \in Nat
         /\ \A n \in 1..Len(q) : WritesIn(q)[n] = q[n].write
         /\ WritesIn(q) = <<>> <=> q = <<>>
<1>1. Len(q) \in Nat /\ \A n \in 1..Len(q) : q[n] \in Batches
  BY LenProperties, ElementOfSeq
<1>2. \A n \in 1..Len(q) : q[n].write \in 1..MaxWrites
  BY <1>1 DEF Batches
<1>3. WritesIn(q) \in Seq(1..MaxWrites)
  BY <1>1, <1>2, IsASeq DEF WritesIn
<1>4. Len(WritesIn(q)) = Len(q) /\ \A n \in 1..Len(q) : WritesIn(q)[n] = q[n].write
  BY <1>1, <1>3, LenProperties DEF WritesIn
<1>5. WritesIn(q) = <<>> <=> q = <<>>
  BY <1>1, <1>3, <1>4, EmptySeq
<1> QED BY <1>1, <1>3, <1>4, <1>5

\* Without the first row its write is missing.
LEMMA WritesOfTail ==
  ASSUME NEW q \in Seq(Batches), q # <<>>
  PROVE  WritesIn(Tail(q)) = Tail(WritesIn(q))
<1> DEFINE w == WritesIn(q)
           r == Tail(q)
<1>1. /\ r \in Seq(Batches) /\ Len(r) = Len(q) - 1
      /\ \A n \in 1..Len(r) : r[n] = q[n + 1]
  BY HeadTailProperties
<1>2. /\ w \in Seq(1..MaxWrites) /\ Len(w) = Len(q) /\ Len(q) \in Nat /\ w # <<>>
      /\ \A n \in 1..Len(q) : w[n] = q[n].write
  BY WritesOf
<1>3. /\ WritesIn(r) \in Seq(1..MaxWrites) /\ Len(WritesIn(r)) = Len(r)
      /\ \A n \in 1..Len(r) : WritesIn(r)[n] = r[n].write
  BY <1>1, WritesOf
<1> HIDE DEF w, r
<1>4. /\ Tail(w) \in Seq(1..MaxWrites) /\ Len(Tail(w)) = Len(w) - 1
      /\ \A n \in 1..Len(Tail(w)) : Tail(w)[n] = w[n + 1]
  BY <1>2, HeadTailProperties
<1>5. ASSUME NEW n \in 1..Len(r) PROVE WritesIn(r)[n] = Tail(w)[n]
  <2>1. n + 1 \in 1..Len(q) /\ n \in 1..Len(Tail(w))
    BY <1>1, <1>2, <1>4
  <2> QED BY <1>1, <1>2, <1>3, <1>4, <2>1
<1>6. Len(WritesIn(r)) = Len(Tail(w))
  BY <1>1, <1>2, <1>3, <1>4
<1>7. WritesIn(r) = Tail(w)
  BY <1>3, <1>4, <1>5, <1>6, SeqEqual
<1> QED BY <1>7 DEF w, r

\* With a row its write comes last.
LEMMA WritesOfAppend ==
  ASSUME NEW q \in Seq(Batches), NEW b \in Batches
  PROVE  WritesIn(Append(q, b)) = WritesIn(q) \o <<b.write>>
<1> DEFINE w == WritesIn(q)
           r == Append(q, b)
           v == <<b.write>>
<1>1. /\ r \in Seq(Batches) /\ Len(r) = Len(q) + 1 /\ r[Len(q) + 1] = b
      /\ \A n \in 1..Len(q) : r[n] = q[n]
  BY AppendProperties
<1>2. /\ w \in Seq(1..MaxWrites) /\ Len(w) = Len(q) /\ Len(q) \in Nat
      /\ \A n \in 1..Len(q) : w[n] = q[n].write
  BY WritesOf
<1>3. /\ WritesIn(r) \in Seq(1..MaxWrites) /\ Len(WritesIn(r)) = Len(r)
      /\ \A n \in 1..Len(r) : WritesIn(r)[n] = r[n].write
  BY <1>1, WritesOf
<1>4. b.write \in 1..MaxWrites
  BY DEF Batches
<1>5. v \in Seq(1..MaxWrites) /\ Len(v) = 1 /\ v[1] = b.write
  BY <1>4
<1> HIDE DEF w, r, v
<1>6. /\ w \o v \in Seq(1..MaxWrites) /\ Len(w \o v) = Len(w) + Len(v)
      /\ \A n \in 1..Len(w) + Len(v) :
           (w \o v)[n] = IF n <= Len(w) THEN w[n] ELSE v[n - Len(w)]
  <2> DEFINE S == 1..MaxWrites
  <2>1. w \in Seq(S) /\ v \in Seq(S)
    BY <1>2, <1>5
  <2> HIDE DEF S
  <2>2. /\ w \o v \in Seq(S) /\ Len(w \o v) = Len(w) + Len(v)
        /\ \A n \in 1..Len(w) + Len(v) :
             (w \o v)[n] = IF n <= Len(w) THEN w[n] ELSE v[n - Len(w)]
    BY <2>1, ConcatProperties
  <2> QED BY <2>2 DEF S
<1>7. Len(WritesIn(r)) = Len(w \o v)
  BY <1>1, <1>2, <1>3, <1>5, <1>6
<1>8. ASSUME NEW n \in 1..Len(WritesIn(r)) PROVE WritesIn(r)[n] = (w \o v)[n]
  <2>1. n \in 1..(Len(w) + Len(v)) /\ n \in 1..Len(r)
    BY <1>1, <1>2, <1>3, <1>5
  <2>2. CASE n = Len(q) + 1
    <3>1. ~(n <= Len(w)) /\ n - Len(w) = 1
      BY <1>2, <2>2
    <3> QED BY <1>1, <1>3, <1>5, <1>6, <2>1, <2>2, <3>1
  <2>3. CASE n \in 1..Len(q)
    <3>1. n <= Len(w)
      BY <1>2, <2>3
    <3> QED BY <1>1, <1>2, <1>3, <1>6, <2>1, <2>3, <3>1
  <2> QED BY <1>1, <1>2, <2>1, <2>2, <2>3
<1>9. WritesIn(r) = w \o v
  BY <1>3, <1>6, <1>7, <1>8, SeqEqual
<1> QED BY <1>9 DEF w, r, v

\* What the queues are in WriteQueue.
LEMMA QueuesAre ==
  ASSUME TypeOK
  PROVE  /\ user \in Clients /\ Queues[user] = WritesIn(queue[user])
         /\ queue[user] \in Seq(Batches)
         /\ Queues = [c \in Clients |-> [n \in 1..Len(queue[c]) |-> queue[c][n].write]]
BY Zenon DEF TypeOK, Queues, WritesIn

\* A user's queue changes.
LEMMA QueueChanges ==
  ASSUME TypeOK, NEW q, queue' = [queue EXCEPT ![user] = q]
  PROVE  Queues' = [Queues EXCEPT ![user] = WritesIn(q)]
<1>1. user \in Clients /\ queue \in [Clients -> Seq(Batches)]
  BY DEF TypeOK
<1>2. queue'[user] = q /\ \A c \in Clients : c # user => queue'[c] = queue[c]
  BY <1>1
<1>3. ASSUME NEW c \in Clients
      PROVE  WritesIn(queue'[c]) = [Queues EXCEPT ![user] = WritesIn(q)][c]
  <2>1. CASE c = user
    BY <1>1, <1>2, <2>1 DEF Queues
  <2>2. CASE c # user
    BY <1>1, <1>2, <2>2 DEF Queues
  <2> QED BY <2>1, <2>2
<1>4. Queues' = [c \in Clients |-> WritesIn(queue'[c])]
  BY DEF Queues, WritesIn
<1>5. [Queues EXCEPT ![user] = WritesIn(q)] \in
        [Clients -> {[Queues EXCEPT ![user] = WritesIn(q)][c] : c \in Clients}]
  BY DEF Queues
<1> QED BY <1>3, <1>4, <1>5

\* How many have been applied.
LEMMA AcksAre ==
  ASSUME Inv
  PROVE  /\ Len(responses) \in Nat /\ Acks \in Nat
         /\ ~stream.handshake => Acks = 0
         /\ stream.handshake /\ ~IsRefused => Acks = Len(responses)
         /\ stream.handshake /\ IsRefused => /\ responses # <<>> /\ Acks = Len(responses) - 1
                                             /\ responses[Len(responses)] = Refused
                                             /\ \A n \in 1..Len(responses) :
                                                  responses[n] = Refused => n = Len(responses)
<1>1. Len(responses) \in Nat
  BY WireType DEF Inv
<1>2. /\ ~stream.handshake => Acks = 0
      /\ stream.handshake /\ ~IsRefused => Acks = Len(responses)
      /\ stream.handshake /\ IsRefused => Acks = Len(responses) - 1
  BY DEF Acks
<1>3. ASSUME stream.handshake, IsRefused
      PROVE  /\ responses # <<>> /\ Len(responses) # 0
             /\ responses[Len(responses)] = Refused
             /\ \A n \in 1..Len(responses) : responses[n] = Refused => n = Len(responses)
  <2>1. \A n \in 1..Len(responses) : responses[n] = Refused => n = Len(responses)
    <3> SUFFICES ASSUME NEW n \in 1..Len(responses), responses[n] = Refused
                 PROVE  n = Len(responses)
      OBVIOUS
    <3>1. /\ Len(responses) + Len(requests) = Len(pipeline)
          /\ \/ responses[n] = pipeline[n]
             \/ n = Len(responses)
      BY <1>3 DEF Inv, LineInv, Wire
    <3>2. Len(requests) \in Nat /\ Len(pipeline) \in Nat /\ pipeline \in Seq(Batches)
      BY WireType, PipelineRows DEF Inv
    <3>3. n \in 1..Len(pipeline)
      BY <1>1, <3>1, <3>2
    <3>4. pipeline[n] \in Batches
      BY <3>2, <3>3, ElementOfSeq
    <3> QED BY <3>1, <3>4, Messages
  <2>2. PICK n \in 1..Len(responses) : responses[n] = Refused
    BY <1>3 DEF IsRefused
  <2>3. Len(responses) # 0
    BY <1>1, <2>2
  <2> QED BY <1>1, <2>1, <2>2, <2>3, EmptyWire
<1> QED BY <1>1, <1>2, <1>3

\* Nothing changes for WriteQueue.
LEMMA Stutters ==
  ASSUME UNCHANGED <<queue, user>>, Acks' = Acks
  PROVE  UNCHANGED WQ!queueVars
BY Zenon DEF WQ!queueVars

\* The rows, their user and the stream stay as they are.
LEMMA LineStutters ==
  ASSUME UNCHANGED <<queue, user, stream, responses>>
  PROVE  UNCHANGED WQ!queueVars
<1>1. Acks' = Acks
  BY Zenon DEF Acks, IsRefused
<1> QED BY <1>1, Stutters

\* The connection is cut.
LEMMA Disconnects ==
  ASSUME UNCHANGED <<queue, user>>, ~stream'.handshake
  PROVE  WQ!Next
<1>1. Acks' = 0
  BY DEF Acks
<1>2. WQ!Disconnect
  BY <1>1, Zenon DEF WQ!Disconnect
<1> QED BY <1>2 DEF WQ!Next

\* Another user's queue is sent.
LEMMA Switches ==
  ASSUME NEW u \in Clients, user' = u, UNCHANGED queue, ~stream'.handshake
  PROVE  WQ!Next
<1>1. Acks' = 0
  BY DEF Acks
<1>2. WQ!SwitchTo(u)
  BY <1>1, Zenon DEF WQ!SwitchTo
<1> QED BY <1>2 DEF WQ!Next

\* A write that is made is one more in the queue.
LEMMA WriteMutationsEnqueues ==
  ASSUME Inv, WriteMutations
  PROVE  WQ!Next
<1> DEFINE b == [id |-> nextId, write |-> made + 1]
           q == Append(queue[user], b)
<1>1. /\ made < MaxWrites /\ queue' = [queue EXCEPT ![user] = q]
      /\ FillWritePipeline(pipeline, q, stream, requests)
      /\ user' = user /\ responses' = responses
  BY DEF WriteMutations
<1>2. b \in Batches /\ b.write = made + 1 /\ made + 1 \in 1..MaxWrites
  BY <1>1, PipelineAssumption DEF Inv, TypeOK, Batches
<1>3. stream'.handshake = stream.handshake
  <2>1. stream \in Streams
    BY DEF Inv, TypeOK, Streams
  <2> HIDE DEF b, q
  <2>2. \/ stream' = [stream EXCEPT !.state = "Backoff", !.backoff = TRUE]
        \/ stream' = [stream EXCEPT !.state = "Starting"]
        \/ \E s \in BOOLEAN : stream' = [stream EXCEPT !.idle = s]
    BY <1>1, Zenon DEF FillWritePipeline, Start
  <2> QED BY <2>1, <2>2 DEF Streams
<1>4. Acks' = Acks
  BY <1>1, <1>3, Zenon DEF Acks, IsRefused
<1>5. WritesIn(q) = WritesIn(queue[user]) \o <<b.write>>
  BY <1>2, QueuesAre, WritesOfAppend DEF Inv
<1> HIDE DEF b, q
<1>6. Queues' = [Queues EXCEPT ![user] = Queues[user] \o <<made + 1>>]
  BY <1>1, <1>2, <1>5, QueueChanges, QueuesAre DEF Inv
<1>7. PICK w \in 1..MaxWrites : w = made + 1
  BY <1>2
<1>8. WQ!Enqueue(<<w>>)
  <2>1. UNCHANGED <<Acks, user>>
    BY <1>1, <1>4
  <2>2. Queues' = [Queues EXCEPT ![user] = Queues[user] \o <<w>>]
    BY <1>6, <1>7
  <2> QED BY <2>1, <2>2, Zenon DEF WQ!Enqueue, Queues, WritesIn
<1> QED BY <1>8 DEF WQ!Next

\* A write that is applied is one the connection has not applied before.
LEMMA ServerApplyApplies ==
  ASSUME Inv, ServerApplies
  PROVE  WQ!Next
<1>1. /\ requests # <<>> /\ ~IsRefused /\ Head(requests) # Handshake
      /\ responses' = Append(responses, Head(requests))
      /\ UNCHANGED <<queue, user, stream>>
  BY DEF ServerApplies, ServerReads, localVars
<1>2. /\ Head(requests) = requests[1] /\ stream.handshake
      /\ requests[1] \in Batches /\ Len(responses) + 1 \in 1..Len(pipeline)
  <2>1. Head(requests) = requests[1]
    BY <1>1, RequestTaken DEF Inv
  <2>2. requests = <<Handshake>> => requests[1] = Handshake
    OBVIOUS
  <2> QED BY <1>1, <2>1, <2>2, RequestsAreRows DEF Inv
<1>3. PICK last \in Nat : last = Len(responses)
  BY WireType DEF Inv
<1>4. Len(responses') = last + 1 /\ ~IsRefused'
  <2>1. /\ Len(responses') = last + 1 /\ responses'[last + 1] = requests[1]
        /\ \A n \in 1..last : responses'[n] = responses[n]
    BY <1>1, <1>2, <1>3, ResponsePut DEF Inv
  <2>2. ASSUME NEW n \in 1..(last + 1) PROVE responses'[n] # Refused
    <3>1. CASE n = last + 1
      BY <1>2, <2>1, <3>1, Messages
    <3>2. CASE n \in 1..last
      BY <1>1, <1>3, <2>1, <3>2 DEF IsRefused
    <3> QED BY <3>1, <3>2
  <2> QED BY <2>1, <2>2 DEF IsRefused
<1>5. Acks = last /\ Acks' = last + 1
  BY <1>1, <1>2, <1>3, <1>4 DEF Acks
<1>6. last < Len(Queues[user])
  <2>1. /\ Len(pipeline) \in Nat /\ Len(pipeline) <= Len(queue[user])
        /\ Len(queue[user]) \in Nat
    BY PipelineRows DEF Inv
  <2>2. Len(Queues[user]) = Len(queue[user])
    BY QueuesAre, WritesOf DEF Inv
  <2> QED BY <1>2, <1>3, <2>1, <2>2
<1>7. Queues' = Queues
  BY <1>1 DEF Queues, WritesIn
<1>8. WQ!Apply
  BY <1>1, <1>5, <1>6, <1>7, Zenon DEF WQ!Apply, Queues, WritesIn
<1> QED BY <1>8 DEF WQ!Next

\* The first row leaves the queue.
LEMMA FirstRowDrops ==
  ASSUME Inv, pipeline # <<>>, user' = user,
         queue' = [queue EXCEPT ![user] = Tail(queue[user])]
  PROVE  WQ!Drop
<1>1. queue[user] # <<>> /\ queue[user] \in Seq(Batches)
  BY PipelineRows DEF Inv
<1>2. WritesIn(Tail(queue[user])) = Tail(WritesIn(queue[user])) /\ WritesIn(queue[user]) # <<>>
  BY <1>1, WritesOfTail, WritesOf
<1>3. Queues[user] # <<>> /\ Queues' = [Queues EXCEPT ![user] = Tail(Queues[user])]
  BY <1>2, QueueChanges, QueuesAre DEF Inv
<1> QED BY <1>3, Zenon DEF WQ!Drop, Queues, WritesIn

\* A result is of the first write, which has been applied.
LEMMA MutationResultAcknowledges ==
  ASSUME Inv, OnStreamRead, OnMutationResult
  PROVE  WQ!Next
<1>1. /\ responses # <<>> /\ Head(responses) # Refused /\ responses' = Tail(responses)
      /\ stream.handshake /\ user' = user
  BY DEF OnStreamRead, OnMutationResult
<1>2. pipeline # <<>> /\ stream.state = "Open"
  BY <1>1, ResultIsOfFirst
<1>3. Answerable /\ Without(queue[user], Head(pipeline).id) = Tail(queue[user])
  BY <1>2, FirstRow DEF Inv
<1>4. /\ queue' = [queue EXCEPT ![user] = Tail(queue[user])]
      /\ FillWritePipeline(Tail(pipeline), Tail(queue[user]), stream, requests)
  BY <1>3 DEF OnMutationResult, Answered
<1>5. stream'.handshake
  <2>1. stream \in Streams
    BY DEF Inv, TypeOK, Streams
  <2>2. \E s \in BOOLEAN : stream' = [stream EXCEPT !.idle = s]
    <3>1. Started(stream)
      BY <1>2 DEF Started
    <3> QED BY <1>4, <3>1, Zenon DEF FillWritePipeline
  <2> QED BY <1>1, <2>1, <2>2 DEF Streams
<1>6. /\ Len(responses) \in Nat \ {0} /\ Head(responses) = responses[1]
      /\ Len(responses') = Len(responses) - 1
      /\ \A n \in 1..Len(responses') : responses'[n] = responses[n + 1]
  BY <1>1, ResponseTaken DEF Inv
<1>7. IsRefused' <=> IsRefused
  <2>1. ASSUME NEW n \in 1..Len(responses), responses[n] = Refused PROVE IsRefused'
    <3>1. n # 1
      BY <1>1, <1>6, <2>1
    <3>2. n - 1 \in 1..Len(responses') /\ (n - 1) + 1 = n
      BY <1>6, <3>1
    <3>3. responses'[n - 1] = Refused
      BY <1>6, <2>1, <3>2
    <3> QED BY <3>2, <3>3 DEF IsRefused
  <2>2. ASSUME NEW n \in 1..Len(responses'), responses'[n] = Refused PROVE IsRefused
    <3>1. n + 1 \in 1..Len(responses) /\ responses[n + 1] = Refused
      BY <1>6, <2>2
    <3> QED BY <3>1 DEF IsRefused
  <2> QED BY <2>1, <2>2 DEF IsRefused
<1>8. Acks > 0 /\ Acks' = Acks - 1
  <2>1. CASE IsRefused
    <3>1. /\ Acks = Len(responses) - 1 /\ responses[Len(responses)] = Refused
      BY <1>1, <2>1, AcksAre
    <3>2. Len(responses) # 1
      BY <1>1, <1>6, <3>1
    <3>3. Acks' = Len(responses') - 1
      BY <1>5, <1>7, <2>1 DEF Acks
    <3> QED BY <1>6, <3>1, <3>2, <3>3
  <2>2. CASE ~IsRefused
    <3>1. Acks = Len(responses)
      BY <1>1, <2>2, AcksAre
    <3>2. Acks' = Len(responses')
      BY <1>5, <1>7, <2>2 DEF Acks
    <3> QED BY <1>6, <3>1, <3>2
  <2> QED BY <2>1, <2>2
<1>9. WQ!Drop
  BY <1>1, <1>2, <1>4, FirstRowDrops
<1>10. WQ!Acknowledge
  BY <1>8, <1>9, Zenon DEF WQ!Acknowledge
<1> QED BY <1>10 DEF WQ!Next

\* The write is taken from the queue, and the connection is cut.
LEMMA WriteErrorRefuses ==
  ASSUME Inv, HandleWriteError
  PROVE  WQ!Next
<1>1. pipeline # <<>> /\ user' = user
  BY DEF HandleWriteError
<1>2. Answerable /\ Without(queue[user], Head(pipeline).id) = Tail(queue[user])
  BY <1>1, FirstRow DEF Inv
<1> DEFINE st == Closed(stream, "Initial")
<1>3. /\ queue' = [queue EXCEPT ![user] = Tail(queue[user])]
      /\ FillWritePipeline(Tail(pipeline), Tail(queue[user]), st, <<>>)
  BY <1>2 DEF HandleWriteError, Answered
<1>4. st \in Streams /\ ~st.handshake
  BY ClosedIs DEF Inv
<1> HIDE DEF st
<1>5. ~stream'.handshake
  <2>1. \/ stream' = [st EXCEPT !.state = "Backoff", !.backoff = TRUE]
        \/ stream' = [st EXCEPT !.state = "Starting"]
        \/ \E s \in BOOLEAN : stream' = [st EXCEPT !.idle = s]
    BY <1>3, Zenon DEF FillWritePipeline, Start
  <2> QED BY <1>4, <2>1 DEF Streams
<1>6. Acks' = 0
  BY <1>5 DEF Acks
<1>7. WQ!Refuse
  BY <1>1, <1>3, <1>6, FirstRowDrops, Zenon DEF WQ!Refuse
<1> QED BY <1>7 DEF WQ!Next

\* The server answers the handshake, or refuses what it reads.
LEMMA ServerAnswersStutter ==
  ASSUME Inv, ServerGreets \/ ServerRefuses
  PROVE  UNCHANGED WQ!queueVars
<1>1. requests # <<>> /\ ~IsRefused /\ UNCHANGED <<queue, user, stream>>
  BY DEF ServerGreets, ServerRefuses, ServerReads, localVars
<1>2. CASE ~stream.handshake
  <2>1. Acks' = 0 /\ Acks = 0
    BY <1>1, <1>2 DEF Acks
  <2> QED BY <1>1, <2>1, Stutters
<1>3. CASE stream.handshake
  <2>1. ServerRefuses
    <3>1. Head(requests) # Handshake
      BY <1>1, <1>3, RequestTaken, RequestsAreRows DEF Inv
    <3> QED BY <3>1 DEF ServerGreets
  <2>2. responses' = Append(responses, Refused)
    BY <2>1 DEF ServerRefuses
  <2>3. PICK last \in Nat : last = Len(responses)
    BY WireType DEF Inv
  <2>4. Len(responses') = last + 1 /\ responses'[last + 1] = Refused
    BY <2>2, <2>3, ResponsePut DEF Inv
  <2>5. IsRefused'
    BY <2>4 DEF IsRefused
  <2>6. Acks' = last /\ Acks = last
    BY <1>1, <1>3, <2>3, <2>4, <2>5 DEF Acks
  <2> QED BY <1>1, <2>6, Stutters
<1> QED BY <1>2, <1>3

\* The greeting is none of WriteQueue's steps.
LEMMA HandshakeCompleteStutters ==
  ASSUME Inv, OnStreamRead, OnHandshakeComplete
  PROVE  UNCHANGED WQ!queueVars
<1>1. /\ responses # <<>> /\ Head(responses) # Refused /\ responses' = Tail(responses)
      /\ ~stream.handshake /\ UNCHANGED <<queue, user>>
  BY DEF OnStreamRead, OnHandshakeComplete, localVars
<1>2. stream.state = "Open"
  BY <1>1 DEF Inv, LineInv, LineFlags
<1>3. responses = <<Handshake>> \/ responses = <<Refused>>
  BY <1>1, <1>2 DEF Inv, LineInv, Greeting
<1>4. Head(<<Refused>>) = Refused /\ Tail(<<Handshake>>) = <<>>
  OBVIOUS
<1>5. responses' = <<>>
  BY <1>1, <1>3, <1>4
<1>6. ~IsRefused' /\ Len(responses') = 0
  BY <1>5 DEF IsRefused
<1>7. Acks' = 0 /\ Acks = 0
  BY <1>1, <1>6 DEF Acks
<1> QED BY <1>1, <1>7, Stutters

\* A change of the account sends another queue; a token opens a stream anew.
LEMMA RunWorkerDisconnects ==
  ASSUME Inv, RunWorker
  PROVE  WQ!Next \/ UNCHANGED WQ!queueVars
<1>1. /\ worker # <<>>
      /\ IF Head(worker).kind = "credential" THEN HandleCredentialChange(Head(worker).uid)
         ELSE ResumeStart(Head(worker))
  BY DEF RunWorker
<1>2. /\ Head(worker) = worker[1] /\ 1 \in 1..Len(worker)
      /\ worker[1].kind = "credential" => worker[1].uid \in Clients
      /\ worker[1].kind \in {"credential", "resume"}
  <2>1. Head(worker) = worker[1] /\ 1 \in 1..Len(worker)
    BY <1>1, TakenFromWorker DEF Inv
  <2>2. Credential(1) \/ Resume(1)
    BY <2>1, Blocks DEF Inv
  <2>3. Credential(1) => worker[1].uid \in Clients
    BY <2>1, Blocks DEF Inv
  <2> QED BY <2>1, <2>2, <2>3 DEF Credential, Resume
<1>3. CASE worker[1].kind = "credential"
  <2> DEFINE u == worker[1].uid
  <2>1. user' = u /\ RestartNetwork(queue[u]) /\ queue' = queue /\ u \in Clients
    BY <1>1, <1>2, <1>3 DEF HandleCredentialChange
  <2>2. queue[u] \in Seq(Batches) /\ Ascending(queue[u])
    BY <2>1 DEF Inv, TypeOK, RowsInv, RowsOf
  <2>3. ~stream'.handshake
    BY <2>1, <2>2, RestartNetworkEffect DEF Inv
  <2> QED BY <2>1, <2>3, Switches
<1>4. CASE worker[1].kind = "resume" /\ ResumeStart(worker[1])
  <2>1. CASE worker[1].count # stream.count
    <3>1. UNCHANGED <<queue, user, stream, responses>>
      BY <1>4, <2>1 DEF ResumeStart, localVars, wireVars
    <3>2. Acks' = Acks
      BY <3>1 DEF Acks, IsRefused
    <3> QED BY <3>1, <3>2, Stutters
  <2>2. CASE worker[1].count = stream.count
    <3>1. CASE CloseAndRetry
      <4>1. UNCHANGED <<queue, user>> /\ ~stream'.handshake
        BY <3>1, CloseAndRetryEffect DEF Inv, localVars
      <4> QED BY <4>1, Disconnects
    <3>2. CASE Open(worker[1].token)
      <4>1. Resume(1)
        BY <1>2, <1>4 DEF Resume
      <4>2. stream.state = "Starting"
        BY <1>2, <2>2, <4>1 DEF Inv, AccountsInv, OneLive, LiveWorker
      <4>3. ~stream.handshake /\ stream \in Streams
        BY <4>2 DEF Inv, LineInv, LineFlags, TypeOK, Streams
      <4>4. /\ stream' = [stream EXCEPT !.state = "Open", !.idle = FALSE]
            /\ UNCHANGED <<queue, user>>
        BY <3>2 DEF Open, localVars
      <4>5. ~stream'.handshake
        BY <4>3, <4>4 DEF Streams
      <4> QED BY <4>4, <4>5, Disconnects
    <3> QED BY <1>4, <2>2, <3>1, <3>2 DEF ResumeStart
  <2> QED BY <2>1, <2>2
<1> QED BY <1>1, <1>2, <1>3, <1>4

\* A step of the pipeline is a step of WriteQueue, or none.
LEMMA StepImplements ==
  ASSUME Inv, Next
  PROVE  WQ!Next \/ UNCHANGED WQ!queueVars
<1>1. CASE Launch
  <2>1. /\ ~running /\ user' = authUser /\ UNCHANGED <<queue, responses>>
        /\ FillWritePipeline(<<>>, queue[authUser], stream, <<>>)
    BY <1>1 DEF Launch
  <2>2. authUser \in Clients /\ stream = Idle0
    BY <2>1 DEF Inv, TypeOK, Stopped
  <2>3. stream \in Streams /\ ~stream.handshake
    BY <2>2 DEF Idle0, Streams
  <2>4. ~stream'.handshake
    <3>1. \/ stream' = [stream EXCEPT !.state = "Backoff", !.backoff = TRUE]
          \/ stream' = [stream EXCEPT !.state = "Starting"]
          \/ \E s \in BOOLEAN : stream' = [stream EXCEPT !.idle = s]
      BY <2>1, Zenon DEF FillWritePipeline, Start
    <3> QED BY <2>3, <3>1 DEF Streams
  <2> QED BY <2>1, <2>2, <2>4, Switches
<1>2. CASE Kill
  <2>1. UNCHANGED <<queue, user>> /\ ~stream'.handshake
    BY <1>2 DEF Kill, ProcessEnds, Idle0
  <2> QED BY <2>1, Disconnects
<1>3. CASE WriteMutations
  BY <1>3, WriteMutationsEnqueues
<1>4. ASSUME NEW u \in Clients, AuthChanges(u) PROVE UNCHANGED WQ!queueVars
  <2>1. UNCHANGED <<queue, user, stream, responses>>
    BY <1>4 DEF AuthChanges, localVars, wireVars
  <2> QED BY <2>1, LineStutters
<1>5. ASSUME NEW r \in asked, AuthAnswers(r) PROVE UNCHANGED WQ!queueVars
  <2>1. UNCHANGED <<queue, user, stream, responses>>
    BY <1>5 DEF AuthAnswers, localVars, wireVars
  <2> QED BY <2>1, LineStutters
<1>6. CASE RunMain
  <2>1. UNCHANGED <<queue, user, stream, responses>>
    BY <1>6 DEF RunMain, localVars, wireVars
  <2> QED BY <2>1, LineStutters
<1>7. CASE RunWorker
  BY <1>7, RunWorkerDisconnects
<1>8. CASE OnStreamRead
  BY <1>8, HandshakeCompleteStutters, MutationResultAcknowledges DEF OnStreamRead
<1>9. CASE OnStreamFinish
  <2>1. CASE HandleWriteError
    BY <2>1, WriteErrorRefuses
  <2>2. CASE CloseAndRetry
    <3>1. UNCHANGED <<queue, user>> /\ ~stream'.handshake
      BY <2>2, CloseAndRetryEffect DEF Inv, localVars
    <3> QED BY <3>1, Disconnects
  <2> QED BY <1>9, <2>1, <2>2 DEF OnStreamFinish
<1>10. CASE StreamBreaks
  <2>1. UNCHANGED <<queue, user>> /\ ~stream'.handshake
    BY <1>10, CloseAndRetryEffect DEF StreamBreaks, Inv, localVars
  <2> QED BY <2>1, Disconnects
<1>11. CASE BackoffElapses
  <2>1. /\ stream.backoff /\ UNCHANGED <<queue, user, responses>>
        /\ Start([stream EXCEPT !.state = "Initial", !.backoff = FALSE])
    BY <1>11 DEF BackoffElapses, localVars, wireVars
  <2>2. stream \in Streams /\ ~stream.handshake
    BY <2>1 DEF Inv, LineInv, LineFlags, TypeOK, Streams
  <2>3. ~stream'.handshake
    BY <2>1, <2>2 DEF Start, Streams
  <2>4. Acks' = 0 /\ Acks = 0
    BY <2>2, <2>3 DEF Acks
  <2> QED BY <2>1, <2>4, Stutters
<1>12. CASE IdleTimeout
  <2>1. UNCHANGED <<queue, user>> /\ ~stream'.handshake
    BY <1>12 DEF IdleTimeout, StopGracefully, Closed, localVars
  <2> QED BY <2>1, Disconnects
<1>13. CASE ConnectivityChanges
  <2>1. running /\ RestartNetwork(queue[user]) /\ UNCHANGED <<queue, user>>
    BY <1>13 DEF ConnectivityChanges, localVars
  <2>2. queue[user] \in Seq(Batches) /\ Ascending(queue[user])
    BY PipelineRows DEF Inv
  <2>3. ~stream'.handshake
    BY <2>1, <2>2, RestartNetworkEffect DEF Inv
  <2> QED BY <2>1, <2>3, Disconnects
<1>14. CASE ServerGreets
  BY <1>14, ServerAnswersStutter
<1>15. CASE ServerApplies
  BY <1>15, ServerApplyApplies
<1>16. CASE ServerRefuses
  BY <1>16, ServerAnswersStutter
<1>17. CASE ServerEnds
  <2>1. UNCHANGED <<queue, user>> /\ ~stream'.handshake
    BY <1>17 DEF ServerEnds, StopGracefully, ProcessEnds, Closed, Idle0, localVars
  <2> QED BY <2>1, Disconnects
<1> QED BY <1>1, <1>2, <1>3, <1>4, <1>5, <1>6, <1>7, <1>8, <1>9, <1>10, <1>11, <1>12,
           <1>13, <1>14, <1>15, <1>16, <1>17 DEF Next

\* At first the queues are empty.
LEMMA InitImplements == Init => WQ!Init
<1> SUFFICES ASSUME Init PROVE WQ!Init
  OBVIOUS
<1>1. queue = [c \in Clients |-> <<>>] /\ user \in Clients /\ Acks = 0
  BY DEF Init, Acks, Idle0
<1>2. \A c \in Clients : [n \in 1..Len(queue[c]) |-> queue[c][n].write] = <<>>
  BY <1>1
<1>3. [c \in Clients |-> [n \in 1..Len(queue[c]) |-> queue[c][n].write]]
      = [c \in Clients |-> <<>>]
  BY <1>2
<1> QED BY <1>1, <1>3, Zenon DEF WQ!Init

\* Broken streams, timeouts, refusals, account changes and restarts are the cuts
\* of the connection that WriteQueue allows, and the rest is hidden from it.
THEOREM ImplementsWriteQueueHolds == Spec => ImplementsWriteQueue
<1>1. Init => WQ!Init
  BY InitImplements
<1>2. Kept /\ [Next]_vars => [WQ!Next]_WQ!queueVars
  <2>1. CASE Kept /\ Next
    BY <2>1, StepsNotFailed, StepImplements
  <2>2. CASE UNCHANGED vars
    <3>1. UNCHANGED <<queue, user, stream, responses>>
      BY <2>2 DEF vars, localVars, wireVars
    <3> QED BY <3>1, LineStutters
  <2> QED BY <2>1, <2>2
<1> QED BY <1>1, <1>2, WritePipelineInvariant, PTL DEF Spec, ImplementsWriteQueue, WQ!Spec
================================================================================
