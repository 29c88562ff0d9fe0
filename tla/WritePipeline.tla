----------------------------- MODULE WritePipeline -----------------------------
(***************************************************************************)
(* How the Firestore client sends the writes of the signed-in user: the    *)
(* persisted queue of each user, the pipeline of RemoteStore, the write    *)
(* stream with its handshake, its timers and its backoff, and the          *)
(* credentials, which come from another thread.                            *)
(*                                                                         *)
(* The client runs on one worker queue, a handler at a time; an account    *)
(* change and an answer to getToken pass through the main queue first.     *)
(* The server and the connection are external.                             *)
(***************************************************************************)
EXTENDS Integers, Sequences, FiniteSets

CONSTANTS Clients,           \* uids, and nobody
          kMaxPendingWrites,
          MaxWrites,         \* bound: writes made
          MaxFaults          \* bound: account changes, failures, restarts

ASSUME PipelineAssumption == /\ kMaxPendingWrites \in Nat \ {0}
                             /\ MaxWrites \in Nat /\ MaxFaults \in Nat

VARIABLES
  running,   \* the process runs
  \* FIRAuth and FirebaseCredentialsProvider
  authUser,  \* _currentUser, kept across restarts
  asked,     \* calls of getToken that have no answer
  main,      \* blocks on the main queue
  counter,   \* token_counter
  worker,    \* blocks on the worker queue that came from the main queue
  \* SyncEngine and LocalStore
  user,      \* current_user_
  queue,     \* the mutation queue of each user, persisted
  nextId,    \* next_batch_id_
  callbacks, \* mutation_callbacks_: the batch id and the write they are for
  \* RemoteStore and WriteStream
  pipeline,  \* write_pipeline_
  stream,    \* the write stream
  \* the connection
  speaker,   \* whose token it was opened with
  requests,  \* on their way to the server
  responses, \* on their way to the client
  \* history
  made,      \* writes made, numbered
  doc,       \* for each client the write the server applied last
  acked,     \* for each client the last write acknowledged
  faults,    \* account changes, failures and restarts so far
  failed     \* an assertion failed

authVars == <<authUser, asked, main, counter, worker>>
localVars == <<user, queue, nextId, callbacks>>
wireVars == <<speaker, requests, responses>>
vars == <<running, authVars, localVars, pipeline, stream, wireVars,
          made, doc, acked, faults, failed>>

\* Beside batches, whose ids begin with 1: the handshake, both ways, and the
\* permanent error with which the server ends a stream.
Handshake == [id |-> 0, write |-> 0]
Refused == [id |-> -1, write |-> 0]
Failed == "failed" \* in place of a token

Fault == faults < MaxFaults /\ faults' = faults + 1

Idle0 == [state |-> "Initial", handshake |-> FALSE, idle |-> FALSE,
          backoff |-> FALSE, count |-> 0]

Init == /\ running = FALSE
        /\ authUser \in Clients /\ asked = {} /\ main = <<>>
        /\ counter = 0 /\ worker = <<>>
        /\ user = authUser /\ queue = [c \in Clients |-> <<>>]
        /\ nextId = 1 /\ callbacks = [c \in Clients |-> {}]
        /\ pipeline = <<>> /\ stream = Idle0
        /\ speaker = authUser /\ requests = <<>> /\ responses = <<>>
        /\ made = 0 /\ doc = [c \in Clients |-> 0] /\ acked = [c \in Clients |-> 0]
        /\ faults = 0 /\ failed = FALSE

-------------------------------------------------------------------------------
(* The mutation queue: rows in the order of their batch ids.               *)

Ids(q) == {q[n].id : n \in 1..Len(q)}

\* Mutant of LoadNextBatchId: ids begin anew.
LoadNextBatchIdMutant == 1

\* LoadNextBatchIdFromDb: after the largest id that is in any user's queue.
LoadNextBatchId ==
  LET ids == {0} \cup UNION {Ids(queue[c]) : c \in Clients}
  IN 1 + CHOOSE i \in ids : \A j \in ids : j <= i

\* Mutant of Seek: every search begins with the first row.
SeekMutant(q, last) == 0

\* Rows up to the batch id last.
Seek(q, last) ==
  CHOOSE k \in 0..Len(q) : /\ \A n \in 1..k : q[n].id <= last
                           /\ k = Len(q) \/ q[k + 1].id > last

Without(q, id) ==
  LET k == CHOOSE k \in 1..Len(q) : q[k].id = id
  IN SubSeq(q, 1, k - 1) \o SubSeq(q, k + 1, Len(q))

-------------------------------------------------------------------------------
(* The write stream.                                                       *)

Started(st) == st.state \in {"Starting", "Backoff", "Open"}

\* Mutant of Closed: the close count stays.
ClosedMutant(st, state) == [state |-> state, handshake |-> FALSE, idle |-> FALSE,
                            backoff |-> FALSE, count |-> st.count]

\* Close; the flag of the handshake is reset after the listener was told.
Closed(st, state) == [state |-> state, handshake |-> FALSE, idle |-> FALSE,
                      backoff |-> FALSE, count |-> st.count + 1]

\* RequestCredentials: the answer is for this close_count_ and token_counter.
GetToken(count) == [count |-> count, counter |-> counter, as |-> {authUser}]

\* After an error the stream waits before it asks for a token.
Start(st) ==
  IF st.state = "Error"
  THEN /\ stream' = [st EXCEPT !.state = "Backoff", !.backoff = TRUE]
       /\ UNCHANGED asked
  ELSE /\ stream' = [st EXCEPT !.state = "Starting"]
       /\ asked' = asked \cup {GetToken(st.count)}

-------------------------------------------------------------------------------
(* RemoteStore.                                                            *)

\* Mutant of NextBatches: the pipeline has no limit.
NextBatchesMutant(p, q) ==
  SubSeq(q, Seek(q, IF p = <<>> THEN 0 ELSE p[Len(p)].id) + 1, Len(q))

\* GetNextMutationBatch from the last of the pipeline p on, while there is room.
NextBatches(p, q) ==
  LET k == Seek(q, IF p = <<>> THEN 0 ELSE p[Len(p)].id)
      room == kMaxPendingWrites - Len(p)
  IN SubSeq(q, k + 1, IF k + room < Len(q) THEN k + room ELSE Len(q))

\* With pipeline p, queue q, stream st and requests reqs: what is added is sent
\* if the stream is open and greeted; an empty pipeline sets the idle timer, a
\* write cancels it; a stream that is needed is started.
FillWritePipeline(p, q, st, reqs) ==
  LET new == NextBatches(p, q)
      sends == st.state = "Open" /\ st.handshake /\ new # <<>>
      idle == ~sends /\ (st.idle \/ (st.state = "Open" /\ p \o new = <<>>))
  IN /\ pipeline' = p \o new
     /\ requests' = IF sends THEN reqs \o new ELSE reqs
     /\ IF p \o new # <<>> /\ ~Started(st)
        THEN Start(st)
        ELSE stream' = [st EXCEPT !.idle = idle] /\ UNCHANGED asked

\* Mutant of RestartNetwork: the stream is kept.
RestartNetworkMutant(q) ==
  UNCHANGED responses /\ FillWritePipeline(<<>>, q, stream, <<>>)

\* RestartNetwork for the user whose queue is q: the stream is stopped, the
\* pipeline cleared, and both are set up again without waiting.
RestartNetwork(q) ==
  LET stopped == IF Started(stream) THEN Closed(stream, "Initial")
                 ELSE [stream EXCEPT !.state = "Initial"]
  IN /\ responses' = <<>>
     /\ FillWritePipeline(<<>>, q, stopped, <<>>)

-------------------------------------------------------------------------------
(* The app and the accounts.                                               *)

\* SyncEngine::WriteMutations.
WriteMutations ==
  /\ running /\ made < MaxWrites
  /\ LET b == [id |-> nextId, write |-> made + 1]
         known == \E x \in callbacks[user] : x.id = nextId
         q == Append(queue[user], b)
     IN /\ queue' = [queue EXCEPT ![user] = q]
        /\ callbacks' = [callbacks EXCEPT ![user] = IF known THEN @ ELSE @ \cup {b}]
        /\ FillWritePipeline(pipeline, q, stream, requests)
  /\ nextId' = nextId + 1 /\ made' = made + 1
  /\ UNCHANGED <<running, authUser, main, counter, worker, user, speaker,
                 responses, doc, acked, faults, failed>>

\* Auth's user changes, or gets a new token: the notification goes to the main
\* queue, and getToken may still answer for the user before.
AuthChanges(u) ==
  /\ running /\ Fault
  /\ authUser' = u
  /\ asked' = {[r EXCEPT !.as = @ \cup {u}] : r \in asked}
  /\ main' = Append(main, [kind |-> "notify", uid |-> u])
  /\ UNCHANGED <<running, counter, worker, localVars, pipeline, stream,
                 wireVars, made, doc, acked, failed>>

\* Auth answers getToken, on the main queue.
AuthAnswers(r) ==
  /\ asked' = asked \ {r}
  /\ \E token \in r.as \cup {Failed} :
       /\ IF token = Failed THEN Fault ELSE UNCHANGED faults
       /\ main' = Append(main, [kind |-> "token", token |-> token,
                                count |-> r.count, counter |-> r.counter])
  /\ UNCHANGED <<running, authUser, counter, worker, localVars, pipeline,
                 stream, wireVars, made, doc, acked, failed>>

\* The provider's observer of account changes.
Notified(u) ==
  /\ counter' = counter + 1
  /\ worker' = Append(worker, [kind |-> "credential", uid |-> u])
  /\ UNCHANGED asked

\* The provider's callback of getToken: a token that was asked for before an
\* account change is asked for again.
TokenAnswered(b) ==
  /\ IF b.counter = counter
     THEN /\ worker' = Append(worker, [kind |-> "resume", token |-> b.token,
                                       count |-> b.count])
          /\ UNCHANGED asked
     ELSE asked' = asked \cup {GetToken(b.count)} /\ UNCHANGED worker
  /\ UNCHANGED counter

RunMain ==
  /\ main # <<>> /\ main' = Tail(main)
  /\ LET b == Head(main)
     IN IF b.kind = "notify" THEN Notified(b.uid) ELSE TokenAnswered(b)
  /\ UNCHANGED <<running, authUser, localVars, pipeline, stream, wireVars,
                 made, doc, acked, faults, failed>>

-------------------------------------------------------------------------------
(* The stream's handlers, on the worker queue.                             *)

\* SyncEngine::HandleCredentialChange: another user's queue numbers its batches
\* anew.
HandleCredentialChange(u) ==
  /\ user' = u
  /\ nextId' = IF u = user THEN nextId ELSE LoadNextBatchId
  /\ RestartNetwork(queue[u])
  /\ UNCHANGED <<queue, callbacks, speaker, failed>>

\* Mutant of CloseAndRetry: the stream is left to the next write.
CloseAndRetryMutant ==
  /\ stream' = Closed(stream, "Error") /\ UNCHANGED asked
  /\ requests' = <<>> /\ responses' = <<>>
  /\ UNCHANGED <<localVars, pipeline>>

\* An error that is not the write's: the stream backs off if it is needed.
CloseAndRetry ==
  /\ IF pipeline # <<>> THEN Start(Closed(stream, "Error"))
     ELSE stream' = Closed(stream, "Error") /\ UNCHANGED asked
  /\ requests' = <<>> /\ responses' = <<>>
  /\ UNCHANGED <<localVars, pipeline>>

\* The connection is opened and the handshake sent.
Open(token) ==
  /\ stream' = [stream EXCEPT !.state = "Open", !.idle = FALSE]
  /\ speaker' = token
  /\ requests' = <<Handshake>> /\ responses' = <<>>
  /\ UNCHANGED <<asked, localVars, pipeline>>

\* ResumeStartWithCredentials, unless the stream was closed in the meantime.
ResumeStart(b) ==
  IF b.count # stream.count
  THEN UNCHANGED <<asked, localVars, pipeline, stream, wireVars, failed>>
  ELSE /\ failed' = (stream.state # "Starting")
       /\ IF b.token = Failed THEN CloseAndRetry /\ UNCHANGED speaker
          ELSE Open(b.token)

RunWorker ==
  /\ worker # <<>> /\ worker' = Tail(worker)
  /\ LET b == Head(worker)
     IN IF b.kind = "credential" THEN HandleCredentialChange(b.uid) ELSE ResumeStart(b)
  /\ UNCHANGED <<running, authUser, main, counter, made, doc, acked, faults>>

\* NotifyUser.
Notify(b) == callbacks' = [callbacks EXCEPT ![user] = {x \in @ : x.id # b.id}]

\* The first write of the pipeline is answered, by an acknowledgement or a
\* permanent error: it leaves the pipeline and, asserted to be there, the queue.
Answered(st, reqs) ==
  LET b == Head(pipeline)
      q == Without(queue[user], b.id)
  IN /\ queue' = [queue EXCEPT ![user] = q]
     /\ Notify(b)
     /\ FillWritePipeline(Tail(pipeline), q, st, reqs)

Answerable == pipeline # <<>> /\ Head(pipeline).id \in Ids(queue[user])

\* Mutant of OnHandshakeComplete: the pipeline is sent from its end.
OnHandshakeCompleteMutant ==
  /\ ~stream.handshake
  /\ requests' = requests \o [n \in 1..Len(pipeline) |-> pipeline[Len(pipeline) + 1 - n]]
  /\ stream' = [stream EXCEPT !.handshake = TRUE, !.idle = @ /\ pipeline = <<>>]
  /\ UNCHANGED <<asked, localVars, pipeline, acked, failed>>

OnHandshakeComplete ==
  /\ ~stream.handshake
  /\ requests' = requests \o pipeline
  /\ stream' = [stream EXCEPT !.handshake = TRUE, !.idle = @ /\ pipeline = <<>>]
  /\ UNCHANGED <<asked, localVars, pipeline, acked, failed>>

\* The result is correlated to the first write of the pipeline.
OnMutationResult ==
  /\ stream.handshake
  /\ IF Answerable
     THEN /\ Answered(stream, requests)
          /\ acked' = [acked EXCEPT ![user] = Head(pipeline).write]
          /\ UNCHANGED failed
     ELSE /\ failed' = TRUE
          /\ UNCHANGED <<asked, queue, callbacks, pipeline, stream, requests, acked>>
  /\ UNCHANGED <<user, nextId>>

OnStreamRead ==
  /\ responses # <<>> /\ Head(responses) # Refused
  /\ responses' = Tail(responses)
  /\ OnHandshakeComplete \/ OnMutationResult
  /\ UNCHANGED <<running, authUser, main, counter, worker, speaker, made,
                 doc, faults>>

\* The stream finishes with the server's permanent error.  An operation that
\* fails before the responses are read discards them.
IsRefused == \E n \in 1..Len(responses) : responses[n] = Refused

HandleWriteError ==
  /\ stream.handshake /\ pipeline # <<>>
  /\ IF Answerable THEN Answered(Closed(stream, "Initial"), <<>>) /\ UNCHANGED failed
     ELSE /\ failed' = TRUE
          /\ UNCHANGED <<asked, queue, callbacks, pipeline, stream, requests>>
  /\ responses' = <<>>
  /\ UNCHANGED <<user, nextId>>

OnStreamFinish ==
  /\ IsRefused
  /\ \/ HandleWriteError
     \/ ~(stream.handshake /\ pipeline # <<>>) /\ CloseAndRetry /\ UNCHANGED failed
  /\ UNCHANGED <<running, authUser, main, counter, worker, speaker, made,
                 doc, acked, faults>>

\* The stream finishes with any other error.
StreamBreaks ==
  /\ stream.state = "Open" /\ Fault
  /\ CloseAndRetry
  /\ UNCHANGED <<running, authUser, main, counter, worker, speaker, made,
                 doc, acked, failed>>

BackoffElapses ==
  /\ stream.backoff
  /\ failed' = (stream.state # "Backoff")
  /\ Start([stream EXCEPT !.state = "Initial", !.backoff = FALSE])
  /\ UNCHANGED <<running, authUser, main, counter, worker, localVars, pipeline,
                 wireVars, made, doc, acked, faults>>

\* The stream closes with the status OK: it is not started again.
StopGracefully ==
  /\ stream' = Closed(stream, "Initial")
  /\ requests' = <<>> /\ responses' = <<>>
  /\ UNCHANGED <<running, authVars, localVars, pipeline>>

\* A graceful stop is asserted to be of a stream that is not needed.
IdleTimeout ==
  /\ stream.idle
  /\ failed' = (pipeline # <<>>)
  /\ StopGracefully
  /\ UNCHANGED <<speaker, made, doc, acked, faults>>

\* The process ends, and with it all that is not persisted.
ProcessEnds ==
  /\ running' = FALSE
  /\ asked' = {} /\ main' = <<>> /\ worker' = <<>> /\ counter' = 0
  /\ callbacks' = [c \in Clients |-> {}]
  /\ pipeline' = <<>> /\ stream' = Idle0
  /\ requests' = <<>> /\ responses' = <<>>
  /\ UNCHANGED <<authUser, user, queue, nextId>>

\* The server ends the stream with the status OK, which OnStreamFinish passes on
\* and OnWriteStreamClose takes for a graceful stop: with a write in the pipeline
\* its assertion ends the process, in the state that Kill leaves.
ServerEnds ==
  /\ stream.state = "Open" /\ ~IsRefused /\ Fault
  /\ failed' = (pipeline # <<>>)
  /\ IF pipeline = <<>> THEN StopGracefully ELSE ProcessEnds
  /\ UNCHANGED <<speaker, made, doc, acked>>

ConnectivityChanges ==
  /\ running /\ Fault
  /\ RestartNetwork(queue[user])
  /\ UNCHANGED <<running, authUser, main, counter, worker, localVars, speaker,
                 made, doc, acked, failed>>

-------------------------------------------------------------------------------
(* The process and the server.                                             *)

Kill ==
  /\ running /\ Fault
  /\ ProcessEnds
  /\ UNCHANGED <<speaker, made, doc, acked, failed>>

\* FirestoreClient::Initialize with Auth's user.
Launch ==
  /\ ~running /\ running' = TRUE
  /\ user' = authUser
  /\ nextId' = LoadNextBatchId
  /\ FillWritePipeline(<<>>, queue[authUser], stream, <<>>)
  /\ UNCHANGED <<authUser, main, counter, worker, queue, callbacks, speaker,
                 responses, made, doc, acked, faults, failed>>

ServerReads == /\ requests # <<>> /\ ~IsRefused
               /\ requests' = Tail(requests)
               /\ UNCHANGED <<running, authVars, localVars, pipeline, stream, speaker,
                              made, acked, failed>>

ServerGreets ==
  /\ ServerReads
  /\ Head(requests) = Handshake
  /\ responses' = Append(responses, Handshake)
  /\ UNCHANGED <<doc, faults>>

ServerApplies ==
  /\ ServerReads
  /\ Head(requests) # Handshake
  /\ responses' = Append(responses, Head(requests))
  /\ doc' = [doc EXCEPT ![user] = Head(requests).write]
  /\ UNCHANGED faults

ServerRefuses ==
  /\ ServerReads
  /\ IF Head(requests) = Handshake THEN Fault ELSE UNCHANGED faults
  /\ responses' = Append(responses, Refused)
  /\ UNCHANGED doc

\* No step is taken after an assertion has failed.
Next ==
  /\ ~failed
  /\ \/ Launch \/ Kill \/ WriteMutations
     \/ \E u \in Clients : AuthChanges(u)
     \/ \E r \in asked : AuthAnswers(r)
     \/ RunMain \/ RunWorker
     \/ OnStreamRead \/ OnStreamFinish \/ StreamBreaks \/ ServerEnds
     \/ BackoffElapses \/ IdleTimeout \/ ConnectivityChanges
     \/ ServerGreets \/ ServerApplies \/ ServerRefuses

\* The queues run, timers fire, Auth and the server answer.
Fairness ==
  /\ WF_vars(\E r \in asked : AuthAnswers(r))
  /\ WF_vars(RunMain) /\ WF_vars(RunWorker)
  /\ WF_vars(OnStreamRead) /\ WF_vars(OnStreamFinish)
  /\ WF_vars(BackoffElapses)
  /\ WF_vars(ServerGreets \/ ServerApplies \/ ServerRefuses)

Spec == Init /\ [][Next]_vars /\ Fairness

-------------------------------------------------------------------------------
Batches == [id : Nat \ {0}, write : 1..MaxWrites]
Tokens == Clients \cup {Failed}
MainBlocks == [kind : {"notify"}, uid : Clients] \cup
              [kind : {"token"}, token : Tokens, count : Nat, counter : Nat]
WorkerBlocks == [kind : {"credential"}, uid : Clients] \cup
                [kind : {"resume"}, token : Tokens, count : Nat]

TypeOK ==
  /\ running \in BOOLEAN
  /\ authUser \in Clients /\ user \in Clients /\ speaker \in Clients
  /\ asked \in SUBSET [count : Nat, counter : Nat, as : SUBSET Clients]
  /\ main \in Seq(MainBlocks) /\ worker \in Seq(WorkerBlocks)
  /\ counter \in Nat /\ nextId \in Nat \ {0}
  /\ queue \in [Clients -> Seq(Batches)]
  /\ callbacks \in [Clients -> SUBSET Batches]
  /\ pipeline \in Seq(Batches) /\ Len(pipeline) <= kMaxPendingWrites
  /\ stream \in [state : {"Initial", "Starting", "Open", "Error", "Backoff"},
                  handshake : BOOLEAN, idle : BOOLEAN, backoff : BOOLEAN, count : Nat]
  /\ requests \in Seq(Batches \cup {Handshake})
  /\ responses \in Seq(Batches \cup {Handshake, Refused})
  /\ made \in 0..MaxWrites /\ faults \in 0..MaxFaults
  /\ doc \in [Clients -> 0..MaxWrites] /\ acked \in [Clients -> 0..MaxWrites]
  /\ failed \in BOOLEAN

\* One assertion of RemoteStore, Stream and the mutation queue can fail, and in
\* one way: the server ends a stream with OK while writes wait, which the comment
\* at remote_store.cc:454 does not count among the graceful stops.  There is never
\* a result for an empty pipeline or for a batch that is not in the queue, an idle
\* timeout of a stream that is needed, or a token or a timer for one that has
\* moved on.
FailsOnlyOnServerEnd == [][failed' => failed \/ (ServerEnds /\ pipeline # <<>>)]_vars

\* A user's writes are sent with that user's credentials, although the account
\* changes on another thread, and is told to the client and answered to its
\* requests for tokens on the way through two queues.
SentAsItsUser == stream.state = "Open" => speaker = user

\* A completion is called for the write it was given with: batch ids are used
\* again after an account change or a restart, but none while a completion waits
\* for it.  So it waits for a row of its queue, and no other row has the id.
CompletionIsItsWrites ==
  \A c \in Clients : \A x \in callbacks[c] :
    /\ \E n \in 1..Len(queue[c]) : queue[c][n] = x
    /\ \A n \in 1..Len(queue[c]) : queue[c][n].id = x.id => queue[c][n] = x

\* A write that was acknowledged is on the server, and no older one is applied
\* again over it, although everything that has no answer is sent again.
AckedNotUndone == \A c \in Clients : acked[c] <= doc[c]

\* The abstract queue: the writes of the batches, and how many of them have been
\* applied on this connection, which are those whose responses are on their way.
Acks == IF ~stream.handshake THEN 0
        ELSE IF IsRefused THEN Len(responses) - 1 ELSE Len(responses)

WQ == INSTANCE WriteQueue WITH
  queue <- [c \in Clients |-> [n \in 1..Len(queue[c]) |-> queue[c][n].write]],
  ahead <- Acks, client <- user, Writes <- 1..MaxWrites

\* The client keeps what WriteQueue promises, through broken streams, timeouts,
\* refusals, account changes and restarts.
ImplementsWriteQueue == WQ!Spec

\* A write of the user who stays signed in is answered in the end: no handler
\* leaves a write behind with no stream started and no timer running.
WriteIsAnswered ==
  \A c \in Clients, w \in 1..MaxWrites :
    LET waits == \E n \in 1..Len(queue[c]) : queue[c][n].write = w
    IN running /\ waits /\ authUser = c ~> ~running \/ ~waits \/ authUser # c
===============================================================================
