------------------------------- MODULE WriteQueue ------------------------------
(***************************************************************************)
(* What the Firestore client promises of the writes it is handed: it keeps *)
(* them for the user they were made for, and the server applies a user's   *)
(* writes in order, each at least once.                                    *)
(*                                                                         *)
(* A write leaves the queue when its answer arrives.  Until then whatever  *)
(* cuts the connection makes the server start again with the first write   *)
(* of the queue, also with one it has applied.                             *)
(***************************************************************************)
EXTENDS Integers, Sequences

CONSTANTS Clients, \* uids, and nobody
          Writes

VARIABLES queue,  \* for each client the writes that have no answer
          ahead,  \* how many of them the server has applied on this connection
          client  \* whose queue is being sent

queueVars == <<queue, ahead, client>>

Init == queue = [c \in Clients |-> <<>>] /\ ahead = 0 /\ client \in Clients

Enqueue(ws) == /\ queue' = [queue EXCEPT ![client] = @ \o ws]
               /\ UNCHANGED <<ahead, client>>

Apply == /\ ahead < Len(queue[client])
         /\ ahead' = ahead + 1
         /\ UNCHANGED <<queue, client>>

Drop == /\ queue[client] # <<>>
        /\ queue' = [queue EXCEPT ![client] = Tail(@)]
        /\ UNCHANGED client

Acknowledge == ahead > 0 /\ Drop /\ ahead' = ahead - 1

\* A refusal cuts the connection.  It may reach the client in place of the
\* answers to writes that were applied.
Refuse == Drop /\ ahead' = 0

Disconnect == ahead' = 0 /\ UNCHANGED <<queue, client>>

SwitchTo(c) == client' = c /\ ahead' = 0 /\ UNCHANGED queue

Next == \/ \E w \in Writes : Enqueue(<<w>>)
        \/ Apply \/ Acknowledge \/ Refuse \/ Disconnect
        \/ \E c \in Clients : SwitchTo(c)

Spec == Init /\ [][Next]_queueVars
================================================================================
