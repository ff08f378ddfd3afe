----------------------------- MODULE Messenger ------------------------------
(***************************************************************************)
(* Two GRL processes that exchange observations and actions through a      *)
(* publish-subscribe messenger (externals/cppzmq/src/zmq_messenger.cpp):   *)
(* a communicator agent in one, a communicator environment in the other.   *)
(* Each has a worker thread that receives into a buffer.  Either may find  *)
(* nothing in time, takes what is in the buffer, and goes on.              *)
(*                                                                         *)
(* A message is abstracted to its number among those of its sender and to  *)
(* the number of the message that its sender had received before.          *)
(*                                                                         *)
(* The names of its parts are its own, so that a module can extend this    *)
(* one and SharedVariable: see Communication_proofs.                       *)
(***************************************************************************)
EXTENDS Naturals

CONSTANT MaxMessages  \* bound: messages of each process

ASSUME MessengerAssumption == MaxMessages \in Nat

VARIABLES
  phase,   \* where the calling thread of each process is
  joined,  \* the subscriber of a process has reached its publisher
  pipe,    \* the message in the subscriber's socket, which keeps the last
  buffer,  \* buffer_
  update,  \* recv_update_
  taken,   \* what the last recv() returned
  last,    \* number of the last message sent
  late     \* history: a recv() has given up

mvars == <<phase, joined, pipe, buffer, update, taken, last, late>>

Ends == {"agent", "environment"}
Peer(e) == IF e = "agent" THEN "environment" ELSE "agent"

Message == [n : 1..MaxMessages, re : 0..MaxMessages]

\* No message; in the buffer, memory that nobody has written.
None == [n |-> 0, re |-> 0]

MessengerTypeOK ==
  /\ phase \in [Ends -> {"idle", "sent", "poll"}]
  /\ joined \in [Ends -> BOOLEAN]
  /\ pipe \in [Ends -> Message \cup {None}]
  /\ buffer \in [Ends -> Message \cup {None}]
  /\ update \in [Ends -> BOOLEAN]
  /\ taken \in [Ends -> Message \cup {None}]
  /\ last \in [Ends -> 0..MaxMessages]
  /\ late \in BOOLEAN

\* The environment begins with a recv(), its start(); the agent with a send().
MessengerInit ==
  /\ phase = [e \in Ends |-> IF e = "agent" THEN "idle" ELSE "sent"]
  /\ joined = [e \in Ends |-> FALSE]
  /\ pipe = [e \in Ends |-> None]
  /\ buffer = [e \in Ends |-> None]
  /\ update = [e \in Ends |-> FALSE]
  /\ taken = [e \in Ends |-> None]
  /\ last = [e \in Ends |-> 0]
  /\ late = FALSE

Enter(e, from, to) == phase[e] = from /\ phase' = [phase EXCEPT ![e] = to]

-----------------------------------------------------------------------------
(* Plausible bugs, to test that the properties can tell.                   *)

\* recv() does not forget the update of an earlier message.
ClearNot(e) ==
  /\ Enter(e, "sent", "poll")
  /\ UNCHANGED <<joined, pipe, buffer, update, taken, last, late>>

\* recv() begins with an empty buffer.
ClearBuffer(e) ==
  /\ Enter(e, "sent", "poll")
  /\ update' = [update EXCEPT ![e] = FALSE]
  /\ buffer' = [buffer EXCEPT ![e] = None]
  /\ UNCHANGED <<joined, pipe, taken, last, late>>

\* The time that has elapsed is not computed.
TimeoutNever(e) == FALSE /\ UNCHANGED mvars

-----------------------------------------------------------------------------
(* The calling threads.                                                    *)

\* step() of the environment sends an action; start(), step() and end() of the
\* agent send an observation.  What is published before the other process has
\* subscribed is lost: sync(), which would wait for it, is never called.
Send(e) ==
  /\ Enter(e, "idle", "sent")
  /\ last[e] < MaxMessages
  /\ last' = [last EXCEPT ![e] = @ + 1]
  /\ pipe' = IF joined[Peer(e)]
               THEN [pipe EXCEPT ![Peer(e)] =
                                   [n |-> last[e] + 1, re |-> taken[e].n]]
               ELSE pipe
  /\ UNCHANGED <<joined, buffer, update, taken, late>>

\* recv() forgets that anything has come before it was called.
Clear(e) ==
  /\ Enter(e, "sent", "poll")
  /\ update' = [update EXCEPT ![e] = FALSE]
  /\ UNCHANGED <<joined, pipe, buffer, taken, last, late>>

\* It polls the flag.
TakeUpdate(e) ==
  /\ update[e]
  /\ Enter(e, "poll", "idle")
  /\ taken' = [taken EXCEPT ![e] = buffer[e]]
  /\ UNCHANGED <<joined, pipe, buffer, update, last, late>>

\* "Take the last message if nothing was received".  A second may pass at any
\* time, also between the last poll and an update.
Timeout(e) ==
  /\ Enter(e, "poll", "idle")
  /\ taken' = [taken EXCEPT ![e] = buffer[e]]
  /\ late' = TRUE
  /\ UNCHANGED <<joined, pipe, buffer, update, last>>

-----------------------------------------------------------------------------
(* The worker threads.                                                     *)

Join(e) ==
  /\ ~joined[e]
  /\ joined' = [joined EXCEPT ![e] = TRUE]
  /\ UNCHANGED <<phase, pipe, buffer, update, taken, last, late>>

Receive(e) ==
  /\ pipe[e] # None
  /\ buffer' = [buffer EXCEPT ![e] = pipe[e]]
  /\ update' = [update EXCEPT ![e] = TRUE]
  /\ pipe' = [pipe EXCEPT ![e] = None]
  /\ UNCHANGED <<phase, joined, taken, last, late>>

-----------------------------------------------------------------------------
\* What each thread does by itself, once the process is inside a call.
Recv(e) == Clear(e) \/ TakeUpdate(e) \/ Timeout(e)
Work(e) == Join(e) \/ Receive(e)

\* The bound on the messages: nobody calls again.
Finished ==
  /\ \A e \in Ends : phase[e] = "idle" /\ last[e] = MaxMessages
  /\ UNCHANGED mvars

MessengerNext ==
  \/ \E e \in Ends : Send(e) \/ Recv(e) \/ Work(e)
  \/ Finished

MessengerSpec == MessengerInit /\ [][MessengerNext]_mvars

\* Every thread is scheduled; calls are the experiments' choice.
MessengerFairSpec ==
  /\ MessengerSpec
  /\ \A e \in Ends : WF_mvars(Recv(e)) /\ WF_mvars(Work(e))

-----------------------------------------------------------------------------
(* Properties                                                              *)

\* As long as nobody has given up, the two processes take turns: what recv()
\* returns is the answer to what the process sent last.  (After a timeout the
\* answer to one message can be taken for the answer to the next.)
LockStep ==
  ~late => \A e \in Ends : phase[e] = "idle" => taken[e].re = last[e]

\* Whatever is lost or late: an observation or an action is never followed by
\* one that was sent before it.
NeverBackwards == [][\A e \in Ends : taken[e].n <= taken'[e].n]_mvars

\* recv() returns, also when the other process never answers.
CallReturns == \A e \in Ends : phase[e] = "sent" ~> phase[e] = "idle"
=============================================================================
