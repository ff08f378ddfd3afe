---------------------------- MODULE ReplayAgent ----------------------------
(***************************************************************************)
(* The experience replay agent (agents/replay.cpp).  The control thread    *)
(* runs start, step and end; the replay threads run replay() in a loop.    *)
(* Without threads the control thread calls replay() itself.               *)
(* The instances differ in their replay threads; a behaviour chooses once. *)
(*                                                                         *)
(* The shared counters and the memory are plain variables without a lock,  *)
(* so every shared access is a step of its own; the two signals            *)
(* are itc::SharedVariable<bool>, used at the granularity that             *)
(* SharedVariable.tla shows to be sound: a signal is one step, and a read  *)
(* is one step that waits for an unseen sequence number.                   *)
(***************************************************************************)
EXTENDS Integers, Sequences, FiniteSets

CONSTANTS
  Teams,             \* the sets of replay threads; {} is synchronous replay
  Control,           \* the thread that calls start, step, end and reconfigure
  MemorySize,        \* memory_size_
  ReplaySteps,       \* replay_steps_
  BatchSize,         \* batch_size_
  ObservationSteps,  \* observation_steps_
  MaxSteps           \* bound of each team: control steps before each reset
                     \* and after the last

\* The minimum that request() states for every parameter is 1.
ASSUME ReplayAssumption ==
  /\ \A T \in Teams : Control \notin T
  /\ MemorySize \in Nat \ {0}
  /\ ReplaySteps \in Nat \ {0}
  /\ BatchSize \in Nat \ {0}
  /\ ObservationSteps \in Nat \ {0}
  /\ MaxSteps \in [Teams -> Seq(Nat)]

VARIABLES
  threads,           \* the replay threads, chosen once
  cpc,               \* where the control thread is
  started,           \* start() was called since the last reset
  size,              \* transitions_.size()
  totalTransitions,  \* total_transitions_
  totalControl,      \* total_control_steps_
  totalReplay,       \* total_replay_steps_
  rpc,               \* where each executor of replay() is
  ok,                \* Thread::continue_ of each replay thread
  batch,             \* the slots an executor holds pointers into
  reg,               \* the register of an unfinished update of totalReplay
  rseq, rseen,       \* replay_signal_: sequence number, last seen by each
  dseq, dseen,       \* done_signal_: sequence number, last seen by control
  updates,           \* history: transitions handed to the predictor
  resets             \* number of resets so far

cvars == <<cpc, started, totalTransitions, resets, threads>>
tvars == <<ok, rpc>>
mvars == <<size, totalControl>>
rvars == <<batch, reg, updates>>
svars == <<rseq, rseen, dseq, dseen>>
vars  == <<cvars, tvars, mvars, rvars, svars, totalReplay>>

\* Who executes replay(): the threads, or the control thread itself.
Replayers == IF threads = {} THEN {Control} ELSE threads

Target == totalControl * ReplaySteps

\* The slot that the next transition is stored in.
NextSlot == IF size < MemorySize THEN size ELSE totalTransitions % MemorySize

ControlPCs == {"idle", "store", "count", "signal", "check", "wait",
               "stop", "kick", "join"}
ReplayPCs  == {"off", "top", "read", "size", "skip", "assign", "loop",
               "sample", "update", "add", "done", "exited"}

TypeOK ==
  /\ threads \in Teams
  /\ cpc \in ControlPCs
  /\ started \in BOOLEAN
  /\ size \in 0..MemorySize
  /\ totalTransitions \in Nat
  /\ totalControl \in Nat
  /\ totalReplay \in Nat
  /\ rpc \in [Replayers -> ReplayPCs]
  /\ ok \in [Replayers -> BOOLEAN]
  /\ batch \in [Replayers -> SUBSET (0..MemorySize-1)]
  /\ reg \in [Replayers -> Nat]
  /\ rseq \in Nat
  /\ rseen \in [Replayers -> Nat]
  /\ dseq \in Nat
  /\ dseen \in Nat
  /\ updates \in Nat
  /\ resets \in Nat

Init ==
  /\ threads \in Teams
  /\ cpc = "idle"
  /\ started = FALSE
  /\ size = 0
  /\ totalTransitions = 0
  /\ totalControl = 0
  /\ totalReplay = 0
  /\ rpc = [x \in Replayers |-> "off"]
  /\ ok = [x \in Replayers |-> FALSE]
  /\ batch = [x \in Replayers |-> {}]
  /\ reg = [x \in Replayers |-> 0]
  /\ rseq = 0
  /\ rseen = [x \in Replayers |-> 0]
  /\ dseq = 0
  /\ dseen = 0
  /\ updates = 0
  /\ resets = 0

-----------------------------------------------------------------------------
(* Plausible bugs, to test that the properties can tell.                   *)

\* The loop that waits for replay is left out.
CheckReplayNoWait ==
  /\ cpc = "check"
  /\ threads = {} => rpc[Control] = "off"
  /\ cpc' = "idle"
  /\ UNCHANGED <<started, totalTransitions, resets, tvars, mvars, rvars, svars,
                 totalReplay, threads>>

\* <= instead of < in the condition of replay()'s loop.
TestTotalOrEven(x) ==
  /\ rpc[x] = "loop"
  /\ rpc' = [rpc EXCEPT ![x] = IF totalReplay <= Target THEN "sample"
                                                        ELSE "done"]
  /\ UNCHANGED <<cvars, ok, mvars, rvars, svars, totalReplay>>

\* The memory is cleared without waiting for the thread to exit.
JoinThreadEarly(t) ==
  /\ cpc = "join"
  /\ ~ok[t]
  /\ rpc' = [rpc EXCEPT ![t] = "off"]
  /\ cpc' = "stop"
  /\ UNCHANGED <<started, totalTransitions, resets, ok, mvars, rvars, svars,
                 totalReplay, threads>>

\* A thread is joined without the signal that wakes it.
KickThreadSilently ==
  /\ cpc = "kick"
  /\ cpc' = "join"
  /\ UNCHANGED <<started, totalTransitions, resets, tvars, mvars, rvars, svars,
                 totalReplay, threads>>

\* The early return of replay() forgets done_signal_.
AssignSkipNoSignal(x) ==
  /\ rpc[x] = "assign"
  /\ totalReplay' = reg[x]
  /\ rpc' = [rpc EXCEPT ![x] = IF x = Control THEN "off" ELSE "top"]
  /\ UNCHANGED <<cvars, ok, mvars, rvars, svars>>

\* The test is off by one: a full observation phase is too short.
TestSizeLate(x) ==
  /\ rpc[x] = "size"
  /\ rpc' = [rpc EXCEPT ![x] = IF size <= ObservationSteps THEN "skip"
                                                           ELSE "loop"]
  /\ UNCHANGED <<cvars, ok, mvars, rvars, svars, totalReplay>>

\* A sample may lie one past the end of the memory.
SampleOnePast(x) ==
  /\ rpc[x] = "sample"
  /\ \E i \in 0..size : batch' = [batch EXCEPT ![x] = {i}]
  /\ rpc' = [rpc EXCEPT ![x] = "update"]
  /\ UNCHANGED <<cvars, ok, mvars, reg, updates, svars, totalReplay>>

-----------------------------------------------------------------------------
(* The control thread: start, step and end.                                *)

\* The condition of every loop on the two counters (lines 113, 136, 158).
Behind == totalReplay < Target

\* start(): the first one after construction or a reset creates the threads.
\* A new thread has no thread-specific sequence number yet, which reads as 0.
Start ==
  /\ cpc = "idle"
  /\ ~started
  /\ started' = TRUE
  /\ IF threads # {} /\ \A x \in Replayers : rpc[x] = "off"
       THEN /\ rpc' = [x \in Replayers |-> "top"]
            /\ ok' = [x \in Replayers |-> TRUE]
            /\ rseen' = [x \in Replayers |-> 0]
       ELSE UNCHANGED <<rpc, ok, rseen>>
  /\ UNCHANGED <<cpc, totalTransitions, resets, mvars, rvars, totalReplay,
                 rseq, dseq, dseen, threads>>

\* step() or end() begins to write a transition into NextSlot.
Store ==
  /\ cpc = "idle"
  /\ started
  /\ totalControl < MaxSteps[threads][resets + 1]
  /\ cpc' = "store"
  /\ UNCHANGED <<started, totalTransitions, resets, tvars, mvars, rvars, svars,
                 totalReplay, threads>>

\* The transition is in its slot: push_back has grown the vector.
Stored ==
  /\ cpc = "store"
  /\ size' = IF size < MemorySize THEN size + 1 ELSE size
  /\ totalTransitions' = totalTransitions + 1
  /\ cpc' = "count"
  /\ UNCHANGED <<started, resets, totalControl, tvars, rvars, svars,
                 totalReplay, threads>>

CountStep ==
  /\ cpc = "count"
  /\ totalControl' = totalControl + 1
  /\ cpc' = "signal"
  /\ UNCHANGED <<started, totalTransitions, resets, size, tvars, rvars, svars,
                 totalReplay, threads>>

\* replay_signal_.signal(), and the call of replay() when there is no thread.
SignalReplay ==
  /\ cpc = "signal"
  /\ rseq' = rseq + 1
  /\ rpc' = IF threads = {} THEN [rpc EXCEPT ![Control] = "read"] ELSE rpc
  /\ cpc' = "check"
  /\ UNCHANGED <<started, totalTransitions, resets, ok, mvars, rvars, rseen,
                 dseq, dseen, totalReplay, threads>>

\* The condition of the loop that keeps control from running ahead.
CheckReplay ==
  /\ cpc = "check"
  /\ threads = {} => rpc[Control] = "off"
  /\ cpc' = IF Behind THEN "wait" ELSE "idle"
  /\ UNCHANGED <<started, totalTransitions, resets, tvars, mvars, rvars, svars,
                 totalReplay, threads>>

\* done_signal_.read()
ReadDone ==
  /\ cpc = "wait"
  /\ dseq # dseen
  /\ dseen' = dseq
  /\ cpc' = "check"
  /\ UNCHANGED <<started, totalTransitions, resets, tvars, mvars, rvars, rseq,
                 rseen, dseq, totalReplay, threads>>

-----------------------------------------------------------------------------
(* reconfigure(action = reset): stopThreads, then forget everything.       *)

Reset ==
  /\ cpc = "idle"
  /\ resets + 1 < Len(MaxSteps[threads])
  /\ cpc' = "stop"
  /\ UNCHANGED <<started, totalTransitions, resets, tvars, mvars, rvars, svars,
                 totalReplay, threads>>

StopThread(t) ==
  /\ cpc = "stop"
  /\ rpc[t] # "off"
  /\ ok' = [ok EXCEPT ![t] = FALSE]
  /\ cpc' = "kick"
  /\ UNCHANGED <<started, totalTransitions, resets, rpc, mvars, rvars, svars,
                 totalReplay, threads>>

KickThread ==
  /\ cpc = "kick"
  /\ rseq' = rseq + 1
  /\ cpc' = "join"
  /\ UNCHANGED <<started, totalTransitions, resets, tvars, mvars, rvars, rseen,
                 dseq, dseen, totalReplay, threads>>

\* join() returns for the thread that was stopped last.
JoinThread(t) ==
  /\ cpc = "join"
  /\ ~ok[t]
  /\ rpc[t] = "exited"
  /\ rpc' = [rpc EXCEPT ![t] = "off"]
  /\ cpc' = "stop"
  /\ UNCHANGED <<started, totalTransitions, resets, ok, mvars, rvars, svars,
                 totalReplay, threads>>

Clear ==
  /\ cpc = "stop"
  /\ \A x \in Replayers : rpc[x] = "off"
  /\ size' = 0
  /\ totalTransitions' = 0
  /\ totalControl' = 0
  /\ totalReplay' = 0
  /\ started' = FALSE
  /\ updates' = 0
  /\ resets' = resets + 1
  /\ cpc' = "idle"
  /\ UNCHANGED <<tvars, batch, reg, svars, threads>>

-----------------------------------------------------------------------------
(* replay(), executed by x.                                                *)

\* ReplayAgentThread::run tests ok().
Top(x) ==
  /\ rpc[x] = "top"
  /\ rpc' = [rpc EXCEPT ![x] = IF ok[x] THEN "read" ELSE "exited"]
  /\ UNCHANGED <<cvars, ok, mvars, rvars, svars, totalReplay>>

\* replay_signal_.read()
ReadReplay(x) ==
  /\ rpc[x] = "read"
  /\ rseq # rseen[x]
  /\ rseen' = [rseen EXCEPT ![x] = rseq]
  /\ rpc' = [rpc EXCEPT ![x] = "size"]
  /\ UNCHANGED <<cvars, ok, mvars, rvars, rseq, dseq, dseen, totalReplay>>

TestSize(x) ==
  /\ rpc[x] = "size"
  /\ rpc' = [rpc EXCEPT ![x] = IF size < ObservationSteps THEN "skip"
                                                          ELSE "loop"]
  /\ UNCHANGED <<cvars, ok, mvars, rvars, svars, totalReplay>>

\* The right-hand side of total_replay_steps_ = total_control_steps_*...
LoadSkip(x) ==
  /\ rpc[x] = "skip"
  /\ reg' = [reg EXCEPT ![x] = Target]
  /\ rpc' = [rpc EXCEPT ![x] = "assign"]
  /\ UNCHANGED <<cvars, ok, mvars, batch, updates, svars, totalReplay>>

AssignSkip(x) ==
  /\ rpc[x] = "assign"
  /\ totalReplay' = reg[x]
  /\ rpc' = [rpc EXCEPT ![x] = "done"]
  /\ UNCHANGED <<cvars, ok, mvars, rvars, svars>>

TestTotal(x) ==
  /\ rpc[x] = "loop"
  /\ rpc' = [rpc EXCEPT ![x] = IF Behind THEN "sample" ELSE "done"]
  /\ UNCHANGED <<cvars, ok, mvars, rvars, svars, totalReplay>>

\* Draws BatchSize slots with replacement.  They are used by reference until
\* predictor_->update returns.
Sample(x) ==
  /\ rpc[x] = "sample"
  /\ \E s \in SUBSET (0..size-1) :
       /\ s # {}
       /\ Cardinality(s) <= BatchSize
       /\ batch' = [batch EXCEPT ![x] = s]
  /\ rpc' = [rpc EXCEPT ![x] = "update"]
  /\ UNCHANGED <<cvars, ok, mvars, reg, updates, svars, totalReplay>>

\* predictor_->update and finalize return, and total_replay_steps_ is loaded.
Update(x) ==
  /\ rpc[x] = "update"
  /\ batch' = [batch EXCEPT ![x] = {}]
  /\ updates' = updates + BatchSize
  /\ reg' = [reg EXCEPT ![x] = totalReplay]
  /\ rpc' = [rpc EXCEPT ![x] = "add"]
  /\ UNCHANGED <<cvars, ok, mvars, svars, totalReplay>>

\* The store of total_replay_steps_ += batch_size_.
AddTotal(x) ==
  /\ rpc[x] = "add"
  /\ totalReplay' = reg[x] + BatchSize
  /\ rpc' = [rpc EXCEPT ![x] = "loop"]
  /\ UNCHANGED <<cvars, ok, mvars, rvars, svars>>

SignalDone(x) ==
  /\ rpc[x] = "done"
  /\ dseq' = dseq + 1
  /\ rpc' = [rpc EXCEPT ![x] = IF x = Control THEN "off" ELSE "top"]
  /\ UNCHANGED <<cvars, ok, mvars, rvars, rseq, rseen, dseen, totalReplay>>

-----------------------------------------------------------------------------
Replay(x) ==
  \/ Top(x)
  \/ ReadReplay(x)
  \/ TestSize(x)
  \/ LoadSkip(x)
  \/ AssignSkip(x)
  \/ TestTotal(x)
  \/ Sample(x)
  \/ Update(x)
  \/ AddTotal(x)
  \/ SignalDone(x)

\* What the control thread does once it is inside a handler.
Handler ==
  \/ Stored
  \/ CountStep
  \/ SignalReplay
  \/ CheckReplay
  \/ ReadDone
  \/ \E t \in threads : StopThread(t) \/ JoinThread(t)
  \/ KickThread
  \/ Clear

\* The experiment has made its last call.
Finished ==
  /\ cpc = "idle"
  /\ totalControl = MaxSteps[threads][resets + 1]
  /\ resets + 1 = Len(MaxSteps[threads])
  /\ UNCHANGED vars

Next ==
  \/ Start
  \/ Store
  \/ Reset
  \/ Handler
  \/ Finished
  \/ \E x \in Replayers : Replay(x)

Spec == Init /\ [][Next]_vars

\* The scheduler runs every thread that can run; calls of start, step and
\* reset are the experiment's choice.
FairSpec ==
  /\ Spec
  /\ WF_vars(Handler)
  /\ \A x \in {Control} \cup UNION Teams :
       WF_vars(x \in Replayers /\ Replay(x))

-----------------------------------------------------------------------------
(* Properties                                                              *)

\* There is a single executor of replay(); some of the promises need it.
Alone == \A x, y \in Replayers : x = y

\* "Avoid running ahead of replay" (replay.cpp:112, 135): whenever the control
\* thread is outside the agent, the replay it asked for has been done.
CaughtUp == cpc = "idle" => totalReplay >= Target

\* A single executor keeps that promise, however late its stores are.
NotAhead == Alone => CaughtUp

\* A single executor: a slot is never overwritten while a predictor update
\* holds a pointer into it (replay.cpp:102 against 165 and 171).
NoTornSample ==
  Alone /\ cpc = "store" => \A x \in Replayers : NextSlot \notin batch[x]

\* A single executor is not inside the predictor when a reset begins: the
\* walk through the configuration resets the predictor and what it learns
\* into before it comes to this agent, which then stops its threads.
CleanReset ==
  Alone /\ cpc = "stop" =>
    \A x \in Replayers : rpc[x] \notin {"sample", "update", "add"}

\* Samples stay within the vector, also across a reset that clears it, and
\* whatever the number of threads.
SampleInBounds ==
  \A x \in Replayers : batch[x] \subseteq 0..size-1

\* The inductive strengthening of the above for a single executor of replay():
\* why control is never let out early and is never overtaken afterwards.
Quiet == cpc \in {"idle", "store", "count", "stop", "kick", "join"}
Ordered ==
  \A x \in Replayers :
    /\ Quiet => totalReplay >= Target
    /\ size < ObservationSteps \/ rpc[x] = "skip" => totalReplay <= Target
    /\ rpc[x] = "assign" => totalReplay <= reg[x] /\ reg[x] <= Target
    /\ rpc[x] \in {"loop", "sample", "update", "add"} =>
         size >= ObservationSteps
    /\ rpc[x] \in {"sample", "update", "add"} => totalReplay < Target
    /\ rpc[x] = "add" => reg[x] = totalReplay
    /\ totalReplay < Target + BatchSize
    /\ batch[x] # {} => rpc[x] = "update"
    /\ threads = {} /\ rpc[x] # "off" => cpc = "check"

\* Replay by a single executor overshoots what was asked for by less than one
\* batch.
ReplayBounded == Alone => totalReplay < Target + BatchSize

\* Synchronous replay: once the memory holds observation_steps_ transitions,
\* every control step that has returned was paid for with replay_steps_
\* sampled transitions ("Number of replay steps per control step", line 46).
SynchronousReplay == threads = {}
PaidFor ==
  cpc = "idle" /\ size >= ObservationSteps =>
    updates >= (totalControl - ObservationSteps + 1) * ReplaySteps
EveryStepReplayed == SynchronousReplay => PaidFor

\* A control thread that waits for replay gets out of its handler.
ControlReturns == cpc = "wait" ~> cpc = "idle"

\* stopThreads terminates, whatever the threads were doing.
ResetCompletes == cpc = "stop" ~> cpc = "idle"
=============================================================================
