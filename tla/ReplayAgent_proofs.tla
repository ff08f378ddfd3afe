------------------------ MODULE ReplayAgent_proofs -------------------------
(***************************************************************************)
(* What is proved of the replay agent for every number of steps, resets,   *)
(* memory size and batch size.  The safety of the memory and of the        *)
(* counters rests on there being one executor of replay(): synchronous     *)
(* replay, or one replay thread.  The run replay_two_ahead shows that two  *)
(* threads are one too many.                                               *)
(***************************************************************************)
EXTENDS ReplayAgent, TLAPS

USE DEF cvars, tvars, mvars, rvars, svars, vars

\* A replay thread is not the control thread, so it can only be an executor
\* of replay() when there are threads.
LEMMA ReplayersFacts ==
  ASSUME TypeOK
  PROVE  /\ threads = {} => Replayers = {Control}
         /\ threads # {} => Replayers = threads /\ Control \notin Replayers
         /\ Replayers # {}
BY ReplayAssumption DEF Replayers, TypeOK

\* The executors stay the same.
LEMMA SameReplayers ==
  ASSUME threads' = threads
  PROVE  Replayers' = Replayers
BY DEF Replayers

LEMMA SameThreads ==
  ASSUME [Next]_vars
  PROVE  threads' = threads
BY DEF Next, Start, Store, Reset, Handler, Finished, Stored, CountStep,
       SignalReplay, CheckReplay, ReadDone, StopThread, JoinThread,
       KickThread, Clear, Replay, Top, ReadReplay, TestSize, LoadSkip,
       AssignSkip, TestTotal, Sample, Update, AddTotal, SignalDone

\* The control thread's own steps keep the types.
LEMMA TypeControl ==
  ASSUME TypeOK, threads' = threads,
         Start \/ Store \/ Reset \/ Handler \/ Finished
  PROVE  TypeOK'
<1> USE ReplayAssumption, ReplayersFacts, SameReplayers
<1>1. CASE Start
  <2>1. started' \in BOOLEAN BY <1>1, Zenon DEF Start
  <2>2. rpc' \in [Replayers -> ReplayPCs]
    BY <1>1 DEF TypeOK, Start, ReplayPCs
  <2>3. ok' \in [Replayers -> BOOLEAN] BY <1>1 DEF TypeOK, Start
  <2>4. rseen' \in [Replayers -> Nat] BY <1>1 DEF TypeOK, Start
  <2> QED BY <1>1, <2>1, <2>2, <2>3, <2>4 DEF TypeOK, Start
<1>2. CASE Store BY <1>2 DEF TypeOK, Store, ControlPCs
<1>3. CASE Reset BY <1>3 DEF TypeOK, Reset, ControlPCs
<1>4. CASE Stored BY <1>4 DEF TypeOK, Stored, ControlPCs
<1>5. CASE CountStep BY <1>5 DEF TypeOK, CountStep, ControlPCs
<1>6. CASE SignalReplay
  BY <1>6 DEF TypeOK, SignalReplay, ControlPCs, ReplayPCs
<1>7. CASE CheckReplay BY <1>7 DEF TypeOK, CheckReplay, ControlPCs
<1>8. CASE ReadDone BY <1>8 DEF TypeOK, ReadDone, ControlPCs
<1>9. ASSUME NEW t \in threads, StopThread(t) PROVE TypeOK'
  BY <1>9 DEF TypeOK, StopThread, ControlPCs
<1>10. ASSUME NEW t \in threads, JoinThread(t) PROVE TypeOK'
  BY <1>10 DEF TypeOK, JoinThread, ControlPCs, ReplayPCs
<1>11. CASE KickThread BY <1>11 DEF TypeOK, KickThread, ControlPCs
<1>12. CASE Clear
  <2>1. started' \in BOOLEAN BY <1>12, Zenon DEF Clear
  <2> QED BY <1>12, <2>1 DEF TypeOK, Clear, ControlPCs
<1>13. CASE Finished BY <1>13 DEF TypeOK, Finished
<1> QED
  BY <1>1, <1>2, <1>3, <1>4, <1>5, <1>6, <1>7, <1>8, <1>9, <1>10, <1>11,
     <1>12, <1>13 DEF Handler

\* So do the steps of replay().
LEMMA TypeReplay ==
  ASSUME TypeOK, threads' = threads, NEW x \in Replayers, Replay(x)
  PROVE  TypeOK'
<1> USE ReplayAssumption, SameReplayers
<1>0. Target \in Nat BY DEF Target, TypeOK
<1>1. CASE Top(x) BY <1>1 DEF TypeOK, Top, ReplayPCs
<1>2. CASE ReadReplay(x) BY <1>2 DEF TypeOK, ReadReplay, ReplayPCs
<1>3. CASE TestSize(x) BY <1>3 DEF TypeOK, TestSize, ReplayPCs
<1>4. CASE LoadSkip(x) BY <1>4, <1>0 DEF TypeOK, LoadSkip, ReplayPCs
<1>5. CASE AssignSkip(x) BY <1>5 DEF TypeOK, AssignSkip, ReplayPCs
<1>6. CASE TestTotal(x) BY <1>6 DEF TypeOK, TestTotal, ReplayPCs
<1>7. CASE Sample(x)
  <2>1. PICK s \in SUBSET (0..size-1) : batch' = [batch EXCEPT ![x] = s]
    BY <1>7 DEF Sample
  <2>2. s \in SUBSET (0..MemorySize-1) BY <2>1 DEF TypeOK
  <2> QED BY <1>7, <2>1, <2>2 DEF TypeOK, Sample, ReplayPCs
<1>8. CASE Update(x) BY <1>8 DEF TypeOK, Update, ReplayPCs
<1>9. CASE AddTotal(x) BY <1>9 DEF TypeOK, AddTotal, ReplayPCs
<1>10. CASE SignalDone(x) BY <1>10 DEF TypeOK, SignalDone, ReplayPCs
<1> QED
  BY <1>1, <1>2, <1>3, <1>4, <1>5, <1>6, <1>7, <1>8, <1>9, <1>10 DEF Replay

\* Type correctness, for any number of replay threads.
THEOREM TypeCorrect == Spec => []TypeOK
<1>1. Init => TypeOK
  <2>1. Init => started \in BOOLEAN BY Zenon DEF Init
  <2> QED BY <2>1, ReplayAssumption DEF Init, TypeOK, ControlPCs, ReplayPCs
<1>2. TypeOK /\ [Next]_vars => TypeOK'
  <2> SUFFICES ASSUME TypeOK, [Next]_vars PROVE TypeOK' OBVIOUS
  <2>1. CASE UNCHANGED vars BY <2>1, SameReplayers DEF TypeOK
  <2> QED BY <2>1, SameThreads, TypeControl, TypeReplay DEF Next
<1> QED BY <1>1, <1>2, PTL DEF Spec

-----------------------------------------------------------------------------
(* One executor.  The invariant Ordered says why control is never let out   *)
(* early (it leaves its loop only when the counter has caught up) and why   *)
(* the counter does not fall back afterwards (the only executor either has  *)
(* an assignment pending that equals the target, or none).                  *)

\* Counting a control step raises the target by replay_steps_.
LEMMA TargetGrows ==
  ASSUME NEW n \in Nat, NEW r \in Nat
  PROVE  /\ n * r \in Nat
         /\ (n + 1) * r = n * r + r
OBVIOUS

LEMMA OrderedInit ==
  ASSUME Init PROVE Ordered
<1> USE ReplayAssumption
<1>1. Target = 0 BY DEF Init, Target
<1> QED BY <1>1 DEF Init, Ordered, Quiet

\* The control thread's own steps.
LEMMA OrderedControl ==
  ASSUME TypeOK, Ordered, threads' = threads,
         Start \/ Store \/ Reset \/ Handler \/ Finished
  PROVE  Ordered'
<1> USE ReplayAssumption, ReplayersFacts, SameReplayers DEF Ordered, Quiet
<1> Target \in Nat BY DEF Target, TypeOK
<1>0. totalControl' = totalControl => Target' = Target BY DEF Target
<1>1. CASE Start BY <1>1, <1>0 DEF Start, TypeOK
<1>2. CASE Store BY <1>2, <1>0 DEF Store, TypeOK
<1>3. CASE Reset BY <1>3, <1>0 DEF Reset, TypeOK
<1>4. CASE Stored BY <1>4, <1>0 DEF Stored, TypeOK
<1>5. CASE CountStep
  <2>1. Target' = Target + ReplaySteps
    BY <1>5, TargetGrows DEF CountStep, Target, TypeOK
  <2> QED BY <1>5, <2>1 DEF CountStep, TypeOK
<1>6. CASE SignalReplay BY <1>6, <1>0 DEF SignalReplay, TypeOK
<1>7. CASE CheckReplay BY <1>7, <1>0 DEF CheckReplay, Behind, TypeOK
<1>8. CASE ReadDone BY <1>8, <1>0 DEF ReadDone, TypeOK
<1>9. ASSUME NEW t \in threads, StopThread(t) PROVE Ordered'
  BY <1>9, <1>0 DEF StopThread, TypeOK
<1>10. ASSUME NEW t \in threads, JoinThread(t) PROVE Ordered'
  BY <1>10, <1>0 DEF JoinThread, TypeOK
<1>11. CASE KickThread BY <1>11, <1>0 DEF KickThread, TypeOK
<1>12. CASE Clear
  <2>1. Target' = 0 BY <1>12 DEF Clear, Target
  <2> QED BY <1>12, <2>1 DEF Clear, TypeOK
<1>13. CASE Finished BY <1>13, <1>0 DEF Finished
<1> QED
  BY <1>1, <1>2, <1>3, <1>4, <1>5, <1>6, <1>7, <1>8, <1>9, <1>10, <1>11,
     <1>12, <1>13 DEF Handler

\* The steps of replay(), when nobody else executes it.
LEMMA OrderedReplay ==
  ASSUME TypeOK, Ordered, threads' = threads,
         NEW x, Replayers = {x}, Replay(x)
  PROVE  Ordered'
<1> USE ReplayAssumption, ReplayersFacts, SameReplayers DEF Ordered, Quiet
<1> Target \in Nat BY DEF Target, TypeOK
<1> x \in Replayers OBVIOUS
<1>0. totalControl' = totalControl => Target' = Target BY DEF Target
<1>1. CASE Top(x) BY <1>1, <1>0 DEF Top, TypeOK
<1>2. CASE ReadReplay(x) BY <1>2, <1>0 DEF ReadReplay, TypeOK
<1>3. CASE TestSize(x) BY <1>3, <1>0 DEF TestSize, TypeOK
<1>4. CASE LoadSkip(x) BY <1>4, <1>0 DEF LoadSkip, TypeOK
<1>5. CASE AssignSkip(x) BY <1>5, <1>0 DEF AssignSkip, TypeOK
<1>6. CASE TestTotal(x) BY <1>6, <1>0 DEF TestTotal, Behind, TypeOK
<1>7. CASE Sample(x) BY <1>7, <1>0 DEF Sample, TypeOK
<1>8. CASE Update(x) BY <1>8, <1>0 DEF Update, TypeOK
<1>9. CASE AddTotal(x) BY <1>9, <1>0 DEF AddTotal, TypeOK
<1>10. CASE SignalDone(x) BY <1>10, <1>0 DEF SignalDone, TypeOK
<1> QED
  BY <1>1, <1>2, <1>3, <1>4, <1>5, <1>6, <1>7, <1>8, <1>9, <1>10 DEF Replay

\* One executor: the invariant holds of every reachable state.
IndOrdered == Alone => Ordered

LEMMA OrderedInvariant == Spec => [](TypeOK /\ IndOrdered)
<1>1. Init => IndOrdered BY OrderedInit DEF IndOrdered
<1>2. TypeOK /\ IndOrdered /\ [Next]_vars => IndOrdered'
  <2> SUFFICES ASSUME TypeOK, IndOrdered, [Next]_vars, Alone'
               PROVE  Ordered'
    BY DEF IndOrdered
  <2>1. threads' = threads BY SameThreads
  <2>2. Alone /\ Ordered
    BY <2>1, SameReplayers DEF Alone, IndOrdered
  <2>3. CASE UNCHANGED vars
    BY <2>2, <2>3, SameReplayers DEF Ordered, Quiet, Target
  <2>4. ASSUME NEW x \in Replayers PROVE Replayers = {x}
    BY <2>2 DEF Alone
  <2> QED BY <2>1, <2>2, <2>3, <2>4, OrderedControl, OrderedReplay DEF Next
<1> QED BY <1>1, <1>2, TypeCorrect, PTL DEF Spec

\* With synchronous replay or one replay thread, the agent never returns from
\* step or end before the replay that the call asked for is done, and the
\* counter never falls back behind it before the next call (replay.cpp:112).
THEOREM NeverAhead == Spec => []NotAhead
<1>1. TypeOK /\ IndOrdered => NotAhead
  BY ReplayersFacts DEF IndOrdered, Ordered, NotAhead, CaughtUp, Quiet
<1> QED BY <1>1, OrderedInvariant, PTL

\* With synchronous replay or one replay thread, no transition is overwritten
\* while the predictor is being updated from it.
THEOREM NeverTorn == Spec => []NoTornSample
<1>1. TypeOK /\ IndOrdered => NoTornSample
  <2> SUFFICES ASSUME TypeOK, Ordered, cpc = "store", NEW x \in Replayers
               PROVE  batch[x] = {}
    BY DEF NoTornSample, IndOrdered
  <2>1. Target \in Nat BY ReplayAssumption DEF Target, TypeOK
  <2> QED BY <2>1 DEF TypeOK, Ordered, Quiet
<1> QED BY <1>1, OrderedInvariant, PTL

\* With synchronous replay or one replay thread, no update is under way when a
\* reset begins, which resets the predictor before it stops the thread.
THEOREM ResetIsClean == Spec => []CleanReset
<1>1. TypeOK /\ IndOrdered => CleanReset
  <2> SUFFICES ASSUME TypeOK, Ordered, cpc = "stop", NEW x \in Replayers
               PROVE  rpc[x] \notin {"sample", "update", "add"}
    BY DEF CleanReset, IndOrdered
  <2>1. Target \in Nat BY ReplayAssumption DEF Target, TypeOK
  <2> QED BY <2>1 DEF TypeOK, Ordered, Quiet
<1> QED BY <1>1, OrderedInvariant, PTL

\* With synchronous replay or one replay thread, the predictor gets less than
\* one batch more than was asked for.
THEOREM NeverTooMuch == Spec => []ReplayBounded
<1>1. TypeOK /\ IndOrdered => ReplayBounded
  BY ReplayersFacts DEF IndOrdered, Ordered, ReplayBounded
<1> QED BY <1>1, OrderedInvariant, PTL

-----------------------------------------------------------------------------
(* Synchronous replay.  Control and memory count together until the memory  *)
(* is full; what the counter of replay has been given for nothing is what   *)
(* it was set to before there were observation_steps_ transitions.          *)

Free == (ObservationSteps - 1) * ReplaySteps
Adding == IF rpc[Control] = "add" THEN BatchSize ELSE 0
Paid ==
  threads = {} =>
    /\ totalTransitions = totalControl + (IF cpc = "count" THEN 1 ELSE 0)
    /\ size = MemorySize \/ size = totalTransitions
    /\ rpc[Control] \in {"skip", "assign"} => size < ObservationSteps
    /\ size >= ObservationSteps => totalReplay + Adding <= updates + Free

\* The steps of the control thread outside of replay().
LEMMA PaidControl ==
  ASSUME TypeOK, Ordered, Paid, threads = {}, threads' = threads,
         Start \/ Store \/ Reset \/ Handler \/ Finished
  PROVE  Paid'
<1> USE ReplayAssumption, ReplayersFacts, SameReplayers DEF Paid, Adding
<1> Free \in Nat BY DEF Free
<1> Control \in Replayers OBVIOUS
<1>1. CASE Start BY <1>1 DEF Start, TypeOK
<1>2. CASE Store \/ Reset \/ Finished
  BY <1>2 DEF Store, Reset, Finished, TypeOK
<1>3. CASE Stored
  <2>1. rpc[Control] = "off" BY <1>3 DEF Stored, Ordered
  <2>2. size < ObservationSteps => totalReplay <= Target BY DEF Ordered
  <2>3. totalControl = ObservationSteps - 1 => Target = Free
    BY DEF Target, Free
  <2> QED BY <1>3, <2>1, <2>2, <2>3 DEF Stored, TypeOK
<1>4. CASE CountStep BY <1>4 DEF CountStep, TypeOK
<1>5. CASE SignalReplay BY <1>5 DEF SignalReplay, TypeOK
<1>6. CASE CheckReplay \/ ReadDone \/ KickThread
  BY <1>6 DEF CheckReplay, ReadDone, KickThread, TypeOK
<1>7. CASE Clear BY <1>7 DEF Clear, TypeOK
<1> QED BY <1>1, <1>2, <1>3, <1>4, <1>5, <1>6, <1>7 DEF Handler

\* The steps of replay().
LEMMA PaidReplay ==
  ASSUME TypeOK, Ordered, Paid, threads = {}, threads' = threads,
         Replay(Control)
  PROVE  Paid'
<1> USE ReplayAssumption, ReplayersFacts, SameReplayers DEF Paid, Adding
<1> Free \in Nat BY DEF Free
<1> Control \in Replayers OBVIOUS
<1>1. CASE TestSize(Control) BY <1>1 DEF TestSize, TypeOK
<1>2. CASE AssignSkip(Control) BY <1>2 DEF AssignSkip, TypeOK
<1>3. CASE Update(Control) BY <1>3 DEF Update, TypeOK
<1>4. CASE AddTotal(Control) BY <1>4 DEF AddTotal, Ordered, TypeOK
<1>5. CASE Top(Control) \/ ReadReplay(Control) \/ LoadSkip(Control)
  BY <1>5 DEF Top, ReadReplay, LoadSkip, TypeOK
<1>6. CASE TestTotal(Control) \/ Sample(Control) \/ SignalDone(Control)
  BY <1>6 DEF TestTotal, Sample, SignalDone, TypeOK
<1> QED BY <1>1, <1>2, <1>3, <1>4, <1>5, <1>6 DEF Replay

\* Without threads, every control step from the observation_steps_-th on is
\* paid for with replay_steps_ sampled transitions before it returns, for any
\* sizes and any number of steps and resets (replay.cpp:46, 147-176).
THEOREM EveryStepIsReplayed == Spec => []EveryStepReplayed
<1>1. Init => Paid BY ReplayAssumption DEF Init, Paid
<1>2. TypeOK /\ IndOrdered /\ Paid /\ [Next]_vars => Paid'
  <2> SUFFICES ASSUME TypeOK, IndOrdered, Paid, [Next]_vars, threads' = {}
               PROVE  Paid'
    BY DEF Paid
  <2>1. threads' = threads /\ threads = {} BY SameThreads
  <2>2. Replayers = {Control} BY <2>1, ReplayersFacts
  <2>3. Ordered BY <2>2 DEF IndOrdered, Alone
  <2>4. CASE UNCHANGED vars BY <2>4 DEF Paid, Adding
  <2> QED BY <2>1, <2>2, <2>3, <2>4, PaidControl, PaidReplay DEF Next
<1>3. TypeOK /\ IndOrdered /\ Paid => EveryStepReplayed
  <2> SUFFICES ASSUME TypeOK, IndOrdered, Paid, threads = {}, cpc = "idle",
                      size >= ObservationSteps
               PROVE  updates >= (totalControl - ObservationSteps + 1)
                                   * ReplaySteps
    BY DEF EveryStepReplayed, SynchronousReplay, PaidFor
  <2>1. Replayers = {Control} BY ReplayersFacts
  <2>2. totalReplay >= Target BY <2>1 DEF IndOrdered, Alone, Ordered, Quiet
  <2>3. totalReplay <= updates + Free
    <3>1. rpc[Control] # "add"
      BY <2>1 DEF IndOrdered, Alone, Ordered
    <3> QED BY <3>1 DEF Paid, Adding, TypeOK
  <2>4. Target - Free = (totalControl - ObservationSteps + 1) * ReplaySteps
    BY ReplayAssumption DEF Target, Free, TypeOK
  <2>5. Target \in Nat /\ Free \in Nat
    BY ReplayAssumption DEF Target, Free, TypeOK
  <2> QED BY <2>2, <2>3, <2>4, <2>5 DEF TypeOK
<1> QED BY <1>1, <1>2, <1>3, TypeCorrect, OrderedInvariant, PTL DEF Spec

-----------------------------------------------------------------------------
(* Any number of executors.                                                *)

\* An executor has a batch only while it updates, and its slots exist.  The
\* control thread does nothing else while it executes replay() itself.
BatchLives ==
  \A x \in Replayers : /\ batch[x] # {} => rpc[x] = "update"
                       /\ batch[x] \subseteq 0..size-1
                       /\ threads = {} /\ rpc[x] # "off" => cpc = "check"

\* For any number of replay threads: samples stay within the memory, which
\* only grows until every thread has left (replay.cpp:74, 160-166).
THEOREM SamplesExist == Spec => []SampleInBounds
<1>1. Init => BatchLives BY DEF Init, BatchLives
<1>2. TypeOK /\ BatchLives /\ [Next]_vars => BatchLives'
  <2> SUFFICES ASSUME TypeOK, BatchLives, [Next]_vars PROVE BatchLives'
    OBVIOUS
  <2>1. threads' = threads BY SameThreads
  <2>2. Replayers' = Replayers BY <2>1, SameReplayers
  <2> USE ReplayersFacts, <2>1, <2>2 DEF BatchLives
  <2>3. CASE UNCHANGED vars BY <2>3
  <2>4. CASE Start BY <2>4 DEF Start, TypeOK
  <2>5. CASE Store \/ Reset \/ Finished
    BY <2>5 DEF Store, Reset, Finished, TypeOK
  <2>6. CASE Handler
    <3>1. CASE Stored BY <3>1 DEF Stored, TypeOK
    <3>2. CASE SignalReplay BY <3>2 DEF SignalReplay, TypeOK
    <3>3. CASE CountStep \/ CheckReplay \/ ReadDone \/ KickThread
      BY <3>3 DEF CountStep, CheckReplay, ReadDone, KickThread, TypeOK
    <3>4. ASSUME NEW t \in threads, StopThread(t) PROVE BatchLives'
      BY <3>4 DEF StopThread, TypeOK
    <3>5. ASSUME NEW t \in threads, JoinThread(t) PROVE BatchLives'
      BY <3>5 DEF JoinThread, TypeOK
    <3>6. CASE Clear BY <3>6 DEF Clear, TypeOK
    <3> QED BY <2>6, <3>1, <3>2, <3>3, <3>4, <3>5, <3>6 DEF Handler
  <2>7. ASSUME NEW x \in Replayers, Replay(x) PROVE BatchLives'
    <3>1. CASE Sample(x) BY <3>1 DEF Sample, TypeOK
    <3>2. CASE Update(x) BY <3>2 DEF Update, TypeOK
    <3>3. CASE ~Sample(x) /\ ~Update(x)
      BY <2>7, <3>3
         DEF Replay, Top, ReadReplay, TestSize, LoadSkip, AssignSkip,
             TestTotal, AddTotal, SignalDone, TypeOK
    <3> QED BY <3>1, <3>2, <3>3
  <2> QED BY <2>3, <2>4, <2>5, <2>6, <2>7 DEF Next
<1>3. BatchLives => SampleInBounds BY DEF BatchLives, SampleInBounds
<1> QED BY <1>1, <1>2, <1>3, TypeCorrect, PTL DEF Spec

-----------------------------------------------------------------------------
(* The two signals.  Control and the executors wait for each other, and are *)
(* joined while they wait: what follows shows that nobody waits for what    *)
(* nobody will do, which is what the liveness of the agent rests on.        *)

\* An executor inside replay(), past its wait.
Working == {"size", "skip", "assign", "loop", "sample", "update", "add"}

\* An executor before its wait, which an unseen signal ends.
Waking(x) == rpc[x] \in {"top", "read"} /\ rseen[x] # rseq

\* An executor that comes to signal done_signal_ without waiting again.
Serving(x) == rpc[x] \in Working \cup {"done"} \/ Waking(x)

\* Control that waits for done_signal_ has been signalled, or will be.
ControlServed ==
  cpc = "wait" => dseq # dseen \/ \E x \in Replayers : Serving(x)

\* A thread that comes to its exit without waiting again.
Leaving(t) == \/ rpc[t] = "exited"
              \/ rpc[t] # "off" /\ (rpc[t] = "read" => rseen[t] # rseq)

\* The thread that a reset joins leaves, or has left.
ThreadLeaves ==
  cpc = "join" => \E t \in Replayers : ~ok[t] /\ Leaving(t)

\* An executor that comes to test the counter against the target.
Engaged(x) == rpc[x] \in Working \/ Waking(x)
              \/ (rpc[x] = "done" /\ rseen[x] # rseq)

\* While control is inside step() or end(), nobody has been stopped; control
\* executes replay() itself only while it checks.
Inside == cpc \in {"store", "count", "signal", "check", "wait"}
Lively ==
  /\ dseen <= dseq /\ \A x \in Replayers : rseen[x] <= rseq
  /\ ~started => \A x \in Replayers : rpc[x] = "off"
  /\ Inside => started
  /\ threads # {} /\ started /\ cpc \notin {"stop", "kick", "join"} =>
       \A x \in Replayers : ok[x] /\ rpc[x] \notin {"off", "exited"}
  /\ threads = {} =>
       /\ rpc[Control] \notin {"top", "exited"}
       /\ rpc[Control] # "off" => cpc = "check"
       /\ rpc[Control] \in Working \cup {"done"} => rseen[Control] = rseq
       /\ rpc[Control] = "read" => rseen[Control] # rseq
  /\ cpc \in {"kick", "join", "wait"} => threads # {}

\* As long as the replay that control has asked for is not done, an executor
\* works on it; the early return of replay() of one that has seen the signal
\* makes up for all of it.
Asked ==
  cpc \in {"check", "wait"} =>
    /\ Behind => \E x \in Replayers : Engaged(x)
    /\ \A x \in Replayers :
         rpc[x] = "assign" /\ rseen[x] = rseq => reg[x] = Target

\* The thread that is about to be kicked is there.
Kicked == cpc = "kick" => \E t \in Replayers : ~ok[t] /\ rpc[t] # "off"

Signals == Lively /\ Asked /\ Kicked /\ ControlServed /\ ThreadLeaves

\* The control thread's own steps keep the invariant.  A signal wakes every
\* executor (replay.cpp:107, 194), so it engages all of them.
LEMMA SignalsControl ==
  ASSUME TypeOK, Signals, threads' = threads,
         Start \/ Store \/ Reset \/ Handler \/ Finished
  PROVE  Signals'
<1> USE ReplayersFacts, SameReplayers, ReplayAssumption
    DEF Signals, Lively, Asked, Kicked, ControlServed, ThreadLeaves, Working,
        Waking, Serving, Leaving, Engaged, Inside, Behind
<1> Target \in Nat BY DEF Target, TypeOK
<1>0. totalControl' = totalControl => Target' = Target BY DEF Target
<1>1. CASE Start
  <2>1. /\ cpc = "idle" /\ cpc' = "idle" /\ ~started /\ started'
        /\ UNCHANGED <<rseq, dseq, dseen, reg>>
        /\ threads # {} => \A x \in Replayers : /\ rpc'[x] = "top"
                                               /\ ok'[x] /\ rseen'[x] = 0
        /\ threads = {} => UNCHANGED <<rpc, ok, rseen>>
    BY <1>1 DEF Start
  <2>2. Lively' BY <2>1 DEF TypeOK
  <2>3. Asked' /\ Kicked' BY <2>1
  <2>4. ControlServed' /\ ThreadLeaves' BY <2>1
  <2> QED BY <2>2, <2>3, <2>4
<1>2. CASE Store BY <1>2, <1>0 DEF Store, TypeOK
<1>3. CASE Reset BY <1>3, <1>0 DEF Reset, TypeOK
<1>4. CASE Stored BY <1>4, <1>0 DEF Stored, TypeOK
<1>5. CASE CountStep BY <1>5 DEF CountStep, TypeOK
<1>6. CASE SignalReplay
  <2>1. \A x \in Replayers : rseen'[x] = rseen[x] /\ rseen'[x] # rseq'
    BY <1>6 DEF SignalReplay, TypeOK
  <2>2. /\ cpc = "signal" /\ cpc' = "check" /\ started' = started
        /\ UNCHANGED <<ok, dseq, dseen, reg>>
        /\ rpc' = IF threads = {} THEN [rpc EXCEPT ![Control] = "read"]
                                  ELSE rpc
    BY <1>6 DEF SignalReplay
  <2>3. \A x \in Replayers : Engaged(x)'
    <3>1. CASE threads = {} BY <2>1, <2>2, <3>1 DEF TypeOK
    <3>2. CASE threads # {} BY <2>1, <2>2, <3>2 DEF TypeOK, ReplayPCs
    <3> QED BY <3>1, <3>2
  <2>4. rseq' = rseq + 1 BY <1>6 DEF SignalReplay
  <2>5. Lively' BY <2>1, <2>2, <2>4 DEF TypeOK
  <2> QED BY <2>1, <2>2, <2>3, <2>5
<1>7. CASE CheckReplay BY <1>7, <1>0 DEF CheckReplay, TypeOK
<1>8. CASE ReadDone BY <1>8, <1>0 DEF ReadDone, TypeOK
<1>9. ASSUME NEW t \in threads, StopThread(t) PROVE Signals'
  BY <1>9, <1>0 DEF StopThread, TypeOK
<1>10. ASSUME NEW t \in threads, JoinThread(t) PROVE Signals'
  BY <1>10, <1>0 DEF JoinThread, TypeOK
<1>11. CASE KickThread BY <1>11, <1>0 DEF KickThread, TypeOK
<1>12. CASE Clear BY <1>12, <1>0 DEF Clear, TypeOK
<1>13. CASE Finished BY <1>13, <1>0 DEF Finished
<1> QED
  BY <1>1, <1>2, <1>3, <1>4, <1>5, <1>6, <1>7, <1>8, <1>9, <1>10, <1>11,
     <1>12, <1>13 DEF Handler

\* The steps of replay() keep it: the executor that was engaged either is so
\* still, or has found that the counter has caught up.
LEMMA SignalsReplay ==
  ASSUME TypeOK, Signals, threads' = threads, NEW x \in Replayers, Replay(x)
  PROVE  Signals'
<1> USE ReplayersFacts, SameReplayers, ReplayAssumption
    DEF Signals, Lively, Asked, Kicked, ControlServed, ThreadLeaves, Working,
        Waking, Serving, Leaving, Engaged, Inside, Behind
<1> Target \in Nat BY DEF Target, TypeOK
<1>0. totalControl' = totalControl => Target' = Target BY DEF Target
<1>1. CASE Top(x)
  <2>1. /\ rpc'[x] = (IF ok[x] THEN "read" ELSE "exited")
        /\ rpc[x] = "top"
        /\ \A y \in Replayers \ {x} : rpc'[y] = rpc[y]
        /\ UNCHANGED <<cpc, started, ok, reg, rseq, rseen, dseq, dseen>>
        /\ totalReplay' = totalReplay /\ Target' = Target
    BY <1>1, <1>0 DEF Top, TypeOK
  <2>2. Lively' BY <2>1 DEF TypeOK
  <2>3. Asked' BY <2>1 DEF TypeOK
  <2>4. Kicked' BY <2>1 DEF TypeOK
  <2>5. ControlServed' BY <2>1 DEF TypeOK
  <2>6. ThreadLeaves' BY <2>1 DEF TypeOK
  <2> QED BY <2>2, <2>3, <2>4, <2>5, <2>6
<1>2. CASE ReadReplay(x)
  <2>1. /\ rpc'[x] = "size" /\ rseen'[x] = rseq /\ rpc[x] = "read"
        /\ \A y \in Replayers \ {x} :
             rpc'[y] = rpc[y] /\ rseen'[y] = rseen[y]
        /\ UNCHANGED <<cpc, started, ok, reg, rseq, dseq, dseen>>
        /\ totalReplay' = totalReplay /\ Target' = Target
    BY <1>2, <1>0 DEF ReadReplay, TypeOK
  <2>2. Lively'
    <3>1. (dseen <= dseq)' BY <2>1 DEF TypeOK
    <3>2. (\A y \in Replayers : rseen[y] <= rseq)'
      <4>1. rseen'[x] <= rseq BY <2>1 DEF TypeOK
      <4>2. \A y \in Replayers \ {x} : rseen'[y] <= rseq BY <2>1
      <4> QED BY <4>1, <4>2, <2>1
    <3>3. (~started => \A y \in Replayers : rpc[y] = "off")' BY <2>1
    <3>4. (Inside => started)' BY <2>1
    <3>5. (threads # {} /\ started /\ cpc \notin {"stop", "kick", "join"} =>
             \A y \in Replayers : ok[y] /\ rpc[y] \notin {"off", "exited"})'
      BY <2>1 DEF TypeOK
    <3>6. (threads = {} =>
             /\ rpc[Control] \notin {"top", "exited"}
             /\ rpc[Control] # "off" => cpc = "check"
             /\ rpc[Control] \in Working \cup {"done"} =>
                  rseen[Control] = rseq
             /\ rpc[Control] = "read" => rseen[Control] # rseq)'
      BY <2>1 DEF TypeOK
    <3>7. (cpc \in {"kick", "join", "wait"} => threads # {})' BY <2>1
    <3> HIDE DEF Inside, Working
    <3> QED BY <3>1, <3>2, <3>3, <3>4, <3>5, <3>6, <3>7, Zenon
  <2>3. Asked' BY <2>1 DEF TypeOK
  <2>4. Kicked' BY <2>1 DEF TypeOK
  <2>5. ControlServed' BY <2>1 DEF TypeOK
  <2>6. ThreadLeaves'
    <3>1. ASSUME NEW y \in Replayers, ~ok[y], Leaving(y)
          PROVE  ~ok'[y] /\ Leaving(y)'
      BY <2>1, <3>1
    <3> HIDE DEF Leaving
    <3> QED BY <2>1, <3>1
  <2> QED BY <2>2, <2>3, <2>4, <2>5, <2>6
<1>3. CASE TestSize(x) BY <1>3, <1>0 DEF TestSize, TypeOK
<1>4. CASE LoadSkip(x) BY <1>4, <1>0 DEF LoadSkip, TypeOK
<1>5. CASE AssignSkip(x)
  <2>1. /\ rpc'[x] = "done" /\ rpc[x] = "assign"
        /\ \A y \in Replayers \ {x} : rpc'[y] = rpc[y]
        /\ UNCHANGED <<cpc, started, ok, reg, rseq, rseen, dseq, dseen>>
        /\ totalReplay' = reg[x] /\ Target' = Target
    BY <1>5, <1>0 DEF AssignSkip, TypeOK
  <2>2. Lively' BY <2>1 DEF TypeOK
  <2>3. Asked' BY <2>1 DEF TypeOK
  <2>4. Kicked' BY <2>1 DEF TypeOK
  <2>5. ControlServed' BY <2>1 DEF TypeOK
  <2>6. ThreadLeaves' BY <2>1 DEF TypeOK
  <2> QED BY <2>2, <2>3, <2>4, <2>5, <2>6
<1>6. CASE TestTotal(x)
  <2>1. /\ rpc'[x] = (IF Behind THEN "sample" ELSE "done")
        /\ rpc[x] = "loop"
        /\ \A y \in Replayers \ {x} : rpc'[y] = rpc[y]
        /\ UNCHANGED <<cpc, started, ok, reg, rseq, rseen, dseq, dseen>>
        /\ totalReplay' = totalReplay /\ Target' = Target
    BY <1>6, <1>0 DEF TestTotal, TypeOK
  <2>2. Lively' BY <2>1 DEF TypeOK
  <2>3. Asked' BY <2>1 DEF TypeOK
  <2>4. Kicked' BY <2>1 DEF TypeOK
  <2>5. ControlServed' BY <2>1 DEF TypeOK
  <2>6. ThreadLeaves' BY <2>1 DEF TypeOK
  <2> QED BY <2>2, <2>3, <2>4, <2>5, <2>6
<1>7. CASE Sample(x) BY <1>7, <1>0 DEF Sample, TypeOK
<1>8. CASE Update(x) BY <1>8, <1>0 DEF Update, TypeOK
<1>9. CASE AddTotal(x) BY <1>9, <1>0 DEF AddTotal, TypeOK
<1>10. CASE SignalDone(x)
  <2>1. /\ rpc'[x] = (IF x = Control THEN "off" ELSE "top")
        /\ rpc[x] = "done" /\ dseq' = dseq + 1
        /\ \A y \in Replayers \ {x} : rpc'[y] = rpc[y]
        /\ UNCHANGED <<cpc, started, ok, reg, rseq, rseen, dseen>>
        /\ totalReplay' = totalReplay /\ Target' = Target
    BY <1>10, <1>0 DEF SignalDone, TypeOK
  <2>2. Lively'
    <3>1. (dseen <= dseq)' BY <2>1 DEF TypeOK
    <3>2. (\A y \in Replayers : rseen[y] <= rseq)'
      <4>1. rseen'[x] <= rseq BY <2>1 DEF TypeOK
      <4>2. \A y \in Replayers \ {x} : rseen'[y] <= rseq BY <2>1
      <4> QED BY <4>1, <4>2, <2>1
    <3>3. (~started => \A y \in Replayers : rpc[y] = "off")' BY <2>1
    <3>4. (Inside => started)' BY <2>1
    <3>5. (threads # {} /\ started /\ cpc \notin {"stop", "kick", "join"} =>
             \A y \in Replayers : ok[y] /\ rpc[y] \notin {"off", "exited"})'
      BY <2>1 DEF TypeOK
    <3>6. (threads = {} =>
             /\ rpc[Control] \notin {"top", "exited"}
             /\ rpc[Control] # "off" => cpc = "check"
             /\ rpc[Control] \in Working \cup {"done"} =>
                  rseen[Control] = rseq
             /\ rpc[Control] = "read" => rseen[Control] # rseq)'
      BY <2>1 DEF TypeOK
    <3>7. (cpc \in {"kick", "join", "wait"} => threads # {})' BY <2>1
    <3> HIDE DEF Inside, Working
    <3> QED BY <3>1, <3>2, <3>3, <3>4, <3>5, <3>6, <3>7, Zenon
  <2>3. Asked' BY <2>1 DEF TypeOK
  <2>4. Kicked' BY <2>1 DEF TypeOK
  <2>5. ControlServed' BY <2>1 DEF TypeOK
  <2>6. ThreadLeaves' BY <2>1 DEF TypeOK
  <2> QED BY <2>2, <2>3, <2>4, <2>5, <2>6
<1> QED
  BY <1>1, <1>2, <1>3, <1>4, <1>5, <1>6, <1>7, <1>8, <1>9, <1>10 DEF Replay

\* The invariant holds of every reachable state, for any number of threads.
LEMMA SignalsInvariant == Spec => [](TypeOK /\ Signals)
<1>1. Init => Signals
  <2> SUFFICES ASSUME Init PROVE Signals OBVIOUS
  <2>1. /\ cpc = "idle" /\ ~started
        /\ \A x \in Replayers : rpc[x] = "off" /\ rseen[x] = rseq
        /\ dseen = dseq /\ rseq = 0 /\ dseq = 0
    BY DEF Init
  <2>2. threads = {} => Control \in Replayers BY DEF Replayers
  <2>3. Lively BY <2>1, <2>2 DEF Lively, Inside, Working
  <2> QED
    BY <2>1, <2>3 DEF Signals, Asked, Kicked, ControlServed, ThreadLeaves
<1>2. TypeOK /\ Signals /\ [Next]_vars => Signals'
  <2> SUFFICES ASSUME TypeOK, Signals, [Next]_vars PROVE Signals' OBVIOUS
  <2>1. CASE UNCHANGED vars
    <3> USE <2>1, SameReplayers
    <3>1. Lively' BY Zenon DEF Signals, Lively, Inside, Working
    <3>2. Asked'
      BY Zenon DEF Signals, Asked, Engaged, Working, Waking, Behind, Target
    <3>3. Kicked' BY Zenon DEF Signals, Kicked
    <3>4. ControlServed'
      BY Zenon DEF Signals, ControlServed, Serving, Working, Waking
    <3>5. ThreadLeaves' BY Zenon DEF Signals, ThreadLeaves, Leaving
    <3> QED BY <3>1, <3>2, <3>3, <3>4, <3>5 DEF Signals
  <2> QED BY <2>1, SameThreads, SignalsControl, SignalsReplay DEF Next
<1> QED BY <1>1, <1>2, TypeCorrect, PTL DEF Spec

\* No wake-up is lost on the way to control: while it waits for done_signal_
\* in step() or end() (replay.cpp:114, 137), the signal has been given, or an
\* executor is on its way to give it without waiting for anything.
THEOREM ControlIsServed == Spec => []ControlServed
<1>1. Signals => ControlServed BY DEF Signals
<1> QED BY <1>1, SignalsInvariant, PTL

\* No wake-up is lost on the way to a replay thread: when stopThreads() joins
\* (replay.cpp:193-195) a thread that was told to stop has exited, or comes to
\* its exit without waiting for another signal.
THEOREM JoinedThreadLeaves == Spec => []ThreadLeaves
<1>1. Signals => ThreadLeaves BY DEF Signals
<1> QED BY <1>1, SignalsInvariant, PTL
=============================================================================
