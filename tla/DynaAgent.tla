----------------------------- MODULE DynaAgent -----------------------------
(***************************************************************************)
(* The Dyna agent (agents/dyna.cpp): after every control step it plans,    *)
(* that is, it lets a second agent live in a learned model.  Planning is   *)
(* done by the control thread or by planning threads that run as far       *)
(* behind control as the scheduler lets them; a behaviour chooses once.    *)
(*                                                                         *)
(* Observations are abstracted to "present" or "empty": a model that       *)
(* cannot predict returns an empty one.                                    *)
(***************************************************************************)
EXTENDS Integers, Sequences, FiniteSets

CONSTANTS
  Teams,            \* the sets of planning threads; {} plans synchronously
  Control,          \* the thread that calls start, step, end, reconfigure
  PlanningSteps,    \* planning_steps_
  PlanningHorizon,  \* planning_horizon_; 0 is no limit
  Outcomes,         \* what the model may answer, see ModelOutcomes
  MaxSteps          \* bound of each team: control steps before each reset
                    \* and after the last

\* terminal after model_->step: running, timeout, absorbing; or no prediction.
ModelOutcomes == {"running", "timeout", "absorbing", "failed"}

ASSUME DynaAssumption ==
  /\ \A T \in Teams : IsFiniteSet(T) /\ Control \notin T
  /\ PlanningSteps \in Nat
  /\ PlanningHorizon \in Nat
  /\ Outcomes \subseteq ModelOutcomes
  /\ MaxSteps \in [Teams -> Seq(Nat)]

VARIABLES
  threads,       \* the planning threads, chosen once
  cpc,           \* where the control thread is
  started,       \* start() was called since the last reset
  totalControl,  \* total_control_steps_
  totalPlanned,  \* total_planned_steps_
  ppc,           \* where each planner is
  ok,            \* Thread::continue_ of each planning thread
  ii,            \* runModel: loop counter
  terminal,      \* runModel: terminal, TRUE for 1 and 2
  steps,         \* runModel: steps
  hasObs,        \* runModel: obs is not empty
  reg,           \* register of an unfinished total_planned_steps_++
  alive,         \* history: model_agent_ is inside an episode
  length,        \* history: transitions in the current planning episode
  resets         \* number of resets so far

pvars == <<ii, terminal, steps, hasObs, reg, alive, length>>
cvars == <<threads, cpc, started, totalControl, resets>>
vars  == <<cvars, totalPlanned, ppc, ok, pvars>>

Planners == IF threads = {} THEN {Control} ELSE threads

Target == totalControl * PlanningSteps

TypeOK ==
  /\ threads \in Teams
  /\ cpc \in {"idle", "plan", "count", "stop", "join"}
  /\ started \in BOOLEAN
  /\ totalControl \in Nat
  /\ totalPlanned \in Nat
  /\ ppc \in [Planners -> {"off", "top", "test", "loop", "model", "load",
                           "add", "break", "exited"}]
  /\ ok \in [Planners -> BOOLEAN]
  /\ ii \in [Planners -> 0..PlanningSteps]
  /\ terminal \in [Planners -> BOOLEAN]
  /\ steps \in [Planners -> Nat]
  /\ hasObs \in [Planners -> BOOLEAN]
  /\ reg \in [Planners -> Nat]
  /\ alive \in [Planners -> BOOLEAN]
  /\ length \in [Planners -> Nat]
  /\ resets \in Nat

Init ==
  /\ threads \in Teams
  /\ cpc = "idle"
  /\ started = FALSE
  /\ totalControl = 0
  /\ totalPlanned = 0
  /\ ppc = [x \in Planners |-> "off"]
  /\ ok = [x \in Planners |-> FALSE]
  /\ ii = [x \in Planners |-> 0]
  /\ terminal = [x \in Planners |-> TRUE]
  /\ steps = [x \in Planners |-> 0]
  /\ hasObs = [x \in Planners |-> FALSE]
  /\ reg = [x \in Planners |-> 0]
  /\ alive = [x \in Planners |-> FALSE]
  /\ length = [x \in Planners |-> 0]
  /\ resets = 0

Goto(x, from, to) == ppc[x] = from /\ ppc' = [ppc EXCEPT ![x] = to]

-----------------------------------------------------------------------------
(* Plausible bugs, to test that the properties can tell.                   *)

\* A failed prediction does not end the planning episode.
TerminalAfterUnguarded(o) == o \in {"timeout", "absorbing"}

\* The horizon is not checked.
TooLongNever(x) == FALSE

\* A counted step is lost.
AddPlannedLost(x) ==
  /\ Goto(x, "add", "break")
  /\ totalPlanned' = reg[x]
  /\ UNCHANGED <<cvars, ok, pvars>>

\* A planning thread forgets to test ok().
TopNever(x) ==
  /\ Goto(x, "top", "test")
  /\ UNCHANGED <<cvars, totalPlanned, ok, pvars>>

\* Loop condition off by one.
MorePlanning(x) == ii[x] <= PlanningSteps

-----------------------------------------------------------------------------
(* The control thread.                                                     *)

\* start(): remembers the start observation, then creates the threads.
Start ==
  /\ cpc = "idle"
  /\ ~started
  /\ started' = TRUE
  /\ IF threads # {} /\ \A x \in Planners : ppc[x] = "off"
       THEN /\ ppc' = [x \in Planners |-> "top"]
            /\ ok' = [x \in Planners |-> TRUE]
       ELSE UNCHANGED <<ppc, ok>>
  /\ UNCHANGED <<threads, cpc, totalControl, totalPlanned, pvars, resets>>

\* step() or end(): the predictors learn, then synchronous planning is called.
Step ==
  /\ cpc = "idle"
  /\ started
  /\ totalControl < MaxSteps[threads][resets + 1]
  /\ IF threads = {}
       THEN cpc' = "plan" /\ ppc' = [ppc EXCEPT ![Control] = "loop"]
       ELSE cpc' = "count" /\ UNCHANGED ppc
  /\ UNCHANGED <<threads, started, totalControl, totalPlanned, ok, pvars,
                 resets>>

\* runModel has returned to step().
Planned ==
  /\ cpc = "plan"
  /\ ppc[Control] = "off"
  /\ cpc' = "count"
  /\ UNCHANGED <<threads, started, totalControl, totalPlanned, ppc, ok, pvars,
                 resets>>

CountStep ==
  /\ cpc = "count"
  /\ totalControl' = totalControl + 1
  /\ cpc' = "idle"
  /\ UNCHANGED <<threads, started, totalPlanned, ppc, ok, pvars, resets>>

\* reconfigure(action = reset).
Reset ==
  /\ cpc = "idle"
  /\ resets + 1 < Len(MaxSteps[threads])
  /\ cpc' = "stop"
  /\ UNCHANGED <<threads, started, totalControl, totalPlanned, ppc, ok, pvars,
                 resets>>

\* stopThreads: stopAndJoin each thread in turn.
StopThread(t) ==
  /\ cpc = "stop"
  /\ ppc[t] # "off"
  /\ ok' = [ok EXCEPT ![t] = FALSE]
  /\ cpc' = "join"
  /\ UNCHANGED <<threads, started, totalControl, totalPlanned, ppc, pvars,
                 resets>>

JoinThread(t) ==
  /\ cpc = "join"
  /\ ~ok[t]
  /\ Goto(t, "exited", "off")
  /\ cpc' = "stop"
  /\ UNCHANGED <<threads, started, totalControl, totalPlanned, ok, pvars,
                 resets>>

Clear ==
  /\ cpc = "stop"
  /\ \A x \in Planners : ppc[x] = "off"
  /\ totalControl' = 0
  /\ totalPlanned' = 0
  /\ started' = FALSE
  /\ resets' = resets + 1
  /\ cpc' = "idle"
  /\ UNCHANGED <<threads, ppc, ok, pvars>>

-----------------------------------------------------------------------------
(* DynaAgentThread::run and runModel, executed by x.                       *)

Top(x) ==
  /\ Goto(x, "top", IF ok[x] THEN "test" ELSE "exited")
  /\ UNCHANGED <<cvars, totalPlanned, ok, pvars>>

\* The inner loop's condition; ok() is not tested between calls of runModel.
TestBehind(x) ==
  /\ Goto(x, "test", IF totalPlanned < Target THEN "loop" ELSE "top")
  /\ UNCHANGED <<cvars, totalPlanned, ok, pvars>>

\* The condition of runModel's loop.
MoreSteps(x) == ii[x] < PlanningSteps

\* Next iteration; after a terminal one a new episode starts from a start
\* observation, of which there is always one.
Iterate(x) ==
  /\ MoreSteps(x)
  /\ Goto(x, "loop", "model")
  /\ IF terminal[x]
       THEN /\ steps' = [steps EXCEPT ![x] = 0]
            /\ hasObs' = [hasObs EXCEPT ![x] = TRUE]
            /\ alive' = [alive EXCEPT ![x] = TRUE]
            /\ length' = [length EXCEPT ![x] = 0]
       ELSE UNCHANGED <<steps, hasObs, alive, length>>
  /\ UNCHANGED <<cvars, totalPlanned, ok, ii, terminal, reg>>

\* runModel returns and gives up its episode; the next call begins with the
\* values that its local variables are initialised to.
Return(x) ==
  /\ ~MoreSteps(x)
  /\ Goto(x, "loop", IF x = Control THEN "off" ELSE "test")
  /\ ii' = [ii EXCEPT ![x] = 0]
  /\ terminal' = [terminal EXCEPT ![x] = TRUE]
  /\ steps' = [steps EXCEPT ![x] = 0]
  /\ hasObs' = [hasObs EXCEPT ![x] = FALSE]
  /\ alive' = [alive EXCEPT ![x] = FALSE]
  /\ length' = [length EXCEPT ![x] = 0]
  /\ UNCHANGED <<cvars, totalPlanned, ok, reg>>

\* Whether the next iteration has to start an episode.
TerminalAfter(o) == o # "running"

\* model_->step, then end or step of model_agent_, unless there is no
\* prediction.
ModelStep(x, o) ==
  /\ Goto(x, "model", IF o = "failed" THEN "break" ELSE "load")
  /\ hasObs' = [hasObs EXCEPT ![x] = o # "failed"]
  /\ terminal' = [terminal EXCEPT ![x] = TerminalAfter(o)]
  /\ alive' = [alive EXCEPT ![x] = alive[x] /\ o # "absorbing"]
  /\ length' = IF o = "failed" THEN length
                               ELSE [length EXCEPT ![x] = length[x] + 1]
  /\ UNCHANGED <<cvars, totalPlanned, ok, ii, steps, reg>>

\* total_planned_steps_++ is a load and a store.
LoadPlanned(x) ==
  /\ Goto(x, "load", "add")
  /\ reg' = [reg EXCEPT ![x] = totalPlanned]
  /\ UNCHANGED <<cvars, totalPlanned, ok, ii, terminal, steps, hasObs, alive,
                 length>>

AddPlanned(x) ==
  /\ Goto(x, "add", "break")
  /\ totalPlanned' = reg[x] + 1
  /\ reg' = [reg EXCEPT ![x] = 0]
  /\ UNCHANGED <<cvars, ok, ii, terminal, steps, hasObs, alive, length>>

\* planning_horizon_ && steps++ == planning_horizon_
TooLong(x) == PlanningHorizon # 0 /\ steps[x] = PlanningHorizon

Break(x) ==
  /\ Goto(x, "break", "loop")
  /\ terminal' = [terminal EXCEPT ![x] = terminal[x] \/ TooLong(x)]
  /\ steps' = IF PlanningHorizon = 0 THEN steps
                                     ELSE [steps EXCEPT ![x] = steps[x] + 1]
  /\ ii' = [ii EXCEPT ![x] = ii[x] + 1]
  /\ UNCHANGED <<cvars, totalPlanned, ok, hasObs, reg, alive, length>>

-----------------------------------------------------------------------------
Plan(x) ==
  \/ Top(x)
  \/ TestBehind(x)
  \/ Iterate(x)
  \/ Return(x)
  \/ \E o \in Outcomes : ModelStep(x, o)
  \/ LoadPlanned(x)
  \/ AddPlanned(x)
  \/ Break(x)

Handler ==
  \/ Planned
  \/ CountStep
  \/ \E t \in threads : StopThread(t) \/ JoinThread(t)
  \/ Clear

Finished ==
  /\ cpc = "idle"
  /\ totalControl = MaxSteps[threads][resets + 1]
  /\ resets + 1 = Len(MaxSteps[threads])
  /\ UNCHANGED vars

Next ==
  \/ Start
  \/ Step
  \/ Reset
  \/ Handler
  \/ Finished
  \/ \E x \in Planners : Plan(x)

Spec == Init /\ [][Next]_vars

\* Every thread is scheduled; the calls are the experiment's choice.
FairSpec ==
  /\ Spec
  /\ WF_vars(Handler)
  /\ \A x \in {Control} \cup UNION Teams :
       WF_vars(x \in Planners /\ Plan(x))

\* A model that has been learned from experience predicts, sooner or later.
Predict(x) == \E o \in Outcomes \ {"failed"} : ModelStep(x, o)
LearnedSpec ==
  /\ FairSpec
  /\ \A x \in {Control} \cup UNION Teams :
       SF_vars(x \in Planners /\ Predict(x))

-----------------------------------------------------------------------------
(* Properties                                                              *)

\* The model is asked only about an observation it has, by an agent that is
\* inside an episode: a failed prediction and the end of an episode are both
\* followed by a start (dyna.cpp:162-191).
PlanningProtocol ==
  \A x \in Planners : ppc[x] = "model" => hasObs[x] /\ alive[x]

\* The limit the loop keeps: one more than the horizon.
HorizonPlusOne ==
  PlanningHorizon # 0 => \A x \in Planners : length[x] <= PlanningHorizon + 1

\* Synchronous planning does no more than planning_steps_ per control step, and
\* each of one or two planning threads adds less than one call of runModel to
\* that, although they count without a lock.  (Three threads can do more: one
\* that sets the counter back makes another one plan again while the third is
\* about to store its own count.)
PlanningBounded ==
  cpc = "idle" /\ Cardinality(threads) <= 2 =>
    \/ totalPlanned <= Target
    \/ totalPlanned < Target + Cardinality(threads) * PlanningSteps

\* stopThreads terminates ("Must exit when ok() becomes false", itc.h:244).
ResetCompletes == cpc = "stop" ~> cpc = "idle"

\* The planning that control has asked for gets done, or is forgotten.
PlanningCatchesUp ==
  \A x \in UNION Teams :
    x \in threads /\ ppc[x] = "loop" ~>
      totalPlanned >= Target \/ cpc = "join"
=============================================================================
