------------------------- MODULE DynaAgent_proofs --------------------------
(***************************************************************************)
(* What is proved of the Dyna agent for every number of planning threads,  *)
(* planning steps and horizon: the planning agent is called within its     *)
(* protocol, and an episode ends in time.  With at most two threads the    *)
(* unlocked counter keeps planning within its budget.                      *)
(***************************************************************************)
EXTENDS DynaAgent, FiniteSetTheorems, TLAPS

USE DEF cvars, pvars, vars

PlannerPCs == {"off", "top", "test", "loop", "model", "load", "add", "break",
               "exited"}

\* Nobody becomes or ceases to be a planner.
LEMMA SamePlanners ==
  ASSUME [Next]_vars
  PROVE  threads' = threads /\ Planners' = Planners
BY DEF Next, Start, Step, Reset, Handler, Planned, CountStep, StopThread,
       JoinThread, Clear, Finished, Plan, Top, TestBehind, Iterate, Return,
       ModelStep, LoadPlanned, AddPlanned, Break, Planners

\* The loop counter of runModel has a bound inside the loop.
InLoop ==
  \A x \in Planners :
    ppc[x] \in {"model", "load", "add", "break"} => ii[x] < PlanningSteps

LEMMA InLoopKept ==
  ASSUME TypeOK, InLoop, [Next]_vars
  PROVE  InLoop'
<1> USE DynaAssumption DEF InLoop, TypeOK, Goto
<1> threads' = threads /\ Planners' = Planners BY SamePlanners
<1>1. CASE UNCHANGED vars BY <1>1
<1>2. CASE Start BY <1>2 DEF Start
<1>3. CASE Step BY <1>3 DEF Step
<1>4. CASE Reset \/ Finished BY <1>4 DEF Reset, Finished
<1>5. CASE Handler
  BY <1>5 DEF Handler, Planned, CountStep, StopThread, JoinThread, Clear
<1>6. ASSUME NEW x \in Planners, Plan(x) PROVE InLoop'
  <2>1. CASE Iterate(x) BY <2>1 DEF Iterate, MoreSteps
  <2>2. CASE Return(x) BY <2>2 DEF Return
  <2>3. ASSUME NEW o \in Outcomes, ModelStep(x, o) PROVE InLoop'
    BY <2>3 DEF ModelStep
  <2>4. CASE Break(x) BY <2>4 DEF Break
  <2>5. CASE Top(x) \/ TestBehind(x) \/ LoadPlanned(x) \/ AddPlanned(x)
    BY <2>5 DEF Top, TestBehind, LoadPlanned, AddPlanned
  <2> QED BY <1>6, <2>1, <2>2, <2>3, <2>4, <2>5 DEF Plan
<1> QED BY <1>1, <1>2, <1>3, <1>4, <1>5, <1>6 DEF Next

\* Type correctness, for any number of planning threads.
THEOREM DynaTypeCorrect == Spec => []TypeOK
<1> USE DynaAssumption
<1>1. Init => TypeOK
  <2>1. Init => started \in BOOLEAN BY Zenon DEF Init
  <2> QED BY <2>1 DEF Init, TypeOK
<1>2. TypeOK /\ InLoop /\ [Next]_vars => TypeOK'
  <2> SUFFICES ASSUME TypeOK, InLoop, [Next]_vars PROVE TypeOK' OBVIOUS
  <2> threads' = threads /\ Planners' = Planners BY SamePlanners
  <2>1. CASE UNCHANGED vars BY <2>1 DEF TypeOK
  <2>2. CASE Start
    <3>1. started' \in BOOLEAN BY <2>2, Zenon DEF Start
    <3>2. ppc' \in [Planners -> PlannerPCs]
      BY <2>2 DEF TypeOK, Start, PlannerPCs
    <3>3. ok' \in [Planners -> BOOLEAN] BY <2>2 DEF TypeOK, Start
    <3>4. UNCHANGED <<threads, cpc, totalControl, totalPlanned, pvars, resets>>
      BY <2>2 DEF Start
    <3> QED BY <3>1, <3>2, <3>3, <3>4 DEF TypeOK, PlannerPCs
  <2>3. CASE Step
    <3>1. /\ cpc' \in {"plan", "count"}
          /\ ppc' = [ppc EXCEPT ![Control] = "loop"] \/ ppc' = ppc
          /\ UNCHANGED <<threads, started, totalControl, totalPlanned, ok,
                         pvars, resets>>
      BY <2>3, Zenon DEF Step
    <3>2. ppc' \in [Planners -> PlannerPCs] BY <3>1 DEF TypeOK, PlannerPCs
    <3> QED BY <3>1, <3>2 DEF TypeOK, PlannerPCs
  <2>4. CASE Reset BY <2>4 DEF TypeOK, Reset
  <2>5. CASE Handler
    <3>1. CASE Planned BY <3>1 DEF TypeOK, Planned
    <3>2. CASE CountStep BY <3>2 DEF TypeOK, CountStep
    <3>3. ASSUME NEW t \in threads, StopThread(t) PROVE TypeOK'
      BY <3>3 DEF TypeOK, StopThread
    <3>4. ASSUME NEW t \in threads, JoinThread(t) PROVE TypeOK'
      BY <3>4 DEF TypeOK, JoinThread, Goto
    <3>5. CASE Clear
      <4>1. started' \in BOOLEAN BY <3>5, Zenon DEF Clear
      <4> QED BY <3>5, <4>1 DEF TypeOK, Clear
    <3> QED BY <2>5, <3>1, <3>2, <3>3, <3>4, <3>5 DEF Handler
  <2>6. CASE Finished BY <2>6 DEF TypeOK, Finished
  <2>7. ASSUME NEW x \in Planners, Plan(x) PROVE TypeOK'
    <3>1. CASE Top(x) BY <3>1 DEF TypeOK, Top, Goto
    <3>2. CASE TestBehind(x) BY <3>2 DEF TypeOK, TestBehind, Goto
    <3>3. CASE Iterate(x)
      <4>1. ppc' \in [Planners -> PlannerPCs]
        BY <3>3 DEF Iterate, Goto, TypeOK, PlannerPCs
      <4>2. hasObs' \in [Planners -> BOOLEAN] BY <3>3 DEF Iterate, TypeOK
      <4>3. alive' \in [Planners -> BOOLEAN] BY <3>3 DEF Iterate, TypeOK
      <4>4. steps' \in [Planners -> Nat] BY <3>3 DEF Iterate, TypeOK
      <4>6. length' \in [Planners -> Nat]
        <5>1. length' = [length EXCEPT ![x] = 0] \/ length' = length
          BY <3>3, Zenon DEF Iterate
        <5>2. CASE length' = [length EXCEPT ![x] = 0] BY <5>2 DEF TypeOK
        <5>3. CASE length' = length BY <5>3 DEF TypeOK
        <5> QED BY <5>1, <5>2, <5>3
      <4>5. UNCHANGED <<cvars, totalPlanned, ok, ii, terminal, reg>>
        BY <3>3 DEF Iterate
      <4> QED
        BY <4>1, <4>2, <4>3, <4>4, <4>5, <4>6 DEF TypeOK, PlannerPCs
    <3>4. CASE Return(x) BY <3>4 DEF TypeOK, Return, Goto
    <3>5. ASSUME NEW o \in Outcomes, ModelStep(x, o) PROVE TypeOK'
      <4>1. /\ terminal' = [terminal EXCEPT ![x] = TerminalAfter(o)]
            /\ TerminalAfter(o) \in BOOLEAN
        BY <3>5, Zenon DEF ModelStep, TerminalAfter
      <4>2. terminal' \in [Planners -> BOOLEAN] BY <4>1 DEF TypeOK
      <4>3. /\ alive' = [alive EXCEPT ![x] = alive[x] /\ o # "absorbing"]
            /\ (alive[x] /\ o # "absorbing") \in BOOLEAN
        BY <3>5, Zenon DEF ModelStep
      <4>4. alive' \in [Planners -> BOOLEAN] BY <4>3, Zenon DEF TypeOK
      <4>5. hasObs' = [hasObs EXCEPT ![x] = o # "failed"]
            /\ (o # "failed") \in BOOLEAN
        BY <3>5, Zenon DEF ModelStep
      <4>6. hasObs' \in [Planners -> BOOLEAN] BY <4>5, Zenon DEF TypeOK
      <4>7. ppc' \in [Planners -> PlannerPCs]
        BY <3>5 DEF ModelStep, Goto, TypeOK, PlannerPCs
      <4>8. length' \in [Planners -> Nat] BY <3>5 DEF ModelStep, TypeOK
      <4>9. UNCHANGED <<cvars, totalPlanned, ok, ii, steps, reg>>
        BY <3>5 DEF ModelStep
      <4> QED
        BY <4>2, <4>4, <4>6, <4>7, <4>8, <4>9 DEF TypeOK, PlannerPCs
    <3>6. CASE LoadPlanned(x) BY <3>6 DEF TypeOK, LoadPlanned, Goto
    <3>7. CASE AddPlanned(x) BY <3>7 DEF TypeOK, AddPlanned, Goto
    <3>8. CASE Break(x)
      <4>1. /\ terminal' = [terminal EXCEPT ![x] = terminal[x] \/ TooLong(x)]
            /\ (terminal[x] \/ TooLong(x)) \in BOOLEAN
        BY <3>8, Zenon DEF Break
      <4>2. terminal' \in [Planners -> BOOLEAN] BY <4>1, Zenon DEF TypeOK
      <4>3. ii' = [ii EXCEPT ![x] = ii[x] + 1] /\ ii[x] < PlanningSteps
        BY <3>8 DEF Break, Goto, InLoop
      <4>4. ii' \in [Planners -> 0..PlanningSteps] BY <4>3 DEF TypeOK
      <4>5. steps' \in [Planners -> Nat] BY <3>8 DEF TypeOK, Break
      <4>6. ppc' \in [Planners -> PlannerPCs]
        BY <3>8 DEF Break, Goto, TypeOK, PlannerPCs
      <4>7. UNCHANGED <<cvars, totalPlanned, ok, hasObs, reg, alive, length>>
        BY <3>8 DEF Break
      <4> QED
        BY <4>2, <4>4, <4>5, <4>6, <4>7 DEF TypeOK, PlannerPCs
    <3> QED
      BY <2>7, <3>1, <3>2, <3>3, <3>4, <3>5, <3>6, <3>7, <3>8 DEF Plan
  <2> QED BY <2>1, <2>2, <2>3, <2>4, <2>5, <2>6, <2>7 DEF Next
<1>3. Init => InLoop BY DEF Init, InLoop
<1> QED BY <1>1, <1>2, <1>3, InLoopKept, PTL DEF Spec

-----------------------------------------------------------------------------
(* Planning episodes.                                                      *)

\* Where a planner is inside an episode: before the model is asked, and as
\* long as the last step was not the last one of its episode.
InEpisode(x) ==
  \/ ppc[x] = "model"
  \/ ppc[x] \in {"loop", "load", "add", "break"} /\ ~terminal[x]

\* A call of runModel begins outside of one.  Inside, the planner has an
\* observation, and with a horizon it has made as many steps as it has
\* counted, or one more when the last one is not counted yet.  Control plans
\* inside of its own step.
Counted(x) == IF ppc[x] \in {"load", "add", "break"} THEN 1 ELSE 0
Episodes ==
  \A x \in Planners :
    /\ ppc[x] \in {"off", "top", "test", "exited"} => terminal[x]
    /\ threads = {} /\ ppc[x] # "off" => cpc = "plan"
    /\ InEpisode(x) => hasObs[x] /\ alive[x]
    /\ PlanningHorizon # 0 =>
         /\ length[x] <= PlanningHorizon + 1
         /\ InEpisode(x) => length[x] = steps[x] + Counted(x)
         /\ InEpisode(x) => steps[x] <= PlanningHorizon

LEMMA EpisodesKept ==
  ASSUME TypeOK, Episodes, [Next]_vars
  PROVE  Episodes'
<1> USE DynaAssumption DEF Episodes, InEpisode, Counted, TypeOK, Goto
<1> threads' = threads /\ Planners' = Planners BY SamePlanners
<1>1. CASE UNCHANGED vars BY <1>1
<1>2. CASE Start
  <2>1. /\ UNCHANGED <<pvars, cpc>>
        /\ \/ ppc' = ppc
           \/ /\ threads # {}
              /\ \A x \in Planners : ppc[x] = "off"
              /\ ppc' = [x \in Planners |-> "top"]
    BY <1>2, Zenon DEF Start
  <2>2. CASE ppc' = ppc BY <2>1, <2>2
  <2>3. CASE /\ threads # {}
             /\ \A x \in Planners : ppc[x] = "off"
             /\ ppc' = [x \in Planners |-> "top"]
    BY <2>1, <2>3
  <2> QED BY <2>1, <2>2, <2>3
<1>3. CASE Step
  <2>1. /\ UNCHANGED <<pvars, threads>>
        /\ cpc = "idle"
        /\ \/ threads # {} /\ ppc' = ppc
           \/ /\ threads = {}
              /\ ppc' = [ppc EXCEPT ![Control] = "loop"]
              /\ cpc' = "plan"
    BY <1>3, Zenon DEF Step
  <2>2. CASE threads # {} /\ ppc' = ppc BY <2>1, <2>2
  <2>3. CASE threads = {} /\ ppc' = [ppc EXCEPT ![Control] = "loop"]
    <3>1. \A x \in Planners : ppc[x] = "off" BY <2>1, <2>3
    <3> QED BY <2>1, <2>3, <3>1
  <2> QED BY <2>1, <2>2, <2>3
<1>4. CASE Reset \/ Finished BY <1>4 DEF Reset, Finished
<1>5. CASE Handler
  <2>1. CASE Planned BY <2>1 DEF Planned, Planners
  <2>2. CASE CountStep BY <2>2 DEF CountStep
  <2>3. CASE Clear BY <2>3 DEF Clear
  <2>4. ASSUME NEW t \in threads, StopThread(t) PROVE Episodes'
    BY <2>4 DEF StopThread
  <2>5. ASSUME NEW t \in threads, JoinThread(t) PROVE Episodes'
    BY <2>5 DEF JoinThread
  <2> QED BY <1>5, <2>1, <2>2, <2>3, <2>4, <2>5 DEF Handler
<1>6. ASSUME NEW x \in Planners, Plan(x) PROVE Episodes'
  <2>1. CASE Iterate(x) BY <2>1 DEF Iterate
  <2>2. CASE Return(x) BY <2>2 DEF Return
  <2>3. ASSUME NEW o \in Outcomes, ModelStep(x, o) PROVE Episodes'
    BY <2>3 DEF ModelStep, TerminalAfter
  <2>4. CASE Break(x) BY <2>4 DEF Break, TooLong
  <2>5. CASE LoadPlanned(x) \/ AddPlanned(x)
    BY <2>5 DEF LoadPlanned, AddPlanned
  <2>6. CASE Top(x)
    BY <2>6 DEF Top
  <2>7. CASE TestBehind(x)
    BY <2>7 DEF TestBehind
  <2> QED BY <1>6, <2>1, <2>2, <2>3, <2>4, <2>5, <2>6, <2>7 DEF Plan
<1> QED BY <1>1, <1>2, <1>3, <1>4, <1>5, <1>6 DEF Next

\* In every reachable state.
LEMMA EpisodesInvariant == Spec => [](TypeOK /\ Episodes)
<1>1. Init => Episodes
  <2> SUFFICES ASSUME Init PROVE Episodes OBVIOUS
  <2>1. \A x \in Planners : ppc[x] = "off" /\ terminal[x] /\ length[x] = 0
    BY DEF Init
  <2> QED BY <2>1, DynaAssumption DEF Episodes, InEpisode
<1> QED BY <1>1, EpisodesKept, DynaTypeCorrect, PTL DEF Spec

\* The model is asked only about an observation it has given, by a planning
\* agent that is inside an episode, whatever it answers and however many
\* threads plan (dyna.cpp:162-191).
THEOREM PlanningIsProtocol == Spec => []PlanningProtocol
<1>1. Episodes => PlanningProtocol
  BY DEF Episodes, InEpisode, PlanningProtocol
<1> QED BY <1>1, EpisodesInvariant, PTL

\* A planning episode ends one step after the horizon, for every horizon.
THEOREM PlanningHasHorizon == Spec => []HorizonPlusOne
<1>1. Episodes => HorizonPlusOne BY DEF Episodes, HorizonPlusOne
<1> QED BY <1>1, EpisodesInvariant, PTL
-----------------------------------------------------------------------------
(* The budget.  What counts is the planning that is still to come in a call *)
(* of runModel, and where the counter can fall back to.                     *)

\* Steps that the present call of a planner may still count.
Rest(x) == CASE ppc[x] \in {"loop", "model", "load", "add"} ->
                  PlanningSteps - ii[x]
             [] ppc[x] = "break" -> PlanningSteps - ii[x] - 1
             [] OTHER -> 0

\* A planner is about to set the counter to less than the target.
Low(x) == ppc[x] = "add" /\ reg[x] + 1 < Target

Asked == IF cpc \in {"plan", "count"} THEN PlanningSteps ELSE 0

\* A single planner has nobody who disturbs its count.
Single(x) ==
  /\ ppc[x] = "add" => reg[x] = totalPlanned
  /\ threads = {} => totalPlanned + Rest(x) <= Target + Asked
  /\ threads # {} => totalPlanned + Rest(x) < Target + PlanningSteps

\* Of two planners, one that can start another call, now or when the other
\* has stored, leaves room for it.
Pair(x, y) ==
  /\ totalPlanned + Rest(x) + Rest(y)
       < Target + PlanningSteps + PlanningSteps
  /\ Low(y) => totalPlanned + Rest(x) < Target + PlanningSteps
  /\ ppc[x] = "add" =>
       /\ reg[x] + Rest(x) + Rest(y) < Target + PlanningSteps + PlanningSteps
       /\ totalPlanned < Target \/ Low(y) =>
            reg[x] + Rest(x) < Target + PlanningSteps

Budget ==
  /\ PlanningSteps = 0 => totalPlanned = 0
  /\ PlanningSteps # 0 =>
       \A x \in Planners :
         /\ Planners = {x} => Single(x)
         /\ \A y \in Planners :
              x # y /\ Planners = {x, y} => threads # {} /\ Pair(x, y)

LEMMA RestFacts ==
  ASSUME TypeOK, InLoop, NEW x \in Planners
  PROVE  Rest(x) \in 0..PlanningSteps
<1> ii[x] \in 0..PlanningSteps /\ PlanningSteps \in Nat
  BY DynaAssumption DEF TypeOK
<1>1. CASE ppc[x] \in {"loop", "model", "load", "add"} BY <1>1 DEF Rest
<1>2. CASE ppc[x] = "break" BY <1>2 DEF Rest, InLoop
<1>3. CASE ppc[x] \notin {"loop", "model", "load", "add", "break"}
  BY <1>3 DEF Rest
<1> QED BY <1>1, <1>2, <1>3

\* The same after a step.
LEMMA RestFactsNext ==
  ASSUME TypeOK', InLoop', NEW x \in Planners'
  PROVE  Rest(x)' \in 0..PlanningSteps
<1> ii'[x] \in 0..PlanningSteps /\ PlanningSteps \in Nat
  BY DynaAssumption DEF TypeOK
<1>1. CASE ppc'[x] \in {"loop", "model", "load", "add"} BY <1>1 DEF Rest
<1>2. CASE ppc'[x] = "break" BY <1>2 DEF Rest, InLoop
<1>3. CASE ppc'[x] \notin {"loop", "model", "load", "add", "break"}
  BY <1>3 DEF Rest
<1> QED BY <1>1, <1>2, <1>3

LEMMA TargetFacts ==
  ASSUME TypeOK
  PROVE  /\ Target \in Nat
         /\ totalControl' = totalControl => Target' = Target
         /\ totalControl' = totalControl + 1 =>
              Target' = Target + PlanningSteps
         /\ totalControl' = 0 => Target' = 0
BY DynaAssumption DEF Target, TypeOK

\* Nothing that a planner does elsewhere lengthens its call.
Elsewhere(x) ==
  \/ Top(x) \/ Iterate(x) \/ Return(x) \/ Break(x)
  \/ \E o \in Outcomes : ModelStep(x, o)

LEMMA ElsewhereStep ==
  ASSUME TypeOK, InLoop, NEW x \in Planners, Elsewhere(x)
  PROVE  /\ UNCHANGED <<cvars, totalPlanned, reg>>
         /\ ppc[x] # "add" /\ ppc'[x] # "add"
         /\ Rest(x)' <= Rest(x)
         /\ \A y \in Planners \ {x} : ppc'[y] = ppc[y] /\ ii'[y] = ii[y]
<1> USE DynaAssumption DEF TypeOK, Goto, Rest
<1> PlanningSteps \in Nat /\ ii[x] \in 0..PlanningSteps OBVIOUS
<1>1. CASE Top(x) BY <1>1 DEF Top
<1>2. CASE Iterate(x) BY <1>2 DEF Iterate
<1>3. CASE Return(x) BY <1>3 DEF Return, MoreSteps
<1>4. CASE Break(x) BY <1>4 DEF Break
<1>5. ASSUME NEW o \in Outcomes, ModelStep(x, o)
      PROVE  /\ UNCHANGED <<cvars, totalPlanned, reg>>
             /\ ppc[x] # "add" /\ ppc'[x] # "add"
             /\ Rest(x)' <= Rest(x)
             /\ \A y \in Planners \ {x} : ppc'[y] = ppc[y] /\ ii'[y] = ii[y]
  BY <1>5 DEF ModelStep
<1> QED BY <1>1, <1>2, <1>3, <1>4, <1>5 DEF Elsewhere

\* Steps of the control thread outside of planning.
Outside ==
  \/ Start \/ Reset \/ Planned \/ Finished
  \/ threads # {} /\ Step
  \/ \E t \in threads : StopThread(t) \/ JoinThread(t)

LEMMA ControlStep ==
  ASSUME TypeOK, Outside
  PROVE  /\ UNCHANGED <<threads, totalControl, totalPlanned, reg>>
         /\ Asked' = Asked \/ threads # {}
         /\ \A x \in Planners : /\ ppc'[x] = "add" <=> ppc[x] = "add"
                                /\ Rest(x)' = Rest(x)
<1> USE DynaAssumption DEF TypeOK, Goto, Rest, Asked
<1>1. CASE Start
  <2>1. /\ UNCHANGED <<pvars, cpc, threads, totalControl, totalPlanned>>
        /\ \/ ppc' = ppc
           \/ /\ \A x \in Planners : ppc[x] = "off"
              /\ ppc' = [x \in Planners |-> "top"]
    BY <1>1, Zenon DEF Start
  <2> QED BY <2>1
<1>2. CASE Reset \/ Finished BY <1>2 DEF Reset, Finished
<1>3. CASE Planned BY <1>3 DEF Planned
<1>4. CASE threads # {} /\ Step
  <2>1. UNCHANGED <<pvars, ppc, threads, totalControl, totalPlanned>>
    BY <1>4, Zenon DEF Step
  <2> QED BY <1>4, <2>1
<1>5. ASSUME NEW t \in threads, StopThread(t)
      PROVE  /\ UNCHANGED <<pvars, ppc, threads, totalControl, totalPlanned>>
             /\ Asked' = Asked
  BY <1>5 DEF StopThread
<1>6. ASSUME NEW t \in threads, JoinThread(t)
      PROVE  /\ UNCHANGED <<pvars, threads, totalControl, totalPlanned>>
             /\ Asked' = Asked
             /\ ppc[t] = "exited" /\ ppc' = [ppc EXCEPT ![t] = "off"]
  BY <1>6 DEF JoinThread
<1> QED BY <1>1, <1>2, <1>3, <1>4, <1>5, <1>6 DEF Outside

\* The budget of a step that lengthens no call.
LEMMA BudgetKeptShort ==
  ASSUME TypeOK, TypeOK', InLoop, InLoop', Budget, Planners' = Planners,
         UNCHANGED <<threads, totalControl, totalPlanned, reg>>,
         Asked' = Asked \/ threads # {},
         \A x \in Planners : /\ ppc'[x] = "add" <=> ppc[x] = "add"
                             /\ Rest(x)' <= Rest(x)
  PROVE  Budget'
<1> USE DynaAssumption, TargetFacts
<1> PlanningSteps \in Nat OBVIOUS
<1> /\ totalPlanned \in Nat /\ Target \in Nat /\ Target' = Target
    /\ Asked \in Nat
  BY DEF TypeOK, Asked
<1>0. ASSUME NEW x \in Planners
      PROVE  /\ reg[x] \in Nat /\ Rest(x) \in Nat /\ Rest(x)' \in Nat
             /\ Rest(x)' <= Rest(x)
             /\ reg'[x] = reg[x]
             /\ ppc'[x] = "add" <=> ppc[x] = "add"
  <2>1. Rest(x) \in 0..PlanningSteps BY RestFacts
  <2>2. Rest(x)' \in 0..PlanningSteps BY RestFactsNext
  <2>3. reg[x] \in Nat BY DEF TypeOK
  <2> QED BY <2>1, <2>2, <2>3
<1>1. ASSUME NEW x \in Planners, Single(x) PROVE Single(x)'
  BY <1>0, <1>1 DEF Single
<1>2. ASSUME NEW x \in Planners, NEW y \in Planners, Pair(x, y)
      PROVE  Pair(x, y)'
  <2>1. Low(y)' => Low(y) BY <1>0 DEF Low
  <2>2. /\ Rest(x) \in Nat /\ Rest(x)' \in Nat /\ Rest(x)' <= Rest(x)
        /\ Rest(y) \in Nat /\ Rest(y)' \in Nat /\ Rest(y)' <= Rest(y)
        /\ reg[x] \in Nat /\ reg'[x] = reg[x]
        /\ ppc'[x] = "add" => ppc[x] = "add"
    BY <1>0
  <2> HIDE DEF Low
  <2> QED BY <1>2, <2>1, <2>2 DEF Pair
<1> QED BY <1>1, <1>2 DEF Budget

\* The steps of the control thread that begin, count and forget planning.
LEMMA BudgetKeptControl ==
  ASSUME TypeOK, TypeOK', InLoop, InLoop', Episodes, Budget,
         Planners' = Planners, threads' = threads,
         Clear \/ CountStep \/ (threads = {} /\ Step)
  PROVE  Budget'
<1> USE DynaAssumption, TargetFacts
<1> PlanningSteps \in Nat OBVIOUS
<1>0. ASSUME NEW x \in Planners
      PROVE  Rest(x) \in 0..PlanningSteps /\ Rest(x)' \in 0..PlanningSteps
             /\ reg[x] \in Nat
  BY RestFacts, RestFactsNext DEF TypeOK
<1>1. CASE Clear
  <2>1. totalPlanned' = 0 /\ Target' = 0 BY <1>1 DEF Clear
  <2>2. ASSUME NEW x \in Planners PROVE ppc'[x] = "off" /\ Rest(x)' = 0
    BY <1>1, Zenon DEF Clear, Rest
  <2>3. Asked' = 0 BY <1>1 DEF Clear, Asked
  <2>4. ASSUME NEW x \in Planners, PlanningSteps # 0 PROVE Single(x)'
    BY <2>1, <2>2, <2>3, <2>4 DEF Single
  <2>5. ASSUME NEW x \in Planners, NEW y \in Planners, PlanningSteps # 0
        PROVE  Pair(x, y)'
    BY <2>1, <2>2, <2>5 DEF Pair, Low
  <2> QED BY <2>1, <2>4, <2>5 DEF Budget
<1>2. CASE CountStep
  <2>1. Target' = Target + PlanningSteps /\ Asked = PlanningSteps
        /\ Asked' = 0 /\ UNCHANGED <<totalPlanned, ppc, reg, ii>>
    BY <1>2 DEF CountStep, Asked
  <2>2. ASSUME NEW x \in Planners PROVE Rest(x)' = Rest(x)
    BY <2>1 DEF Rest
  <2>3. Target \in Nat /\ totalPlanned \in Nat BY DEF TypeOK
  <2>4. ASSUME NEW x \in Planners, Single(x) PROVE Single(x)'
    BY <2>1, <2>2, <2>3, <2>4, <1>0 DEF Single
  <2>5. ASSUME NEW x \in Planners, NEW y \in Planners, Pair(x, y)
        PROVE  Pair(x, y)'
    <3>1. Rest(x)' = Rest(x) /\ Rest(y)' = Rest(y) BY <2>2
    <3>2. /\ Rest(x) \in 0..PlanningSteps /\ Rest(y) \in 0..PlanningSteps
          /\ reg[x] \in Nat
      BY <1>0
    <3> QED BY <2>1, <2>3, <2>5, <3>1, <3>2 DEF Pair
  <2> QED BY <2>1, <2>4, <2>5 DEF Budget
<1>3. CASE threads = {} /\ Step
  <2>1. /\ UNCHANGED <<totalPlanned, totalControl, reg>>
        /\ cpc = "idle" /\ cpc' = "plan"
        /\ ppc' = [ppc EXCEPT ![Control] = "loop"]
    BY <1>3, Zenon DEF Step
  <2>2. Planners = {Control} BY <1>3 DEF Planners
  <2>3. Target \in Nat /\ totalPlanned \in Nat /\ Target' = Target
    BY <2>1 DEF TypeOK
  <2>4. Asked = 0 /\ Asked' = PlanningSteps BY <2>1 DEF Asked
  <2>5. ppc'[Control] # "add" BY <2>1, <2>2 DEF TypeOK
  <2>6. ASSUME Single(Control) PROVE Single(Control)'
    BY <1>0, <1>3, <2>1, <2>2, <2>3, <2>4, <2>5, <2>6 DEF Single
  <2> QED BY <2>1, <2>2, <2>6 DEF Budget
<1> QED BY <1>1, <1>2, <1>3

\* What a planner does to the counter.
Counting(x) == TestBehind(x) \/ LoadPlanned(x) \/ AddPlanned(x)

LEMMA CountingStep ==
  ASSUME TypeOK, InLoop, NEW x \in Planners, Counting(x)
  PROVE  /\ UNCHANGED <<cvars, ii>>
         /\ \A y \in Planners \ {x} : /\ ppc'[y] = ppc[y] /\ reg'[y] = reg[y]
                                      /\ Rest(y)' = Rest(y)
         /\ \/ /\ TestBehind(x) /\ totalPlanned' = totalPlanned
               /\ ppc'[x] # "add"
               /\ Rest(x)' = 0 \/ totalPlanned < Target
            \/ /\ LoadPlanned(x) /\ totalPlanned' = totalPlanned
               /\ reg'[x] = totalPlanned
               /\ Rest(x)' = Rest(x)
            \/ /\ AddPlanned(x) /\ totalPlanned' = reg[x] + 1
               /\ ppc[x] = "add" /\ ppc'[x] # "add"
               /\ Rest(x)' = Rest(x) - 1
               /\ PlanningSteps # 0
<1> USE DynaAssumption DEF TypeOK, Goto, Rest
<1> PlanningSteps \in Nat /\ ii[x] \in 0..PlanningSteps OBVIOUS
<1>1. CASE TestBehind(x) BY <1>1 DEF TestBehind
<1>2. CASE LoadPlanned(x) BY <1>2 DEF LoadPlanned
<1>3. CASE AddPlanned(x)
  <2>1. ppc[x] = "add" /\ ppc' = [ppc EXCEPT ![x] = "break"]
    BY <1>3 DEF AddPlanned
  <2>2. /\ UNCHANGED <<cvars, ii>> /\ totalPlanned' = reg[x] + 1
        /\ reg' = [reg EXCEPT ![x] = 0]
    BY <1>3 DEF AddPlanned
  <2>3. ii[x] < PlanningSteps BY <2>1 DEF InLoop
  <2> QED BY <1>3, <2>1, <2>2, <2>3
<1> QED BY <1>1, <1>2, <1>3 DEF Counting

\* Two planners, one of which counts.
LEMMA PairKept ==
  ASSUME TypeOK, TypeOK', InLoop, InLoop', Planners' = Planners,
         PlanningSteps # 0,
         NEW x \in Planners, NEW y \in Planners, x # y,
         Pair(x, y), Pair(y, x), Counting(x)
  PROVE  Pair(x, y)' /\ Pair(y, x)'
<1> USE DynaAssumption
<1> PlanningSteps \in Nat /\ PlanningSteps > 0 OBVIOUS
<1>1. Target' = Target /\ Target \in Nat /\ totalPlanned \in Nat
  BY CountingStep, TargetFacts DEF TypeOK
<1>2. /\ Rest(x) \in 0..PlanningSteps /\ Rest(x)' \in 0..PlanningSteps
      /\ Rest(y) \in 0..PlanningSteps /\ Rest(y)' = Rest(y)
  BY CountingStep, RestFacts, RestFactsNext
<1>3. reg[x] \in Nat /\ reg[y] \in Nat /\ reg'[x] \in Nat BY DEF TypeOK
<1>4. (ppc'[y] = "add" <=> ppc[y] = "add") /\ reg'[y] = reg[y]
  BY CountingStep
<1>5. Low(y)' <=> Low(y) BY <1>1, <1>4 DEF Low
<1>6. Low(y) <=> ppc[y] = "add" /\ reg[y] + 1 < Target BY DEF Low
<1>7. CASE /\ totalPlanned' = totalPlanned /\ ppc'[x] # "add"
           /\ Rest(x)' = 0 \/ totalPlanned < Target
  <2>1. ~Low(x)' BY <1>7 DEF Low
  <2> HIDE DEF Low
  <2>2. Pair(x, y)' BY <1>1, <1>2, <1>3, <1>4, <1>5, <1>7, <2>1 DEF Pair
  <2>3. Pair(y, x)' BY <1>1, <1>2, <1>3, <1>4, <1>5, <1>7, <2>1 DEF Pair
  <2> QED BY <2>2, <2>3
<1>8. CASE /\ totalPlanned' = totalPlanned /\ reg'[x] = totalPlanned
           /\ Rest(x)' = Rest(x)
  <2>1. Low(x)' => totalPlanned < Target BY <1>1, <1>8 DEF Low
  <2>2. Pair(x, y)' BY <1>1, <1>2, <1>3, <1>4, <1>5, <1>8, <2>1 DEF Pair
  <2>3. Pair(y, x)' BY <1>1, <1>2, <1>3, <1>4, <1>5, <1>8, <2>1 DEF Pair
  <2> QED BY <2>2, <2>3
<1>9. CASE /\ totalPlanned' = reg[x] + 1 /\ ppc[x] = "add"
           /\ ppc'[x] # "add" /\ Rest(x)' = Rest(x) - 1
  <2>1. ~Low(x)' BY <1>9 DEF Low
  <2>2. totalPlanned' < Target => Low(x) BY <1>9 DEF Low
  <2>3. totalPlanned' + Rest(x)' = reg[x] + Rest(x) BY <1>2, <1>3, <1>9
  <2>4. totalPlanned' + Rest(x)' + Rest(y)
          < Target + PlanningSteps + PlanningSteps
    BY <1>9, <2>3 DEF Pair
  <2>5. Low(y) => totalPlanned' + Rest(x)' < Target + PlanningSteps
    BY <1>9, <2>3 DEF Pair
  <2>6. Pair(x, y)' BY <1>1, <1>2, <1>5, <1>9, <2>4, <2>5 DEF Pair
  <2>7. ASSUME ppc[y] = "add"
        PROVE  /\ reg[y] + Rest(y) + Rest(x)'
                    < Target + PlanningSteps + PlanningSteps
               /\ totalPlanned' < Target =>
                    reg[y] + Rest(y) < Target + PlanningSteps
    <3>1. reg[y] + Rest(y) + Rest(x) < Target + PlanningSteps + PlanningSteps
      BY <2>7 DEF Pair
    <3>2. Low(x) => reg[y] + Rest(y) < Target + PlanningSteps
      BY <2>7 DEF Pair
    <3>3. reg[y] + Rest(y) + Rest(x)' = reg[y] + Rest(y) + Rest(x) - 1
      BY <1>2, <1>3, <1>9
    <3> QED BY <1>1, <1>2, <1>3, <2>2, <3>1, <3>2, <3>3
  <2>8. totalPlanned' + Rest(y) + Rest(x)'
          < Target + PlanningSteps + PlanningSteps
    <3>1. totalPlanned' \in Nat BY <1>3, <1>9
    <3> QED BY <1>2, <2>4, <3>1
  <2>9. Pair(y, x)' BY <1>1, <1>2, <1>4, <2>1, <2>7, <2>8 DEF Pair
  <2> QED BY <2>6, <2>9
<1> QED BY <1>7, <1>8, <1>9, CountingStep

\* A single planner that counts.
LEMMA SingleKept ==
  ASSUME TypeOK, TypeOK', InLoop, InLoop', Episodes, Planners' = Planners,
         PlanningSteps # 0,
         NEW x \in Planners, Single(x), Counting(x)
  PROVE  Single(x)'
<1> USE DynaAssumption
<1> PlanningSteps \in Nat /\ PlanningSteps > 0 OBVIOUS
<1>1. /\ Target' = Target /\ Target \in Nat /\ totalPlanned \in Nat
      /\ Asked' = Asked /\ threads' = threads
  BY CountingStep, TargetFacts DEF TypeOK, Asked
<1>2. Rest(x) \in 0..PlanningSteps /\ Rest(x)' \in 0..PlanningSteps
  BY RestFacts, RestFactsNext
<1>3. threads = {} => Asked = PlanningSteps
  <2>1. ppc[x] # "off"
    BY DEF Counting, TestBehind, LoadPlanned, AddPlanned, Goto
  <2> QED BY <2>1 DEF Episodes, Asked
<1>4. CASE /\ totalPlanned' = totalPlanned /\ ppc'[x] # "add"
           /\ Rest(x)' = 0 \/ totalPlanned < Target
  BY <1>1, <1>2, <1>3, <1>4 DEF Single
<1>5. CASE /\ totalPlanned' = totalPlanned /\ reg'[x] = totalPlanned
           /\ Rest(x)' = Rest(x)
  BY <1>1, <1>2, <1>5 DEF Single
<1>6. CASE /\ totalPlanned' = reg[x] + 1 /\ ppc[x] = "add"
           /\ ppc'[x] # "add" /\ Rest(x)' = Rest(x) - 1
  BY <1>1, <1>2, <1>6 DEF Single
<1> QED BY <1>4, <1>5, <1>6, CountingStep

LEMMA BudgetKeptCounting ==
  ASSUME TypeOK, TypeOK', InLoop, InLoop', Episodes, Budget,
         Planners' = Planners, threads' = threads,
         NEW z \in Planners, Counting(z)
  PROVE  Budget'
<1>1. CASE PlanningSteps = 0
  <2>1. totalPlanned' = totalPlanned BY <1>1, CountingStep
  <2> QED BY <1>1, <2>1 DEF Budget
<1>2. CASE PlanningSteps # 0
  <2>1. ASSUME NEW x \in Planners, Planners = {x} PROVE Single(x)'
    <3>1. Counting(x) /\ Single(x) BY <1>2, <2>1 DEF Budget
    <3> QED BY <1>2, <3>1, SingleKept
  <2>2. ASSUME NEW x \in Planners, NEW y \in Planners, x # y,
               Planners = {x, y}
        PROVE  threads # {} /\ Pair(x, y)'
    <3>1. Planners = {y, x} BY <2>2
    <3>2. threads # {} /\ Pair(x, y) /\ Pair(y, x)
      BY <1>2, <2>2, <3>1 DEF Budget
    <3>3. CASE z = x BY <1>2, <2>2, <3>2, <3>3, PairKept
    <3>4. CASE z = y BY <1>2, <2>2, <3>2, <3>4, PairKept
    <3> QED BY <2>2, <3>2, <3>3, <3>4
  <2> QED BY <1>2, <2>1, <2>2 DEF Budget
<1> QED BY <1>1, <1>2

LEMMA BudgetInvariant == Spec => [](TypeOK /\ InLoop /\ Episodes /\ Budget)
<1>1. Init => InLoop /\ Budget
  <2> SUFFICES ASSUME Init PROVE InLoop /\ Budget OBVIOUS
  <2>1. \A x \in Planners : ppc[x] = "off" BY DEF Init
  <2>2. \A x \in Planners : Rest(x) = 0 BY <2>1 DEF Rest
  <2>3. Target = 0 /\ Asked = 0 /\ totalPlanned = 0
    BY DynaAssumption DEF Init, Target, Asked
  <2>4. ASSUME NEW x \in Planners, PlanningSteps # 0 PROVE Single(x)
    BY <2>1, <2>2, <2>3, <2>4, DynaAssumption DEF Single
  <2>5. ASSUME NEW x \in Planners, NEW y \in Planners, PlanningSteps # 0
        PROVE  Pair(x, y)
    BY <2>1, <2>2, <2>3, <2>5, DynaAssumption DEF Pair, Low
  <2>6. ASSUME NEW x \in Planners, NEW y \in Planners, x # y,
               Planners = {x, y}
        PROVE  threads # {}
    BY <2>6 DEF Planners
  <2> QED BY <2>1, <2>3, <2>4, <2>5, <2>6 DEF InLoop, Budget
<1>2. /\ TypeOK /\ TypeOK' /\ InLoop /\ InLoop' /\ Episodes /\ Budget
      /\ [Next]_vars
      => Budget'
  <2> SUFFICES ASSUME TypeOK, TypeOK', InLoop, InLoop', Episodes, Budget,
                      [Next]_vars
               PROVE  Budget'
    OBVIOUS
  <2>1. threads' = threads /\ Planners' = Planners BY SamePlanners
  <2>2. CASE UNCHANGED vars
    <3>1. \A x \in Planners : Rest(x) \in 0..PlanningSteps BY RestFacts
    <3>2. /\ UNCHANGED <<threads, totalControl, totalPlanned, reg, ppc>>
          /\ Asked' = Asked
          /\ \A x \in Planners : Rest(x)' = Rest(x)
      BY <2>2 DEF Rest, Asked
    <3>3. \A x \in Planners : Rest(x)' <= Rest(x)
      BY <3>1, <3>2, DynaAssumption
    <3> QED BY <2>1, <3>2, <3>3, BudgetKeptShort
  <2>3. CASE Outside
    <3>1. \A x \in Planners : Rest(x) \in 0..PlanningSteps BY RestFacts
    <3>2. \A x \in Planners : Rest(x)' <= Rest(x)
      BY <2>3, <3>1, ControlStep, DynaAssumption
    <3> QED BY <2>1, <2>3, <3>2, ControlStep, BudgetKeptShort
  <2>4. CASE Clear \/ CountStep \/ (threads = {} /\ Step)
    BY <2>1, <2>4, BudgetKeptControl
  <2>5. ASSUME NEW z \in Planners, Elsewhere(z) PROVE Budget'
    <3>1. \A x \in Planners : Rest(x) \in 0..PlanningSteps BY RestFacts
    <3>2. ASSUME NEW x \in Planners
          PROVE  /\ ppc'[x] = "add" <=> ppc[x] = "add"
                 /\ Rest(x)' <= Rest(x)
      <4>1. CASE x = z BY <2>5, <4>1, ElsewhereStep
      <4>2. CASE x # z
        <5>1. ppc'[x] = ppc[x] /\ ii'[x] = ii[x]
          BY <2>5, <4>2, ElsewhereStep
        <5>2. Rest(x)' = Rest(x) BY <5>1 DEF Rest
        <5> QED BY <3>1, <5>1, <5>2, DynaAssumption
      <4> QED BY <4>1, <4>2
    <3>3. UNCHANGED <<cvars, totalPlanned, reg>> BY <2>5, ElsewhereStep
    <3>4. Asked' = Asked BY <3>3 DEF Asked
    <3> QED BY <2>1, <3>2, <3>3, <3>4, BudgetKeptShort
  <2>6. ASSUME NEW z \in Planners, Counting(z) PROVE Budget'
    BY <2>1, <2>6, BudgetKeptCounting
  <2> QED
    BY <2>2, <2>3, <2>4, <2>5, <2>6
       DEF Next, Handler, Plan, Outside, Elsewhere, Counting
<1> QED
  BY <1>1, <1>2, InLoopKept, EpisodesInvariant, PTL DEF Spec

\* Without threads and with one or two, for every number of planning steps and
\* any interleaving of the unlocked counter: planning overshoots by less than
\* one call of runModel per thread (dyna.cpp:41, 188).
THEOREM PlanningIsBounded == Spec => []PlanningBounded
<1>1. TypeOK /\ InLoop /\ Episodes /\ Budget => PlanningBounded
  <2> SUFFICES ASSUME TypeOK, InLoop, Episodes, Budget, cpc = "idle",
                      Cardinality(threads) <= 2
               PROVE  \/ totalPlanned <= Target
                      \/ totalPlanned <
                           Target + Cardinality(threads) * PlanningSteps
    BY DEF PlanningBounded
  <2> USE DynaAssumption
  <2>1. /\ IsFiniteSet(threads) /\ Target \in Nat /\ totalPlanned \in Nat
        /\ PlanningSteps \in Nat
    BY TargetFacts DEF TypeOK
  <2>2. \A x \in Planners : Rest(x) \in 0..PlanningSteps BY RestFacts
  <2>3. CASE PlanningSteps = 0 BY <2>1, <2>3 DEF Budget
  <2>4. CASE PlanningSteps # 0 /\ threads = {}
    <3>1. Planners = {Control} BY <2>4 DEF Planners
    <3>2. Asked = 0 BY DEF Asked
    <3>3. totalPlanned + Rest(Control) <= Target + Asked
      BY <2>4, <3>1 DEF Budget, Single
    <3> QED BY <2>1, <2>2, <3>1, <3>2, <3>3
  <2>5. CASE PlanningSteps # 0 /\ threads # {}
    <3>1. Planners = threads BY <2>5 DEF Planners
    <3>2. PICK x \in threads : TRUE BY <2>5
    <3>3. /\ IsFiniteSet(threads \ {x})
          /\ Cardinality(threads \ {x}) = Cardinality(threads) - 1
          /\ Cardinality(threads) \in Nat
      BY <2>1, <3>2, FS_RemoveElement, FS_CardinalityType
    <3>4. CASE threads = {x}
      <4>1. Cardinality(threads) = 1 BY <3>4, FS_Singleton
      <4>2. totalPlanned + Rest(x) < Target + PlanningSteps
        BY <2>5, <3>1, <3>4 DEF Budget, Single
      <4> QED BY <2>1, <2>2, <3>1, <3>2, <4>1, <4>2
    <3>5. CASE threads # {x}
      <4>1. PICK y \in threads \ {x} : TRUE BY <3>2, <3>5
      <4>2. Cardinality(threads \ {x}) = 1
        <5>1. Cardinality(threads \ {x}) # 0 BY <3>3, <4>1, FS_EmptySet
        <5> QED BY <3>3, <5>1, FS_CardinalityType
      <4>3. threads = {x, y}
        <5>1. PICK u : threads \ {x} = {u} BY <3>3, <4>2, FS_Singleton
        <5> QED BY <3>2, <4>1, <5>1
      <4>4. Cardinality(threads) = 2 BY <3>3, <4>2
      <4>5. totalPlanned + Rest(x) + Rest(y)
              < Target + PlanningSteps + PlanningSteps
        BY <2>5, <3>1, <3>2, <4>1, <4>3 DEF Budget, Pair
      <4> QED BY <2>1, <2>2, <3>1, <3>2, <4>1, <4>4, <4>5
    <3> QED BY <3>4, <3>5
  <2> QED BY <2>3, <2>4, <2>5
<1> QED BY <1>1, BudgetInvariant, PTL
=============================================================================
