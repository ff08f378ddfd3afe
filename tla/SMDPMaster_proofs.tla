------------------------- MODULE SMDPMaster_proofs -------------------------
(***************************************************************************)
(* What is proved of the master agents for any number of sub-agents, any   *)
(* durations of the control steps and any bound on time, whatever the      *)
(* sub-agents that a master selects: the proofs never look into Selections.*)
(***************************************************************************)
EXTENDS SMDPMaster, TLAPS

USE SMDPMasterAssumption DEF Agents

\* The two fields of the master say what has happened.  Within an episode,
\* time_ is the last turn of each sub-agent and every reward was earned before
\* prev_time_.  After an absorbing state time_ is later than prev_time_, which
\* end() leaves alone: this is what keeps start() from ending an agent twice.
Bookkeeping ==
  /\ phase = "running" =>
       /\ \A e \in earned : e < prevTime
       /\ \A a \in Agents : /\ time[a] = lastRun[a]
                            /\ time[a] <= prevTime
                            /\ time[a] >= 0 => sub[a]
  /\ phase = "ended" => \A a \in Agents : time[a] > prevTime
  /\ phase = "new" => \A a \in Agents : time[a] = -1

\* The inductive invariant.
IInv == TypeOK /\ Bookkeeping /\ AllEnded /\ RewardKept

-----------------------------------------------------------------------------
(* What is owed.                                                           *)

\* An agent that ran at or before the time of a new reward is owed that, too.
LEMMA OwedGrows ==
  ASSUME NEW t \in Int, NEW E \in SUBSET Int, NEW k \in Int, t <= k
  PROVE  Owed(t, E \cup {k}) = Owed(t, E) \cup {<<k, k - t>>}
BY DEF Owed

\* An agent that runs after every reward is owed nothing.
LEMMA OwedNothing ==
  ASSUME NEW t \in Int, NEW E \in SUBSET Int, \A e \in E : e < t
  PROVE  Owed(t, E) = {}
<1>1. \A e \in E : ~(e >= t) OBVIOUS
<1>2. {e \in E : e >= t} = {} BY <1>1, Zenon
<1> QED BY <1>2, Zenon DEF Owed

\* While the master is running, adding the reward of a step to what is kept
\* for an agent that has had a turn keeps it equal to what the agent is owed.
LEMMA EarnedIsOwed ==
  ASSUME IInv, phase = "running", NEW a \in Agents, lastRun[a] >= 0
  PROVE  Earned(reward)[a] = Owed(lastRun[a], earned \cup {prevTime})
<1>1. /\ lastRun[a] \in Int /\ prevTime \in Int /\ earned \in SUBSET Int
      /\ lastRun[a] <= prevTime /\ time[a] = lastRun[a]
  BY DEF IInv, TypeOK, Bookkeeping, Times
<1>2. reward[a] = Owed(lastRun[a], earned) BY DEF IInv, RewardKept
<1>3. Owed(lastRun[a], earned \cup {prevTime})
        = Owed(lastRun[a], earned) \cup {<<prevTime, prevTime - lastRun[a]>>}
  BY <1>1, OwedGrows
<1> QED BY <1>1, <1>2, <1>3 DEF Earned

\* The rewards kept stay within their types.
LEMMA EarnedType ==
  ASSUME IInv, phase = "running", prevTime < MaxTime, NEW a \in Agents
  PROVE  Earned(reward)[a] \subseteq (0..MaxTime-1) \X (0..MaxTime)
<1>1. /\ time[a] \in -1..prevTime /\ prevTime \in 0..MaxTime-1
      /\ reward[a] \subseteq (0..MaxTime-1) \X (0..MaxTime)
  BY DEF IInv, TypeOK, Bookkeeping, Times
<1>2. <<prevTime, prevTime - time[a]>> \in (0..MaxTime-1) \X (0..MaxTime)
  BY <1>1
<1> QED BY <1>1, <1>2 DEF Earned

-----------------------------------------------------------------------------
(* The invariant is inductive.                                             *)

LEMMA InvInit == Init => IInv
<1> SUFFICES ASSUME Init PROVE IInv OBVIOUS
<1>1. TypeOK BY DEF Init, TypeOK, Times
<1>2. Bookkeeping BY DEF Init, Bookkeeping
<1> QED BY <1>1, <1>2 DEF Init, IInv, AllEnded, RewardKept

LEMMA InvStart ==
  ASSUME IInv, Start
  PROVE  IInv'
<1>1. PICK S \in Selections :
        /\ time' = [a \in Agents |-> IF a \in S THEN 0 ELSE -1]
        /\ reward' = Cleared(reward, S)
        /\ lastRun' = [a \in Agents |-> IF a \in S THEN 0 ELSE -1]
        /\ sub' = [a \in Agents |-> a \in S \/ (sub[a] /\ ~PassedOver(a))]
  BY DEF Start
<1>2. /\ phase' = "running" /\ prevTime' = 0 /\ earned' = {}
      /\ master' = master
  BY DEF Start
<1>3. TypeOK'
  <2>1. sub' \in [Agents -> BOOLEAN] BY <1>1
  <2>2. \A a \in Agents :
          reward'[a] \subseteq (0..MaxTime-1) \X (0..MaxTime)
    BY <1>1 DEF IInv, TypeOK, Cleared
  <2> QED BY <1>1, <1>2, <2>1, <2>2 DEF IInv, TypeOK, Times
<1>4. Bookkeeping'
  <2>1. ASSUME NEW a \in Agents, time'[a] >= 0 PROVE sub'[a]
    <3>1. a \in S BY <1>1, <2>1
    <3> QED BY <1>1, <3>1, Zenon
  <2> QED BY <1>1, <1>2, <2>1 DEF Bookkeeping
<1>5. AllEnded' BY <1>2 DEF AllEnded
<1>6. RewardKept'
  <2> SUFFICES ASSUME NEW a \in Agents, lastRun'[a] >= 0
               PROVE  reward'[a] = Owed(lastRun'[a], earned')
    BY DEF RewardKept
  <2>1. a \in S /\ lastRun'[a] = 0 BY <1>1
  <2>2. Owed(lastRun'[a], earned') = {} BY <1>2, <2>1, OwedNothing
  <2> QED BY <1>1, <2>1, <2>2 DEF Cleared
<1> QED BY <1>3, <1>4, <1>5, <1>6 DEF IInv

LEMMA InvStep ==
  ASSUME IInv, NEW tau \in Taus, Step(tau)
  PROVE  IInv'
<1> DEFINE now == prevTime + tau
<1>1. PICK S \in Selections :
        /\ time' = [a \in Agents |-> IF a \in S THEN now ELSE time[a]]
        /\ reward' = Cleared(Earned(reward), S)
        /\ lastRun' = [a \in Agents |-> IF a \in S THEN now ELSE lastRun[a]]
        /\ sub' = [a \in Agents |-> a \in S \/ sub[a]]
  BY DEF Step
<1>2. /\ phase = "running" /\ phase' = "running" /\ now <= MaxTime
      /\ prevTime' = now /\ earned' = earned \cup {prevTime}
      /\ master' = master
  BY DEF Step
<1>3. /\ now \in 0..MaxTime /\ prevTime < now /\ prevTime \in 0..MaxTime-1
      /\ earned' \subseteq 0..MaxTime
      /\ \A e \in earned' : e < now
  BY <1>2 DEF IInv, TypeOK, Bookkeeping
<1>4. TypeOK'
  <2>1. sub' \in [Agents -> BOOLEAN] BY <1>1 DEF IInv, TypeOK
  <2>2. \A a \in Agents :
          reward'[a] \subseteq (0..MaxTime-1) \X (0..MaxTime)
    BY <1>1, <1>2, <1>3, EarnedType DEF Cleared
  <2>3. time' \in [Agents -> Times] /\ lastRun' \in [Agents -> Times]
    BY <1>1, <1>3 DEF IInv, TypeOK, Times
  <2> QED BY <1>2, <1>3, <2>1, <2>2, <2>3 DEF IInv, TypeOK
<1>5. Bookkeeping'
  <2> SUFFICES ASSUME NEW a \in Agents
               PROVE  /\ time'[a] = lastRun'[a] /\ time'[a] <= now
                      /\ time'[a] >= 0 => sub'[a]
    BY <1>2, <1>3 DEF Bookkeeping
  <2>1. /\ time[a] = lastRun[a] /\ time[a] <= prevTime
        /\ time[a] \in Int
        /\ time[a] >= 0 => sub[a]
    BY <1>2 DEF IInv, TypeOK, Bookkeeping, Times
  <2>2. CASE a \in S
    <3>1. sub'[a] BY <1>1, <2>2, Zenon
    <3> QED BY <1>1, <1>3, <2>2, <3>1
  <2>3. CASE a \notin S
    <3>1. time'[a] = time[a] /\ lastRun'[a] = lastRun[a] BY <1>1, <2>3
    <3>2. sub[a] => sub'[a] BY <1>1, Zenon
    <3>3. time'[a] = lastRun'[a] /\ time'[a] <= now
      BY <1>3, <2>1, <3>1
    <3>4. time'[a] >= 0 => sub'[a] BY <2>1, <3>1, <3>2, Zenon
    <3> QED BY <3>3, <3>4
  <2> QED BY <2>2, <2>3
<1>6. AllEnded' BY <1>2 DEF AllEnded
<1>7. RewardKept'
  <2> SUFFICES ASSUME NEW a \in Agents, lastRun'[a] >= 0
               PROVE  reward'[a] = Owed(lastRun'[a], earned')
    BY DEF RewardKept
  <2>1. CASE a \in S
    <3>1. lastRun'[a] = now /\ reward'[a] = {} BY <1>1, <2>1 DEF Cleared
    <3> QED BY <3>1, <1>3, OwedNothing
  <2>2. CASE a \notin S
    BY <1>1, <1>2, <2>2, EarnedIsOwed DEF Cleared
  <2> QED BY <2>1, <2>2
<1> QED BY <1>4, <1>5, <1>6, <1>7 DEF IInv

LEMMA InvEnd ==
  ASSUME IInv, NEW tau \in Taus, End(tau)
  PROVE  IInv'
<1> DEFINE now == prevTime + tau
<1>1. /\ phase = "running" /\ phase' = "ended" /\ now <= MaxTime
      /\ earned' = earned \cup {prevTime}
      /\ time' = [a \in Agents |-> now]
      /\ reward' = Cleared(Earned(reward), Agents)
      /\ sub' = [a \in Agents |-> sub[a] /\ ~Running(a)]
      /\ UNCHANGED <<master, prevTime, lastRun>>
  BY DEF End
<1>2. now \in 0..MaxTime /\ prevTime < now /\ prevTime \in 0..MaxTime
  BY <1>1 DEF IInv, TypeOK
<1>3. TypeOK'
  <2>1. sub' \in [Agents -> BOOLEAN] BY <1>1
  <2> QED BY <1>1, <1>2, <2>1 DEF IInv, TypeOK, Cleared, Times
<1>4. Bookkeeping' BY <1>1, <1>2 DEF Bookkeeping
<1>5. AllEnded'
  <2> SUFFICES ASSUME NEW a \in Agents, lastRun[a] >= 0
               PROVE  ~sub'[a]
    BY <1>1 DEF AllEnded
  <2>1. Running(a) BY <1>1 DEF IInv, Bookkeeping, Running
  <2> QED BY <1>1, <2>1
<1>6. RewardKept' BY <1>1 DEF RewardKept
<1> QED BY <1>3, <1>4, <1>5, <1>6 DEF IInv

LEMMA InvReset ==
  ASSUME IInv, Reset
  PROVE  IInv'
<1>1. TypeOK' BY DEF Reset, IInv, TypeOK, Times
<1>2. Bookkeeping' BY DEF Reset, Bookkeeping
<1> QED BY <1>1, <1>2 DEF Reset, IInv, AllEnded, RewardKept

LEMMA InvStutter ==
  ASSUME IInv, UNCHANGED vars
  PROVE  IInv'
BY DEF vars, IInv, TypeOK, Bookkeeping, AllEnded, RewardKept

\* The invariant holds in every state of the program.
LEMMA Inductive == Spec => []IInv
<1>1. IInv /\ [Next]_vars => IInv'
  BY InvStart, InvStep, InvEnd, InvReset, InvStutter DEF Next
<1> QED BY InvInit, <1>1, PTL DEF Spec

-----------------------------------------------------------------------------
(* Theorems                                                                *)

\* Every variable keeps its type.
THEOREM SMDPTypeCorrect == Spec => []TypeOK
<1>1. IInv => TypeOK BY DEF IInv
<1> QED BY Inductive, <1>1, PTL

\* end() ends every sub-agent that has had a turn in the episode.
THEOREM EveryRunningAgentEnds == Spec => []AllEnded
<1>1. IInv => AllEnded BY DEF IInv
<1> QED BY Inductive, <1>1, PTL

\* What start() and step() keep for a running sub-agent is what it is owed:
\* each reward since its last turn, once, with the discount from that turn.
THEOREM NoRewardLost == Spec => []RewardKept
<1>1. IInv => RewardKept BY DEF IInv
<1> QED BY Inductive, <1>1, PTL
\* What start() calls first, if that is not start: it pseudo-ends an agent.
LEMMA StartCalls ==
  ASSUME NEW a \in Agents, Start, calls'[a] # <<>>,
         calls'[a][1].kind # "start"
  PROVE  /\ PassedOver(a)
         /\ calls'[a][1] = EndCall(prevTime - time[a], reward[a])
<1> DEFINE e == EndCall(prevTime - time[a], reward[a])
<1>1. PICK S \in Selections :
        calls'[a] = (IF PassedOver(a) THEN <<e>> ELSE <<>>)
                    \o (IF a \in S THEN <<StartCall>> ELSE <<>>)
  BY DEF Start
<1> HIDE DEF e
<1>2. CASE PassedOver(a)
  <2>1. calls'[a][1] = e BY <1>1, <1>2
  <2> QED BY <1>2, <2>1 DEF e
<1>3. CASE ~PassedOver(a)
  <2>1. calls'[a] = <<StartCall>> BY <1>1, <1>3
  <2> QED BY <2>1 DEF StartCall
<1> QED BY <1>2, <1>3

\* A sub-agent that is running is stepped.
LEMMA StepNotStart ==
  ASSUME NEW t, NEW r, NEW a, NEW now, ~(t[a] < 0)
  PROVE  CallFor(t, r, a, now) = StepCall(now - t[a], r[a])
BY DEF CallFor

\* What step() calls, if that is not start.
LEMMA StepCalls ==
  ASSUME NEW a \in Agents, NEW tau \in Taus, Step(tau), calls'[a] # <<>>,
         calls'[a][1].kind # "start"
  PROVE  /\ ~(time[a] < 0)
         /\ calls'[a][1] =
              StepCall((prevTime + tau) - time[a], Earned(reward)[a])
<1>1. calls'[a][1] = CallFor(time, Earned(reward), a, prevTime + tau)
  BY DEF Step
<1>2. CASE time[a] < 0
  <2>1. calls'[a][1] = StartCall BY <1>1, <1>2, Zenon DEF CallFor
  <2> QED BY <2>1 DEF StartCall
<1>3. CASE ~(time[a] < 0) BY <1>1, <1>3, StepNotStart
<1> QED BY <1>2, <1>3

\* What end() calls.
LEMMA EndCalls ==
  ASSUME NEW a \in Agents, NEW tau \in Taus, End(tau), calls'[a] # <<>>
  PROVE  /\ Running(a)
         /\ calls'[a][1] =
              EndCall((prevTime + tau) - time[a], Earned(reward)[a])
<1> DEFINE e == EndCall((prevTime + tau) - time[a], Earned(reward)[a])
<1> DEFINE r == Earned(reward)
<1>1. calls' = [b \in Agents |->
         IF Running(b) THEN <<EndCall((prevTime + tau) - time[b], r[b])>>
                       ELSE <<>>]
  BY DEF End, EndCall
<1>2. calls'[a] = IF Running(a) THEN <<e>> ELSE <<>> BY <1>1, Zenon
<1> HIDE DEF e
<1>3. Running(a) BY <1>2
<1>4. calls'[a][1] = e BY <1>2, <1>3
<1> QED BY <1>3, <1>4 DEF e

\* A sub-agent is stepped or ended only inside an episode of its own.
THEOREM CallsKeepProtocol == Spec => SubAgentProtocol
<1>1. ASSUME IInv, [Next]_vars
      PROVE  [\A a \in Agents : calls'[a] # <<>> /\ calls'[a][1].kind # "start"
                => sub[a]]_vars
  <2> SUFFICES ASSUME Next, NEW a \in Agents, calls'[a] # <<>>,
                      calls'[a][1].kind # "start"
               PROVE  sub[a]
    BY <1>1
  <2>0. /\ phase \in {"new", "running", "ended"}
        /\ time[a] \in Int /\ prevTime \in Int
    BY <1>1 DEF IInv, TypeOK, Times
  <2>1. CASE Start
    <3>1. time[a] >= 0 /\ time[a] < prevTime
      BY <2>1, StartCalls DEF PassedOver
    <3>2. phase = "running" BY <1>1, <2>0, <3>1 DEF IInv, Bookkeeping
    <3> QED BY <1>1, <3>1, <3>2 DEF IInv, Bookkeeping
  <2>2. ASSUME NEW tau \in Taus, Step(tau) PROVE sub[a]
    <3>1. time[a] >= 0 BY <2>0, <2>2, StepCalls
    <3>2. phase = "running" BY <2>2 DEF Step
    <3> QED BY <1>1, <3>1, <3>2 DEF IInv, Bookkeeping
  <2>3. ASSUME NEW tau \in Taus, End(tau) PROVE sub[a]
    <3>1. time[a] >= 0 BY <2>3, EndCalls DEF Running
    <3>2. phase = "running" BY <2>3 DEF End
    <3> QED BY <1>1, <3>1, <3>2 DEF IInv, Bookkeeping
  <2>4. CASE Reset BY <2>4 DEF Reset
  <2> QED BY <2>1, <2>2, <2>3, <2>4 DEF Next
<1> QED BY Inductive, <1>1, PTL DEF Spec, SubAgentProtocol

\* A sub-agent is told of what it is owed and of the time since its last turn.
THEOREM RewardReachesAgent == Spec => RewardHandedOver
<1> DEFINE Told ==
      \A a \in Agents : calls'[a] # <<>> /\ calls'[a][1].kind # "start" =>
        LET c   == calls'[a][1]
            now == IF phase' = "ended" THEN time'[a]
                   ELSE IF c.kind = "end" THEN prevTime ELSE prevTime'
        IN  /\ c.reward = Owed(lastRun[a], earned \cup earned')
            /\ c.tau = now - lastRun[a]
            /\ c.tau > 0
<1>1. ASSUME IInv, [Next]_vars
      PROVE  [Told]_vars
  <2> SUFFICES
        ASSUME Next, NEW a \in Agents, calls'[a] # <<>>,
               calls'[a][1].kind # "start"
        PROVE  LET c   == calls'[a][1]
                   now == IF phase' = "ended" THEN time'[a]
                          ELSE IF c.kind = "end" THEN prevTime ELSE prevTime'
               IN  /\ c.reward = Owed(lastRun[a], earned \cup earned')
                   /\ c.tau = now - lastRun[a]
                   /\ c.tau > 0
    BY <1>1
  <2>0. /\ phase \in {"new", "running", "ended"}
        /\ time[a] \in Int /\ prevTime \in Int
    BY <1>1 DEF IInv, TypeOK, Times
  <2>1. CASE Start
    <3>1. /\ time[a] >= 0 /\ time[a] < prevTime
          /\ calls'[a][1] = EndCall(prevTime - time[a], reward[a])
      BY <2>1, StartCalls DEF PassedOver
    <3>2. phase = "running" BY <1>1, <2>0, <3>1 DEF IInv, Bookkeeping
    <3>3. time[a] = lastRun[a] BY <1>1, <3>2 DEF IInv, Bookkeeping
    <3>4. reward[a] = Owed(lastRun[a], earned)
      BY <1>1, <3>1, <3>2, <3>3 DEF IInv, RewardKept
    <3>5. earned \cup earned' = earned /\ phase' = "running"
      BY <2>1 DEF Start
    <3>6. /\ calls'[a][1].reward = reward[a] /\ calls'[a][1].kind = "end"
          /\ calls'[a][1].tau = prevTime - time[a]
      BY <3>1 DEF EndCall
    <3>7. phase' # "ended" BY <3>5
    <3>8. calls'[a][1].reward = Owed(lastRun[a], earned \cup earned')
      BY <3>4, <3>5, <3>6, Zenon
    <3>9. /\ calls'[a][1].tau = prevTime - lastRun[a]
          /\ calls'[a][1].tau > 0
      BY <2>0, <3>1, <3>3, <3>6
    <3> QED BY <3>6, <3>7, <3>8, <3>9, Zenon
  <2>2. ASSUME NEW tau \in Taus, Step(tau)
        PROVE  /\ calls'[a][1].reward = Owed(lastRun[a], earned \cup earned')
               /\ calls'[a][1].kind = "step" /\ phase' # "ended"
               /\ calls'[a][1].tau = prevTime' - lastRun[a]
               /\ calls'[a][1].tau > 0
    <3>1. /\ time[a] >= 0
          /\ calls'[a][1] =
               StepCall((prevTime + tau) - time[a], Earned(reward)[a])
      BY <2>0, <2>2, StepCalls
    <3>2. /\ phase = "running" /\ phase' = "running"
          /\ prevTime' = prevTime + tau
          /\ earned \cup earned' = earned \cup {prevTime}
      BY <2>2 DEF Step
    <3>3. time[a] = lastRun[a] /\ time[a] <= prevTime
      BY <1>1, <3>2 DEF IInv, Bookkeeping
    <3>4. Earned(reward)[a] = Owed(lastRun[a], earned \cup {prevTime})
      BY <1>1, <3>1, <3>2, <3>3, EarnedIsOwed
    <3>5. /\ calls'[a][1].reward = Earned(reward)[a]
          /\ calls'[a][1].kind = "step"
          /\ calls'[a][1].tau = (prevTime + tau) - time[a]
      BY <3>1 DEF StepCall
    <3>6. tau \in Int /\ tau > 0 OBVIOUS
    <3>7. calls'[a][1].reward = Owed(lastRun[a], earned \cup earned')
      BY <3>2, <3>4, <3>5, Zenon
    <3>8. /\ calls'[a][1].tau = prevTime' - lastRun[a]
          /\ calls'[a][1].tau > 0
      BY <2>0, <3>2, <3>3, <3>5, <3>6
    <3> QED BY <3>2, <3>5, <3>7, <3>8
  <2>3. ASSUME NEW tau \in Taus, End(tau)
        PROVE  /\ calls'[a][1].reward = Owed(lastRun[a], earned \cup earned')
               /\ phase' = "ended"
               /\ calls'[a][1].tau = time'[a] - lastRun[a]
               /\ calls'[a][1].tau > 0
    <3>1. /\ time[a] >= 0
          /\ calls'[a][1] =
               EndCall((prevTime + tau) - time[a], Earned(reward)[a])
      BY <2>3, EndCalls DEF Running
    <3>2. /\ phase = "running" /\ phase' = "ended"
          /\ time'[a] = prevTime + tau
          /\ earned \cup earned' = earned \cup {prevTime}
      BY <2>3 DEF End
    <3>3. time[a] = lastRun[a] /\ time[a] <= prevTime
      BY <1>1, <3>2 DEF IInv, Bookkeeping
    <3>4. Earned(reward)[a] = Owed(lastRun[a], earned \cup {prevTime})
      BY <1>1, <3>1, <3>2, <3>3, EarnedIsOwed
    <3>5. /\ calls'[a][1].reward = Earned(reward)[a]
          /\ calls'[a][1].kind = "end"
          /\ calls'[a][1].tau = (prevTime + tau) - time[a]
      BY <3>1 DEF EndCall
    <3>6. tau \in Int /\ tau > 0 OBVIOUS
    <3>7. calls'[a][1].reward = Owed(lastRun[a], earned \cup earned')
      BY <3>2, <3>4, <3>5, Zenon
    <3>8. /\ calls'[a][1].tau = time'[a] - lastRun[a]
          /\ calls'[a][1].tau > 0
      BY <2>0, <3>2, <3>3, <3>5, <3>6
    <3> QED BY <3>2, <3>5, <3>7, <3>8
  <2>4. CASE Reset BY <2>4 DEF Reset
  <2> QED BY <2>1, <2>2, <2>3, <2>4 DEF Next
<1> QED BY Inductive, <1>1, PTL DEF Spec, RewardHandedOver
=============================================================================
