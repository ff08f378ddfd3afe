---------------------------- MODULE SMDPMaster -----------------------------
(***************************************************************************)
(* The semi-Markov master agents (agents/smdp_master.cpp).  A master hands *)
(* each control step to one or more of its sub-agents; a sub-agent that is *)
(* passed over sees the steps until its next turn as one long step, whose  *)
(* reward is the discounted sum of the rewards in between.                 *)
(*                                                                         *)
(* A reward is abstracted to the time at which it was earned, and a        *)
(* discounted reward pow(gamma, e) * r to the pair <<time, e>>.            *)
(***************************************************************************)
EXTENDS Integers, Sequences

CONSTANTS
  Last,     \* index of the last sub-agent
  Kinds,    \* which masters: "exclusive", "predicated", "random"
  Taus,     \* the possible durations of a control step
  MaxTime   \* bound on the time in an episode

Agents == 0..Last

ASSUME SMDPMasterAssumption ==
  /\ Last \in Nat
  /\ Kinds \subseteq {"exclusive", "predicated", "random"}
  /\ Taus \subseteq Nat \ {0}
  /\ MaxTime \in Nat

VARIABLES
  master,    \* the class of the master
  time,      \* time_: when each sub-agent ran last, or -1
  reward,    \* reward_: what each sub-agent has not been given yet
  prevTime,  \* prev_time_
  phase,     \* history: where the episode of the master is
  sub,       \* history: whether each sub-agent is inside an episode
  lastRun,   \* history: when each sub-agent ran last in this episode, or -1
  earned,    \* history: when rewards were earned in this episode
  calls      \* history: the calls each sub-agent got in the last call

vars ==
  <<master, time, reward, prevTime, phase, sub, lastRun, earned, calls>>

Times == -1 .. MaxTime

TypeOK ==
  /\ master \in Kinds
  /\ time \in [Agents -> Times]
  /\ \A a \in Agents : reward[a] \subseteq (0..MaxTime-1) \X (0..MaxTime)
  /\ prevTime \in 0..MaxTime
  /\ phase \in {"new", "running", "ended"}
  /\ sub \in [Agents -> BOOLEAN]
  /\ lastRun \in [Agents -> Times]
  /\ earned \subseteq 0..MaxTime

Init ==
  /\ master \in Kinds
  /\ time = [a \in Agents |-> -1]
  /\ reward = [a \in Agents |-> {}]
  /\ prevTime = 0
  /\ phase = "new"
  /\ sub = [a \in Agents |-> FALSE]
  /\ lastRun = [a \in Agents |-> -1]
  /\ earned = {}
  /\ calls = [a \in Agents |-> <<>>]

\* The calls a sub-agent can get, with the time and reward it is told.
StartCall == [kind |-> "start", tau |-> 0, reward |-> {}]
StepCall(tau, r) == [kind |-> "step", tau |-> tau, reward |-> r]
EndCall(tau, r)  == [kind |-> "end", tau |-> tau, reward |-> r]

\* runSubAgents: which sub-agents run, given the confidence of each (TRUE is
\* above 0.5, and the larger of the two).
FirstConfident(conf) ==
  IF \E a \in Agents : conf[a]
    THEN CHOOSE a \in Agents : conf[a] /\ \A b \in 0..a-1 : ~conf[b]
    ELSE 0

Selected(conf, pick) ==
  CASE master = "exclusive"  -> {FirstConfident(conf)}
    [] master = "predicated" ->
         IF \E a \in Agents : conf[a] THEN 0..FirstConfident(conf) ELSE Agents
    [] master = "random"     -> {pick}

Selections == {Selected(c, a) : c \in [Agents -> BOOLEAN], a \in Agents}

-----------------------------------------------------------------------------
(* Plausible bugs, to test that the properties can tell.                   *)

\* runSubAgent does not clear the reward it has handed out.
ClearedNever(r, S) == r

\* The discount counts from the end of the step instead of its beginning.
EarnedLate(r) ==
  [a \in Agents |-> r[a] \cup {<<prevTime, prevTime + 1 - time[a]>>}]

\* A sub-agent is taken to be running whether it was started or not.
CallAlwaysStep(t, r, a, now) == StepCall(now - t[a], r[a])

\* end() leaves sub-agents alone that have not run in the last step.
RunningNow(a) == time[a] = prevTime

-----------------------------------------------------------------------------
\* reward_[ii] += pow(gamma, prev_time_ - time_[ii]) * reward, for all agents.
Earned(r) == [a \in Agents |-> r[a] \cup {<<prevTime, prevTime - time[a]>>}]

\* runSubAgent: start an agent that is not running, step one that is.
CallFor(t, r, a, now) ==
  IF t[a] < 0 THEN StartCall ELSE StepCall(now - t[a], r[a])

\* reward_[idx] = 0, for the agents that have run.
Cleared(r, S) == [a \in Agents |-> IF a \in S THEN {} ELSE r[a]]

\* Agents that start() pseudo-ends: they ran in the last episode, but not in
\* its last step.
PassedOver(a) == time[a] >= 0 /\ time[a] < prevTime

\* Agents that end() ends.
Running(a) == time[a] >= 0

Start ==
  /\ phase' = "running"
  /\ \E S \in Selections :
       /\ calls' = [a \in Agents |->
                     (IF PassedOver(a)
                        THEN <<EndCall(prevTime - time[a], reward[a])>>
                        ELSE <<>>)
                     \o (IF a \in S THEN <<StartCall>> ELSE <<>>)]
       /\ time' = [a \in Agents |-> IF a \in S THEN 0 ELSE -1]
       /\ reward' = Cleared(reward, S)
       /\ lastRun' = [a \in Agents |-> IF a \in S THEN 0 ELSE -1]
       /\ sub' = [a \in Agents |-> a \in S \/ (sub[a] /\ ~PassedOver(a))]
  /\ prevTime' = 0
  /\ earned' = {}
  /\ UNCHANGED master

Step(tau) ==
  LET now == prevTime + tau
      r   == Earned(reward)
  IN  /\ phase = "running"
      /\ now <= MaxTime
      /\ \E S \in Selections :
           /\ calls' = [a \in Agents |-> IF a \in S
                                           THEN <<CallFor(time, r, a, now)>>
                                           ELSE <<>>]
           /\ time' = [a \in Agents |-> IF a \in S THEN now ELSE time[a]]
           /\ reward' = Cleared(r, S)
           /\ lastRun' = [a \in Agents |-> IF a \in S THEN now ELSE lastRun[a]]
           /\ sub' = [a \in Agents |-> a \in S \/ sub[a]]
      /\ prevTime' = now
      /\ earned' = earned \cup {prevTime}
      /\ UNCHANGED <<master, phase>>

End(tau) ==
  LET now == prevTime + tau
      r   == Earned(reward)
  IN  /\ phase = "running"
      /\ now <= MaxTime
      /\ phase' = "ended"
      /\ earned' = earned \cup {prevTime}
      /\ calls' = [a \in Agents |-> IF Running(a)
                                      THEN <<EndCall(now - time[a], r[a])>>
                                      ELSE <<>>]
      /\ time' = [a \in Agents |-> now]
      /\ reward' = Cleared(r, Agents)
      /\ sub' = [a \in Agents |-> sub[a] /\ ~Running(a)]
      /\ UNCHANGED <<master, prevTime, lastRun>>

\* reconfigure(action = reset) of the master; walk() resets the sub-agents too.
Reset ==
  /\ time' = [a \in Agents |-> -1]
  /\ sub' = [a \in Agents |-> FALSE]
  /\ lastRun' = [a \in Agents |-> -1]
  /\ calls' = [a \in Agents |-> <<>>]
  /\ phase' = "new"
  /\ earned' = {}
  /\ UNCHANGED <<master, reward, prevTime>>

Next ==
  \/ Start
  \/ \E tau \in Taus : Step(tau) \/ End(tau)
  \/ Reset

Spec == Init /\ [][Next]_vars

-----------------------------------------------------------------------------
(* Properties                                                              *)

\* No sub-agent is stepped or ended outside of an episode of its own: the first
\* call it gets may continue its episode only if it has one.
SubAgentProtocol ==
  [][\A a \in Agents :
       calls'[a] # <<>> /\ calls'[a][1].kind # "start" => sub[a]]_vars

\* After an absorbing state no sub-agent is left inside an episode that began
\* in this episode of the master, however it was scheduled.
AllEnded == phase = "ended" => \A a \in Agents : lastRun[a] >= 0 => ~sub[a]

\* What a sub-agent that ran at time t is owed of the rewards earned at times
\* E: each one since then, exactly once, discounted from t.
Owed(t, E) == {<<k, k - t>> : k \in {e \in E : e >= t}}

\* What is kept for a running sub-agent is what it is owed: nothing is lost,
\* counted twice, or left over from an earlier episode or from before a reset.
RewardKept ==
  phase = "running" =>
    \A a \in Agents : lastRun[a] >= 0 => reward[a] = Owed(lastRun[a], earned)

\* When a sub-agent gets its next turn, or is ended, it is told of exactly what
\* it is owed and of the time that has passed since its last turn.
RewardHandedOver ==
  [][\A a \in Agents : calls'[a] # <<>> /\ calls'[a][1].kind # "start" =>
       LET c   == calls'[a][1]
           now == IF phase' = "ended" THEN time'[a]
                  ELSE IF c.kind = "end" THEN prevTime ELSE prevTime'
       IN  /\ c.reward = Owed(lastRun[a], earned \cup earned')
           /\ c.tau = now - lastRun[a]
           /\ c.tau > 0]_vars
=============================================================================
