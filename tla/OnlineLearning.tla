--------------------------- MODULE OnlineLearning ---------------------------
(***************************************************************************)
(* The online learning experiment (experiments/online_learning.cpp): runs  *)
(* of trials in which an agent acts in an environment, every so often with *)
(* a test agent instead of the learner.                                    *)
(*                                                                         *)
(* The environment is abstract: a step may or may not carry an observation *)
(* and may or may not end the trial.  Rewards are left out; what happened  *)
(* to the learner is kept as history.  A run is counted from run_offset_,  *)
(* and output_ is taken to be set: without it nothing is saved.            *)
(***************************************************************************)
EXTENDS Integers, Sequences

CONSTANTS
  Configs,     \* the configurations, see Config
  MaxEpisode,  \* bound: environment steps in a trial
  MaxTrials    \* bound: trials in a run without a limit on its trials

\* What request() asks for, with its limits and its options.  No limit on
\* trials or steps is 0, no tests is -1.
Config ==
  [runs : Nat \ {0}, trials : Nat, steps : Nat, test_interval : Nat \cup {-1},
   save_every : {"never", "run", "test", "trail"}]

ASSUME OnlineLearningAssumption ==
  /\ Configs \subseteq Config
  /\ MaxEpisode \in Nat \ {0}
  /\ MaxTrials \in Nat

VARIABLES
  config,    \* the configuration of the experiment
  pc,        \* where run() is
  rr,        \* the run
  tt,        \* trials in this run
  ss,        \* steps counted in this run
  terminal,  \* 0: the trial goes on, 1: time is up, 2: an absorbing state
  curve,     \* the column of this run's report that counts trials
  saves,     \* history: run and trials learnt of every policy that was saved
  trained,   \* history: trials the learner has begun since its last reset
  given,     \* history: transitions it was given since its last reset
  length     \* history: environment steps in this trial

vars == <<config, pc, rr, tt, ss, terminal, curve, saves, trained, given,
          length>>

runs_          == config.runs
trials_        == config.trials
steps_         == config.steps
test_interval_ == config.test_interval
save_every_    == config.save_every

\* test, without its factor rr+1: whether trial t is for the test agent.
IsTest(t) == test_interval_ >= 0 /\ t % (test_interval_ + 1) = test_interval_

TypeOK ==
  /\ config \in Configs
  /\ pc \in {"trials", "environment", "agent", "report", "save", "done"}
  /\ rr \in 0..runs_
  /\ tt \in Nat
  /\ ss \in Nat
  /\ terminal \in 0..2
  /\ curve \in Seq(0..tt)
  /\ saves \in Seq([run : 0..runs_-1, trained : Nat])
  /\ trained \in 0..tt+1
  /\ given \in 0..tt * MaxEpisode + length
  /\ length \in 0..MaxEpisode

Init ==
  /\ config \in Configs
  /\ pc = "trials"
  /\ rr = 0
  /\ tt = 0
  /\ ss = 0
  /\ terminal = 0
  /\ curve = <<>>
  /\ saves = <<>>
  /\ trained = 0
  /\ given = 0
  /\ length = 0

-----------------------------------------------------------------------------
(* Plausible bugs, to test that the properties can tell.                   *)

\* The column counts the trials of every kind.
LabelTrials == tt + 1

\* Steps of test trials count towards the budget.
CountedAlways == 1

\* The last run is reset, and the others are not.
ResetAfterLast == rr = runs_ - 1

\* The policy is saved with the trial before the test.
SaveTrialBefore == save_every_ = "test" /\ IsTest(tt + 1)

\* The policy of a run is saved after the reset for the next one.
EndRunSaveLate ==
  /\ pc = "trials"
  /\ ~((trials_ = 0 \/ tt < trials_) /\ (steps_ = 0 \/ ss < steps_))
  /\ rr' = rr + 1
  /\ pc' = IF rr < runs_ - 1 THEN "trials" ELSE "done"
  /\ trained' = IF rr < runs_ - 1 THEN 0 ELSE trained
  /\ given' = IF rr < runs_ - 1 THEN 0 ELSE given
  /\ saves' = IF save_every_ = "run"
                THEN Append(saves, [run |-> rr, trained |-> trained'])
                ELSE saves
  /\ tt' = IF rr < runs_ - 1 THEN 0 ELSE tt
  /\ ss' = IF rr < runs_ - 1 THEN 0 ELSE ss
  /\ curve' = IF rr < runs_ - 1 THEN <<>> ELSE curve
  /\ UNCHANGED <<config, terminal, length>>

\* The reset for the next run resets the number of the run, too.
EndRunAgain ==
  /\ pc = "trials"
  /\ ~((trials_ = 0 \/ tt < trials_) /\ (steps_ = 0 \/ ss < steps_))
  /\ IF rr < runs_ - 1
       THEN /\ trained' = 0 /\ given' = 0
            /\ tt' = 0 /\ ss' = 0 /\ curve' = <<>>
            /\ UNCHANGED <<rr, pc>>
       ELSE /\ rr' = rr + 1 /\ pc' = "done"
            /\ UNCHANGED <<trained, given, tt, ss, curve>>
  /\ UNCHANGED <<config, saves, terminal, length>>

-----------------------------------------------------------------------------
\* The condition of the loop over trials.
MoreTrials == (trials_ = 0 \/ tt < trials_) /\ (steps_ = 0 \/ ss < steps_)

\* The condition under which there is a next run, which begins with a reset.
ResetAfter == rr < runs_ - 1

\* tt+1-(tt+1)/(test_interval_+1), or tt when there are no tests.
Label == IF test_interval_ >= 0
           THEN tt + 1 - (tt + 1) \div (test_interval_ + 1)
           ELSE tt

\* if (!test) ss++
Counted == IF IsTest(tt) THEN 0 ELSE 1

\* Which trials end with a save.  The option that is accepted (line 60) is
\* "trail", which is not the one that is compared with (line 240).
SaveTrial == save_every_ = "trial" \/ (IsTest(tt) /\ save_every_ = "test")

Saved == Append(saves, [run |-> rr, trained |-> trained])

\* environment_->start and agent->start.
StartTrial ==
  /\ pc = "trials"
  /\ MoreTrials
  /\ trials_ = 0 => tt < MaxTrials
  /\ trained' = IF IsTest(tt) THEN trained ELSE trained + 1
  /\ length' = 0
  /\ terminal' = 0
  /\ pc' = "environment"
  /\ UNCHANGED <<config, rr, tt, ss, curve, saves, given>>

\* environment_->step.  An observation may be missing.
StepEnvironment(last, seen) ==
  /\ pc = "environment"
  /\ length < MaxEpisode
  /\ length + 1 = MaxEpisode => last # 0
  /\ terminal' = last
  /\ length' = length + 1
  /\ pc' = IF seen THEN "agent"
                   ELSE IF last = 0 THEN "environment" ELSE "report"
  /\ UNCHANGED <<config, rr, tt, ss, curve, saves, trained, given>>

\* agent->end or agent->step, and the step counter.
TellAgent ==
  /\ pc = "agent"
  /\ given' = IF IsTest(tt) THEN given ELSE given + 1
  /\ ss' = ss + Counted
  /\ pc' = IF terminal = 0 THEN "environment" ELSE "report"
  /\ UNCHANGED <<config, rr, tt, terminal, curve, saves, trained, length>>

\* The line of the report and the point of the curve.
Report ==
  /\ pc = "report"
  /\ curve' = IF test_interval_ < 0 \/ IsTest(tt) THEN Append(curve, Label)
                                                ELSE curve
  /\ pc' = "save"
  /\ UNCHANGED <<config, rr, tt, ss, terminal, saves, trained, given, length>>

Save ==
  /\ pc = "save"
  /\ saves' = IF SaveTrial THEN Saved ELSE saves
  /\ tt' = tt + 1
  /\ pc' = "trials"
  /\ UNCHANGED <<config, rr, ss, terminal, curve, trained, given, length>>

\* The save at the end of a run, the reset, and the beginning of the next run.
EndRun ==
  /\ pc = "trials"
  /\ ~MoreTrials
  /\ saves' = IF save_every_ = "run" THEN Saved ELSE saves
  /\ rr' = rr + 1
  /\ pc' = IF rr < runs_ - 1 THEN "trials" ELSE "done"
  /\ IF ResetAfter THEN trained' = 0 /\ given' = 0
                   ELSE UNCHANGED <<trained, given>>
  /\ IF rr < runs_ - 1 THEN tt' = 0 /\ ss' = 0 /\ curve' = <<>>
                      ELSE UNCHANGED <<tt, ss, curve>>
  /\ UNCHANGED <<config, terminal, length>>

\* The experiment is over, or has reached the bound on its trials.
Finished ==
  /\ pc = "done" \/ (pc = "trials" /\ trials_ = 0 /\ tt = MaxTrials)
  /\ UNCHANGED vars

Next ==
  \/ StartTrial
  \/ \E last \in 0..2, seen \in BOOLEAN : StepEnvironment(last, seen)
  \/ TellAgent
  \/ Report
  \/ Save
  \/ EndRun
  \/ Finished

Spec == Init /\ [][Next]_vars

\* run() is a sequential program, and every trial ends.
FairSpec == Spec /\ WF_vars(Next)

-----------------------------------------------------------------------------
(* Properties                                                              *)

\* The budget "Number of steps per learning run" (online_learning.cpp:45) is
\* spent on the transitions that the learner is given, and on nothing else.
StepsCounted == pc # "done" => ss = given

\* The number of trials in the report (line 202) is the number that the learner
\* has learnt from, and there are test_interval of them "in between test
\* trials" (line 47).
CurveCurrent ==
  test_interval_ >= 0 /\ pc = "save" /\ IsTest(tt) =>
    /\ curve[Len(curve)] = trained
    /\ \A i \in DOMAIN curve : curve[i] = i * test_interval_

\* Runs are "separate learning runs" (line 42): each begins with a learner that
\* has learnt nothing.
FreshRun == pc = "trials" /\ tt = 0 => trained = 0 /\ given = 0

\* With save_every: test, the policies saved in a run are those of its report,
\* each with the trials it has learnt from, after those of the runs before.
SavedAsReported ==
  save_every_ = "test" /\ test_interval_ >= 0 /\ pc = "trials" =>
    LET before == Len(saves) - Len(curve)
    IN  /\ before >= 0
        /\ \A i \in 1..before : saves[i].run < rr
        /\ \A i \in DOMAIN curve :
             saves[before + i] = [run |-> rr, trained |-> curve[i]]

\* With save_every: run, each run saves the policy that it has learnt, once.
SavedEveryRun ==
  [][save_every_ = "run" /\ rr' # rr =>
       saves' = Append(saves, [run |-> rr, trained |-> trained])]_vars

\* With a limit on the trials, the experiment ends.
Terminates == trials_ # 0 => <>(pc = "done")
=============================================================================
