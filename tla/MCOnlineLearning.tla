-------------------------- MODULE MCOnlineLearning --------------------------
(* Configurations of the online learning experiment.                       *)
EXTENDS OnlineLearning

\* Limited by trials, by steps and by both; tests after every trial, after
\* every second and third one, always, and never; every kind of saving.
AllConfigs ==
  {c \in [runs : {1, 2}, trials : {0, 5}, steps : {0, 3},
          test_interval : {-1, 0, 1, 2},
          save_every : {"never", "run", "test", "trail"}] :
     c.trials # 0 \/ c.steps # 0}
=============================================================================
