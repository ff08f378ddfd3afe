-------------------------- MODULE MCRepresentation --------------------------
(* Configurations of a representation and its predictors.                  *)
EXTENDS Representation

\* Predictors that read a batch where they have started it, over a
\* representation that always has a result: without a target, with one that
\* follows every write, every second and every third.
OneObject == [interval : 0..3, mixed : {FALSE}, silent : {FALSE}]

\* SARSA over a representation with a target, and a policy that asks local
\* linear regression before anything has been learned.
Broken ==
  {[interval |-> 1, mixed |-> TRUE, silent |-> FALSE],
   [interval |-> 0, mixed |-> FALSE, silent |-> TRUE]}
=============================================================================
