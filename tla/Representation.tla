--------------------------- MODULE Representation ---------------------------
(***************************************************************************)
(* Batches and target networks of a parameterised representation           *)
(* (include/grl/representation.h) as the predictors of several replay      *)
(* threads use them: batchRead takes the mutex of the batch and read gives *)
(* it back, and every write counts towards the next synchronisation of the *)
(* target.                                                                 *)
(*                                                                         *)
(* A projection is abstracted to the thread that enqueued it, and a        *)
(* parameter vector to its version, the number of writes that made it.     *)
(***************************************************************************)
EXTENDS Integers, FiniteSets

CONSTANTS
  Threads,    \* the threads that update a predictor
  NoThread,   \* holder of a free mutex
  Configs,    \* the configurations, see ConfigType
  BatchSizes, \* numbers of transitions in a batch, without absorbing ones
  MaxWrites   \* bound: writes to the representation

\* interval: interval_, 0 for a representation that is its own target;
\* mixed: the predictor starts the batch on target() but enqueues and reads
\* on the representation itself (SARSA), the others use one for both;
\* silent: a read may have no result, as long as nothing has been learned.
ConfigType == [interval : Nat, mixed : BOOLEAN, silent : BOOLEAN]

ASSUME RepresentationAssumption ==
  /\ IsFiniteSet(Threads)
  /\ NoThread \notin Threads
  /\ Configs \subseteq ConfigType
  /\ BatchSizes \subseteq Nat \ {0}
  /\ MaxWrites \in Nat

VARIABLES
  config,   \* the configuration
  mutex,    \* Representation::mutex_ of each object: its holder
  batch,    \* batch_ of each object: how many projections of each thread
  pc,       \* where each thread is
  object,   \* the object a thread called batchRead on
  size,     \* transitions in the batch of a thread
  left,     \* how many of them are still to be enqueued or written
  params,   \* version of params_
  target,   \* version of the target's parameters
  count     \* count_

bvars == <<mutex, batch>>
tvars == <<pc, object, size, left>>
pvars == <<params, target, count>>
vars  == <<config, bvars, tvars, pvars>>

\* The representation itself, and its target.
Objects == {"main", "target"}
Target == IF config.interval = 0 THEN "main" ELSE "target"

\* The object on which a thread enqueues and reads.
Used(t) == IF config.mixed THEN "main" ELSE object[t]

TypeOK ==
  /\ config \in Configs
  /\ mutex \in [Objects -> Threads \cup {NoThread}]
  /\ batch \in [Objects -> [Threads -> Nat]]
  /\ pc \in [Threads -> {"idle", "lock", "enqueue", "write", "check"}]
  /\ object \in [Threads -> Objects]
  /\ size \in [Threads -> Nat]
  /\ left \in [Threads -> Nat]
  /\ params \in Nat
  /\ target \in Nat
  /\ count \in Nat

Init ==
  /\ config \in Configs
  /\ mutex = [o \in Objects |-> NoThread]
  /\ batch = [o \in Objects |-> [t \in Threads |-> 0]]
  /\ pc = [t \in Threads |-> "idle"]
  /\ object = [t \in Threads |-> "main"]
  /\ size = [t \in Threads |-> 0]
  /\ left = [t \in Threads |-> 0]
  /\ params = 0
  /\ target = 0
  /\ count = 0

Goto(t, from, to) == pc[t] = from /\ pc' = [pc EXCEPT ![t] = to]

-----------------------------------------------------------------------------
(* Plausible bugs, to test that the properties can tell.                   *)

\* batchRead does not wait for the mutex.
LockBatchNot(t) ==
  /\ Goto(t, "lock", "enqueue")
  /\ mutex' = [mutex EXCEPT ![object[t]] = t]
  /\ batch' = [batch EXCEPT ![object[t]] = [u \in Threads |-> 0]]
  /\ UNCHANGED <<config, object, size, left, pvars>>

\* read(Matrix*) forgets to give the mutex back.
ReadKeepsMutex(t) ==
  /\ left[t] = 0
  /\ Goto(t, "enqueue", "write")
  /\ left' = [left EXCEPT ![t] = size[t]]
  /\ UNCHANGED <<config, bvars, object, size, pvars>>

\* The test of the interval is off by one.
DueLate(n) == config.interval # 0 /\ n > config.interval

-----------------------------------------------------------------------------
(* A batch of reads.                                                       *)

\* update(transitions): batchRead on the target or, for the values that are
\* to be improved, on the representation itself.
\* Bound: no batch that could not write all it wants, were it alone.
CallBatchRead(t, o, n) ==
  /\ Goto(t, "idle", "lock")
  /\ o \in {Target} \cup (IF config.mixed THEN {} ELSE {"main"})
  /\ params + n <= MaxWrites
  /\ object' = [object EXCEPT ![t] = o]
  /\ size' = [size EXCEPT ![t] = n]
  /\ left' = [left EXCEPT ![t] = n]
  /\ UNCHANGED <<config, bvars, pvars>>

\* "Make sure other threads can't interrupt our batch"
LockBatch(t) ==
  /\ Goto(t, "lock", "enqueue")
  /\ mutex[object[t]] = NoThread
  /\ mutex' = [mutex EXCEPT ![object[t]] = t]
  /\ batch' = [batch EXCEPT ![object[t]] = [u \in Threads |-> 0]]
  /\ UNCHANGED <<config, object, size, left, pvars>>

Enqueue(t) ==
  /\ pc[t] = "enqueue"
  /\ left[t] > 0
  /\ batch' = [batch EXCEPT ![Used(t)][t] = @ + 1]
  /\ left' = [left EXCEPT ![t] = @ - 1]
  /\ UNCHANGED <<config, mutex, pc, object, size, pvars>>

\* Whether the first projection of the batch has a result.
HasResult == ~config.silent \/ params > 0

\* read(Matrix*) reads every projection of the batch and unlocks the mutex of
\* the object it was called on, whoever holds it; but it returns early, with
\* the mutex, when the first projection has no result.
Read(t) ==
  /\ left[t] = 0
  /\ Goto(t, "enqueue", "write")
  /\ mutex' = IF HasResult THEN [mutex EXCEPT ![Used(t)] = NoThread]
                           ELSE mutex
  /\ left' = [left EXCEPT ![t] = size[t]]
  /\ UNCHANGED <<config, batch, object, size, pvars>>

-----------------------------------------------------------------------------
(* A batch of writes, which other threads may interrupt.                   *)

\* enqueue(projection, target) writes at once.  (Bound: MaxWrites.)
Write(t) ==
  /\ left[t] > 0
  /\ params < MaxWrites
  /\ Goto(t, "write", "check")
  /\ params' = params + 1
  /\ left' = [left EXCEPT ![t] = @ - 1]
  /\ UNCHANGED <<config, bvars, object, size, target, count>>

Due(n) == config.interval # 0 /\ n >= config.interval

\* checkSynchronize, under a mutex of its own that nothing else takes.
CheckSynchronize(t) ==
  /\ Goto(t, "check", "write")
  /\ IF Due(count + 1)
       THEN target' = params /\ count' = 0
       ELSE count' = count + 1 /\ UNCHANGED target
  /\ UNCHANGED <<config, bvars, object, size, left, params>>

\* write() finalizes, and update(transitions) returns.  (The bound cuts the
\* batch of a thread short when another one has used up its writes.)
Return(t) ==
  /\ left[t] = 0 \/ params = MaxWrites
  /\ Goto(t, "write", "idle")
  /\ UNCHANGED <<config, bvars, object, size, left, pvars>>

-----------------------------------------------------------------------------
Proceed(t) ==
  \/ Enqueue(t)
  \/ Read(t)
  \/ Write(t)
  \/ CheckSynchronize(t)
  \/ Return(t)

\* Nothing is left to write.
Finished ==
  /\ \A t \in Threads : pc[t] = "idle"
  /\ params = MaxWrites
  /\ UNCHANGED vars

Next ==
  \/ \E t \in Threads :
       \/ \E o \in Objects, n \in BatchSizes : CallBatchRead(t, o, n)
       \/ LockBatch(t)
       \/ Proceed(t)
  \/ Finished

Spec == Init /\ [][Next]_vars

\* Every thread inside a call is scheduled, and the mutex does not pass over
\* a thread for ever.  Calls are the agents' choice.
FairSpec ==
  /\ Spec
  /\ \A t \in Threads : WF_vars(Proceed(t)) /\ SF_vars(LockBatch(t))

-----------------------------------------------------------------------------
(* Properties                                                              *)

\* "Make sure other threads can't interrupt our batch" (representation.h:97):
\* the batch a thread is filling or reading holds its own projections, all of
\* them and nothing else, so that row ii of the result belongs to its ii-th.
BatchMine ==
  \A t \in Threads :
    pc[t] = "enqueue" =>
      /\ mutex[Used(t)] = t
      /\ batch[Used(t)] =
           [u \in Threads |-> IF u = t THEN size[t] - left[t] ELSE 0]

\* The target is behind by less than interval_ writes, not counting those
\* that are still on their way to checkSynchronize ("Target representation
\* update interval (number of writes)", representation.h:177).
Checking == {t \in Threads : pc[t] = "check"}
TargetLag ==
  config.interval # 0 =>
    params - target < config.interval + Cardinality(Checking)

\* Every batch gets the mutex and is read: update(transitions) returns.
BatchReturns ==
  \A t \in Threads : pc[t] = "lock" ~> pc[t] = "idle"
=============================================================================
