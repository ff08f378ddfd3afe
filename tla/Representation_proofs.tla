----------------------- MODULE Representation_proofs -----------------------
(***************************************************************************)
(* What is proved of batches and target networks for any number of         *)
(* threads, batch sizes and intervals.                                     *)
(***************************************************************************)
EXTENDS Representation, FiniteSetTheorems, TLAPS

USE DEF bvars, tvars, pvars, vars

\* Type correctness.
THEOREM RepresentationTypeCorrect == Spec => []TypeOK
<1> USE RepresentationAssumption DEF TypeOK, Objects, Goto
<1>1. Init => TypeOK BY DEF Init
<1>2. TypeOK /\ [Next]_vars => TypeOK'
  <2> SUFFICES ASSUME TypeOK, [Next]_vars PROVE TypeOK' OBVIOUS
  <2>1. CASE UNCHANGED vars BY <2>1
  <2>2. ASSUME NEW t \in Threads, NEW o \in Objects, NEW n \in BatchSizes,
               CallBatchRead(t, o, n)
        PROVE  TypeOK'
    BY <2>2 DEF CallBatchRead
  <2>3. ASSUME NEW t \in Threads, LockBatch(t) PROVE TypeOK'
    BY <2>3 DEF LockBatch
  <2>4. ASSUME NEW t \in Threads, Enqueue(t) PROVE TypeOK'
    <3>1. Used(t) \in Objects BY DEF Used
    <3>2. batch' = [batch EXCEPT ![Used(t)] =
                      [batch[Used(t)] EXCEPT ![t] = batch[Used(t)][t] + 1]]
      BY <2>4 DEF Enqueue
    <3>3. [batch[Used(t)] EXCEPT ![t] = batch[Used(t)][t] + 1]
            \in [Threads -> Nat]
      BY <3>1
    <3>4. batch' \in [Objects -> [Threads -> Nat]] BY <3>1, <3>2, <3>3
    <3>5. left' \in [Threads -> Nat] BY <2>4 DEF Enqueue
    <3> QED BY <2>4, <3>4, <3>5 DEF Enqueue
  <2>5. ASSUME NEW t \in Threads, Read(t) PROVE TypeOK'
    BY <2>5 DEF Read, Used
  <2>6. ASSUME NEW t \in Threads, Write(t) PROVE TypeOK'
    BY <2>6 DEF Write
  <2>7. ASSUME NEW t \in Threads, CheckSynchronize(t) PROVE TypeOK'
    BY <2>7 DEF CheckSynchronize
  <2>8. ASSUME NEW t \in Threads, Return(t) PROVE TypeOK'
    BY <2>8 DEF Return
  <2>9. CASE Finished BY <2>9 DEF Finished
  <2> QED
    BY <2>1, <2>2, <2>3, <2>4, <2>5, <2>6, <2>7, <2>8, <2>9
       DEF Next, Proceed
<1> QED BY <1>1, <1>2, PTL DEF Spec

-----------------------------------------------------------------------------
(* Batches.  They are safe when a predictor starts its batch on the object  *)
(* that it enqueues and reads on: always, except when the target that       *)
(* update() of SARSA calls batchRead on is another object.                  *)

OneObject == config.mixed => config.interval = 0

\* A batch starts with everything still to be enqueued, on the object that
\* the thread will use.
Batches ==
  /\ OneObject
  /\ \A t \in Threads : /\ Used(t) = object[t]
                        /\ pc[t] = "lock" => left[t] = size[t]
  /\ BatchMine

LEMMA BatchesKept ==
  ASSUME TypeOK, Batches, [Next]_vars
  PROVE  Batches'
<1> USE RepresentationAssumption
    DEF Batches, BatchMine, OneObject, Used, TypeOK, Objects, Goto
<1>0. \A u \in Threads :
        /\ Used(u) = object[u]
        /\ pc[u] = "enqueue" => mutex[object[u]] = u
  <2>1. \A u \in Threads : Used(u) = object[u] OBVIOUS
  <2>2. \A u \in Threads : pc[u] = "enqueue" => mutex[Used(u)] = u OBVIOUS
  <2> QED BY <2>1, <2>2
<1>1. CASE UNCHANGED vars BY <1>1
<1>2. ASSUME NEW t \in Threads, NEW o \in Objects, NEW n \in BatchSizes,
             CallBatchRead(t, o, n)
      PROVE  Batches'
  BY <1>2 DEF CallBatchRead, Target
<1>3. ASSUME NEW t \in Threads, LockBatch(t) PROVE Batches'
  BY <1>3 DEF LockBatch
<1>4. ASSUME NEW t \in Threads, Enqueue(t) PROVE Batches'
  <2>1. /\ pc' = pc /\ mutex' = mutex /\ object' = object /\ size' = size
        /\ config' = config
        /\ pc[t] = "enqueue"
    BY <1>4 DEF Enqueue
  <2>2. \A u \in Threads : object[u]' = object[u] /\ Used(u)' = object[u]
    BY <2>1
  <2>3. batch[object[t]] =
          [v \in Threads |-> IF v = t THEN size[t] - left[t] ELSE 0]
    BY <2>1
  <2>4. batch'[object[t]] =
          [v \in Threads |-> IF v = t THEN size[t] - left'[t] ELSE 0]
    <3>1. Used(t) = object[t] OBVIOUS
    <3>2. batch' = [batch EXCEPT ![object[t]] =
                      [batch[object[t]] EXCEPT ![t] = batch[object[t]][t] + 1]]
      BY <1>4, <3>1 DEF Enqueue
    <3>3. batch'[object[t]] =
            [batch[object[t]] EXCEPT ![t] = batch[object[t]][t] + 1]
      BY <3>2
    <3>4. left'[t] = left[t] - 1 BY <1>4 DEF Enqueue
    <3>5. size[t] \in Nat /\ left[t] \in Nat OBVIOUS
    <3> QED BY <2>3, <3>3, <3>4, <3>5
  <2>5. ASSUME NEW u \in Threads, u # t, pc[u] = "enqueue"
        PROVE  /\ batch'[object[u]] = batch[object[u]]
               /\ left'[u] = left[u]
    <3>1. object[u] # object[t] BY <1>0, <2>1, <2>5
    <3> QED BY <1>4, <2>5, <3>1 DEF Enqueue
  <2>6. ASSUME NEW u \in Threads, pc[u] = "enqueue"
        PROVE  batch'[object[u]] =
                 [v \in Threads |-> IF v = u THEN size[u] - left'[u] ELSE 0]
    <3>1. CASE u = t BY <2>4, <3>1
    <3>2. CASE u # t BY <2>5, <2>6, <3>2
    <3> QED BY <3>1, <3>2
  <2>7. ASSUME NEW u \in Threads, pc[u] = "lock" PROVE left'[u] = left[u]
    <3>1. u # t BY <2>1, <2>7
    <3> QED BY <1>4, <3>1 DEF Enqueue
  <2>8. \A u \in Threads : pc[u] = "enqueue" => mutex[object[u]] = u BY <1>0
  <2>9. OneObject' BY <2>1
  <2> QED BY <2>1, <2>2, <2>6, <2>7, <2>8, <2>9
<1>5. ASSUME NEW t \in Threads, Read(t) PROVE Batches'
  <2>1. /\ batch' = batch /\ object' = object /\ size' = size
        /\ config' = config
        /\ pc[t] = "enqueue" /\ mutex[object[t]] = t
        /\ mutex' \in {mutex, [mutex EXCEPT ![object[t]] = NoThread]}
    BY <1>5 DEF Read
  <2>2. \A u \in Threads : object[u]' = object[u] /\ Used(u)' = object[u]
    BY <2>1
  <2>3. pc' = [pc EXCEPT ![t] = "write"] BY <1>5 DEF Read
  <2>4. left' = [left EXCEPT ![t] = size[t]] BY <1>5 DEF Read
  <2>5. ASSUME NEW u \in Threads, pc'[u] = "enqueue"
        PROVE  /\ mutex'[object[u]] = u
               /\ batch'[object[u]] =
                   [v \in Threads |-> IF v = u THEN size[u] - left'[u] ELSE 0]
    <3>1. u # t /\ pc[u] = "enqueue" BY <2>3, <2>5
    <3>2. object[u] # object[t] BY <1>0, <2>1, <3>1
    <3>3. mutex'[object[u]] = u
      <4>1. mutex[object[u]] = u BY <1>0, <3>1
      <4>2. mutex'[object[u]] = mutex[object[u]] BY <2>1, <3>2
      <4> QED BY <4>1, <4>2
    <3>4. left'[u] = left[u] BY <2>4, <3>1
    <3> QED BY <2>1, <3>1, <3>3, <3>4
  <2>6. \A u \in Threads : pc'[u] = "lock" => left'[u] = size[u]
    BY <2>3, <2>4
  <2> QED BY <2>1, <2>2, <2>5, <2>6
<1>6. ASSUME NEW t \in Threads, Write(t) PROVE Batches'
  BY <1>6 DEF Write
<1>7. ASSUME NEW t \in Threads, CheckSynchronize(t) PROVE Batches'
  BY <1>7 DEF CheckSynchronize
<1>8. ASSUME NEW t \in Threads, Return(t) PROVE Batches'
  BY <1>8 DEF Return
<1>9. CASE Finished BY <1>9 DEF Finished
<1>10. [Next]_vars =>
         \/ UNCHANGED vars \/ Finished
         \/ \E t \in Threads :
              \/ \E o \in Objects, n \in BatchSizes : CallBatchRead(t, o, n)
              \/ LockBatch(t) \/ Enqueue(t) \/ Read(t) \/ Write(t)
              \/ CheckSynchronize(t) \/ Return(t)
  BY Zenon DEF Next, Proceed
<1> HIDE DEF Batches, BatchMine, OneObject, Used, TypeOK, Objects, Goto
<1> QED
  BY <1>1, <1>2, <1>3, <1>4, <1>5, <1>6, <1>7, <1>8, <1>9, <1>10

\* For any number of threads and transitions, no thread interrupts the batch
\* of another ("Make sure other threads can't interrupt our batch",
\* representation.h:97), if predictors read where they have locked.
THEOREM BatchesDoNotMix ==
  ASSUME \A c \in Configs : c.mixed => c.interval = 0
  PROVE  Spec => []BatchMine
<1>1. Init => Batches
  BY RepresentationAssumption
     DEF Init, Batches, BatchMine, OneObject, Used, Objects
<1>2. Batches => BatchMine BY DEF Batches
<1> QED
  BY <1>1, <1>2, BatchesKept, RepresentationTypeCorrect, PTL DEF Spec

-----------------------------------------------------------------------------
(* The mutex of a batch comes back.  Its holder is always reading, which it *)
(* can finish by itself, so that nobody waits for a thread that has left.   *)
(* It takes a predictor that reads where it has locked, and a read that has *)
(* a result: without one read() returns early, and keeps the mutex.         *)

Answered ==
  OneObject /\ ~config.silent /\ \A t \in Threads : Used(t) = object[t]

MutexReturned ==
  \A o \in Objects : mutex[o] # NoThread =>
    \E t \in Threads : mutex[o] = t /\ pc[t] = "enqueue" /\ Used(t) = o

LEMMA MutexKept ==
  ASSUME TypeOK, Answered, MutexReturned, [Next]_vars
  PROVE  Answered' /\ MutexReturned'
<1> USE RepresentationAssumption
    DEF Answered, OneObject, MutexReturned, Used, TypeOK, Goto
<1>1. CASE UNCHANGED vars BY <1>1
<1>2. ASSUME NEW t \in Threads, NEW o \in Objects, NEW n \in BatchSizes,
             CallBatchRead(t, o, n)
      PROVE  Answered' /\ MutexReturned'
  BY <1>2 DEF CallBatchRead, Target
<1>3. ASSUME NEW t \in Threads, LockBatch(t)
      PROVE  Answered' /\ MutexReturned'
  <2>1. /\ pc[t] = "lock" /\ pc' = [pc EXCEPT ![t] = "enqueue"]
        /\ mutex' = [mutex EXCEPT ![object[t]] = t]
        /\ config' = config /\ object' = object
    BY <1>3 DEF LockBatch
  <2>2. ASSUME NEW o \in Objects, mutex'[o] # NoThread
        PROVE  \E u \in Threads :
                 mutex'[o] = u /\ pc'[u] = "enqueue" /\ Used(u) = o
    <3>1. CASE o = object[t]
      <4>1. mutex'[o] = t /\ pc'[t] = "enqueue" /\ Used(t) = o
        BY <2>1, <3>1
      <4> QED BY <4>1
    <3>2. CASE o # object[t]
      <4>1. mutex'[o] = mutex[o] BY <2>1, <3>2
      <4>2. PICK u \in Threads :
              mutex[o] = u /\ pc[u] = "enqueue" /\ Used(u) = o
        BY <2>2, <4>1
      <4>3. pc'[u] = "enqueue" BY <2>1, <4>2
      <4> QED BY <4>1, <4>2, <4>3
    <3> QED BY <3>1, <3>2
  <2>3. \A u \in Threads : Used(u)' = Used(u) BY <2>1
  <2>4. Answered' BY <2>1
  <2>5. MutexReturned' BY <2>2, <2>3 DEF Objects
  <2> QED BY <2>4, <2>5
<1>4. ASSUME NEW t \in Threads, Enqueue(t)
      PROVE  Answered' /\ MutexReturned'
  BY <1>4 DEF Enqueue
<1>5. ASSUME NEW t \in Threads, Read(t) PROVE Answered' /\ MutexReturned'
  BY <1>5 DEF Read, HasResult
<1>6. ASSUME NEW t \in Threads,
             Write(t) \/ CheckSynchronize(t) \/ Return(t)
      PROVE  Answered' /\ MutexReturned'
  BY <1>6 DEF Write, CheckSynchronize, Return
<1>7. CASE Finished BY <1>7 DEF Finished
<1> QED
  BY <1>1, <1>2, <1>3, <1>4, <1>5, <1>6, <1>7 DEF Next, Proceed

\* For any number of threads and batches, the mutex that batchRead takes is
\* held by a thread that is filling or reading a batch, never by one that has
\* left (representation.h:95-147).
THEOREM MutexComesBack ==
  ASSUME \A c \in Configs : (c.mixed => c.interval = 0) /\ ~c.silent
  PROVE  Spec => []MutexReturned
<1>1. Init => Answered /\ MutexReturned
  BY RepresentationAssumption
     DEF Init, Answered, OneObject, MutexReturned, Used, Objects
<1> QED
  BY <1>1, MutexKept, RepresentationTypeCorrect, PTL DEF Spec

-----------------------------------------------------------------------------
(* The target.                                                             *)

\* Every write that the target lacks is counted or on its way to be.
Behind ==
  config.interval # 0 =>
    /\ params <= target + count + Cardinality(Checking)
    /\ count < config.interval

LEMMA CheckingFacts ==
  ASSUME TypeOK
  PROVE  IsFiniteSet(Checking) /\ Cardinality(Checking) \in Nat
<1>1. IsFiniteSet(Checking)
  BY RepresentationAssumption, FS_Subset DEF Checking
<1> QED BY <1>1, FS_CardinalityType

LEMMA BehindKept ==
  ASSUME TypeOK, TypeOK', Behind, [Next]_vars
  PROVE  Behind'
<1> USE RepresentationAssumption, CheckingFacts DEF Behind
<1>0. config.interval \in Nat BY DEF TypeOK, ConfigType
<1>1. ASSUME UNCHANGED <<config, pvars>>, Checking' = Checking
      PROVE  Behind'
  BY <1>1 DEF TypeOK
<1>2. CASE UNCHANGED vars BY <1>1, <1>2 DEF Checking
<1>3. ASSUME NEW t \in Threads, NEW o \in Objects, NEW n \in BatchSizes,
             CallBatchRead(t, o, n)
      PROVE  Behind'
  BY <1>1, <1>3 DEF CallBatchRead, Checking, Goto, TypeOK
<1>4. ASSUME NEW t \in Threads,
             LockBatch(t) \/ Enqueue(t) \/ Read(t) \/ Return(t)
      PROVE  Behind'
  BY <1>1, <1>4
     DEF LockBatch, Enqueue, Read, Return, Checking, Goto, TypeOK
<1>5. ASSUME NEW t \in Threads, Write(t) PROVE Behind'
  <2>1. Checking' = Checking \cup {t} /\ t \notin Checking
    BY <1>5 DEF Write, Checking, Goto, TypeOK
  <2>2. Cardinality(Checking') = Cardinality(Checking) + 1
    BY <2>1, FS_AddElement
  <2> QED BY <1>5, <2>2 DEF Write, TypeOK
<1>6. ASSUME NEW t \in Threads, CheckSynchronize(t) PROVE Behind'
  <2>1. Checking' = Checking \ {t} /\ t \in Checking
    BY <1>6 DEF CheckSynchronize, Checking, Goto, TypeOK
  <2>2. Cardinality(Checking') = Cardinality(Checking) - 1
    BY <2>1, FS_RemoveElement
  <2>3. Cardinality(Checking') \in Nat
    BY <2>1, FS_RemoveElement, FS_CardinalityType
  <2> QED BY <1>0, <1>6, <2>2, <2>3 DEF CheckSynchronize, Due, TypeOK
<1>7. CASE Finished BY <1>2, <1>7 DEF Finished
<1> QED BY <1>2, <1>3, <1>4, <1>5, <1>6, <1>7 DEF Next, Proceed

\* For any number of threads that write and synchronise at the same time, the
\* target lacks fewer writes than its interval, and those still under way.
THEOREM TargetFollows == Spec => []TargetLag
<1>1. Init => Behind
  <2> SUFFICES ASSUME Init, config.interval # 0 PROVE Behind
    BY DEF Behind
  <2>1. Checking = {} BY DEF Init, Checking
  <2>2. config.interval \in Nat
    BY RepresentationAssumption DEF Init, ConfigType
  <2> QED BY <2>1, <2>2, FS_EmptySet DEF Init, Behind
<1>2. TypeOK /\ Behind => TargetLag
  BY CheckingFacts, RepresentationAssumption
     DEF Behind, TargetLag, TypeOK, ConfigType
<1> QED
  BY <1>1, <1>2, BehindKept, RepresentationTypeCorrect, PTL DEF Spec
=============================================================================
