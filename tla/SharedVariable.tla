-------------------------- MODULE SharedVariable ---------------------------
(***************************************************************************)
(* itc::SharedVariable (externals/itc/include/itc/itc.h), one step per     *)
(* lock operation and per access to the data or the sequence number.  The  *)
(* read-write lock guards the data, the mutex and the condition variable   *)
(* guard waiting, and mark() and test() read the sequence number without   *)
(* the mutex.                                                              *)
(***************************************************************************)
EXTENDS Integers, FiniteSets

CONSTANTS
  Threads,     \* the threads that share the variable
  Values,      \* its values
  NoThread,    \* holder of a free lock
  MaxSequence  \* bound on sequence_

ASSUME SharedVariableAssumption ==
  /\ NoThread \notin Threads
  /\ MaxSequence \in Nat

VARIABLES
  data,      \* *data_
  sequence,  \* sequence_
  key,       \* key_: the sequence number each thread has seen
  readers,   \* holders of a read lock on rwlock_
  writer,    \* holder of the write lock on rwlock_
  mutex,     \* holder of mutex_
  waiting,   \* the threads blocked on condition_
  pc,        \* where each thread is
  arg,       \* the value a thread is writing
  got,       \* what get() or read() returned last
  marked,    \* history: sequence_ at the thread's last mark()
  tested     \* history: test() was true and read() has not been done since

vars == <<data, sequence, key, readers, writer, mutex, waiting, pc, arg,
          got, marked, tested>>

PCs == {"idle", "read", "check", "asleep", "release", "readlock",
        "mark", "getlock", "copy", "unread", "writelock", "store",
        "setlock", "assign", "signal", "bump", "leave", "unwrite"}

TypeOK ==
  /\ data \in Values
  /\ sequence \in 0..MaxSequence
  /\ key \in [Threads -> 0..MaxSequence]
  /\ readers \subseteq Threads
  /\ writer \in Threads \cup {NoThread}
  /\ mutex \in Threads \cup {NoThread}
  /\ waiting \subseteq Threads
  /\ pc \in [Threads -> PCs]
  /\ arg \in [Threads -> Values]
  /\ got \in [Threads -> Values]
  /\ marked \in [Threads -> 0..MaxSequence]
  /\ tested \subseteq Threads

Init ==
  /\ data \in Values
  /\ sequence = 0
  /\ key = [t \in Threads |-> 0]
  /\ readers = {}
  /\ writer = NoThread
  /\ mutex = NoThread
  /\ waiting = {}
  /\ pc = [t \in Threads |-> "idle"]
  /\ arg = [t \in Threads |-> data]
  /\ got = [t \in Threads |-> data]
  /\ marked = [t \in Threads |-> 0]
  /\ tested = {}

Goto(t, from, to) == pc[t] = from /\ pc' = [pc EXCEPT ![t] = to]

-----------------------------------------------------------------------------
(* Plausible bugs, to test that the properties can tell.                   *)

\* signal() forgets the broadcast.
BumpSilently(t) ==
  /\ Goto(t, "bump", "leave")
  /\ sequence' = sequence + 1
  /\ UNCHANGED <<data, key, readers, writer, mutex, waiting, arg, got, marked,
                 tested>>

\* The write lock is granted while there are readers.
CanWriteAlways == writer = NoThread

\* test() is inverted.
TestInverted(t) ==
  /\ pc[t] = "idle"
  /\ sequence = key[t]
  /\ tested' = tested \cup {t}
  /\ UNCHANGED <<data, sequence, key, readers, writer, mutex, waiting, pc,
                 arg, got, marked>>

-----------------------------------------------------------------------------
(* read() is wait(), then mark() and a copy under the read lock.           *)

\* The read lock is granted when nobody writes, the write lock to one alone.
CanRead == writer = NoThread
CanWrite == writer = NoThread /\ readers = {}

CallRead(t) ==
  /\ Goto(t, "idle", "read")
  /\ UNCHANGED <<data, sequence, key, readers, writer, mutex, waiting, arg,
                 got, marked, tested>>

\* wait() takes the mutex, on entry and when it wakes up.
LockWait(t) ==
  /\ \/ Goto(t, "read", "check")
     \/ t \notin waiting /\ Goto(t, "asleep", "check")
  /\ mutex = NoThread
  /\ mutex' = t
  /\ UNCHANGED <<data, sequence, key, readers, writer, waiting, arg, got,
                 marked, tested>>

\* pthread_cond_wait gives the mutex back as it falls asleep.
Sleep(t) ==
  /\ sequence = key[t]
  /\ Goto(t, "check", "asleep")
  /\ waiting' = waiting \cup {t}
  /\ mutex' = NoThread
  /\ UNCHANGED <<data, sequence, key, readers, writer, arg, got, marked,
                 tested>>

\* A condition variable may wake up by itself.
WakeSpuriously(t) ==
  /\ t \in waiting
  /\ waiting' = waiting \ {t}
  /\ UNCHANGED <<data, sequence, key, readers, writer, mutex, pc, arg, got,
                 marked, tested>>

SeeNew(t) ==
  /\ sequence # key[t]
  /\ Goto(t, "check", "release")
  /\ key' = [key EXCEPT ![t] = sequence]
  /\ UNCHANGED <<data, sequence, readers, writer, mutex, waiting, arg, got,
                 marked, tested>>

UnlockWait(t) ==
  /\ Goto(t, "release", "readlock")
  /\ mutex' = NoThread
  /\ UNCHANGED <<data, sequence, key, readers, writer, waiting, arg, got,
                 marked, tested>>

ReadLock(t) ==
  /\ Goto(t, "readlock", "mark") \/ Goto(t, "getlock", "copy")
  /\ CanRead
  /\ readers' = readers \cup {t}
  /\ UNCHANGED <<data, sequence, key, writer, mutex, waiting, arg, got,
                 marked, tested>>

\* mark() and the copy: the data cannot change between the two.
Mark(t) ==
  /\ Goto(t, "mark", "unread")
  /\ key' = [key EXCEPT ![t] = sequence]
  /\ got' = [got EXCEPT ![t] = data]
  /\ marked' = [marked EXCEPT ![t] = sequence]
  /\ tested' = tested \ {t}
  /\ UNCHANGED <<data, sequence, readers, writer, mutex, waiting, arg>>

-----------------------------------------------------------------------------
(* get(), write(v), set(v), signal() and test().                           *)

\* Bound: no more calls of write() and signal() than MaxSequence.
MayAnnounce ==
  LET announcing == {t \in Threads :
                       pc[t] \in {"writelock", "store", "signal", "bump"}}
  IN  sequence + Cardinality(announcing) < MaxSequence

CallGet(t) ==
  /\ Goto(t, "idle", "getlock")
  /\ UNCHANGED <<data, sequence, key, readers, writer, mutex, waiting, arg,
                 got, marked, tested>>

Copy(t) ==
  /\ Goto(t, "copy", "unread")
  /\ got' = [got EXCEPT ![t] = data]
  /\ UNCHANGED <<data, sequence, key, readers, writer, mutex, waiting, arg,
                 marked, tested>>

ReadUnlock(t) ==
  /\ Goto(t, "unread", "idle")
  /\ readers' = readers \ {t}
  /\ UNCHANGED <<data, sequence, key, writer, mutex, waiting, arg, got,
                 marked, tested>>

CallWrite(t, v) ==
  /\ \/ MayAnnounce /\ Goto(t, "idle", "writelock")
     \/ Goto(t, "idle", "setlock")
  /\ arg' = [arg EXCEPT ![t] = v]
  /\ UNCHANGED <<data, sequence, key, readers, writer, mutex, waiting, got,
                 marked, tested>>

WriteLock(t) ==
  /\ Goto(t, "writelock", "store") \/ Goto(t, "setlock", "assign")
  /\ CanWrite
  /\ writer' = t
  /\ UNCHANGED <<data, sequence, key, readers, mutex, waiting, arg, got,
                 marked, tested>>

\* write() goes on to signal(), still holding the lock; set() does not.
Store(t) ==
  /\ Goto(t, "store", "signal") \/ Goto(t, "assign", "unwrite")
  /\ data' = arg[t]
  /\ UNCHANGED <<sequence, key, readers, writer, mutex, waiting, arg, got,
                 marked, tested>>

WriteUnlock(t) ==
  /\ Goto(t, "unwrite", "idle")
  /\ writer' = NoThread
  /\ UNCHANGED <<data, sequence, key, readers, mutex, waiting, arg, got,
                 marked, tested>>

CallSignal(t) ==
  /\ MayAnnounce
  /\ Goto(t, "idle", "signal")
  /\ UNCHANGED <<data, sequence, key, readers, writer, mutex, waiting, arg,
                 got, marked, tested>>

LockSignal(t) ==
  /\ Goto(t, "signal", "bump")
  /\ mutex = NoThread
  /\ mutex' = t
  /\ UNCHANGED <<data, sequence, key, readers, writer, waiting, arg, got,
                 marked, tested>>

\* sequence_++ and the broadcast.
Bump(t) ==
  /\ Goto(t, "bump", "leave")
  /\ sequence' = sequence + 1
  /\ waiting' = {}
  /\ UNCHANGED <<data, key, readers, writer, mutex, arg, got, marked, tested>>

UnlockSignal(t) ==
  /\ Goto(t, "leave", IF writer = t THEN "unwrite" ELSE "idle")
  /\ mutex' = NoThread
  /\ UNCHANGED <<data, sequence, key, readers, writer, waiting, arg, got,
                 marked, tested>>

\* test() reads the sequence number without a lock.
Test(t) ==
  /\ pc[t] = "idle"
  /\ sequence # key[t]
  /\ tested' = tested \cup {t}
  /\ UNCHANGED <<data, sequence, key, readers, writer, mutex, waiting, pc,
                 arg, got, marked>>

-----------------------------------------------------------------------------
\* The steps of a thread inside a call.
Proceed(t) ==
  \/ Sleep(t)
  \/ SeeNew(t)
  \/ UnlockWait(t)
  \/ Mark(t)
  \/ Copy(t)
  \/ ReadUnlock(t)
  \/ Store(t)
  \/ WriteUnlock(t)
  \/ Bump(t)
  \/ UnlockSignal(t)

\* The steps that may have to wait for another thread.
Acquire(t) ==
  \/ LockWait(t)
  \/ LockSignal(t)
  \/ ReadLock(t)
  \/ WriteLock(t)

Call(t) ==
  \/ CallRead(t)
  \/ CallGet(t)
  \/ CallSignal(t)
  \/ \E v \in Values : CallWrite(t, v)
  \/ Test(t)

Next ==
  \E t \in Threads : Call(t) \/ Proceed(t) \/ Acquire(t) \/ WakeSpuriously(t)

Spec == Init /\ [][Next]_vars

\* Every thread inside a call is scheduled, and the locks do not pass over a
\* thread for ever.  Calls are the program's choice.
FairSpec ==
  /\ Spec
  /\ \A t \in Threads : WF_vars(Proceed(t)) /\ SF_vars(Acquire(t))

-----------------------------------------------------------------------------
(* Properties                                                              *)

\* "Do not use operator*() when it is unlocked" (itc.h:344): whoever touches
\* the data holds the lock for it, and a writer is alone.
DataLocked ==
  /\ writer # NoThread => readers = {}
  /\ \A t \in Threads :
       /\ pc[t] \in {"mark", "copy"} => t \in readers
       /\ pc[t] \in {"store", "assign"} => writer = t

\* test() "is used to test whether a variable has changed" (itc.h:144): when
\* it was true, the read() that follows does not go to sleep.
TestPromisesRead == \A t \in tested : t \notin waiting

\* The promise, with a read() taking effect at mark() and a write() at the
\* store, which is announced from then on although signal() is still to come.
Announced ==
  IF \E t \in Threads : writer = t /\ pc[t] \in {"signal", "bump"}
    THEN sequence + 1 ELSE sequence
Reading == {t \in Threads : pc[t] \in {"read", "check", "asleep",
                                       "release", "readlock", "mark"}}
M == INSTANCE Mailbox WITH value <- data, version <- Announced,
                           want <- Reading, last <- marked

\* SharedVariable keeps the promise of Mailbox, its liveness included: no
\* value is read twice ("This makes sure the same value is not read twice",
\* itc.h:139), and no announcement is slept through.
KeepsPromise == M!FairSpec
=============================================================================
