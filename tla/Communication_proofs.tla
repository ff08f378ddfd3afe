----------------------- MODULE Communication_proofs ------------------------
(***************************************************************************)
(* What is proved of the two ways in which threads communicate: through an *)
(* itc::SharedVariable in one process, for any number of threads, values   *)
(* and announcements, and through a messenger between two processes, for   *)
(* any number of messages.                                                 *)
(***************************************************************************)
EXTENDS SharedVariable, Messenger, TLAPS

(* itc::SharedVariable                                                     *)

\* Types, without the bound on the sequence number.
Types ==
  /\ data \in Values
  /\ sequence \in Nat
  /\ key \in [Threads -> Nat]
  /\ marked \in [Threads -> Nat]
  /\ pc \in [Threads -> PCs]
  /\ arg \in [Threads -> Values]
  /\ got \in [Threads -> Values]
  /\ tested \subseteq Threads
  /\ waiting \subseteq Threads

\* Who is between locking and unlocking holds the lock.
Locks ==
  /\ writer # NoThread => readers = {}
  /\ \A t \in Threads :
       /\ pc[t] \in {"mark", "copy", "unread"} => t \in readers
       /\ pc[t] \in {"store", "assign", "unwrite"} => writer = t
       /\ writer = t => pc[t] \in {"store", "assign", "signal", "bump",
                                   "leave", "unwrite"}

\* A thread has seen what it has read, and read() has seen something newer
\* when it stops waiting.
Waited == {"release", "readlock", "mark"}
Seen ==
  \A t \in Threads :
    /\ marked[t] <= key[t]
    /\ key[t] <= sequence
    /\ pc[t] \in Waited => marked[t] < key[t]

\* A thread that was promised something new does not sleep.
Promised ==
  /\ \A t \in waiting : pc[t] = "asleep"
  /\ \A t \in tested : \/ key[t] < sequence /\ pc[t] # "asleep"
                       \/ pc[t] \in Waited

Inv == Types /\ Locks /\ Seen /\ Promised

LEMMA Initially == Init => Inv
BY SharedVariableAssumption
   DEF Init, Inv, Types, Locks, Seen, Promised, Waited, PCs

LEMMA InvKept ==
  ASSUME Inv, [Next]_vars
  PROVE  Inv'
<1> USE SharedVariableAssumption
    DEF Inv, Types, Locks, Seen, Promised, Waited, PCs, Goto
<1>1. CASE UNCHANGED vars BY <1>1 DEF vars
<1>2. ASSUME NEW t \in Threads, LockWait(t) PROVE Inv' BY <1>2 DEF LockWait
<1>3. ASSUME NEW t \in Threads, Sleep(t) PROVE Inv' BY <1>3 DEF Sleep
<1>4. ASSUME NEW t \in Threads, SeeNew(t) PROVE Inv' BY <1>4 DEF SeeNew
<1>5. ASSUME NEW t \in Threads, UnlockWait(t) PROVE Inv'
  BY <1>5 DEF UnlockWait
<1>6. ASSUME NEW t \in Threads, ReadLock(t) PROVE Inv'
  BY <1>6 DEF ReadLock, CanRead
<1>7. ASSUME NEW t \in Threads, Mark(t) PROVE Inv' BY <1>7 DEF Mark
<1>8. ASSUME NEW t \in Threads, Copy(t) PROVE Inv' BY <1>8 DEF Copy
<1>9. ASSUME NEW t \in Threads, ReadUnlock(t) PROVE Inv'
  BY <1>9 DEF ReadUnlock
<1>10. ASSUME NEW t \in Threads, WriteLock(t) PROVE Inv'
  BY <1>10 DEF WriteLock, CanWrite
<1>11. ASSUME NEW t \in Threads, Store(t) PROVE Inv' BY <1>11 DEF Store
<1>12. ASSUME NEW t \in Threads, WriteUnlock(t) PROVE Inv'
  BY <1>12 DEF WriteUnlock
<1>13. ASSUME NEW t \in Threads, LockSignal(t) PROVE Inv'
  BY <1>13 DEF LockSignal
<1>14. ASSUME NEW t \in Threads, Bump(t) PROVE Inv' BY <1>14 DEF Bump
<1>15. ASSUME NEW t \in Threads, UnlockSignal(t) PROVE Inv'
  BY <1>15 DEF UnlockSignal
<1>16. ASSUME NEW t \in Threads, Test(t) PROVE Inv' BY <1>16 DEF Test
<1>17. ASSUME NEW t \in Threads, WakeSpuriously(t) PROVE Inv'
  BY <1>17 DEF WakeSpuriously
<1>18. ASSUME NEW t \in Threads, CallRead(t) \/ CallGet(t) \/ CallSignal(t)
       PROVE  Inv'
  BY <1>18 DEF CallRead, CallGet, CallSignal
<1>19. ASSUME NEW t \in Threads, NEW v \in Values, CallWrite(t, v)
       PROVE  Inv'
  BY <1>19 DEF CallWrite
<1> QED
  BY <1>1, <1>2, <1>3, <1>4, <1>5, <1>6, <1>7, <1>8, <1>9, <1>10, <1>11,
     <1>12, <1>13, <1>14, <1>15, <1>16, <1>17, <1>18, <1>19
     DEF Next, Proceed, Acquire, Call

LEMMA Invariant == Spec => []Inv
BY Initially, InvKept, PTL DEF Spec

\* For any number of threads and any interleaving of their lock operations,
\* whoever touches the data holds the lock for it (itc.h:344).
THEOREM DataIsLocked == Spec => []DataLocked
<1>1. Inv => DataLocked BY DEF Inv, Locks, DataLocked
<1> QED BY <1>1, Invariant, PTL

\* Although test() takes no lock, the read() that follows it does not sleep
\* (itc.h:144), for any number of threads.
THEOREM TestKeepsPromise == Spec => []TestPromisesRead
<1>1. Inv => TestPromisesRead
  BY DEF Inv, Types, Promised, Waited, TestPromisesRead
<1> QED BY <1>1, Invariant, PTL

-----------------------------------------------------------------------------
\* The announcement of a write counts from the store to the bump.
Announcing == \E t \in Threads : writer = t /\ pc[t] \in {"signal", "bump"}

\* Nothing is announced by steps that leave the writer where it is.
LEMMA AnnouncedKept ==
  ASSUME writer' = writer, sequence' = sequence,
         NEW t \in Threads,
         \A u \in Threads \ {t} : pc'[u] = pc[u],
         pc[t] \in {"signal", "bump"} <=> pc'[t] \in {"signal", "bump"}
  PROVE  Announced' = Announced
BY DEF Announced

\* read() is in progress for the same threads.
ReadPCs == {"read", "check", "asleep", "release", "readlock", "mark"}

LEMMA ReadingKept ==
  ASSUME NEW t \in Threads,
         \A u \in Threads \ {t} : pc'[u] = pc[u],
         pc[t] \in ReadPCs <=> pc'[t] \in ReadPCs
  PROVE  Reading' = Reading
BY DEF Reading, ReadPCs

\* A step that the users of a mailbox do not see.
LEMMA Unseen ==
  ASSUME Inv, NEW t \in Threads,
         \/ LockWait(t) \/ Sleep(t) \/ SeeNew(t) \/ UnlockWait(t)
         \/ ReadLock(t) \/ ReadUnlock(t) \/ WriteLock(t) \/ WriteUnlock(t)
         \/ LockSignal(t) \/ UnlockSignal(t) \/ CallGet(t) \/ CallSignal(t)
         \/ Test(t) \/ WakeSpuriously(t) \/ \E v \in Values : CallWrite(t, v)
  PROVE  UNCHANGED M!vars
<1> DEFINE Signals(p) == p \in {"signal", "bump"}
           Reads(p) == p \in ReadPCs
<1>1. /\ data' = data /\ sequence' = sequence
      /\ marked' = marked /\ got' = got
      /\ \A u \in Threads \ {t} : pc'[u] = pc[u]
      /\ Reads(pc[t]) <=> Reads(pc'[t])
  BY DEF LockWait, Sleep, SeeNew, UnlockWait, ReadLock, ReadUnlock,
         WriteLock, WriteUnlock, LockSignal, UnlockSignal, CallGet,
         CallSignal, Test, WakeSpuriously, CallWrite, Goto, Inv, Types,
         ReadPCs
<1>2. Reading' = Reading BY <1>1, ReadingKept
<1>3. Announced' = Announced
  <2>1. CASE WriteLock(t) \/ WriteUnlock(t)
    BY <2>1, SharedVariableAssumption
       DEF WriteLock, WriteUnlock, CanWrite, Goto, Inv, Types, Locks, Announced
  <2>2. CASE CallSignal(t)
    BY <2>2 DEF CallSignal, Goto, Inv, Types, Locks, Announced
  <2>3. CASE ~WriteLock(t) /\ ~WriteUnlock(t) /\ ~CallSignal(t)
    <3>1. writer' = writer /\ (Signals(pc[t]) <=> Signals(pc'[t]))
      BY <2>3
         DEF LockWait, Sleep, SeeNew, UnlockWait, ReadLock, ReadUnlock,
             LockSignal, UnlockSignal, CallGet, Test, WakeSpuriously,
             CallWrite, Goto, Inv, Types
    <3> QED BY <1>1, <3>1, AnnouncedKept
  <2> QED BY <2>1, <2>2, <2>3
<1> QED BY <1>1, <1>2, <1>3 DEF M!vars

\* Every step of the variable is one of the mailbox, or none.
LEMMA Simulation ==
  ASSUME Inv, [Next]_vars
  PROVE  [M!Next]_(M!vars)
<1> USE SharedVariableAssumption
<1>1. CASE UNCHANGED vars
  BY <1>1 DEF vars, M!vars, Announced, Reading
<1>2. ASSUME NEW t \in Threads, CallRead(t) PROVE M!CallRead(t)
  <2>1. Announced' = Announced
    BY <1>2, AnnouncedKept DEF CallRead, Goto, Inv, Types
  <2>2. t \notin Reading /\ Reading' = Reading \cup {t}
    BY <1>2 DEF CallRead, Goto, Inv, Types, Reading
  <2> QED BY <1>2, <2>1, <2>2 DEF CallRead, M!CallRead
<1>3. ASSUME NEW t \in Threads, Mark(t) PROVE M!Read(t)
  <2>1. writer = NoThread BY <1>3 DEF Mark, Goto, Inv, Types, Locks
  <2>2. Announced = sequence /\ Announced' = sequence
    BY <1>3, <2>1 DEF Mark, Announced
  <2>3. marked[t] < sequence
    BY <1>3 DEF Mark, Goto, Inv, Types, Seen, Waited
  <2>4. t \in Reading /\ Reading' = Reading \ {t}
    BY <1>3 DEF Mark, Goto, Inv, Types, Reading
  <2>5. sequence > marked[t] BY <2>3 DEF Inv, Types
  <2> QED BY <1>3, <2>2, <2>4, <2>5 DEF Mark, M!Read
<1>4. ASSUME NEW t \in Threads, Copy(t) PROVE M!Get(t)
  <2>1. Announced' = Announced
    BY <1>4, AnnouncedKept DEF Copy, Goto, Inv, Types
  <2>2. Reading' = Reading
    BY <1>4, ReadingKept DEF Copy, Goto, Inv, Types, ReadPCs
  <2> QED BY <1>4, <2>1, <2>2 DEF Copy, M!Get
<1>5. ASSUME NEW t \in Threads, Store(t)
      PROVE  M!Write(arg[t]) \/ M!Set(arg[t])
  <2>1. writer = t /\ writer' = t /\ sequence' = sequence
    BY <1>5 DEF Store, Goto, Inv, Types, Locks
  <2>2. Reading' = Reading
    BY <1>5, ReadingKept DEF Store, Goto, Inv, Types, ReadPCs
  <2>3. CASE pc[t] = "store"
    <3>1. Announced = sequence /\ Announced' = sequence + 1
      BY <1>5, <2>1, <2>3 DEF Store, Goto, Inv, Types, Announced
    <3> QED BY <1>5, <2>2, <3>1 DEF Store, M!Write
  <2>4. CASE pc[t] = "assign"
    <3>1. Announced' = Announced
      BY <1>5, <2>1, <2>4 DEF Store, Goto, Inv, Types, Announced
    <3> QED BY <1>5, <2>2, <3>1 DEF Store, M!Set
  <2> QED BY <1>5, <2>3, <2>4 DEF Store, Goto
<1>6. ASSUME NEW t \in Threads, Bump(t) PROVE M!Signal \/ UNCHANGED M!vars
  <2>1. Reading' = Reading
    BY <1>6, ReadingKept DEF Bump, Goto, Inv, Types, ReadPCs
  <2>2. CASE writer = t
    <3>1. Announced' = Announced
      BY <1>6, <2>2 DEF Bump, Goto, Inv, Types, Announced
    <3> QED BY <1>6, <2>1, <3>1 DEF Bump, M!vars
  <2>3. CASE writer # t
    <3>1. Announcing' = Announcing
      BY <1>6, <2>3 DEF Bump, Goto, Inv, Types, Announcing
    <3>2. Announced' = Announced + 1
      BY <1>6, <3>1 DEF Bump, Inv, Types, Announced, Announcing
    <3> QED BY <1>6, <2>1, <3>2 DEF Bump, M!Signal
  <2> QED BY <2>2, <2>3
<1> QED
  BY <1>1, <1>2, <1>3, <1>4, <1>5, <1>6, Unseen
     DEF Next, Proceed, Acquire, Call, M!Next, Inv, Types

\* The code implements what it promises, but for liveness: with the effect of
\* a write() at its store and of a read() at its mark(), every behaviour of
\* the lock operations is one of the mailbox, in which no value is read twice
\* and none is torn (itc.h:118-153, 396-429).
THEOREM ImplementsMailbox == Spec => M!Spec
<1>1. Init => M!Init BY DEF Init, M!Init, Announced, Reading
<1> QED BY <1>1, Invariant, Simulation, PTL DEF Spec, M!Spec

-----------------------------------------------------------------------------
(* Nobody is stuck.  The mutex is only ever held by a thread that needs no  *)
(* other lock, and the read-write lock by one that needs at most the mutex, *)
(* so a thread that is not idle moves, waits for one that will, or sleeps   *)
(* because there is nothing to read.                                        *)

\* Where a thread holds the mutex.
MutexPCs == {"check", "release", "bump", "leave"}

\* Who holds a lock is where it can give it back, and who sleeps has seen
\* everything.
Held ==
  /\ readers \subseteq Threads
  /\ writer \in Threads \cup {NoThread}
  /\ mutex \in Threads \cup {NoThread}
  /\ \A t \in readers : pc[t] \in {"mark", "copy", "unread"}
  /\ \A t \in Threads : pc[t] \in MutexPCs <=> mutex = t
NothingMissed == \A t \in waiting : key[t] = sequence

\* The locks that a thread comes to need are free.
CanMove(t) ==
  \/ pc[t] \in MutexPCs \cup {"mark", "copy", "unread", "store", "assign",
                              "unwrite"}
  \/ pc[t] \in {"read", "signal"} /\ mutex = NoThread
  \/ pc[t] = "asleep" /\ t \notin waiting /\ mutex = NoThread
  \/ pc[t] \in {"readlock", "getlock"} /\ CanRead
  \/ pc[t] \in {"writelock", "setlock"} /\ CanWrite

\* As long as somebody is inside a call and not asleep, somebody can move.
NobodyStuck ==
  (\E t \in Threads : pc[t] # "idle" /\ t \notin waiting) =>
    \E t \in Threads : CanMove(t)

\* Every step keeps it.
LEMMA HeldKept ==
  ASSUME Inv, Held, NothingMissed, [Next]_vars
  PROVE  Held' /\ NothingMissed'
<1> USE SharedVariableAssumption
    DEF Held, NothingMissed, Inv, Types, Locks, Promised, MutexPCs, Goto
<1>1. CASE UNCHANGED vars BY <1>1 DEF vars
<1>2. ASSUME NEW t \in Threads, LockWait(t) \/ Sleep(t)
      PROVE  Held' /\ NothingMissed'
  BY <1>2 DEF LockWait, Sleep
<1>3. ASSUME NEW t \in Threads, SeeNew(t) \/ UnlockWait(t)
      PROVE  Held' /\ NothingMissed'
  BY <1>3 DEF SeeNew, UnlockWait
<1>4. ASSUME NEW t \in Threads, ReadLock(t) \/ ReadUnlock(t)
      PROVE  Held' /\ NothingMissed'
  BY <1>4 DEF ReadLock, ReadUnlock, CanRead
<1>5. ASSUME NEW t \in Threads, Mark(t) \/ Copy(t)
      PROVE  Held' /\ NothingMissed'
  BY <1>5 DEF Mark, Copy
<1>6. ASSUME NEW t \in Threads, WriteLock(t) \/ Store(t) \/ WriteUnlock(t)
      PROVE  Held' /\ NothingMissed'
  BY <1>6 DEF WriteLock, Store, WriteUnlock, CanWrite
<1>7. ASSUME NEW t \in Threads, LockSignal(t) \/ Bump(t) \/ UnlockSignal(t)
      PROVE  Held' /\ NothingMissed'
  BY <1>7 DEF LockSignal, Bump, UnlockSignal
<1>8. ASSUME NEW t \in Threads, Test(t) \/ WakeSpuriously(t)
      PROVE  Held' /\ NothingMissed'
  BY <1>8 DEF Test, WakeSpuriously
<1>9. ASSUME NEW t \in Threads, CallRead(t) \/ CallGet(t) \/ CallSignal(t)
      PROVE  Held' /\ NothingMissed'
  BY <1>9 DEF CallRead, CallGet, CallSignal
<1>10. ASSUME NEW t \in Threads, NEW v \in Values, CallWrite(t, v)
       PROVE  Held' /\ NothingMissed'
  BY <1>10 DEF CallWrite
<1> QED
  BY <1>1, <1>2, <1>3, <1>4, <1>5, <1>6, <1>7, <1>8, <1>9, <1>10
     DEF Next, Proceed, Acquire, Call

LEMMA HeldInvariant == Spec => [](Inv /\ Held /\ NothingMissed)
<1>1. Init => Held /\ NothingMissed
  BY SharedVariableAssumption DEF Init, Held, NothingMissed, MutexPCs
<1> QED BY <1>1, HeldKept, Invariant, PTL DEF Spec

\* A thread that a condition variable keeps asleep has seen all there is: no
\* announcement is slept through, whatever the interleaving of read() and
\* signal() (itc.h:570-577, 590-596).
THEOREM NothingIsMissed == Spec => []NothingMissed
BY HeldInvariant, PTL

\* The mutex and the read-write lock never end up waiting for each other, nor
\* does a lock stay with a thread that has left (itc.h:377-429, 570-596).
THEOREM NobodyIsStuck == Spec => []NobodyStuck
<1>1. Inv /\ Held => NobodyStuck
  <2> SUFFICES ASSUME Inv, Held, NEW t \in Threads,
                      pc[t] # "idle", t \notin waiting
               PROVE  \E u \in Threads : CanMove(u)
    BY DEF NobodyStuck
  <2>1. CASE mutex # NoThread
    <3>1. mutex \in Threads /\ pc[mutex] \in MutexPCs BY <2>1 DEF Held
    <3> QED BY <3>1 DEF CanMove
  <2>2. CASE mutex = NoThread /\ writer # NoThread
    <3>1. writer \in Threads BY <2>2 DEF Held
    <3>2. CanMove(writer)
      BY <2>2, <3>1 DEF CanMove, Inv, Locks, MutexPCs
    <3> QED BY <3>1, <3>2
  <2>3. CASE mutex = NoThread /\ writer = NoThread /\ readers # {}
    <3>1. PICK u \in readers : TRUE BY <2>3
    <3>2. u \in Threads /\ CanMove(u) BY <3>1 DEF Held, CanMove
    <3> QED BY <3>2
  <2>4. CASE mutex = NoThread /\ writer = NoThread /\ readers = {}
    <3>1. CanMove(t)
      BY <2>4 DEF CanMove, CanRead, CanWrite, MutexPCs, Inv, Types, PCs
    <3> QED BY <3>1
  <2> QED BY <2>1, <2>2, <2>3, <2>4
<1> QED BY <1>1, HeldInvariant, PTL

-----------------------------------------------------------------------------
(* The messenger                                                           *)

USE DEF mvars

\* Type correctness.
THEOREM MessengerTypeCorrect == MessengerSpec => []MessengerTypeOK
<1> USE MessengerAssumption
    DEF MessengerTypeOK, Message, None, Ends, Peer, Enter
<1>1. MessengerInit => MessengerTypeOK
  <2> SUFFICES ASSUME MessengerInit PROVE MessengerTypeOK OBVIOUS
  <2>1. None \in Message \cup {None} OBVIOUS
  <2>2. phase \in [Ends -> {"idle", "sent", "poll"}] BY DEF MessengerInit
  <2>3. /\ pipe \in [Ends -> Message \cup {None}]
        /\ buffer \in [Ends -> Message \cup {None}]
        /\ taken \in [Ends -> Message \cup {None}]
    BY <2>1 DEF MessengerInit
  <2>4. late \in BOOLEAN BY Zenon DEF MessengerInit
  <2>5. /\ joined \in [Ends -> BOOLEAN]
        /\ update \in [Ends -> BOOLEAN]
        /\ last \in [Ends -> 0..MaxMessages]
    BY DEF MessengerInit
  <2> QED BY <2>2, <2>3, <2>4, <2>5
<1>2. MessengerTypeOK /\ [MessengerNext]_mvars => MessengerTypeOK'
  <2> SUFFICES ASSUME MessengerTypeOK, [MessengerNext]_mvars
               PROVE  MessengerTypeOK'
    OBVIOUS
  <2>1. CASE UNCHANGED mvars BY <2>1
  <2>2. ASSUME NEW e \in Ends, Send(e) PROVE MessengerTypeOK'
    <3>1. last'[e] = last[e] + 1 /\ last[e] + 1 \in 1..MaxMessages
      BY <2>2 DEF Send
    <3>2. [n |-> last[e] + 1, re |-> taken[e].n] \in Message BY <3>1
    <3>3. pipe' \in [Ends -> Message \cup {None}] BY <2>2, <3>2 DEF Send
    <3> QED BY <2>2, <3>1, <3>3 DEF Send
  <2>3. ASSUME NEW e \in Ends, Clear(e) PROVE MessengerTypeOK'
    BY <2>3 DEF Clear
  <2>4. ASSUME NEW e \in Ends, TakeUpdate(e) PROVE MessengerTypeOK'
    BY <2>4 DEF TakeUpdate
  <2>5. ASSUME NEW e \in Ends, Timeout(e) PROVE MessengerTypeOK'
    BY <2>5 DEF Timeout
  <2>6. ASSUME NEW e \in Ends, Join(e) PROVE MessengerTypeOK' BY <2>6 DEF Join
  <2>7. ASSUME NEW e \in Ends, Receive(e) PROVE MessengerTypeOK'
    BY <2>7 DEF Receive
  <2>8. CASE Finished BY <2>8 DEF Finished
  <2> QED
    BY <2>1, <2>2, <2>3, <2>4, <2>5, <2>6, <2>7, <2>8
       DEF MessengerNext, Recv, Work
<1> QED BY <1>1, <1>2, PTL DEF MessengerSpec

-----------------------------------------------------------------------------
\* Messages move from the socket to the buffer to the caller, and none
\* overtakes another: what is nearer to the caller was sent earlier.
InOrder ==
  \A e \in Ends : /\ taken[e].n <= buffer[e].n
                  /\ buffer[e].n <= last[Peer(e)]
                  /\ pipe[e] # None => /\ buffer[e].n < pipe[e].n
                                       /\ pipe[e].n <= last[Peer(e)]

LEMMA InOrderKept ==
  ASSUME MessengerTypeOK, InOrder, [MessengerNext]_mvars
  PROVE  InOrder'
<1> USE MessengerAssumption
    DEF InOrder, MessengerTypeOK, Message, None, Ends, Peer, Enter
<1>1. CASE UNCHANGED mvars BY <1>1
<1>2. ASSUME NEW e \in Ends, Send(e) PROVE InOrder'
  BY <1>2 DEF Send
<1>3. ASSUME NEW e \in Ends, Clear(e) PROVE InOrder' BY <1>3 DEF Clear
<1>4. ASSUME NEW e \in Ends, TakeUpdate(e) PROVE InOrder'
  BY <1>4 DEF TakeUpdate
<1>5. ASSUME NEW e \in Ends, Timeout(e) PROVE InOrder' BY <1>5 DEF Timeout
<1>6. ASSUME NEW e \in Ends, Join(e) PROVE InOrder' BY <1>6 DEF Join
<1>7. ASSUME NEW e \in Ends, Receive(e) PROVE InOrder' BY <1>7 DEF Receive
<1>8. CASE Finished BY <1>8 DEF Finished
<1> QED
  BY <1>1, <1>2, <1>3, <1>4, <1>5, <1>6, <1>7, <1>8
     DEF MessengerNext, Recv, Work

\* For any number of messages, losses and timeouts: what recv() returns is
\* never older than what it returned before (zmq_messenger.cpp:177-243).
THEOREM MessengerInOrder == MessengerSpec => NeverBackwards
<1>1. MessengerInit => InOrder BY DEF MessengerInit, InOrder, None, Ends, Peer
<1>2. MessengerTypeOK /\ InOrder /\ [MessengerNext]_mvars =>
        [\A e \in Ends : taken[e].n <= taken'[e].n]_mvars
  <2> SUFFICES ASSUME MessengerTypeOK, InOrder, MessengerNext, NEW f \in Ends
               PROVE  taken[f].n <= taken'[f].n
    OBVIOUS
  <2> taken[f].n \in Nat /\ buffer[f].n \in Nat
    BY MessengerAssumption DEF MessengerTypeOK, Message, None
  <2>1. \E e \in Ends : \/ taken' = [taken EXCEPT ![e] = buffer[e]]
                        \/ taken' = taken
    BY DEF MessengerNext, Recv, Work, Send, Clear, TakeUpdate, Timeout, Join,
           Receive, Finished, Ends
  <2> QED BY <2>1 DEF InOrder, MessengerTypeOK
<1> QED
  BY <1>1, <1>2, InOrderKept, MessengerTypeCorrect, PTL
     DEF MessengerSpec, NeverBackwards

-----------------------------------------------------------------------------
(* While nobody has given up, there is one token: either one process has    *)
(* the turn and has received everything, or one message is on its way, or   *)
(* none is, because it came before the flag was cleared or was lost.        *)

Pending(e) == pipe[e].n # 0 \/ (phase[e] = "poll" /\ update[e])

\* What process e knows, when p is the other one.
Turn(e, p) ==
  /\ phase[e] = "idle" => /\ phase[p] # "idle"
                       /\ taken[e].re = last[e]
                       /\ taken[e].n = last[p]
                       /\ ~Pending(e)
                       /\ ~Pending(p)
  /\ Pending(e) => phase[p] # "idle" /\ ~Pending(p)
  /\ pipe[e].n # 0 => pipe[e].re = last[e] /\ pipe[e].n = last[p]
  /\ phase[e] = "poll" /\ update[e] =>
       /\ pipe[e].n = 0
       /\ buffer[e].re = last[e]
       /\ buffer[e].n = last[p]

Turns == Turn("agent", "environment") /\ Turn("environment", "agent")

TakeTurns == ~late => Turns

\* A step of one of the two processes.
LEMMA TurnStep ==
  ASSUME MessengerTypeOK, ~late',
         NEW e, NEW p, Ends = {e, p}, e # p, Peer(e) = p,
         Turn(e, p), Turn(p, e),
         Send(e) \/ Recv(e) \/ Work(e)
  PROVE  Turn(e, p)' /\ Turn(p, e)'
<1> USE DEF Turn, Pending, MessengerTypeOK, Enter
<1> e \in Ends /\ p \in Ends OBVIOUS
<1>0. /\ None.n = 0
      /\ \A m \in Message \cup {None} :
           m.n \in Nat /\ m.re \in Nat /\ (m # None <=> m.n # 0)
  BY MessengerAssumption DEF Message, None
<1>1. CASE Send(e)
  <2> DEFINE m == [n |-> last[e] + 1, re |-> taken[e].n]
  <2>1. m.n = last[e] + 1 /\ m.re = taken[e].n /\ m.n # 0 OBVIOUS
  <2>2. /\ phase[e] = "idle" /\ phase' = [phase EXCEPT ![e] = "sent"]
        /\ last' = [last EXCEPT ![e] = last[e] + 1]
        /\ UNCHANGED <<buffer, update, taken>>
        /\ pipe' = pipe \/ pipe' = [pipe EXCEPT ![p] = m]
    BY <1>1 DEF Send
  <2> HIDE DEF m
  <2>3. /\ phase'[e] = "sent" /\ phase'[p] = phase[p]
        /\ last'[e] = last[e] + 1 /\ last'[p] = last[p]
    BY <2>2
  <2>4. /\ pipe'[e] = pipe[e]
        /\ pipe'[p] = pipe[p] \/ pipe'[p] = m
    BY <2>2
  <2>5. /\ phase[p] # "idle" /\ taken[e].n = last[p] /\ pipe[e].n = 0
        /\ pipe[p].n = 0 /\ ~(phase[p] = "poll" /\ update[p])
    <3>1. phase[e] = "idle" BY <2>2
    <3>2. phase[p] # "idle" BY <3>1, Zenon DEF Turn
    <3>3. taken[e].n = last[p] BY <3>1, Zenon DEF Turn
    <3>4. ~Pending(e) BY <3>1, Zenon DEF Turn
    <3>5. ~Pending(p) BY <3>1, Zenon DEF Turn
    <3>6. pipe[e].n = 0 BY <3>4, SMT DEF Pending
    <3>7. pipe[p].n = 0 BY <3>5, SMT DEF Pending
    <3>8. ~(phase[p] = "poll" /\ update[p]) BY <3>5, Zenon DEF Pending
    <3> QED BY <3>2, <3>3, <3>6, <3>7, <3>8
  <2>6. Turn(e, p)' BY <2>2, <2>3, <2>4, <2>5
  <2>7. Turn(p, e)' BY <2>1, <2>2, <2>3, <2>4, <2>5
  <2> QED BY <2>6, <2>7
<1>2. CASE Clear(e) BY <1>2 DEF Clear
<1>3. CASE TakeUpdate(e) BY <1>3 DEF TakeUpdate
<1>4. CASE Timeout(e) BY <1>4 DEF Timeout
<1>5. CASE Join(e) BY <1>5 DEF Join
<1>6. CASE Receive(e)
  <2>1. /\ pipe[e].n # 0
        /\ buffer' = [buffer EXCEPT ![e] = pipe[e]]
        /\ update' = [update EXCEPT ![e] = TRUE]
        /\ UNCHANGED <<phase, taken, last>>
        /\ pipe' = [pipe EXCEPT ![e] = None]
    BY <1>0, <1>6 DEF Receive
  <2>2. /\ pipe'[e].n = 0 /\ buffer'[e] = pipe[e] /\ update'[e]
        /\ pipe'[p] = pipe[p] /\ buffer'[p] = buffer[p]
        /\ update'[p] = update[p]
    BY <1>0, <2>1
  <2>3. /\ phase[p] # "idle" /\ phase[e] # "idle" /\ ~Pending(p)
        /\ pipe[e].re = last[e] /\ pipe[e].n = last[p]
    <3>1. Pending(e) BY <2>1, SMT DEF Pending
    <3>2. phase[p] # "idle" /\ phase[e] # "idle" /\ ~Pending(p)
      BY <3>1, Zenon DEF Turn
    <3>3. pipe[e].re = last[e] /\ pipe[e].n = last[p]
      BY <2>1, SMT DEF Turn
    <3> QED BY <3>2, <3>3
  <2>4. Turn(e, p)' BY <2>1, <2>2, <2>3
  <2>5. Turn(p, e)' BY <2>1, <2>2, <2>3
  <2> QED BY <2>4, <2>5
<1> QED BY <1>1, <1>2, <1>3, <1>4, <1>5, <1>6 DEF Recv, Work

LEMMA TakeTurnsKept ==
  ASSUME MessengerTypeOK, TakeTurns, [MessengerNext]_mvars, ~late'
  PROVE  Turns'
<1> USE DEF Turns
<1>1. CASE UNCHANGED mvars
  BY <1>1 DEF TakeTurns, Turn, Pending
<1>2. ASSUME NEW e \in Ends, Send(e) \/ Recv(e) \/ Work(e) PROVE Turns'
  <2>1. ~late
    BY <1>2 DEF Send, Recv, Work, Clear, TakeUpdate, Timeout, Join, Receive
  <2>2. Turns BY <2>1 DEF TakeTurns
  <2>3. CASE e = "agent"
    BY <1>2, <2>2, <2>3, TurnStep DEF Ends, Peer
  <2>4. CASE e = "environment"
    BY <1>2, <2>2, <2>4, TurnStep DEF Ends, Peer
  <2> QED BY <2>3, <2>4 DEF Ends
<1>3. CASE Finished BY <1>3, <1>1 DEF Finished
<1> QED BY <1>1, <1>2, <1>3 DEF MessengerNext

\* As long as nobody has given up waiting, every recv() that has returned has
\* returned the answer to the last message, for any number of messages.
THEOREM MessengerTakesTurns == MessengerSpec => []LockStep
<1>1. MessengerInit => TakeTurns
  BY DEF MessengerInit, TakeTurns, Turns, Turn, Pending, None, Ends
<1>2. MessengerTypeOK /\ TakeTurns /\ [MessengerNext]_mvars => TakeTurns'
  BY TakeTurnsKept DEF TakeTurns
<1>3. TakeTurns => LockStep BY DEF TakeTurns, Turns, Turn, LockStep, Ends
<1> QED BY <1>1, <1>2, <1>3, MessengerTypeCorrect, PTL DEF MessengerSpec
=============================================================================
