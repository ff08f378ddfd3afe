------------------------------ MODULE Mailbox ------------------------------
(***************************************************************************)
(* What itc::SharedVariable promises (itc.h:118-153, 337-346): values are  *)
(* exchanged atomically, read() returns only when there is something this  *)
(* thread has not been given yet, and not every value need be read.        *)
(***************************************************************************)
EXTENDS Integers

CONSTANTS Threads, Values

VARIABLES
  value,    \* the current value
  version,  \* how many times arrival of data was announced
  want,     \* the threads that are inside read()
  last,     \* the version each thread was given last
  got       \* the value each thread was given last

vars == <<value, version, want, last, got>>

Init ==
  /\ value \in Values
  /\ version = 0
  /\ want = {}
  /\ last = [t \in Threads |-> 0]
  /\ got = [t \in Threads |-> value]

\* write(): a new value, announced.
Write(v) ==
  /\ value' = v
  /\ version' = version + 1
  /\ UNCHANGED <<want, last, got>>

\* set(): a new value, not announced.
Set(v) ==
  /\ value' = v
  /\ UNCHANGED <<version, want, last, got>>

\* signal(): an announcement without a new value.
Signal ==
  /\ version' = version + 1
  /\ UNCHANGED <<value, want, last, got>>

Get(t) ==
  /\ got' = [got EXCEPT ![t] = value]
  /\ UNCHANGED <<value, version, want, last>>

CallRead(t) ==
  /\ t \notin want
  /\ want' = want \cup {t}
  /\ UNCHANGED <<value, version, last, got>>

\* read() returns the current value, once per version and thread.
Read(t) ==
  /\ t \in want
  /\ version > last[t]
  /\ want' = want \ {t}
  /\ last' = [last EXCEPT ![t] = version]
  /\ got' = [got EXCEPT ![t] = value]
  /\ UNCHANGED <<value, version>>

Next ==
  \/ Signal
  \/ \E v \in Values : Write(v) \/ Set(v)
  \/ \E t \in Threads : Get(t) \/ CallRead(t) \/ Read(t)

Spec == Init /\ [][Next]_vars

\* A thread in read() is not left waiting once there is something new.
FairSpec == Spec /\ \A t \in Threads : WF_vars(Read(t))
=============================================================================
