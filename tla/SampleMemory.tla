---------------------------- MODULE SampleMemory ----------------------------
(***************************************************************************)
(* The memory of local linear regression: samples, the stores that share   *)
(* them (projections/sample.h), the projector that indexes the current     *)
(* store (addons/llr/src/ann.cpp) and the threads that project, read and   *)
(* learn (addons/llr/src/llr.cpp).  Stores are held by shared pointers;    *)
(* samples are counted by hand, and a store is pruned under a read lock.   *)
(*                                                                         *)
(* A sample is a number, in the order of the pushes; which samples are     *)
(* near a query, identical to it or of little relevance is left open.      *)
(***************************************************************************)
EXTENDS Integers, FiniteSets

CONSTANTS
  Learners,     \* threads that write and finalize
  Readers,      \* threads that only read
  Stores,       \* the places of a store in the heap
  NoStore,      \* a null pointer
  MaxSamples,   \* max_samples_
  Neighbors,    \* neighbors_
  Interval,     \* interval_
  Batch,        \* samples that a learner writes before it finalizes
  Incremental,  \* incremental_
  Reserved,     \* the samples a new, empty store has room for
  MaxPushes     \* bound: samples ever pushed

ASSUME MemoryAssumption ==
  /\ Learners \cap Readers = {}
  /\ IsFiniteSet(Stores)
  /\ NoStore \notin Stores
  /\ MaxSamples \in Nat \ {0}
  /\ Neighbors \in Nat
  /\ Interval \in Nat
  /\ Batch \in Nat \ {0}
  /\ Incremental \in BOOLEAN
  /\ Reserved \in Nat
  /\ MaxPushes \in Nat

VARIABLES
  store,     \* store_
  index,     \* the samples that index_ was built from; indexed_samples_
  live,      \* the stores that exist
  content,   \* samples_ of each store
  room,      \* the samples a store takes before its vector moves
  use,       \* use_count of each sample
  freed,     \* the samples that were deleted
  pushed,    \* samples pushed so far
  pc,        \* where each thread is
  held,      \* the store that the projection of a thread points to
  near,      \* its neighbours
  pruned,    \* reindex(): newstore
  todo,      \* prune(): samples whose use count is still to be increased
  reg,       \* prune(): register of an unfinished use_count++
  written    \* samples that each thread has written and not finalized

heap == <<live, content, room, use, freed>>
tvars == <<held, near, pruned, todo, reg>>
vars == <<store, index, heap, pushed, pc, tvars, written>>

Threads == Learners \cup Readers
Samples == 1..MaxPushes

TypeOK ==
  /\ store \in Stores
  /\ index \subseteq Samples
  /\ live \subseteq Stores
  /\ content \in [Stores -> SUBSET Samples]
  /\ room \in [Stores -> Nat]
  /\ use \in [Samples -> Int]
  /\ freed \subseteq Samples
  /\ pushed \in 0..MaxPushes
  /\ pc \in [Threads -> {"idle", "have", "wrote", "prune", "count", "add",
                         "swap", "drop"}]
  /\ held \in [Threads -> Stores \cup {NoStore}]
  /\ near \in [Threads -> SUBSET Samples]
  /\ pruned \in [Threads -> Stores \cup {NoStore}]
  /\ todo \in [Threads -> SUBSET Samples]
  /\ reg \in [Threads -> Int]
  /\ written \in [Threads -> 0..Batch]

Init ==
  /\ store \in Stores
  /\ index = {}
  /\ live = {store}
  /\ content = [d \in Stores |-> {}]
  /\ room = [d \in Stores |-> Reserved]
  /\ use = [s \in Samples |-> 0]
  /\ freed = {}
  /\ pushed = 0
  /\ pc = [t \in Threads |-> "idle"]
  /\ held = [t \in Threads |-> NoStore]
  /\ near = [t \in Threads |-> {}]
  /\ pruned = [t \in Threads |-> NoStore]
  /\ todo = [t \in Threads |-> {}]
  /\ reg = [t \in Threads |-> 0]
  /\ written = [t \in Threads |-> 0]

Goto(t, from, to) == pc[t] = from /\ pc' = [pc EXCEPT ![t] = to]

\* A store d has a shared pointer besides those of thread t.
HeldByOthers(d, t) == \E u \in Threads \ {t} : d \in {held[u], pruned[u]}

\* The threads that hold the read lock of prune(); a writer waits for them.
\* Every other use of the two locks is one step.
Pruning == {t \in Threads : pc[t] \in {"count", "add"}}

-----------------------------------------------------------------------------
(* Plausible bugs, to test that the properties can tell.                   *)

\* ~SampleStore deletes its samples without asking who else uses them.
DisownAll(d) ==
  /\ use' = [s \in Samples |-> IF s \in content[d] THEN use[s] - 1
                                                   ELSE use[s]]
  /\ freed' = freed \cup content[d]

\* The memory is only indexed again when it has doubled.
NeedsReindexSeldom ==
  Cardinality(content[store]) >= 2 * Cardinality(index)

\* prune() increases the use counts of the samples it drops as well.
PruneCopyCountsAll(t) ==
  /\ Goto(t, "prune", "count")
  /\ \E d \in Stores \ live, kept \in SUBSET content[store] :
       /\ IF Cardinality(content[store]) <= MaxSamples
            THEN kept = content[store]
            ELSE Cardinality(kept) = MaxSamples
       /\ live' = live \cup {d}
       /\ content' = [content EXCEPT ![d] = kept]
       /\ room' = [room EXCEPT ![d] = 2 * MaxSamples]
       /\ pruned' = [pruned EXCEPT ![t] = d]
       /\ todo' = [todo EXCEPT ![t] = content[store]]
  /\ UNCHANGED <<store, index, use, freed, pushed, held, near, reg, written>>

-----------------------------------------------------------------------------
(* The end of a store.                                                     *)

\* ~SampleStore deletes the samples that no other store uses.
Disown(d) ==
  /\ use' = [s \in Samples |-> IF s \in content[d] THEN use[s] - 1
                                                   ELSE use[s]]
  /\ freed' = freed \cup {s \in content[d] : use[s] = 1}

\* A shared pointer to d goes away and may leave another one; the stores in
\* created come into being.
Release(d, shared, created) ==
  IF shared
    THEN /\ live' = live \cup created
         /\ UNCHANGED <<use, freed>>
    ELSE /\ Pruning = {}
         /\ live' = (live \ {d}) \cup created
         /\ Disown(d)

-----------------------------------------------------------------------------
(* Projecting, which every thread does.                                    *)

\* project(): the nearest samples of the index and, if it is incremental, of
\* those that were pushed after it was built; nothing without an index.
Candidates == IF index = {} THEN {}
              ELSE IF Incremental THEN content[store] ELSE index

Project(t) ==
  /\ Goto(t, "idle", "have")
  /\ held' = [held EXCEPT ![t] = store]
  /\ \E s \in SUBSET Candidates :
       /\ Cardinality(s) = IF Cardinality(Candidates) < Neighbors
                             THEN Cardinality(Candidates) ELSE Neighbors
       /\ near' = [near EXCEPT ![t] = s]
  /\ UNCHANGED <<store, index, heap, pushed, pruned, todo, reg, written>>

\* A reader is done with its projection; so is a learner that only reads.
Used(t) ==
  /\ Goto(t, "have", "drop")
  /\ UNCHANGED <<store, index, heap, pushed, tvars, written>>

\* The projection is deleted.
Drop(t) ==
  /\ Goto(t, "drop", "idle")
  /\ Release(held[t], store = held[t] \/ HeldByOthers(held[t], t), {})
  /\ held' = [held EXCEPT ![t] = NoStore]
  /\ near' = [near EXCEPT ![t] = {}]
  /\ UNCHANGED <<store, index, content, room, pushed, pruned, todo, reg,
                 written>>

-----------------------------------------------------------------------------
(* Learning.                                                               *)

Wrote(t) ==
  /\ Goto(t, "have", "wrote")
  /\ written[t] < Batch
  /\ written' = [written EXCEPT ![t] = @ + 1]

\* write() pushes a sample on the store that is current now.
Push(t) ==
  /\ Wrote(t)
  /\ pushed < MaxPushes
  /\ Pruning = {}
  /\ pushed' = pushed + 1
  /\ use' = [use EXCEPT ![pushed + 1] = 1]
  /\ content' = [content EXCEPT ![store] = @ \cup {pushed + 1}]
  /\ UNCHANGED <<store, index, live, room, freed, tvars>>

\* write(): "Don't add identical samples".
FindIdentical(t) ==
  /\ near[t] # {}
  /\ Wrote(t)
  /\ UNCHANGED <<store, index, heap, pushed, tvars>>

\* finalize(): the memory has grown by interval_ samples, or has doubled.
NeedsReindex ==
  \/ Cardinality(content[store]) >= Cardinality(index) + Interval
  \/ Cardinality(content[store]) >= 2 * Cardinality(index)

\* finalize() after a write, or after a batch of writes whose projections are
\* gone.
Finalize(t) ==
  /\ written[t] > 0
  /\ LET back == IF pc[t] = "wrote" THEN "drop" ELSE "idle"
     IN  Goto(t, pc[t], IF NeedsReindex THEN "prune" ELSE back)
  /\ pc[t] \in {"wrote", "idle"}
  /\ written' = [written EXCEPT ![t] = 0]
  /\ UNCHANGED <<store, index, heap, pushed, tvars>>

\* Another write of the batch follows: this projection is done with.
Continue(t) ==
  /\ Goto(t, "wrote", "drop")
  /\ UNCHANGED <<store, index, heap, pushed, tvars, written>>

\* prune() of the current store: a shallow copy of all samples, or of the
\* max_samples_ most relevant ones.
PruneCopy(t) ==
  /\ Goto(t, "prune", "count")
  /\ \E d \in Stores \ live, kept \in SUBSET content[store] :
       /\ IF Cardinality(content[store]) <= MaxSamples
            THEN kept = content[store]
            ELSE Cardinality(kept) = MaxSamples
       /\ live' = live \cup {d}
       /\ content' = [content EXCEPT ![d] = kept]
       /\ room' = [room EXCEPT ![d] = 2 * MaxSamples]
       /\ pruned' = [pruned EXCEPT ![t] = d]
       /\ todo' = [todo EXCEPT ![t] = kept]
  /\ UNCHANGED <<store, index, use, freed, pushed, held, near, reg, written>>

\* use_count++ of the first sample in todo: a load and a store.
Next1(t) == CHOOSE s \in todo[t] : \A u \in todo[t] : s <= u

LoadUse(t) ==
  /\ todo[t] # {}
  /\ Goto(t, "count", "add")
  /\ reg' = [reg EXCEPT ![t] = use[Next1(t)]]
  /\ UNCHANGED <<store, index, heap, pushed, held, near, pruned, todo,
                 written>>

StoreUse(t) ==
  /\ Goto(t, "add", "count")
  /\ use' = [use EXCEPT ![Next1(t)] = reg[t] + 1]
  /\ todo' = [todo EXCEPT ![t] = @ \ {Next1(t)}]
  /\ UNCHANGED <<store, index, live, content, room, freed, pushed, held,
                 near, pruned, reg, written>>

\* The lock of prune() is given back, and the index is built.
Indexed(t) ==
  /\ todo[t] = {}
  /\ Goto(t, "count", "swap")
  /\ UNCHANGED <<store, index, heap, pushed, tvars, written>>

\* The new store and index become current, and newstore goes out of scope.
Swap(t) ==
  /\ Goto(t, "swap", IF held[t] = NoStore THEN "idle" ELSE "drop")
  /\ store' = pruned[t]
  /\ index' = content[pruned[t]]
  /\ Release(store, held[t] = store \/ HeldByOthers(store, t), {})
  /\ pruned' = [pruned EXCEPT ![t] = NoStore]
  /\ UNCHANGED <<content, room, pushed, held, near, todo, reg, written>>

-----------------------------------------------------------------------------
\* reconfigure(action = reset), when no learner is at work: see CleanReset of
\* ReplayAgent.
Reset ==
  /\ \A t \in Learners : pc[t] = "idle" /\ written[t] = 0
  /\ \E d \in Stores \ live :
       /\ store' = d
       /\ content' = [content EXCEPT ![d] = {}]
       /\ room' = [room EXCEPT ![d] = Reserved]
       /\ index' = {}
       /\ Release(store, \E u \in Threads : held[u] = store, {d})
  /\ UNCHANGED <<pushed, pc, tvars, written>>

Learn(t) ==
  \/ Push(t)
  \/ FindIdentical(t)
  \/ Finalize(t)
  \/ Continue(t)
  \/ PruneCopy(t)
  \/ LoadUse(t)
  \/ StoreUse(t)
  \/ Indexed(t)
  \/ Swap(t)

Next ==
  \/ \E t \in Threads : Project(t) \/ Used(t) \/ Drop(t)
  \/ \E t \in Learners : Learn(t)
  \/ Reset

Spec == Init /\ [][Next]_vars

-----------------------------------------------------------------------------
(* Properties                                                              *)

\* "the database only deletes the samples which belong to it" and "will
\* remain valid throughout their lifetimes" (sample.h:70-76): no store that
\* exists and no projection that is in use points to a deleted sample, and
\* the store of a projection exists.
NoDangling ==
  /\ \A d \in live : content[d] \cap freed = {}
  /\ \A t \in Threads : /\ near[t] \cap freed = {}
                        /\ held[t] \in live \cup {NoStore}

\* While nobody prunes, the use count of a sample is the number of stores it
\* is in, and a sample in no store is deleted: nothing leaks, nothing is
\* deleted twice.
Owners(s) == {d \in live : s \in content[d]}
CountsRight ==
  Pruning = {} =>
    \A s \in 1..pushed : /\ use[s] = Cardinality(Owners(s))
                         /\ use[s] = 0 <=> s \in freed

\* The index refers to the samples by their places in the vector of the
\* current store (ann.cpp:112): it does not grow past what was reserved for
\* it, so the vector has not moved.  That needs an interval and a batch that
\* are together at most MaxSamples + 1.
IndexUsable ==
  index # {} => Cardinality(content[store]) <= room[store]
=============================================================================
