------------------------ MODULE SampleMemory_proofs -------------------------
(***************************************************************************)
(* What is proved of the memory of local linear regression for any number  *)
(* of threads, stores and samples, as long as one thread learns: with two, *)
(* both can prune, and lose a count (sample.h:133).                        *)
(***************************************************************************)
EXTENDS SampleMemory, FiniteSetTheorems, WellFoundedInduction, TLAPS

USE DEF heap, tvars, vars

\* One thread learns; any number of others read.  This is how the agents use a
\* representation, but for an experience replay agent with several threads.
OneLearner == \A t, u \in Learners : t = u

\* The samples that the projection of a thread may point to (sample.h:224).
Below(t) == IF held[t] = NoStore THEN {} ELSE content[held[t]]

\* Who keeps a store alive: the current store exists, and so does every store
\* that a projection or an unfinished prune() points to.  A store that is being
\* made is not known to anybody else.  A projection points into its own store,
\* the index into the current one.
Pins ==
  /\ store \in live
  /\ \A t \in Threads : {held[t], pruned[t]} \subseteq live \cup {NoStore}
  /\ \A t \in Threads :
       /\ pc[t] \in {"have", "wrote", "drop"} => held[t] # NoStore
       /\ pc[t] = "idle" => held[t] = NoStore
       /\ pruned[t] # NoStore <=> pc[t] \in {"count", "add", "swap"}
  /\ \A t, u \in Threads :
       pruned[t] # NoStore => pruned[t] \notin {store, held[u]}
  /\ \A t \in Threads \ Learners : pc[t] \in {"idle", "have", "drop"}
  /\ \A t \in Threads : near[t] \subseteq Below(t)
  /\ index \subseteq content[store]
  /\ \A d \in live : content[d] \subseteq 1..pushed

\* A non-empty set of naturals has a least element.
LEMMA Least ==
  ASSUME NEW T, T \subseteq Nat, T # {}
  PROVE  \E x \in T : \A y \in T : x <= y
<1>1. PICK x \in T : \A y \in T : ~ (<<y, x>> \in OpToRel(<, Nat))
  BY WFMin, NatLessThanWellFounded, Zenon
<1>2. \A y \in T : ~ (y < x) BY <1>1 DEF OpToRel
<1> QED BY <1>2

\* The next sample to be counted is one that has not been counted.
LEMMA NextOne ==
  ASSUME TypeOK, NEW t \in Threads, todo[t] # {}
  PROVE  Next1(t) \in todo[t] /\ Next1(t) \in Samples
<1>1. todo[t] \subseteq Samples BY DEF TypeOK
<1>2. todo[t] \subseteq Nat BY <1>1, MemoryAssumption DEF Samples
<1>3. \E s \in todo[t] : \A u \in todo[t] : s <= u BY <1>2, Least
<1> QED BY <1>1, <1>3 DEF Next1

\* The actions, one by one.
LEMMA Cases ==
  ASSUME [Next]_vars
  PROVE  \/ \E t \in Threads : Project(t) \/ Used(t) \/ Drop(t)
         \/ \E t \in Learners :
              \/ Push(t) \/ FindIdentical(t) \/ Finalize(t) \/ Continue(t)
              \/ PruneCopy(t) \/ LoadUse(t) \/ StoreUse(t) \/ Indexed(t)
              \/ Swap(t)
         \/ Reset
         \/ UNCHANGED vars
BY Zenon DEF Next, Learn

\* No action takes a variable out of its type.
LEMMA TypeKept ==
  ASSUME TypeOK, Pins, [Next]_vars
  PROVE  TypeOK'
<1> USE MemoryAssumption DEF TypeOK, Goto, Release, Disown
<1>0. Learners \subseteq Threads BY DEF Threads
<1>1. ASSUME NEW t \in Threads, Project(t) PROVE TypeOK'
  <2>1. Candidates \subseteq Samples BY DEF Candidates
  <2> QED BY <1>1, <2>1 DEF Project
<1>2. ASSUME NEW t \in Threads, Used(t) PROVE TypeOK'
  BY <1>2 DEF Used
<1>3. ASSUME NEW t \in Threads, Drop(t) PROVE TypeOK'
  <2>1. /\ live' \subseteq Stores /\ use' \in [Samples -> Int]
        /\ freed' \subseteq Samples
    <3>1. held[t] \in Stores BY <1>3 DEF Drop, Pins
    <3> QED BY <1>3, <3>1 DEF Drop
  <2> QED BY <1>3, <2>1 DEF Drop
<1>4. ASSUME NEW t \in Learners, Push(t) PROVE TypeOK'
  <2>1. pushed + 1 \in Samples /\ pushed + 1 \in 0..MaxPushes
    BY <1>4 DEF Push, Samples
  <2> QED BY <1>0, <1>4, <2>1 DEF Push, Wrote
<1>5. ASSUME NEW t \in Learners, FindIdentical(t) PROVE TypeOK'
  BY <1>0, <1>5 DEF FindIdentical, Wrote
<1>6. ASSUME NEW t \in Learners, Finalize(t) PROVE TypeOK'
  <2>1. pc' \in [Threads -> {"idle", "have", "wrote", "prune", "count",
                             "add", "swap", "drop"}]
    BY <1>0, <1>6 DEF Finalize
  <2>2. written' = [written EXCEPT ![t] = 0] BY <1>6 DEF Finalize
  <2>3. written' \in [Threads -> 0..Batch]
    <3>1. 0 \in 0..Batch /\ written \in [Threads -> 0..Batch] OBVIOUS
    <3>2. \A u \in Threads : written'[u] \in 0..Batch BY <2>2, <3>1
    <3> QED BY <2>2, <3>1, <3>2
  <2> QED BY <1>6, <2>1, <2>3 DEF Finalize
<1>7. ASSUME NEW t \in Learners, Continue(t) PROVE TypeOK'
  BY <1>7 DEF Continue
<1>8. ASSUME NEW t \in Learners, PruneCopy(t) PROVE TypeOK'
  <2>1. PICK d \in Stores \ live, kept \in SUBSET content[store] :
          /\ live' = live \cup {d}
          /\ content' = [content EXCEPT ![d] = kept]
          /\ room' = [room EXCEPT ![d] = 2 * MaxSamples]
          /\ pruned' = [pruned EXCEPT ![t] = d]
          /\ todo' = [todo EXCEPT ![t] = kept]
    BY <1>8 DEF PruneCopy
  <2>2. kept \subseteq Samples /\ 2 * MaxSamples \in Nat OBVIOUS
  <2> QED BY <1>8, <2>1, <2>2 DEF PruneCopy
<1>9. ASSUME NEW t \in Learners, LoadUse(t) PROVE TypeOK'
  <2>1. use[Next1(t)] \in Int BY <1>0, <1>9, NextOne DEF LoadUse
  <2> QED BY <1>9, <2>1 DEF LoadUse
<1>10. ASSUME NEW t \in Learners, StoreUse(t) PROVE TypeOK'
  <2>1. reg[t] + 1 \in Int BY <1>0
  <2> QED BY <1>0, <1>10, <2>1 DEF StoreUse
<1>11. ASSUME NEW t \in Learners, Indexed(t) PROVE TypeOK'
  BY <1>11 DEF Indexed
<1>12. ASSUME NEW t \in Learners, Swap(t) PROVE TypeOK'
  <2>1. pruned[t] \in Stores BY <1>0, <1>12 DEF Swap, Pins
  <2>2. /\ live' \subseteq Stores /\ use' \in [Samples -> Int]
        /\ freed' \subseteq Samples
    BY <1>12 DEF Swap
  <2>3. store' \in Stores /\ index' \subseteq Samples
    BY <1>12, <2>1 DEF Swap
  <2> QED BY <1>12, <2>2, <2>3 DEF Swap
<1>13. CASE Reset
  <2>1. /\ live' \subseteq Stores /\ use' \in [Samples -> Int]
        /\ freed' \subseteq Samples
    BY <1>13 DEF Reset
  <2> QED BY <1>13, <2>1 DEF Reset
<1>14. CASE UNCHANGED vars BY <1>14
<1> QED
  BY Cases, <1>1, <1>2, <1>3, <1>4, <1>5, <1>6, <1>7, <1>8, <1>9, <1>10,
     <1>11, <1>12, <1>13, <1>14

-----------------------------------------------------------------------------
(* Counting.  While prune() is at work, a sample that it has copied and not *)
(* counted yet has one owner more than its use count says.                 *)

Uncounted(s) == IF \E t \in Threads : s \in todo[t] THEN 1 ELSE 0

\* What a thread still has to count, and the register of an unfinished
\* use_count++, which nobody else may have changed since.
Flow ==
  /\ \A t \in Threads : pc[t] \notin {"count", "add"} => todo[t] = {}
  /\ \A t \in Threads : todo[t] \subseteq 1..pushed
  /\ \A t \in Threads :
       pc[t] = "add" => todo[t] # {} /\ reg[t] = use[Next1(t)]

\* Use counts, owners and deleted samples, at every moment of a prune().
CountsAre ==
  /\ \A s \in 1..pushed : use[s] = Cardinality(Owners(s)) - Uncounted(s)
  /\ \A s \in 1..pushed : s \in freed <=> Owners(s) = {}
  /\ freed \subseteq 1..pushed

Counting == Flow /\ CountsAre

\* No action takes away a store that is pinned.
LEMMA PinsKept ==
  ASSUME OneLearner, TypeOK, Pins, [Next]_vars
  PROVE  Pins'
<1> USE MemoryAssumption DEF TypeOK, Goto, Release
<1>0. Learners \subseteq Threads BY DEF Threads
<1>1. ASSUME NEW t \in Threads, Project(t) PROVE Pins'
  <2>1. PICK s \in SUBSET Candidates : near' = [near EXCEPT ![t] = s]
    BY <1>1 DEF Project
  <2>2. s \subseteq content[store] BY <2>1 DEF Candidates, Pins
  <2>3. /\ held' = [held EXCEPT ![t] = store] /\ content' = content
        /\ store \in Stores /\ store # NoStore
    BY <1>1 DEF Project
  <2>4. \A u \in Threads : near'[u] \subseteq Below(u)'
    BY <2>1, <2>2, <2>3 DEF Below, Pins
  <2>5. \A u \in Threads : pruned'[u] # NoStore => pruned'[u] # store'
    BY <1>1 DEF Project, Pins
  <2> QED BY <1>1, <2>3, <2>4, <2>5 DEF Project, Pins
<1>2. ASSUME NEW t \in Threads, Used(t) PROVE Pins'
  BY <1>2 DEF Used, Pins, Below
<1>3. ASSUME NEW t \in Threads, Drop(t) PROVE Pins'
  <2>1. /\ pc[t] = "drop" /\ pc' = [pc EXCEPT ![t] = "idle"]
        /\ held' = [held EXCEPT ![t] = NoStore]
        /\ near' = [near EXCEPT ![t] = {}]
        /\ UNCHANGED <<store, index, content, room, pushed, pruned>>
    BY <1>3 DEF Drop
  <2>2. /\ live' \subseteq live
        /\ \A d \in live : \/ d \in live'
                           \/ /\ d # store
                              /\ \A u \in Threads \ {t} :
                                   d \notin {held[u], pruned[u]}
    BY <1>3 DEF Drop, HeldByOthers
  <2>3. pruned[t] = NoStore BY <2>1 DEF Pins
  <2>4. \A u \in Threads :
          {held'[u], pruned'[u]} \subseteq live' \cup {NoStore}
    BY <2>1, <2>2, <2>3 DEF Pins
  <2>5. \A u \in Threads : near'[u] \subseteq Below(u)'
    BY <2>1 DEF Below, Pins
  <2>6. store' \in live' BY <2>1, <2>2 DEF Pins
  <2>7. \A u, v \in Threads :
          pruned'[u] # NoStore => pruned'[u] \notin {store', held'[v]}
    BY <2>1 DEF Pins
  <2> QED BY <2>1, <2>2, <2>4, <2>5, <2>6, <2>7 DEF Pins
<1>4. ASSUME NEW t \in Learners, Push(t) PROVE Pins'
  <2>1. /\ pc[t] = "have" /\ pc' = [pc EXCEPT ![t] = "wrote"]
        /\ pushed' = pushed + 1
        /\ content' = [content EXCEPT ![store] = @ \cup {pushed + 1}]
        /\ UNCHANGED <<store, index, live, held, near, pruned>>
    BY <1>4 DEF Push, Wrote
  <2>2. \A d \in Stores : content[d] \subseteq content'[d] BY <2>1
  <2>3. \A u \in Threads : near'[u] \subseteq Below(u)'
    BY <2>1, <2>2 DEF Below, Pins
  <2>4. index' \subseteq content'[store'] BY <2>1, <2>2 DEF Pins
  <2>5. \A d \in live' : content'[d] \subseteq 1..pushed'
    <3>1. 1..pushed \cup {pushed + 1} \subseteq 1..(pushed + 1) OBVIOUS
    <3>2. \A d \in live : content[d] \subseteq 1..pushed BY DEF Pins
    <3>3. \A d \in live : content'[d] \subseteq content[d] \cup {pushed + 1}
      BY <2>1
    <3> QED BY <2>1, <3>1, <3>2, <3>3
  <2> QED BY <1>0, <2>1, <2>3, <2>4, <2>5 DEF Pins
<1>5. ASSUME NEW t \in Learners, FindIdentical(t) PROVE Pins'
  BY <1>0, <1>5 DEF FindIdentical, Wrote, Pins, Below
<1>6. ASSUME NEW t \in Learners, Finalize(t) PROVE Pins'
  BY <1>0, <1>6 DEF Finalize, Pins, Below
<1>7. ASSUME NEW t \in Learners, Continue(t) PROVE Pins'
  BY <1>0, <1>7 DEF Continue, Pins, Below
<1>8. ASSUME NEW t \in Learners, PruneCopy(t) PROVE Pins'
  <2>1. PICK d \in Stores \ live, kept \in SUBSET content[store] :
          /\ live' = live \cup {d}
          /\ content' = [content EXCEPT ![d] = kept]
          /\ pruned' = [pruned EXCEPT ![t] = d]
    BY <1>8 DEF PruneCopy
  <2>2. /\ pc[t] = "prune" /\ pc' = [pc EXCEPT ![t] = "count"]
        /\ UNCHANGED <<store, index, pushed, held, near>>
    BY <1>8 DEF PruneCopy
  <2>3. \A e \in live : content'[e] = content[e] BY <2>1
  <2>4. \A u \in Threads : near'[u] \subseteq Below(u)'
    BY <2>2, <2>3 DEF Below, Pins
  <2>5. kept \subseteq 1..pushed BY DEF Pins
  <2>6. \A e \in live' : content'[e] \subseteq 1..pushed'
    <3>1. \A e \in live : content[e] \subseteq 1..pushed BY DEF Pins
    <3>2. content'[d] = kept BY <2>1
    <3> QED BY <2>1, <2>2, <2>3, <2>5, <3>1, <3>2
  <2>7. index' \subseteq content'[store'] BY <2>2, <2>3 DEF Pins
  <2>8. d # NoStore /\ d # store /\ \A u \in Threads : d # held[u]
    BY DEF Pins
  <2> QED BY <1>0, <2>1, <2>2, <2>4, <2>6, <2>7, <2>8 DEF Pins
<1>9. ASSUME NEW t \in Learners, LoadUse(t) PROVE Pins'
  BY <1>0, <1>9 DEF LoadUse, Pins, Below
<1>10. ASSUME NEW t \in Learners, StoreUse(t) PROVE Pins'
  BY <1>0, <1>10 DEF StoreUse, Pins, Below
<1>11. ASSUME NEW t \in Learners, Indexed(t) PROVE Pins'
  BY <1>0, <1>11 DEF Indexed, Pins, Below
<1>12. ASSUME NEW t \in Learners, Swap(t) PROVE Pins'
  <2>1. /\ pc[t] = "swap"
        /\ pc' = [pc EXCEPT ![t] =
                    IF held[t] = NoStore THEN "idle" ELSE "drop"]
        /\ store' = pruned[t] /\ index' = content[pruned[t]]
        /\ pruned' = [pruned EXCEPT ![t] = NoStore]
        /\ UNCHANGED <<content, pushed, held, near>>
    BY <1>12 DEF Swap
  <2>2. /\ live' \subseteq live
        /\ \A d \in live : \/ d \in live'
                           \/ /\ d = store
                              /\ d # held[t]
                              /\ \A u \in Threads \ {t} :
                                   d \notin {held[u], pruned[u]}
    BY <1>12 DEF Swap, HeldByOthers
  <2>3. pruned[t] \in live /\ pruned[t] # store /\ pruned[t] # NoStore
    BY <1>0, <2>1 DEF Pins
  <2>4. \A u \in Threads :
          {held'[u], pruned'[u]} \subseteq live' \cup {NoStore}
    BY <2>1, <2>2 DEF Pins
  <2>5. \A u \in Threads : near'[u] \subseteq Below(u)'
    BY <2>1 DEF Below, Pins
  <2>6. store' \in live' BY <2>1, <2>2, <2>3
  <2>7. ASSUME NEW u \in Threads, NEW v \in Threads, pruned'[u] # NoStore
        PROVE  pruned'[u] \notin {store', held'[v]}
    <3>1. u # t /\ pruned'[u] = pruned[u] BY <1>0, <2>1, <2>7
    <3>2. u \in Learners BY <2>7, <3>1 DEF Pins
    <3> QED BY <3>1, <3>2 DEF OneLearner
  <2> QED BY <1>0, <2>1, <2>2, <2>4, <2>5, <2>6, <2>7 DEF Pins
<1>13. CASE Reset
  <2>1. PICK d \in Stores \ live :
          /\ store' = d /\ index' = {}
          /\ content' = [content EXCEPT ![d] = {}]
          /\ Release(store, \E u \in Threads : held[u] = store, {d})
    BY <1>13 DEF Reset
  <2>2. UNCHANGED <<pushed, pc, held, near, pruned>> BY <1>13 DEF Reset
  <2>3. /\ live' \subseteq live \cup {d} /\ d \in live'
        /\ \A e \in live : \/ e \in live'
                           \/ e = store /\ \A u \in Threads : held[u] # e
    BY <2>1
  <2>4. \A u \in Threads : pruned[u] = NoStore
    BY <1>13 DEF Reset, Pins
  <2>5. \A e \in live : content'[e] = content[e] BY <2>1
  <2>6. \A u \in Threads : near'[u] \subseteq Below(u)'
    BY <2>2, <2>5 DEF Below, Pins
  <2>7. \A u \in Threads :
          {held'[u], pruned'[u]} \subseteq live' \cup {NoStore}
    BY <2>2, <2>3, <2>4 DEF Pins
  <2>8. \A e \in live' : content'[e] \subseteq 1..pushed'
    BY <2>1, <2>2, <2>3, <2>5 DEF Pins
  <2> QED BY <2>1, <2>2, <2>3, <2>4, <2>6, <2>7, <2>8 DEF Pins
<1>14. CASE UNCHANGED vars BY <1>14 DEF Pins, Below
<1> QED
  BY Cases, <1>1, <1>2, <1>3, <1>4, <1>5, <1>6, <1>7, <1>8, <1>9, <1>10,
     <1>11, <1>12, <1>13, <1>14

\* A sample is in finitely many stores.
LEMMA OwnersFinite ==
  ASSUME TypeOK
  PROVE  \A s : /\ IsFiniteSet(Owners(s)) /\ Cardinality(Owners(s)) \in Nat
                /\ Cardinality(Owners(s)) = 0 <=> Owners(s) = {}
<1> TAKE s
<1>1. Owners(s) \subseteq Stores BY DEF TypeOK, Owners
<1>2. IsFiniteSet(Owners(s)) BY <1>1, MemoryAssumption, FS_Subset
<1> QED BY <1>2, FS_CardinalityType, FS_EmptySet

\* When nobody prunes, nothing is left to be counted.
LEMMA NoneUncounted ==
  ASSUME TypeOK, Counting, Pruning = {}
  PROVE  /\ \A t \in Threads : pc[t] \notin {"count", "add"} /\ todo[t] = {}
         /\ \A s \in 1..pushed : use[s] = Cardinality(Owners(s))
<1>1. \A t \in Threads : pc[t] \notin {"count", "add"} /\ todo[t] = {}
  BY DEF Counting, Flow, Pruning
<1>2. \A s : Uncounted(s) = 0 BY <1>1 DEF Uncounted
<1>3. \A s : Cardinality(Owners(s)) \in Nat BY OwnersFinite
<1>4. \A s \in 1..pushed : use[s] = Cardinality(Owners(s)) - Uncounted(s)
  BY DEF Counting, CountsAre
<1> QED BY <1>1, <1>2, <1>3, <1>4

\* The counts stay right when the stores keep their samples.
LEMMA SameOwners ==
  ASSUME CountsAre, UNCHANGED <<use, freed, pushed, todo>>,
         \A s \in 1..pushed : Owners(s)' = Owners(s)
  PROVE  CountsAre'
BY DEF CountsAre, Uncounted

\* They do when a store goes away, and deletes its samples.
LEMMA StoreGone ==
  ASSUME TypeOK, Counting, Pruning = {}, NEW d \in live, Disown(d),
         content[d] \subseteq 1..pushed,
         UNCHANGED <<pushed, todo>>,
         \A s \in 1..pushed : Owners(s)' = Owners(s) \ {d}
  PROVE  CountsAre'
<1>1. /\ \A t \in Threads : todo[t] = {}
      /\ \A s \in 1..pushed : use[s] = Cardinality(Owners(s))
  BY NoneUncounted
<1>2. \A s : Uncounted(s)' = 0 BY <1>1 DEF Uncounted
<1>3. 1..pushed \subseteq Samples
  BY MemoryAssumption DEF TypeOK, Samples
<1>4. ASSUME NEW s \in 1..pushed
      PROVE  /\ use'[s] = Cardinality(Owners(s)')
             /\ Cardinality(Owners(s)') \in Nat
             /\ s \in freed' <=> Owners(s)' = {}
  <2>1. /\ use'[s] = IF s \in content[d] THEN use[s] - 1 ELSE use[s]
        /\ s \in freed' <=> s \in freed \/ (s \in content[d] /\ use[s] = 1)
    BY <1>3 DEF Disown
  <2>2. d \in Owners(s) <=> s \in content[d] BY DEF Owners
  <2>3. use[s] = Cardinality(Owners(s)) BY <1>1
  <2>4. Owners(s)' = Owners(s) \ {d} OBVIOUS
  <2>5. CASE s \in content[d]
    <3>1. Cardinality(Owners(s) \ {d}) = Cardinality(Owners(s)) - 1
      BY <2>2, <2>5, OwnersFinite, FS_RemoveElement
    <3>2. /\ IsFiniteSet(Owners(s) \ {d})
          /\ Cardinality(Owners(s) \ {d}) = 0 <=> Owners(s) \ {d} = {}
      BY OwnersFinite, FS_RemoveElement, FS_EmptySet
    <3>5. Cardinality(Owners(s) \ {d}) \in Nat
      BY <3>2, FS_CardinalityType
    <3>3. Owners(s) # {} /\ s \notin freed
      BY <2>2, <2>5 DEF Counting, CountsAre
    <3>4. Cardinality(Owners(s)) \in Nat BY OwnersFinite
    <3> QED BY <2>1, <2>3, <2>4, <2>5, <3>1, <3>2, <3>3, <3>4, <3>5
  <2>6. CASE s \notin content[d]
    <3>1. Owners(s)' = Owners(s) BY <2>2, <2>4, <2>6
    <3>2. s \in freed <=> Owners(s) = {} BY DEF Counting, CountsAre
    <3>3. Cardinality(Owners(s)) \in Nat BY OwnersFinite
    <3> QED BY <2>1, <2>3, <2>6, <3>1, <3>2, <3>3
  <2> QED BY <2>5, <2>6
<1>5. freed' \subseteq 1..pushed
  <2>1. freed \subseteq 1..pushed BY DEF Counting, CountsAre
  <2> QED BY <2>1 DEF Disown
<1>6. \A s \in 1..pushed : use'[s] = Cardinality(Owners(s)') - Uncounted(s)'
  <2> TAKE s \in 1..pushed
  <2>1. /\ use'[s] = Cardinality(Owners(s)')
        /\ Cardinality(Owners(s)') \in Nat
    BY <1>4
  <2>2. Uncounted(s)' = 0 BY <1>2
  <2> QED BY <2>1, <2>2
<1> QED BY <1>4, <1>5, <1>6 DEF CountsAre

\* A thread that does not prune leaves those that do alone.
LEMMA FlowAside ==
  ASSUME TypeOK, Flow, UNCHANGED <<todo, reg>>,
         pushed' \in {pushed, pushed + 1},
         UNCHANGED use \/ Pruning = {},
         \A t \in Threads : pc'[t] \in {"count", "add"} => pc'[t] = pc[t],
         \A t \in Threads :
           pc[t] \in {"count", "add"} => pc'[t] = pc[t] \/ todo[t] = {}
  PROVE  Flow'
<1>1. \A t \in Threads : Next1(t)' = Next1(t) BY DEF Next1
<1>2. \A t \in Threads : pc'[t] \notin {"count", "add"} => todo'[t] = {}
  BY DEF Flow
<1>3. \A t \in Threads : todo'[t] \subseteq 1..pushed'
  <2>1. 1..pushed \subseteq 1..pushed' BY DEF TypeOK
  <2> QED BY <2>1 DEF Flow
<1>4. ASSUME NEW t \in Threads, pc'[t] = "add"
      PROVE  todo'[t] # {} /\ reg'[t] = use'[Next1(t)']
  <2>1. pc[t] = "add" /\ t \in Pruning BY <1>4 DEF Pruning
  <2> QED BY <1>1, <2>1 DEF Flow
<1> QED BY <1>2, <1>3, <1>4 DEF Flow

\* Every action keeps the counts right.  A learner that prunes is alone, so
\* its loads and stores of use counts are not interrupted by another's, and
\* writers, who wait for the lock of prune(), do not come between.
LEMMA CountingKept ==
  ASSUME OneLearner, TypeOK, TypeOK', Pins, Counting, [Next]_vars
  PROVE  Counting'
<1> USE MemoryAssumption DEF Goto
<1>0. /\ Learners \subseteq Threads /\ Flow /\ CountsAre
      /\ pc \in [Threads -> {"idle", "have", "wrote", "prune", "count",
                             "add", "swap", "drop"}]
      /\ pushed \in Nat
  BY DEF Threads, Counting, TypeOK
\* Nothing happens to the samples.
<1>20. ASSUME NEW t \in Threads, UNCHANGED <<heap, pushed, todo, reg>>,
             NEW b, pc' = [pc EXCEPT ![t] = b], b \notin {"count", "add"},
             pc[t] \in {"count", "add"} => todo[t] = {}
      PROVE  Counting'
  <2>1. Flow' BY <1>0, <1>20, FlowAside
  <2>2. \A s : Owners(s)' = Owners(s) BY <1>20 DEF Owners
  <2>3. CountsAre' BY <1>0, <1>20, <2>2, SameOwners
  <2> QED BY <2>1, <2>3 DEF Counting
\* A store is released.
<1>21. ASSUME NEW t \in Threads, NEW d \in live, NEW shared \in BOOLEAN,
             Release(d, shared, {}), UNCHANGED <<content, pushed, todo, reg>>,
             NEW b, pc' = [pc EXCEPT ![t] = b], b \notin {"count", "add"},
             pc[t] \notin {"count", "add"}
      PROVE  Counting'
  <2>1. CASE shared
    <3>1. UNCHANGED <<live, use, freed>> BY <1>21, <2>1 DEF Release
    <3>2. Flow' BY <1>0, <1>21, <3>1, FlowAside
    <3>3. \A s : Owners(s)' = Owners(s) BY <1>21, <3>1 DEF Owners
    <3>4. CountsAre' BY <1>0, <1>21, <3>1, <3>3, SameOwners
    <3> QED BY <3>2, <3>4 DEF Counting
  <2>2. CASE ~ shared
    <3>1. Pruning = {} /\ live' = live \ {d} /\ Disown(d)
      BY <1>21, <2>2 DEF Release
    <3>2. Flow' BY <1>0, <1>21, <3>1, FlowAside
    <3>3. \A s : Owners(s)' = Owners(s) \ {d} BY <1>21, <3>1 DEF Owners
    <3>4. content[d] \subseteq 1..pushed BY DEF Pins
    <3>5. CountsAre' BY <1>21, <3>1, <3>3, <3>4, StoreGone
    <3> QED BY <3>2, <3>5 DEF Counting
  <2> QED BY <2>1, <2>2
<1>1. ASSUME NEW t \in Threads, Project(t) PROVE Counting'
  <2>1. /\ pc[t] = "idle" /\ pc' = [pc EXCEPT ![t] = "have"]
        /\ UNCHANGED <<heap, pushed, todo, reg>>
    BY <1>1 DEF Project
  <2> QED BY <1>20, <2>1
<1>2. ASSUME NEW t \in Threads, Used(t) PROVE Counting'
  <2>1. /\ pc[t] = "have" /\ pc' = [pc EXCEPT ![t] = "drop"]
        /\ UNCHANGED <<heap, pushed, todo, reg>>
    BY <1>2 DEF Used
  <2> QED BY <1>20, <2>1
<1>3. ASSUME NEW t \in Threads, Drop(t) PROVE Counting'
  <2> DEFINE shared == store = held[t] \/ HeldByOthers(held[t], t)
  <2>1. /\ pc[t] = "drop" /\ pc' = [pc EXCEPT ![t] = "idle"]
        /\ Release(held[t], shared, {})
        /\ UNCHANGED <<content, pushed, todo, reg>>
    BY <1>3 DEF Drop
  <2>2. held[t] \in live BY <2>1 DEF Pins
  <2>3. shared \in BOOLEAN BY DEF HeldByOthers
  <2> HIDE DEF shared
  <2> QED BY <1>21, <2>1, <2>2, <2>3
<1>4. ASSUME NEW t \in Learners, Push(t) PROVE Counting'
  <2>0. PICK n : n = pushed + 1 OBVIOUS
  <2>1. /\ pc[t] = "have" /\ pc' = [pc EXCEPT ![t] = "wrote"]
        /\ pushed < MaxPushes /\ Pruning = {}
        /\ pushed' = n /\ n = pushed + 1
        /\ use' = [use EXCEPT ![n] = 1]
        /\ content' = [content EXCEPT ![store] = @ \cup {n}]
        /\ UNCHANGED <<live, freed, todo, reg>>
    BY <1>4, <2>0 DEF Push, Wrote
  <2>2. Flow' BY <1>0, <2>1, FlowAside
  <2>3. /\ \A u \in Threads : todo[u] = {}
        /\ \A s \in 1..pushed : use[s] = Cardinality(Owners(s))
    BY <2>1, NoneUncounted
  <2>4. \A s : Uncounted(s)' = 0 BY <2>1, <2>3 DEF Uncounted
  <2>5. store \in live /\ store \in Stores BY DEF Pins, TypeOK
  <2>6. \A s \in 1..pushed : Owners(s)' = Owners(s)
    BY <1>0, <2>1 DEF Owners, TypeOK
  <2>7. Owners(n)' = {store}
    <3>1. \A d \in live : n \notin content[d]
      BY <1>0, <2>1 DEF Pins
    <3> QED BY <2>1, <2>5, <3>1 DEF Owners, TypeOK
  <2>8. /\ n \in Samples
        /\ \A s \in 1..pushed : s \in Samples /\ s # n
    BY <1>0, <2>1 DEF Samples
  <2>9. ASSUME NEW s \in 1..n
        PROVE  /\ use'[s] = Cardinality(Owners(s)') - Uncounted(s)'
               /\ s \in freed' <=> Owners(s)' = {}
    <3>1. CASE s = n
      <4>1. use'[s] = 1 BY <2>1, <2>8, <3>1 DEF TypeOK
      <4>2. Cardinality(Owners(s)') = 1 BY <2>7, <3>1, FS_Singleton
      <4>3. s \notin freed BY <1>0, <2>1, <3>1 DEF CountsAre
      <4> QED BY <2>1, <2>4, <2>7, <3>1, <4>1, <4>2, <4>3
    <3>2. CASE s \in 1..pushed
      <4>1. use'[s] = use[s] BY <2>1, <2>8, <3>2 DEF TypeOK
      <4>2. Owners(s)' = Owners(s) BY <2>6, <3>2
      <4>3. use[s] = Cardinality(Owners(s)) /\ Cardinality(Owners(s)) \in Nat
        BY <2>3, <3>2, OwnersFinite
      <4>4. s \in freed <=> Owners(s) = {} BY <1>0, <3>2 DEF CountsAre
      <4>5. Cardinality(Owners(s)') = Cardinality(Owners(s)) BY <4>2
      <4> QED BY <2>1, <2>4, <4>1, <4>2, <4>3, <4>4, <4>5
    <3> QED BY <1>0, <2>1, <3>1, <3>2
  <2>10. freed' \subseteq 1..pushed'
    BY <1>0, <2>1 DEF CountsAre
  <2>11. CountsAre' BY <2>1, <2>9, <2>10 DEF CountsAre
  <2> QED BY <2>2, <2>11 DEF Counting
<1>5. ASSUME NEW t \in Learners, FindIdentical(t) PROVE Counting'
  <2>1. /\ pc[t] = "have" /\ pc' = [pc EXCEPT ![t] = "wrote"]
        /\ UNCHANGED <<heap, pushed, todo, reg>>
    BY <1>5 DEF FindIdentical, Wrote
  <2> QED BY <1>0, <1>20, <2>1
<1>6. ASSUME NEW t \in Learners, Finalize(t) PROVE Counting'
  <2>1. PICK b \in {"drop", "idle", "prune"} : pc' = [pc EXCEPT ![t] = b]
    BY <1>6 DEF Finalize
  <2>2. pc[t] \in {"wrote", "idle"} /\ UNCHANGED <<heap, pushed, todo, reg>>
    BY <1>6 DEF Finalize
  <2> QED BY <1>0, <1>20, <2>1, <2>2
<1>7. ASSUME NEW t \in Learners, Continue(t) PROVE Counting'
  <2>1. /\ pc[t] = "wrote" /\ pc' = [pc EXCEPT ![t] = "drop"]
        /\ UNCHANGED <<heap, pushed, todo, reg>>
    BY <1>7 DEF Continue
  <2> QED BY <1>0, <1>20, <2>1
<1>8. ASSUME NEW t \in Learners, PruneCopy(t) PROVE Counting'
  <2>1. PICK d \in Stores \ live, kept \in SUBSET content[store] :
          /\ live' = live \cup {d}
          /\ content' = [content EXCEPT ![d] = kept]
          /\ todo' = [todo EXCEPT ![t] = kept]
    BY <1>8 DEF PruneCopy
  <2>2. /\ pc[t] = "prune" /\ pc' = [pc EXCEPT ![t] = "count"]
        /\ UNCHANGED <<use, freed, pushed, reg>>
    BY <1>8 DEF PruneCopy
  <2>3. Pruning = {}
    <3> SUFFICES ASSUME NEW u \in Threads, pc[u] \in {"count", "add"}
                 PROVE  FALSE
      BY DEF Pruning
    <3>1. u \in Learners BY DEF Pins
    <3> QED BY <2>2, <3>1 DEF OneLearner
  <2>4. /\ \A u \in Threads : pc[u] \notin {"count", "add"} /\ todo[u] = {}
        /\ \A s \in 1..pushed : use[s] = Cardinality(Owners(s))
    BY <2>3, NoneUncounted
  <2>5. store \in live /\ kept \subseteq 1..pushed BY DEF Pins
  <2>6. Flow'
    <3>1. \A u \in Threads : pc'[u] # "add" BY <1>0, <2>2, <2>4
    <3>2. \A u \in Threads : todo'[u] = IF u = t THEN kept ELSE {}
      BY <2>1, <2>4 DEF TypeOK
    <3> QED BY <1>0, <2>2, <2>5, <3>1, <3>2 DEF Flow
  <2>7. \A s : Uncounted(s)' = IF s \in kept THEN 1 ELSE 0
    BY <1>0, <2>1, <2>4 DEF Uncounted, TypeOK
  <2>8. \A s : Owners(s)' = IF s \in kept THEN Owners(s) \cup {d}
                                          ELSE Owners(s)
    BY <2>1 DEF Owners, TypeOK
  <2>9. ASSUME NEW s \in 1..pushed
        PROVE  /\ use'[s] = Cardinality(Owners(s)') - Uncounted(s)'
               /\ s \in freed' <=> Owners(s)' = {}
    <3>1. /\ use[s] = Cardinality(Owners(s)) /\ Cardinality(Owners(s)) \in Nat
          /\ IsFiniteSet(Owners(s))
          /\ s \in freed <=> Owners(s) = {}
      BY <1>0, <2>4, OwnersFinite DEF CountsAre
    <3>2. CASE s \in kept
      <4>1. d \notin Owners(s) BY DEF Owners
      <4>2. Owners(s)' = Owners(s) \cup {d} BY <2>8, <3>2
      <4>3. Cardinality(Owners(s)') = Cardinality(Owners(s)) + 1
        BY <3>1, <4>1, <4>2, FS_AddElement
      <4>4. store \in Owners(s) BY <2>5, <3>2 DEF Owners
      <4>5. Uncounted(s)' = 1 BY <2>7, <3>2
      <4> QED BY <2>2, <3>1, <4>2, <4>3, <4>4, <4>5
    <3>3. CASE s \notin kept
      <4>1. Owners(s)' = Owners(s) /\ Uncounted(s)' = 0 BY <2>7, <2>8, <3>3
      <4>2. Cardinality(Owners(s)') = Cardinality(Owners(s)) BY <4>1
      <4> QED BY <2>2, <3>1, <4>1, <4>2
    <3> QED BY <3>2, <3>3
  <2>10. freed' \subseteq 1..pushed' BY <1>0, <2>2 DEF CountsAre
  <2>11. CountsAre' BY <2>2, <2>9, <2>10 DEF CountsAre
  <2> QED BY <2>6, <2>11 DEF Counting
<1>9. ASSUME NEW t \in Learners, LoadUse(t) PROVE Counting'
  <2>1. /\ pc[t] = "count" /\ pc' = [pc EXCEPT ![t] = "add"]
        /\ todo[t] # {} /\ reg' = [reg EXCEPT ![t] = use[Next1(t)]]
        /\ UNCHANGED <<heap, pushed, todo>>
    BY <1>9 DEF LoadUse
  <2>2. \A u : Next1(u)' = Next1(u) BY <2>1 DEF Next1
  <2>3. Flow' BY <1>0, <2>1, <2>2 DEF Flow, TypeOK
  <2>4. \A s : Owners(s)' = Owners(s) BY <2>1 DEF Owners
  <2>5. CountsAre' BY <1>0, <2>1, <2>4, SameOwners
  <2> QED BY <2>3, <2>5 DEF Counting
<1>10. ASSUME NEW t \in Learners, StoreUse(t) PROVE Counting'
  <2>0. PICK n : n = Next1(t) OBVIOUS
  <2>1. /\ pc[t] = "add" /\ pc' = [pc EXCEPT ![t] = "count"]
        /\ use' = [use EXCEPT ![n] = reg[t] + 1]
        /\ todo' = [todo EXCEPT ![t] = @ \ {n}]
        /\ UNCHANGED <<live, content, freed, pushed, reg>>
    BY <1>10, <2>0 DEF StoreUse
  <2>2. /\ n \in todo[t] /\ n \in Samples /\ reg[t] = use[n]
        /\ use[n] \in Int
    <3>1. todo[t] # {} /\ reg[t] = use[n] BY <1>0, <2>0, <2>1 DEF Flow
    <3> QED BY <1>0, <2>0, <3>1, NextOne DEF TypeOK
  <2>3. \A u \in Threads \ {t} : pc[u] \notin {"count", "add"} /\ todo[u] = {}
    <3> SUFFICES ASSUME NEW u \in Threads \ {t}, pc[u] \in {"count", "add"}
                 PROVE  FALSE
      BY <1>0 DEF Flow
    <3>1. u \in Learners BY DEF Pins
    <3> QED BY <3>1 DEF OneLearner
  <2>4. \A u \in Threads : todo'[u] = IF u = t THEN todo[t] \ {n} ELSE {}
    BY <1>0, <2>1, <2>3 DEF TypeOK
  <2>5. Flow'
    <3>1. \A u \in Threads : pc'[u] # "add" BY <1>0, <2>1, <2>3
    <3>2. todo[t] \subseteq 1..pushed BY <1>0 DEF Flow
    <3> QED BY <1>0, <2>1, <2>4, <3>1, <3>2 DEF Flow
  <2>6. /\ Uncounted(n) = 1 /\ Uncounted(n)' = 0
        /\ \A s : s # n => Uncounted(s)' = Uncounted(s)
    BY <1>0, <2>2, <2>3, <2>4 DEF Uncounted
  <2>7. \A s : Owners(s)' = Owners(s) BY <2>1 DEF Owners
  <2>8. ASSUME NEW s \in 1..pushed
        PROVE  use'[s] = Cardinality(Owners(s)') - Uncounted(s)'
    <3>1. /\ use[s] = Cardinality(Owners(s)) - Uncounted(s)
          /\ Cardinality(Owners(s)) \in Nat
      BY <1>0, OwnersFinite DEF CountsAre
    <3>2. Cardinality(Owners(s)') = Cardinality(Owners(s)) BY <2>7
    <3>3. s \in Samples BY <1>0 DEF TypeOK, Samples
    <3>4. CASE s = n
      <4>1. use'[s] = use[n] + 1 BY <2>1, <2>2, <3>4 DEF TypeOK
      <4> QED BY <2>6, <3>1, <3>2, <3>4, <4>1
    <3>5. CASE s # n
      <4>1. use'[s] = use[s] BY <2>1, <3>3, <3>5 DEF TypeOK
      <4>2. Uncounted(s)' = Uncounted(s) BY <2>6, <3>5
      <4> QED BY <3>1, <3>2, <4>1, <4>2
    <3> QED BY <3>4, <3>5
  <2>9. CountsAre' BY <1>0, <2>1, <2>7, <2>8 DEF CountsAre
  <2> QED BY <2>5, <2>9 DEF Counting
<1>11. ASSUME NEW t \in Learners, Indexed(t) PROVE Counting'
  <2>1. PICK b \in {"swap"} : pc' = [pc EXCEPT ![t] = b]
    BY <1>11 DEF Indexed
  <2>2. /\ pc[t] \in {"count", "add"} => todo[t] = {}
        /\ UNCHANGED <<heap, pushed, todo, reg>>
    BY <1>11 DEF Indexed
  <2> QED BY <1>0, <1>20, <2>1, <2>2
<1>12. ASSUME NEW t \in Learners, Swap(t) PROVE Counting'
  <2> DEFINE shared == held[t] = store \/ HeldByOthers(store, t)
  <2>1. /\ pc[t] = "swap" /\ Release(store, shared, {})
        /\ UNCHANGED <<content, pushed, todo, reg>>
    BY <1>12 DEF Swap
  <2>2. PICK b \in {"idle", "drop"} : pc' = [pc EXCEPT ![t] = b]
    BY <1>12 DEF Swap
  <2>3. store \in live BY DEF Pins
  <2>4. shared \in BOOLEAN BY DEF HeldByOthers
  <2> HIDE DEF shared
  <2> QED BY <1>0, <1>21, <2>1, <2>2, <2>3, <2>4
<1>13. CASE Reset
  <2>1. PICK d \in Stores \ live :
          /\ content' = [content EXCEPT ![d] = {}]
          /\ Release(store, \E u \in Threads : held[u] = store, {d})
    BY <1>13 DEF Reset
  <2>2. UNCHANGED <<pushed, pc, todo, reg>> BY <1>13 DEF Reset
  <2>3. store \in live BY DEF Pins
  <2>4. CASE \E u \in Threads : held[u] = store
    <3>1. live' = live \cup {d} /\ UNCHANGED <<use, freed>>
      BY <2>1, <2>4 DEF Release
    <3>2. Flow' BY <1>0, <2>2, <3>1, FlowAside
    <3>3. \A s : Owners(s)' = Owners(s) BY <2>1, <3>1 DEF Owners, TypeOK
    <3>4. CountsAre' BY <1>0, <2>2, <3>1, <3>3, SameOwners
    <3> QED BY <3>2, <3>4 DEF Counting
  <2>5. CASE ~ \E u \in Threads : held[u] = store
    <3>1. Pruning = {} /\ live' = (live \ {store}) \cup {d} /\ Disown(store)
      BY <2>1, <2>5 DEF Release
    <3>2. Flow' BY <1>0, <2>2, <3>1, FlowAside
    <3>3. \A s : Owners(s)' = Owners(s) \ {store}
      BY <2>1, <3>1 DEF Owners, TypeOK
    <3>4. content[store] \subseteq 1..pushed BY <2>3 DEF Pins
    <3>5. CountsAre' BY <2>2, <2>3, <3>1, <3>3, <3>4, StoreGone
    <3> QED BY <3>2, <3>5 DEF Counting
  <2> QED BY <2>4, <2>5
<1>14. CASE UNCHANGED vars
  <2>1. Flow' BY <1>0, <1>14, FlowAside
  <2>2. \A s : Owners(s)' = Owners(s) BY <1>14 DEF Owners
  <2>3. CountsAre' BY <1>0, <1>14, <2>2, SameOwners
  <2> QED BY <2>1, <2>3 DEF Counting
<1> QED
  BY Cases, <1>1, <1>2, <1>3, <1>4, <1>5, <1>6, <1>7, <1>8, <1>9, <1>10,
     <1>11, <1>12, <1>13, <1>14

\* The inductive invariant.
Counted == TypeOK /\ Pins /\ Counting

\* It holds of an empty memory.
LEMMA CountedInit == Init => Counted
<1> SUFFICES ASSUME Init PROVE Counted OBVIOUS
<1> USE MemoryAssumption DEF Init
<1>1. TypeOK BY DEF TypeOK, Samples
<1>2. Pins
  <2>1. store # NoStore OBVIOUS
  <2> QED BY <2>1 DEF Pins, Below
<1>3. \A s : s \notin 1..pushed OBVIOUS
<1>4. Flow BY DEF Flow
<1>5. CountsAre BY <1>3 DEF CountsAre
<1> QED BY <1>1, <1>2, <1>4, <1>5 DEF Counted, Counting

\* Every step keeps it.
LEMMA CountedKept ==
  ASSUME OneLearner
  PROVE  Counted /\ [Next]_vars => Counted'
BY TypeKept, PinsKept, CountingKept DEF Counted

\* Type correctness.  The current store is always one: swap() takes the store
\* that prune() has made, which nobody has taken away (ann.cpp:139-147).
THEOREM MemoryTypeCorrect ==
  ASSUME OneLearner
  PROVE  Spec => []TypeOK
<1>1. Counted => TypeOK BY DEF Counted
<1> QED BY <1>1, CountedInit, CountedKept, PTL DEF Spec

\* No store and no projection that is in use points to a deleted sample
\* (sample.h:70-76), for any number of readers, however long they keep their
\* projections while the store is pruned, replaced and reset.
THEOREM SamplesStay ==
  ASSUME OneLearner
  PROVE  Spec => []NoDangling
<1>1. Counted => NoDangling
  <2> SUFFICES ASSUME Counted PROVE NoDangling OBVIOUS
  <2>1. /\ \A s \in 1..pushed : s \in freed <=> Owners(s) = {}
        /\ freed \subseteq 1..pushed
    BY DEF Counted, Counting, CountsAre
  <2>2. \A d \in live : content[d] \cap freed = {} BY <2>1 DEF Owners
  <2>3. ASSUME NEW t \in Threads
        PROVE  near[t] \cap freed = {} /\ held[t] \in live \cup {NoStore}
    <3>1. held[t] \in live \cup {NoStore} /\ near[t] \subseteq Below(t)
      BY DEF Counted, Pins
    <3> QED BY <2>2, <3>1 DEF Below
  <2> QED BY <2>2, <2>3 DEF NoDangling
<1> QED BY <1>1, CountedInit, CountedKept, PTL DEF Spec

\* Between two prunings the use count of a sample is the number of the stores
\* it is in, and it has been deleted when that is none (sample.h:92-102,
\* 123-169): nothing leaks, and nothing is deleted twice.
THEOREM SamplesCounted ==
  ASSUME OneLearner
  PROVE  Spec => []CountsRight
<1>1. Counted => CountsRight
  <2> SUFFICES ASSUME Counted, Pruning = {}, NEW s \in 1..pushed
               PROVE  /\ use[s] = Cardinality(Owners(s))
                      /\ use[s] = 0 <=> s \in freed
    BY DEF CountsRight
  <2>1. use[s] = Cardinality(Owners(s)) BY NoneUncounted DEF Counted
  <2>2. Cardinality(Owners(s)) = 0 <=> Owners(s) = {}
    BY OwnersFinite DEF Counted
  <2>3. s \in freed <=> Owners(s) = {} BY DEF Counted, Counting, CountsAre
  <2> QED BY <2>1, <2>2, <2>3
<1> QED BY <1>1, CountedInit, CountedKept, PTL DEF Spec

-----------------------------------------------------------------------------
(* The index.                                                              *)

\* The samples that a learner has written and not finalized; a batch of them
\* when it is about to index the memory again.
Late(t) ==
  IF pc[t] \in {"prune", "count", "add", "swap"} THEN Batch ELSE written[t]

\* A store that was pruned has room for as many samples again, and the index
\* is built from at most max_samples_.  The memory outgrows the index by less
\* than an interval when finalize() does not index it, and by what was written
\* since.
Growth ==
  \A t \in Learners :
    /\ pruned[t] # NoStore => /\ Cardinality(content[pruned[t]]) <= MaxSamples
                              /\ room[pruned[t]] = 2 * MaxSamples
    /\ pc[t] \in {"prune", "count", "add", "swap"} => written[t] = 0
    /\ index # {} =>
         /\ room[store] = 2 * MaxSamples
         /\ Cardinality(index) <= MaxSamples
         /\ Cardinality(content[store]) <=
              Cardinality(index) + (Interval - 1) + Late(t)

\* Stores and index are finite.
LEMMA ContentFinite ==
  ASSUME TypeOK
  PROVE  /\ \A d \in Stores : /\ IsFiniteSet(content[d])
                              /\ Cardinality(content[d]) \in Nat
         /\ IsFiniteSet(index) /\ Cardinality(index) \in Nat
<1>1. IsFiniteSet(Samples) BY MemoryAssumption, FS_Interval DEF Samples
<1>2. \A d \in Stores : content[d] \subseteq Samples BY DEF TypeOK
<1>3. index \subseteq Samples BY DEF TypeOK
<1>4. \A d \in Stores : IsFiniteSet(content[d]) BY <1>1, <1>2, FS_Subset
<1>5. IsFiniteSet(index) BY <1>1, <1>3, FS_Subset
<1> QED BY <1>4, <1>5, FS_CardinalityType

\* No action lets the memory outgrow the index.
LEMMA GrowthKept ==
  ASSUME OneLearner, Interval > 0, TypeOK, TypeOK', Pins, Growth, [Next]_vars
  PROVE  Growth'
<1> USE MemoryAssumption DEF Goto
<1>0. /\ Learners \subseteq Threads
      /\ pc \in [Threads -> {"idle", "have", "wrote", "prune", "count",
                             "add", "swap", "drop"}]
      /\ written \in [Threads -> 0..Batch] /\ pushed \in Nat
      /\ store \in Stores /\ Batch \in Nat /\ Interval \in Nat
  BY DEF Threads, TypeOK
<1>13. \A t \in Learners : Late(t) \in 0..Batch BY <1>0 DEF Late
\* Neither the memory nor what the learner is at changes.
<1>1. ASSUME UNCHANGED <<store, index, content, room>>,
             \A t \in Learners :
               /\ pruned'[t] = pruned[t] /\ Late(t)' >= Late(t)
               /\ Late(t)' \in Int
               /\ pc'[t] \in {"prune", "count", "add", "swap"} =>
                    written'[t] = 0
      PROVE  Growth'
  BY <1>0, <1>1, <1>13, ContentFinite DEF Growth
<1>2. ASSUME NEW t \in Threads, Project(t) \/ Used(t) PROVE Growth'
  <2>1. /\ UNCHANGED <<store, index, content, room, pruned, written>>
        /\ pc[t] \in {"idle", "have"}
        /\ \E b \in {"have", "drop"} : pc' = [pc EXCEPT ![t] = b]
    BY <1>2 DEF Project, Used
  <2> QED BY <1>0, <1>1, <2>1 DEF Late, Growth
<1>3. ASSUME NEW t \in Threads, Drop(t) PROVE Growth'
  <2>1. /\ UNCHANGED <<store, index, content, room, pruned, written>>
        /\ pc[t] = "drop" /\ pc' = [pc EXCEPT ![t] = "idle"]
    BY <1>3 DEF Drop
  <2> QED BY <1>0, <1>1, <2>1 DEF Late, Growth
<1>4. ASSUME NEW t \in Learners, Push(t) PROVE Growth'
  <2>0. PICK n : n = pushed + 1 OBVIOUS
  <2>1. /\ pc[t] = "have" /\ pc' = [pc EXCEPT ![t] = "wrote"]
        /\ written[t] < Batch /\ written' = [written EXCEPT ![t] = @ + 1]
        /\ content' = [content EXCEPT ![store] = @ \cup {n}]
        /\ UNCHANGED <<store, index, room, pruned>>
    BY <1>4, <2>0 DEF Push, Wrote
  <2>2. n \notin content[store]
    <3>1. content[store] \subseteq 1..pushed BY DEF Pins
    <3> QED BY <1>0, <2>0, <3>1
  <2>3. /\ content'[store] = content[store] \cup {n}
        /\ \A d \in Stores : d # store => content'[d] = content[d]
    BY <1>0, <2>1 DEF TypeOK
  <2>4. Cardinality(content'[store]) = Cardinality(content[store]) + 1
    BY <1>0, <2>2, <2>3, ContentFinite, FS_AddElement
  <2>5. \A u \in Learners : u = t BY DEF OneLearner
  <2>6. /\ Late(t) = written[t] /\ Late(t)' = written[t] + 1
        /\ written[t] \in Nat
    BY <1>0, <2>1 DEF Late
  <2>7. pruned[t] = NoStore BY <1>0, <2>1 DEF Pins
  <2>8. pc'[t] = "wrote" BY <1>0, <2>1
  <2>9. Cardinality(index) \in Nat /\ Cardinality(content[store]) \in Nat
    BY <1>0, ContentFinite
  <2>10. index # {} => /\ room[store] = 2 * MaxSamples
                       /\ Cardinality(index) <= MaxSamples
                       /\ Cardinality(content[store]) <=
                            Cardinality(index) + (Interval - 1) + written[t]
    BY <2>6 DEF Growth
  <2>11. index' # {} => /\ room'[store'] = 2 * MaxSamples
                        /\ Cardinality(index') <= MaxSamples
                        /\ Cardinality(content'[store']) <=
                             Cardinality(index') + (Interval - 1) + Late(t)'
    BY <1>0, <2>1, <2>4, <2>6, <2>9, <2>10
  <2> QED BY <2>1, <2>5, <2>7, <2>8, <2>11 DEF Growth
<1>5. ASSUME NEW t \in Learners, FindIdentical(t) PROVE Growth'
  <2>1. /\ pc[t] = "have" /\ pc' = [pc EXCEPT ![t] = "wrote"]
        /\ written[t] < Batch /\ written' = [written EXCEPT ![t] = @ + 1]
        /\ UNCHANGED <<store, index, content, room, pruned>>
    BY <1>5 DEF FindIdentical, Wrote
  <2>2. \A u \in Learners : u = t BY DEF OneLearner
  <2>3. /\ Late(t) = written[t] /\ Late(t)' = written[t] + 1
        /\ written[t] \in Nat /\ pc'[t] = "wrote"
    BY <1>0, <2>1 DEF Late
  <2> QED BY <1>1, <2>1, <2>2, <2>3
<1>6. ASSUME NEW t \in Learners, Finalize(t) PROVE Growth'
  <2>1. /\ UNCHANGED <<store, index, content, room, pruned>>
        /\ pc[t] \in {"wrote", "idle"}
        /\ written' = [written EXCEPT ![t] = 0]
        /\ NeedsReindex => pc' = [pc EXCEPT ![t] = "prune"]
        /\ ~ NeedsReindex =>
             \E b \in {"drop", "idle"} : pc' = [pc EXCEPT ![t] = b]
    BY <1>6 DEF Finalize
  <2>2. \A u \in Learners : u = t BY DEF OneLearner
  <2>3. written'[t] = 0 BY <1>0, <2>1
  <2>4. CASE NeedsReindex
    <3>1. pc'[t] = "prune" BY <1>0, <2>1, <2>4
    <3>2. Late(t)' = Batch BY <3>1 DEF Late
    <3> QED BY <1>0, <1>1, <1>13, <2>1, <2>2, <2>3, <3>2
  <2>5. CASE ~ NeedsReindex
    <3>1. pc'[t] \in {"drop", "idle"} BY <1>0, <2>1, <2>5
    <3>2. Late(t)' = 0 BY <2>3, <3>1 DEF Late
    <3>3. Cardinality(content[store]) < Cardinality(index) + Interval
      BY <1>0, <2>5, ContentFinite DEF NeedsReindex
    <3> QED
      BY <1>0, <2>1, <2>2, <3>1, <3>2, <3>3, ContentFinite DEF Growth
  <2> QED BY <2>4, <2>5
<1>7. ASSUME NEW t \in Learners, Continue(t) PROVE Growth'
  <2>1. /\ UNCHANGED <<store, index, content, room, pruned, written>>
        /\ pc[t] = "wrote" /\ pc' = [pc EXCEPT ![t] = "drop"]
    BY <1>7 DEF Continue
  <2> QED BY <1>0, <1>1, <2>1 DEF Late, Growth
<1>8. ASSUME NEW t \in Learners, PruneCopy(t) PROVE Growth'
  <2>1. PICK d \in Stores \ live, kept \in SUBSET content[store] :
          /\ IF Cardinality(content[store]) <= MaxSamples
               THEN kept = content[store]
               ELSE Cardinality(kept) = MaxSamples
          /\ content' = [content EXCEPT ![d] = kept]
          /\ room' = [room EXCEPT ![d] = 2 * MaxSamples]
          /\ pruned' = [pruned EXCEPT ![t] = d]
    BY <1>8 DEF PruneCopy
  <2>2. /\ pc[t] = "prune" /\ pc' = [pc EXCEPT ![t] = "count"]
        /\ UNCHANGED <<store, index, written>>
    BY <1>8 DEF PruneCopy
  <2>3. \A u \in Learners : u = t BY DEF OneLearner
  <2>4. Cardinality(kept) <= MaxSamples BY <2>1
  <2>5. /\ pruned'[t] = d /\ content'[d] = kept /\ room'[d] = 2 * MaxSamples
        /\ pc'[t] = "count"
    BY <1>0, <2>1, <2>2 DEF TypeOK
  <2>6. d # store BY DEF Pins
  <2>7. content'[store] = content[store] /\ room'[store] = room[store]
    BY <1>0, <2>1, <2>6 DEF TypeOK
  <2>8. Late(t)' = Late(t) BY <2>2, <2>5 DEF Late
  <2> QED BY <2>2, <2>3, <2>4, <2>5, <2>7, <2>8 DEF Growth
<1>9. ASSUME NEW t \in Learners, LoadUse(t) \/ StoreUse(t) \/ Indexed(t)
      PROVE  Growth'
  <2>1. /\ UNCHANGED <<store, index, content, room, pruned, written>>
        /\ pc[t] \in {"count", "add"}
        /\ \E b \in {"add", "count", "swap"} : pc' = [pc EXCEPT ![t] = b]
    BY <1>9 DEF LoadUse, StoreUse, Indexed
  <2> QED BY <1>0, <1>1, <2>1 DEF Late, Growth
<1>10. ASSUME NEW t \in Learners, Swap(t) PROVE Growth'
  <2>1. /\ pc[t] = "swap" /\ store' = pruned[t]
        /\ index' = content[pruned[t]]
        /\ pruned' = [pruned EXCEPT ![t] = NoStore]
        /\ UNCHANGED <<content, room, written>>
        /\ \E b \in {"idle", "drop"} : pc' = [pc EXCEPT ![t] = b]
    BY <1>10 DEF Swap
  <2>2. \A u \in Learners : u = t BY DEF OneLearner
  <2>3. pruned[t] # NoStore /\ pruned'[t] = NoStore
    BY <1>0, <2>1 DEF Pins, TypeOK
  <2>4. pruned[t] \in Stores BY <1>0, <2>3 DEF TypeOK
  <2>5. /\ Cardinality(content[pruned[t]]) <= MaxSamples
        /\ Cardinality(content[pruned[t]]) \in Nat
        /\ room[pruned[t]] = 2 * MaxSamples /\ written[t] = 0
    BY <2>1, <2>3, <2>4, ContentFinite DEF Growth
  <2>6. pc'[t] \in {"idle", "drop"} BY <1>0, <2>1
  <2>7. Late(t)' = 0 BY <2>1, <2>5, <2>6 DEF Late
  <2> QED BY <1>0, <2>1, <2>2, <2>3, <2>5, <2>6, <2>7 DEF Growth
<1>11. CASE Reset
  <2>1. PICK d \in Stores \ live :
          /\ content' = [content EXCEPT ![d] = {}]
          /\ index' = {}
    BY <1>11 DEF Reset
  <2>2. /\ UNCHANGED <<pruned, pc, written>>
        /\ \A t \in Learners : pc[t] = "idle"
    BY <1>11 DEF Reset
  <2>3. \A t \in Learners : pruned[t] = NoStore BY <1>0, <2>2 DEF Pins
  <2> QED BY <2>1, <2>2, <2>3 DEF Growth
<1>12. CASE UNCHANGED vars BY <1>12 DEF Growth, Late
<1> QED
  BY Cases, <1>2, <1>3, <1>4, <1>5, <1>6, <1>7, <1>8, <1>9, <1>10, <1>11,
     <1>12

\* The index never refers to places of a vector that has moved (ann.cpp:112):
\* for every interval and batch that are together at most max_samples_ + 1, and
\* any number of readers.  interval_ is at least 1 (ann.cpp:42).
THEOREM IndexStays ==
  ASSUME OneLearner, Interval > 0, Interval + Batch <= MaxSamples + 1
  PROVE  Spec => []IndexUsable
<1>1. CASE Learners = {}
  <2>1. Init => index = {} BY DEF Init
  <2>2. index = {} /\ [Next]_vars => (index = {})'
    BY <1>1, Cases DEF Project, Used, Drop, Reset
  <2>3. index = {} => IndexUsable BY DEF IndexUsable
  <2> QED BY <2>1, <2>2, <2>3, PTL DEF Spec
<1>2. CASE Learners # {}
  <2>1. Init => Growth
    <3> SUFFICES ASSUME Init, NEW t \in Learners
                 PROVE  /\ pruned[t] = NoStore /\ pc[t] = "idle"
                        /\ index = {}
      BY DEF Growth
    <3> QED BY DEF Init, Threads
  <2>2. Counted /\ Growth /\ [Next]_vars => Growth'
    BY CountedKept, GrowthKept DEF Counted
  <2>3. Counted /\ Growth => IndexUsable
    <3> SUFFICES ASSUME Counted, Growth, index # {}
                 PROVE  Cardinality(content[store]) <= room[store]
      BY DEF IndexUsable
    <3>1. PICK t \in Learners : TRUE BY <1>2
    <3>2. /\ room[store] = 2 * MaxSamples
          /\ Cardinality(index) <= MaxSamples
          /\ Cardinality(content[store]) <=
               Cardinality(index) + (Interval - 1) + Late(t)
      BY DEF Growth
    <3>3. TypeOK BY DEF Counted
    <3>4. Cardinality(index) \in Nat /\ Cardinality(content[store]) \in Nat
      BY <3>3, ContentFinite DEF TypeOK
    <3>5. Late(t) \in Nat /\ Late(t) <= Batch
      BY <3>3, MemoryAssumption DEF TypeOK, Late, Threads
    <3> QED BY <3>2, <3>4, <3>5, MemoryAssumption
  <2> QED BY <2>1, <2>2, <2>3, CountedInit, CountedKept, PTL DEF Spec
<1> QED BY <1>1, <1>2
=============================================================================
