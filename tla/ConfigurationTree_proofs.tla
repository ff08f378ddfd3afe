---------------------- MODULE ConfigurationTree_proofs ----------------------
(***************************************************************************)
(* What is proved of the configuration tree, for documents of any size:    *)
(* objects are configured after their parameters, and a walk reconfigures  *)
(* an object after all that it uses and never calls itself for a node that *)
(* it is already in.                                                       *)
(*                                                                         *)
(* Path and Leads are recursive.  They are first shown to satisfy their    *)
(* equations (what they compute exists: it is the least set that is closed *)
(* under parent, or under ref), and what is to be known of them then       *)
(* follows by looking at the first node for which it is wrong.             *)
(***************************************************************************)
EXTENDS ConfigurationTree, WellFoundedInduction, TLAPS

USE DEF vars

-----------------------------------------------------------------------------
(* Trees.                                                                  *)

\* The document is a tree with well-placed references.
Tree == doc \in DocumentType /\ WellFormed(doc)

\* A set of numbers has a least one: induction, without an operator.
LEMMA Least ==
  ASSUME NEW T, T \subseteq Nat, T # {}
  PROVE  \E x \in T : \A y \in T : x <= y
<1>1. PICK x \in T : \A y \in T : ~ (<<y, x>> \in OpToRel(<, Nat))
  BY WFMin, NatLessThanWellFounded, Zenon
<1>2. \A y \in T : ~ (y < x) BY <1>1 DEF OpToRel
<1> QED BY <1>2

\* What a well-formed tree is, piece by piece.
LEMMA TreeFacts ==
  ASSUME Tree
  PROVE  /\ Size \in Nat
         /\ \A n \in Nodes : /\ n \in Nat \ {0} /\ n \in 0..Size
                             /\ doc.parent[n] \in 0..Size
                             /\ doc.parent[n] < n
         /\ \A n, m \in Nodes :
              doc.parent[n] < m /\ m < n => doc.parent[m] >= doc.parent[n]
         /\ \A n \in 0..Size : n \in Nat /\ (n # 0 => n \in Nodes)
<1>1. /\ Size \in Nat
      /\ doc.parent \in [Nodes -> 0..Size]
  BY ConfigurationAssumption DEF Tree, DocumentType
<1>2. Nested(doc.parent) BY DEF Tree, WellFormed
<1> QED BY <1>1, <1>2 DEF Nested, Nodes

\* Path is what its definition says it is.
LEMMA PathEquation ==
  ASSUME Tree
  PROVE  Path = [n \in 0..Size |->
                   {n} \cup IF n = 0 THEN {} ELSE Path[doc.parent[n]]]
<1> DEFINE closed(U) == \A k \in U : k # 0 => doc.parent[k] \in U
           up(n) == {m \in 0..Size : \A U \in SUBSET (0..Size) :
                                       n \in U /\ closed(U) => m \in U}
           f == [n \in 0..Size |-> up(n)]
           g(h) == [n \in 0..Size |->
                     {n} \cup IF n = 0 THEN {} ELSE h[doc.parent[n]]]
<1>1. ASSUME NEW n \in 0..Size
      PROVE  /\ n \in up(n) /\ closed(up(n)) /\ up(n) \subseteq 0..Size
  BY TreeFacts
<1>2. ASSUME NEW n \in Nodes
      PROVE  up(n) = {n} \cup up(doc.parent[n])
  <2> n \in 0..Size /\ n # 0 /\ doc.parent[n] \in 0..Size BY TreeFacts
  <2>1. /\ doc.parent[n] \in up(doc.parent[n]) /\ closed(up(doc.parent[n]))
        /\ up(doc.parent[n]) \subseteq 0..Size
    BY <1>1
  <2>2. \A U \in SUBSET (0..Size) : n \in U /\ closed(U) =>
          \A m \in up(doc.parent[n]) : m \in U
    BY TreeFacts
  <2>3. up(doc.parent[n]) \subseteq up(n)
    BY <2>2, <2>1
  <2> DEFINE U == {n} \cup up(doc.parent[n])
  <2>4. U \in SUBSET (0..Size) /\ n \in U BY <2>1
  <2>5. closed(U) BY <2>1
  <2>6. up(n) \subseteq U BY <2>4, <2>5
  <2> QED BY <2>3, <2>6, <1>1
<1>3. up(0) = {0}
  <2>1. {0} \in SUBSET (0..Size) /\ closed({0}) BY TreeFacts
  <2> QED BY <2>1, <1>1, TreeFacts
<1>4. \A n \in 0..Size :
        f[n] = {n} \cup IF n = 0 THEN {} ELSE f[doc.parent[n]]
  <2> HIDE DEF up
  <2> QED BY <1>2, <1>3, TreeFacts
<1> HIDE DEF up
<1>5. f = g(f) BY <1>4
<1>6. \E h : h = g(h) BY <1>5, Zenon
<1>7. Path = CHOOSE h : h = g(h) BY DEF Path
<1> HIDE DEF g
<1>8. Path = g(Path) BY <1>6, <1>7, Zenon
<1> QED BY <1>8 DEF g

\* A path goes up, from the node to the root.
LEMMA PathFacts ==
  ASSUME Tree
  PROVE  /\ Path[0] = {0}
         /\ \A n \in Nodes : Path[n] = {n} \cup Path[doc.parent[n]]
         /\ \A n \in 0..Size : n \in Path[n]
         /\ \A n \in 0..Size : Path[n] \subseteq 0..n /\ 0 \in Path[n]
<1> USE TreeFacts
<1>1. /\ Path[0] = {0}
      /\ \A n \in Nodes : Path[n] = {n} \cup Path[doc.parent[n]]
      /\ \A n \in 0..Size : n \in Path[n]
  <2>1. \A n \in 0..Size :
          Path[n] = {n} \cup IF n = 0 THEN {} ELSE Path[doc.parent[n]]
    BY PathEquation
  <2> QED BY <2>1
<1> DEFINE wrong ==
             {n \in 0..Size : ~ (Path[n] \subseteq 0..n /\ 0 \in Path[n])}
<1>2. ASSUME wrong # {} PROVE FALSE
  <2>1. wrong \subseteq Nat OBVIOUS
  <2>2. PICK n \in wrong : \A m \in wrong : n <= m BY <1>2, <2>1, Least
  <2>3. n \in Nodes /\ doc.parent[n] \in 0..Size BY <1>1, <2>2
  <2>4. doc.parent[n] \notin wrong BY <2>2, <2>3
  <2> QED BY <1>1, <2>2, <2>3, <2>4
<1> QED BY <1>1, <1>2

\* Whatever contains a node and is closed upwards contains its path.
LEMMA PathLeast ==
  ASSUME Tree, NEW U, \A k \in U \cap Nodes : doc.parent[k] \in U
  PROVE  \A n \in U \cap (0..Size) : Path[n] \subseteq U
<1> USE TreeFacts
<1> DEFINE wrong == {n \in U \cap (0..Size) : ~ (Path[n] \subseteq U)}
<1>2. ASSUME wrong # {} PROVE FALSE
  <2>1. wrong \subseteq Nat OBVIOUS
  <2>2. PICK n \in wrong : \A m \in wrong : n <= m BY <1>2, <2>1, Least
  <2>3. n \in Nodes BY <2>2, PathFacts
  <2>4. doc.parent[n] \notin wrong BY <2>2, <2>3
  <2> QED BY <2>2, <2>3, <2>4, PathFacts
<1> QED BY <1>2

\* The path of what is above a node is part of the path of the node.
LEMMA PathTransitive ==
  ASSUME Tree, NEW n \in 0..Size, NEW m \in Path[n]
  PROVE  m \in 0..Size /\ m <= n /\ Path[m] \subseteq Path[n]
<1> USE TreeFacts
<1>1. m \in 0..n BY PathFacts
<1>2. m \in 0..Size BY <1>1
<1> DEFINE wrong ==
             {k \in 0..Size : ~ \A a \in Path[k] : Path[a] \subseteq Path[k]}
<1>3. ASSUME wrong # {} PROVE FALSE
  <2>1. wrong \subseteq Nat OBVIOUS
  <2>2. PICK k \in wrong : \A b \in wrong : k <= b BY <1>3, <2>1, Least
  <2>3. k \in Nodes BY <2>2, PathFacts
  <2>4. doc.parent[k] \notin wrong BY <2>2, <2>3
  <2> QED BY <2>2, <2>3, <2>4, PathFacts
<1> QED BY <1>1, <1>2, <1>3

\* A subtree is contiguous: what is between a node and one below it is below
\* that node too.
LEMMA Contiguous ==
  ASSUME Tree, NEW n \in 0..Size, NEW m \in Path[n],
         NEW k \in 0..Size, m <= k, k <= n
  PROVE  m \in Path[k]
<1> USE TreeFacts
<1>1. ASSUME NEW a \in Nodes
      PROVE  \A b \in Nodes : doc.parent[a] < b /\ b < a =>
                doc.parent[a] \in Path[b]
  <2> DEFINE p == doc.parent[a]
             wrong == {b \in Nodes : p < b /\ b < a /\ p \notin Path[b]}
  <2>1. ASSUME wrong # {} PROVE FALSE
    <3>1. wrong \subseteq Nat OBVIOUS
    <3>2. PICK b \in wrong : \A c \in wrong : b <= c BY <2>1, <3>1, Least
    <3>3. doc.parent[b] >= p /\ doc.parent[b] < b /\ doc.parent[b] \in 0..Size
      BY <3>2
    <3>4. doc.parent[b] \notin wrong BY <3>2, <3>3
    <3>5. p \in 0..Size OBVIOUS
    <3>6. p \in Path[doc.parent[b]]
      <4>1. CASE doc.parent[b] = p BY <3>5, <4>1, PathFacts
      <4>2. CASE doc.parent[b] > p
        <5>1. doc.parent[b] \in Nodes BY <3>3, <3>5, <4>2
        <5> QED BY <3>2, <3>3, <3>4, <4>2, <5>1
      <4> QED BY <3>3, <3>5, <4>1, <4>2
    <3> QED BY <3>2, <3>6, PathFacts
  <2> QED BY <2>1
<1> DEFINE wrong == {a \in 0..Size : \E b \in Path[a] : \E c \in 0..Size :
                        b <= c /\ c <= a /\ b \notin Path[c]}
<1>2. ASSUME wrong # {} PROVE FALSE
  <2>1. wrong \subseteq Nat OBVIOUS
  <2>2. PICK a \in wrong : \A x \in wrong : a <= x BY <1>2, <2>1, Least
  <2>3. PICK b \in Path[a], c \in 0..Size :
          b <= c /\ c <= a /\ b \notin Path[c]
    BY <2>2
  <2> HIDE DEF wrong
  <2>4. a \in 0..Size BY <2>2 DEF wrong
  <2>10. b \in 0..a BY <2>4, PathFacts
  <2>5. c # a /\ c # b BY <2>3, <2>4, PathFacts
  <2>6. a \in Nodes /\ b # a BY <2>3, <2>4, <2>5, <2>10
  <2>7. b \in Path[doc.parent[a]] BY <2>6, PathFacts
  <2>8. CASE c <= doc.parent[a]
    <3>1. doc.parent[a] \in wrong BY <2>3, <2>6, <2>7, <2>8 DEF wrong
    <3> QED BY <2>2, <2>6, <3>1
  <2>9. CASE doc.parent[a] < c
    <3>1. c \in Nodes /\ c < a BY <2>3, <2>4, <2>5, <2>6, <2>9
    <3>2. doc.parent[a] \in Path[c] BY <1>1, <2>6, <2>9, <3>1
    <3> QED BY <2>3, <2>7, <3>2, PathTransitive
  <2> QED BY <2>3, <2>6, <2>8, <2>9
<1> QED BY <1>2

\* d is complete before n is: below it, or before it and not around it.
Before(d, n) ==
  /\ d # n
  /\ \/ n \in Path[d]
     \/ d < n /\ d \notin Path[n]

\* That is an order.
LEMMA BeforeTransitive ==
  ASSUME Tree, NEW a \in 0..Size, NEW b \in 0..Size, NEW c \in 0..Size,
         Before(a, b), Before(b, c)
  PROVE  Before(a, c)
<1> USE TreeFacts DEF Before
<1>1. CASE b \in Path[a] /\ c \in Path[b]
  <2>1. c \in Path[a] /\ b <= a /\ c <= b BY <1>1, PathTransitive
  <2> QED BY <2>1
<1>2. CASE b \in Path[a] /\ b < c /\ b \notin Path[c]
  <2>1. ASSUME c < a PROVE FALSE BY <1>2, <2>1, Contiguous
  <2>2. ASSUME a \in Path[c] PROVE FALSE BY <1>2, <2>2, PathTransitive
  <2> QED BY <1>2, <2>1, <2>2
<1>3. CASE a < b /\ a \notin Path[b] /\ c \in Path[b]
  <2>1. c < a => c \in Path[a] BY <1>3, Contiguous
  <2>2. a \notin Path[c] /\ a # c BY <1>3, PathTransitive
  <2> QED BY <1>3, <2>1, <2>2
<1>4. CASE a < b /\ a \notin Path[b] /\ b < c /\ b \notin Path[c]
  <2>1. a < c BY <1>4
  <2>2. ASSUME a \in Path[c] PROVE FALSE BY <1>4, <2>2, Contiguous
  <2> QED BY <2>1, <2>2
<1> QED BY <1>1, <1>2, <1>3, <1>4

-----------------------------------------------------------------------------
(* References.                                                             *)

\* Where the references lead in a tree with these nodes.
LeadsIn(M) ==
  LET to[n \in 0..Size] ==
        IF n # 0 /\ doc.kind[n] = "reference" /\ doc.ref[n] \in M \ {0}
          THEN to[doc.ref[n]]
          ELSE n
  IN  to

\* n is a reference that leads on.
Follows(M, n) ==
  n # 0 /\ doc.kind[n] = "reference" /\ doc.ref[n] \in M \ {0}

\* What may be where, and what references lead to, piece by piece.
LEMMA KindFacts ==
  ASSUME Tree
  PROVE  /\ doc.kind[0] = "group"
         /\ \A n \in 0..Size : doc.kind[n] \in Kinds
         /\ \A n \in Nodes :
              /\ doc.kind[doc.parent[n]] \in {"object", "group", "list"}
              /\ doc.kind[n] = "group" => doc.kind[doc.parent[n]] = "group"
              /\ doc.kind[n] \in {"list", "provided"} =>
                   doc.kind[doc.parent[n]] = "object"
         /\ \A n \in Nodes : doc.kind[n] = "provided" =>
              \A m \in Nodes : m > n => doc.parent[m] # doc.parent[n]
         /\ \A n \in Nodes : doc.ref[n] \in 0..Size
         /\ \A n \in Nodes :
              \/ doc.ref[n] = 0
              \/ /\ doc.kind[n] = "reference"
                 /\ \/ doc.kind[doc.ref[n]] \in {"object", "provided"}
                    \/ doc.kind[doc.ref[n]] = "reference" /\ doc.ref[n] < n
<1>1. /\ doc.kind \in [0..Size -> Kinds]
      /\ doc.ref \in [Nodes -> 0..Size]
  BY DEF Tree, DocumentType
<1>2. Labelled(doc.parent, doc.kind) /\ Linked(doc.kind, doc.ref)
  BY DEF Tree, WellFormed
<1> QED BY <1>1, <1>2 DEF Labelled, Linked

\* Leads is what its definition says it is.
LEMMA LeadsEquation ==
  ASSUME Tree, NEW M
  PROVE  \A n \in 0..Size :
           LeadsIn(M)[n] = IF Follows(M, n) THEN LeadsIn(M)[doc.ref[n]] ELSE n
<1> USE TreeFacts
<1>0. \A n \in 0..Size : n # 0 => doc.ref[n] \in 0..Size BY KindFacts
<1> DEFINE closed(U) == \A k \in U : Follows(M, k) => doc.ref[k] \in U
           chain(n) == {m \in 0..Size : \A U \in SUBSET (0..Size) :
                                          n \in U /\ closed(U) => m \in U}
           ends(n) == {m \in chain(n) : ~ Follows(M, m)}
           f == [n \in 0..Size |-> CHOOSE m : m \in ends(n)]
           g(h) == [n \in 0..Size |->
                     IF Follows(M, n) THEN h[doc.ref[n]] ELSE n]
<1>1. ASSUME NEW n \in 0..Size
      PROVE  /\ n \in chain(n) /\ closed(chain(n))
             /\ chain(n) \subseteq 0..Size
  BY <1>0 DEF Follows
<1>2. ASSUME NEW n \in 0..Size, Follows(M, n)
      PROVE  ends(n) = ends(doc.ref[n])
  <2> DEFINE r == doc.ref[n]
  <2>0. r \in 0..Size BY <1>0, <1>2 DEF Follows
  <2>1. r \in chain(r) /\ closed(chain(r)) /\ chain(r) \subseteq 0..Size
    BY <1>1, <2>0
  <2>2. \A U \in SUBSET (0..Size) : n \in U /\ closed(U) =>
          \A m \in chain(r) : m \in U
    BY <1>2
  <2>3. chain(r) \subseteq chain(n) BY <2>2, <2>1
  <2> DEFINE U == {n} \cup chain(r)
  <2>4. U \in SUBSET (0..Size) /\ n \in U BY <2>1
  <2>5. closed(U) BY <2>1
  <2>6. chain(n) \subseteq U BY <2>4, <2>5
  <2> HIDE DEF chain
  <2> QED BY <1>2, <2>3, <2>6
<1>3. ASSUME NEW n \in 0..Size, ~ Follows(M, n)
      PROVE  ends(n) = {n}
  <2>1. {n} \in SUBSET (0..Size) /\ closed({n}) BY <1>3
  <2>2. chain(n) \subseteq {n} BY <2>1
  <2> QED BY <1>3, <2>2, <1>1
<1> HIDE DEF ends
<1>4. ASSUME NEW n \in 0..Size
      PROVE  f[n] = IF Follows(M, n) THEN f[doc.ref[n]] ELSE n
  <2>1. CASE Follows(M, n)
    <3>1. doc.ref[n] \in 0..Size BY <1>0, <2>1 DEF Follows
    <3>2. /\ f[n] = (CHOOSE m : m \in ends(n))
          /\ f[doc.ref[n]] = (CHOOSE m : m \in ends(doc.ref[n]))
      BY <3>1
    <3>3. ends(n) = ends(doc.ref[n]) BY <1>2, <2>1
    <3> QED BY <2>1, <3>2, <3>3
  <2>2. CASE ~ Follows(M, n)
    <3>1. ends(n) = {n} BY <1>3, <2>2
    <3> QED BY <2>2, <3>1
  <2> QED BY <2>1, <2>2
<1> HIDE DEF f
<1>5. f = g(f)
  <2>1. f = [n \in 0..Size |-> f[n]] BY DEF f
  <2> QED BY <1>4, <2>1
<1>6. \E h : h = g(h) BY <1>5, Zenon
<1>7. LeadsIn(M) = CHOOSE h : h = g(h) BY DEF LeadsIn, Follows
<1> HIDE DEF g
<1>8. LeadsIn(M) = g(LeadsIn(M)) BY <1>6, <1>7, Zenon
<1> QED BY <1>8 DEF g

\* What a reference leads to, if that is no reference, is a part of the tree.
LEMMA LeadsFacts ==
  ASSUME Tree, NEW M, NEW n \in 0..Size
  PROVE  LET d == LeadsIn(M)[n] IN
         /\ d \in 0..Size
         /\ doc.kind[n] # "reference" => d = n
         /\ doc.kind[n] = "reference" /\ doc.kind[d] # "reference" =>
              d \in M /\ doc.kind[d] \in {"object", "provided"}
<1> USE TreeFacts
<1> DEFINE right(k) == LET d == LeadsIn(M)[k] IN
         /\ d \in 0..Size
         /\ doc.kind[k] # "reference" => d = k
         /\ doc.kind[k] = "reference" /\ doc.kind[d] # "reference" =>
              d \in M /\ doc.kind[d] \in {"object", "provided"}
           wrong == {k \in 0..Size : ~ right(k)}
<1>1. ASSUME NEW k \in 0..Size, ~ Follows(M, k) PROVE right(k)
  BY <1>1, LeadsEquation
<1>2. ASSUME NEW k \in 0..Size, Follows(M, k),
             doc.kind[doc.ref[k]] = "reference" => right(doc.ref[k])
      PROVE  right(k)
  <2>1. k \in Nodes /\ doc.kind[k] = "reference"
        /\ doc.ref[k] \in 0..Size /\ doc.ref[k] \in M
    BY <1>2, KindFacts DEF Follows
  <2>2. LeadsIn(M)[k] = LeadsIn(M)[doc.ref[k]] BY <1>2, LeadsEquation
  <2>3. \/ doc.kind[doc.ref[k]] \in {"object", "provided"}
        \/ doc.kind[doc.ref[k]] = "reference"
    BY <1>2, <2>1, KindFacts DEF Follows
  <2>4. CASE doc.kind[doc.ref[k]] \in {"object", "provided"}
    <3>1. LeadsIn(M)[doc.ref[k]] = doc.ref[k]
      BY <2>1, <2>4, LeadsEquation DEF Follows
    <3> QED BY <2>1, <2>2, <2>4, <3>1
  <2>5. CASE doc.kind[doc.ref[k]] = "reference"
    BY <1>2, <2>1, <2>2, <2>5
  <2> QED BY <2>3, <2>4, <2>5
<1>3. ASSUME wrong # {} PROVE FALSE
  <2>1. wrong \subseteq Nat OBVIOUS
  <2> HIDE DEF right
  <2>2. PICK k \in wrong : \A m \in wrong : k <= m BY <1>3, <2>1, Least
  <2>3. Follows(M, k) BY <1>1, <2>2
  <2>4. k \in Nodes /\ doc.ref[k] \in 0..Size /\ doc.ref[k] # 0
    BY <2>2, <2>3, KindFacts DEF Follows
  <2>5. ASSUME doc.kind[doc.ref[k]] = "reference" PROVE right(doc.ref[k])
    <3>1. doc.ref[k] < k BY <2>4, <2>5, KindFacts
    <3> QED BY <2>2, <2>4, <3>1
  <2> QED BY <1>2, <2>2, <2>3, <2>5
<1>4. right(n) BY <1>3
<1> QED BY <1>4

\* A reference that leads to an object, or asks for none, still does so when
\* nodes are added.
LEMMA LeadsKept ==
  ASSUME Tree, NEW M, NEW L, M \subseteq L, NEW n \in 0..Size,
         \/ doc.kind[LeadsIn(M)[n]] # "reference"
         \/ LeadsIn(M)[n] # 0 /\ doc.ref[LeadsIn(M)[n]] = 0
  PROVE  LeadsIn(L)[n] = LeadsIn(M)[n]
<1> USE TreeFacts
<1> DEFINE settled(k) == \/ doc.kind[LeadsIn(M)[k]] # "reference"
                         \/ LeadsIn(M)[k] # 0 /\ doc.ref[LeadsIn(M)[k]] = 0
           wrong == {k \in 0..Size : /\ settled(k)
                                     /\ LeadsIn(L)[k] # LeadsIn(M)[k]}
<1>1. ASSUME NEW k \in 0..Size, ~ Follows(M, k), settled(k)
      PROVE  LeadsIn(L)[k] = LeadsIn(M)[k]
  <2>1. LeadsIn(M)[k] = k BY <1>1, LeadsEquation
  <2>2. ~ Follows(L, k) BY <1>1, <2>1 DEF Follows
  <2> QED BY <2>1, <2>2, LeadsEquation
<1>2. ASSUME NEW k \in 0..Size, Follows(M, k)
      PROVE  /\ k \in Nodes
             /\ doc.ref[k] \in 0..Size /\ doc.ref[k] # 0
             /\ LeadsIn(M)[k] = LeadsIn(M)[doc.ref[k]]
             /\ LeadsIn(L)[k] = LeadsIn(L)[doc.ref[k]]
  <2>1. k \in Nodes /\ doc.ref[k] \in 0..Size /\ doc.ref[k] # 0
    BY <1>2, KindFacts DEF Follows
  <2>2. Follows(L, k) BY <1>2 DEF Follows
  <2> QED BY <1>2, <2>1, <2>2, LeadsEquation
<1>3. ASSUME wrong # {} PROVE FALSE
  <2>1. wrong \subseteq Nat OBVIOUS
  <2>2. PICK k \in wrong : \A m \in wrong : k <= m BY <1>3, <2>1, Least
  <2>3. Follows(M, k) BY <1>1, <2>2
  <2>4. doc.ref[k] \in wrong BY <1>2, <2>2, <2>3
  <2>5. ~ (doc.ref[k] < k) /\ k \in Nodes BY <1>2, <2>2, <2>3, <2>4
  <2>6. doc.kind[doc.ref[k]] # "reference" BY <2>5, <1>2, <2>2, <2>3, KindFacts
  <2>7. \A N : ~ Follows(N, doc.ref[k]) BY <2>6 DEF Follows
  <2>8. \A N : LeadsIn(N)[doc.ref[k]] = doc.ref[k] BY <2>4, <2>7, LeadsEquation
  <2> QED BY <2>4, <2>8
<1> QED BY <1>3

-----------------------------------------------------------------------------
(* instantiate().                                                          *)

\* What has been instantiated has its parents, and here is where it goes on.
Cursor ==
  /\ made \subseteq 0..Size
  /\ 0 \in made /\ here \in made
  /\ doc.kind[here] \in {"object", "group", "list"}
  /\ \A m \in made \cap Nodes : doc.parent[m] \in made

\* The document is instantiated in its order, up to here.
InOrder ==
  /\ \A m \in made : \A n \in Nodes :
       n < m /\ doc.kind[n] # "provided" => n \in made
  /\ \A m \in made : m <= here \/ here \in Path[m]

\* What has been left is complete: its children are there, and objects are
\* configured and provide what they do.
Left == made \ Path[here]
Complete ==
  /\ \A n \in Nodes :
       doc.kind[n] # "provided" /\ doc.parent[n] \in Left => n \in made
  /\ \A n \in Left : doc.kind[n] = "object" => n \in configured
  /\ \A n \in configured :
       \/ doc.kind[n] = "object" /\ n \in Left
       \/ doc.kind[n] = "provided" /\ doc.parent[n] \in configured
  /\ configured \subseteq Nodes
  /\ \A n \in Nodes : doc.kind[n] = "provided" =>
       /\ n \in made => doc.parent[n] \in configured
       /\ doc.parent[n] \in configured => n \in configured /\ n \in made

\* Validated children of objects lead to something before them, or to nothing;
\* validated elements of lists to something that is there before the list is
\* complete.
ChildValidated(c) ==
  \/ phase = "failed" /\ here = doc.parent[c]
  \/ Null(Leads[c])
  \/ doc.kind[Leads[c]] # "reference" /\ Leads[c] < c

ElementValidated(c) ==
  \/ phase = "failed" /\ here = doc.parent[doc.parent[c]]
  \/ Null(Leads[c])
  \/ /\ doc.kind[Leads[c]] # "reference"
     /\ \/ Leads[c] < doc.parent[c]
        \/ doc.parent[c] \in Path[Leads[c]]

Validated ==
  /\ \A c \in made \cap Nodes :
       doc.kind[c] = "reference" /\ doc.kind[doc.parent[c]] = "object" =>
         ChildValidated(c)
  /\ \A c \in Nodes :
       doc.kind[c] = "reference" /\ doc.kind[doc.parent[c]] = "list" =>
         (doc.parent[c] \in Left => ElementValidated(c))

\* The document is complete when it is ready.
Loaded == phase = "ready" => here = 0 /\ Missing = {}

\* The inductive invariant of the instantiation.
Loading == Tree /\ Cursor /\ InOrder /\ Complete /\ Validated /\ Loaded

\* Leads, before and after a step.
LEMMA LeadsAre == Leads = LeadsIn(made)
BY DEF Leads, LeadsIn

LEMMA LeadsNext ==
  ASSUME doc' = doc
  PROVE  Leads' = LeadsIn(made') /\ Path' = Path
<1>1. Leads' = LeadsIn(made') BY DEF Leads, LeadsIn
<1>2. Path' = Path BY Zenon DEF Path
<1> QED BY <1>1, <1>2

\* The path of what has been instantiated has been instantiated.
LEMMA PathMade ==
  ASSUME Tree, Cursor
  PROVE  \A n \in made : Path[n] \subseteq made
BY PathLeast DEF Cursor

\* All before the next child is there.
LEMMA AllBefore ==
  ASSUME Tree, Cursor, InOrder, Complete,
         NEW n \in Nodes, doc.parent[n] = here, \A m \in Missing : n <= m
  PROVE  \A k \in Nodes : k < n /\ doc.kind[k] # "provided" => k \in made
<1> USE TreeFacts
<1> DEFINE wrong == {k \in Nodes : /\ k < n /\ doc.kind[k] # "provided"
                                   /\ k \notin made}
<1>1. ASSUME wrong # {} PROVE FALSE
  <2>1. wrong \subseteq Nat OBVIOUS
  <2>2. PICK k \in wrong : \A m \in wrong : k <= m BY <1>1, <2>1, Least
  <2> DEFINE p == doc.parent[k]
  <2>3. p \in 0..Size /\ p < k /\ p \notin wrong BY <2>2
  <2>4. doc.kind[p] # "provided" BY <2>2, KindFacts
  <2>5. p \in made BY <2>2, <2>3, <2>4 DEF Cursor
  <2>6. p \in Path[here] BY <2>2, <2>5 DEF Complete, Left
  <2>7. p <= here /\ here \in 0..Size BY <2>6, PathTransitive DEF Cursor
  <2>8. p # here BY <2>2 DEF Missing, Children
  <2>9. k > here
    <3>1. here \in made BY DEF Cursor
    <3>2. k # here BY <2>2, <3>1
    <3>3. ~ (k < here) BY <2>2, <3>1 DEF InOrder
    <3> QED BY <2>2, <2>7, <3>2, <3>3
  <2> QED BY <2>2, <2>3, <2>7, <2>8, <2>9
<1> QED BY <1>1

\* The same, of the tree as it is and as it is after a step.
LEMMA LeadsSettled ==
  ASSUME Tree, doc' = doc, made \subseteq made', NEW c \in Nodes,
         Null(Leads[c]) \/ doc.kind[Leads[c]] # "reference"
  PROVE  Leads'[c] = Leads[c]
<1>1. c \in 0..Size BY TreeFacts
<1>2. Leads = LeadsIn(made) /\ Leads' = LeadsIn(made')
  BY LeadsAre, LeadsNext
<1>3. Null(Leads[c]) => Leads[c] # 0 /\ doc.ref[Leads[c]] = 0
  BY KindFacts DEF Null
<1> QED BY <1>1, <1>2, <1>3, LeadsKept

\* Null is about the document.
LEMMA NullKept == ASSUME doc' = doc, NEW n PROVE Null(n)' <=> Null(n)
BY DEF Null

\* Once validated stays validated.
LEMMA ValidatedKept ==
  ASSUME Tree, doc' = doc, made \subseteq made', phase # "failed"
  PROVE  \A c \in Nodes : /\ ChildValidated(c) => ChildValidated(c)'
                          /\ ElementValidated(c) => ElementValidated(c)'
<1> SUFFICES ASSUME NEW c \in Nodes
             PROVE  /\ ChildValidated(c) => ChildValidated(c)'
                    /\ ElementValidated(c) => ElementValidated(c)'
  OBVIOUS
<1>1. Path' = Path BY LeadsNext
<1>2. CASE Null(Leads[c]) \/ doc.kind[Leads[c]] # "reference"
  <2>1. Leads'[c] = Leads[c] BY <1>2, LeadsSettled
  <2> QED BY <1>1, <2>1, NullKept DEF ChildValidated, ElementValidated, Null
<1>3. CASE ~ (Null(Leads[c]) \/ doc.kind[Leads[c]] # "reference")
  BY <1>3 DEF ChildValidated, ElementValidated
<1> QED BY <1>2, <1>3

\* A step into a child: what has been left stays the same.
LEMMA LeftInto ==
  ASSUME Tree, Cursor, NEW n \in Nodes, Instantiate(n)
  PROVE  /\ n \notin made /\ doc.parent[n] = here /\ doc.kind[n] # "provided"
         /\ doc' = doc /\ Path' = Path /\ made' = made \cup {n}
         /\ configured' = configured
         /\ here' = IF doc.kind[n] = "reference" THEN here ELSE n
         /\ Left' = IF doc.kind[n] = "reference" THEN Left \cup {n} ELSE Left
         /\ Path[n] = {n} \cup Path[here]
<1>1. /\ n \notin made /\ doc.parent[n] = here /\ doc.kind[n] # "provided"
      /\ doc' = doc /\ made' = made \cup {n} /\ configured' = configured
      /\ here' = IF doc.kind[n] = "reference" THEN here ELSE n
  BY DEF Instantiate, Missing, Children
<1>2. Path' = Path BY <1>1, LeadsNext
<1>3. Path[n] = {n} \cup Path[here] BY <1>1, PathFacts
<1>4. Path[here] \subseteq made BY PathMade DEF Cursor
<1>5. Left' = IF doc.kind[n] = "reference" THEN Left \cup {n} ELSE Left
  BY <1>1, <1>2, <1>3, <1>4 DEF Left
<1> QED BY <1>1, <1>2, <1>3, <1>5

\* What here provides.
Provided == {n \in Children(here) : doc.kind[n] = "provided"}

\* A step back out of what is complete.
LEMMA LeftOut ==
  ASSUME Tree, Cursor, here # 0, doc' = doc, here' = doc.parent[here],
         made' = made \cup Provided
  PROVE  /\ Path' = Path
         /\ Path[here] = {here} \cup Path[here']
         /\ Left' = Left \cup {here} \cup Provided
         /\ here \in Nodes /\ here' \in made
<1>1. here \in Nodes /\ here \in 0..Size BY TreeFacts DEF Cursor
<1>2. Path' = Path BY LeadsNext
<1>3. Path[here] = {here} \cup Path[here'] BY <1>1, PathFacts
<1>4. Path[here'] \subseteq 0..(here') /\ here' < here /\ here' \in Nat
  BY <1>1, PathFacts, TreeFacts
<1>5. here \notin Path[here'] BY <1>4
<1>6. Provided \cap Path[here] = {}
  <2>1. \A m \in Path[here] : m <= here BY <1>1, PathTransitive
  <2>2. \A m \in Provided : m \in Nat /\ here \in Nat /\ here < m
    BY <1>1, TreeFacts DEF Children, Provided
  <2>3. ASSUME NEW m \in Provided, m \in Path[here] PROVE FALSE
    BY <2>1, <2>2, <2>3
  <2> QED BY <2>3
<1>7. Left' = Left \cup {here} \cup Provided
  BY <1>2, <1>3, <1>5, <1>6 DEF Left, Cursor
<1>8. here' \in made BY <1>1 DEF Cursor
<1> QED BY <1>1, <1>2, <1>3, <1>7, <1>8

\* instantiate() keeps the invariant when it adds a node,
LEMMA InstantiateKeeps ==
  ASSUME Loading, NEW n \in Nodes, Instantiate(n)
  PROVE  Loading'
<1> USE TreeFacts
<1>0. Tree /\ Cursor /\ InOrder /\ Complete /\ Validated /\ Loaded
  BY DEF Loading
<1>1. /\ n \notin made /\ doc.parent[n] = here /\ doc.kind[n] # "provided"
      /\ doc' = doc /\ Path' = Path /\ made' = made \cup {n}
      /\ configured' = configured
      /\ here' = IF doc.kind[n] = "reference" THEN here ELSE n
      /\ Left' = IF doc.kind[n] = "reference" THEN Left \cup {n} ELSE Left
      /\ Path[n] = {n} \cup Path[here]
  BY <1>0, LeftInto
<1>2. /\ phase = "loading" /\ \A m \in Missing : n <= m
      /\ phase' \in {"loading", "failed"}
      /\ doc.kind[here] = "object" /\ ~ Valid(n) => phase' = "failed"
  BY DEF Instantiate
<1>3. Tree' BY <1>0, <1>1 DEF Tree
<1>4. Cursor'
  <2>1. doc.kind[n] \in Kinds BY <1>0, KindFacts
  <2> QED BY <1>0, <1>1, <2>1 DEF Cursor, Kinds
<1>5. \A k \in Nodes : k < n /\ doc.kind[k] # "provided" => k \in made
  BY <1>0, <1>1, <1>2, AllBefore
<1>6. \A m \in made : m < n
  <2>1. \A m \in made : m \in Nat /\ m # n BY <1>0, <1>1 DEF Cursor
  <2>2. \A m \in made : ~ (n < m) BY <1>0, <1>1 DEF InOrder
  <2> QED BY <1>0, <2>1, <2>2
<1>7. InOrder'
  <2>1. \A m \in made' : \A k \in Nodes :
          k < m /\ doc.kind[k] # "provided" => k \in made'
    BY <1>0, <1>1, <1>5 DEF InOrder
  <2>2. \A m \in made' : m <= here' \/ here' \in Path[m]
    <3>1. CASE doc.kind[n] = "reference"
      <4>1. here \in Path[n] BY <1>0, <1>1, PathFacts DEF Cursor
      <4> QED BY <1>0, <1>1, <3>1, <4>1 DEF InOrder
    <3>2. CASE doc.kind[n] # "reference"
      BY <1>0, <1>1, <1>6, <3>2 DEF Cursor
    <3> QED BY <3>1, <3>2
  <2> QED BY <1>1, <2>1, <2>2 DEF InOrder
<1>8. Complete'
  <2>1. \A k \in Nodes : doc.kind[k] # "provided" /\ doc.parent[k] \in Left'
          => k \in made'
    <3>1. doc.kind[n] = "reference" => \A k \in Nodes : doc.parent[k] # n
      BY <1>0, KindFacts
    <3> QED BY <1>0, <1>1, <3>1 DEF Complete
  <2>2. \A k \in Left' : doc.kind[k] = "object" => k \in configured
    BY <1>0, <1>1 DEF Complete
  <2>3. Left \subseteq Left' BY <1>1
  <2> QED BY <1>0, <1>1, <2>1, <2>2, <2>3 DEF Complete
<1>9. Validated'
  <2>1. \A c \in Nodes : /\ ChildValidated(c) => ChildValidated(c)'
                         /\ ElementValidated(c) => ElementValidated(c)'
    BY <1>0, <1>1, <1>2, ValidatedKept
  <2>2. ASSUME NEW c \in made' \cap Nodes, doc.kind[c] = "reference",
               doc.kind[doc.parent[c]] = "object"
        PROVE  ChildValidated(c)'
    <3>1. CASE c \in made
      BY <1>0, <2>1, <2>2, <3>1 DEF Validated
    <3>2. CASE c = n /\ ~ Valid(n)
      BY <1>1, <1>2, <2>2, <3>2 DEF ChildValidated
    <3>3. CASE c = n /\ Valid(n)
      <4>1. Null(Leads[c]) \/ doc.kind[Leads[c]] # "reference"
        BY <2>2, <3>3 DEF Valid
      <4>2. Leads[c] \in made \/ doc.kind[Leads[c]] = "reference"
        BY <1>0, <2>2, LeadsFacts, LeadsAre
      <4>3. ChildValidated(c) BY <1>6, <3>3, <4>1, <4>2 DEF ChildValidated
      <4> QED BY <2>1, <4>3
    <3> QED BY <1>1, <3>1, <3>2, <3>3
  <2>3. ASSUME NEW c \in Nodes, doc.kind[c] = "reference",
               doc.kind[doc.parent[c]] = "list", doc.parent[c] \in Left'
        PROVE  ElementValidated(c)'
    <3>1. doc.parent[c] \in Left BY <1>1, <2>3
    <3> QED BY <1>0, <2>1, <2>3, <3>1 DEF Validated
  <2> QED BY <1>1, <2>2, <2>3 DEF Validated
<1>10. Loaded' BY <1>2 DEF Loaded
<1> QED BY <1>3, <1>4, <1>7, <1>8, <1>9, <1>10 DEF Loading

\* Leaving what is complete, which adds what it provides.
LEMMA LeaveKeeps ==
  ASSUME Loading, here # 0, phase = "loading", Missing = {},
         doc' = doc, here' = doc.parent[here],
         made' = made \cup Provided
  PROVE  /\ Tree' /\ Cursor' /\ InOrder'
         /\ \A n \in Nodes :
              doc.kind[n] # "provided" /\ doc.parent[n] \in Left'
              => n \in made'
<1> USE TreeFacts
<1>0. Tree /\ Cursor /\ InOrder /\ Complete BY DEF Loading
<1>1. /\ Path' = Path
      /\ Path[here] = {here} \cup Path[here']
      /\ Left' = Left \cup {here} \cup Provided
      /\ here \in Nodes /\ here' \in made
  BY <1>0, LeftOut
<1>2. here \in 0..Size /\ here' \in 0..Size /\ here' < here
      /\ here \in Path[here] /\ here' \in Path[here]
  BY <1>1, <1>0, PathFacts
<1>3. Tree' BY <1>0 DEF Tree
<1>4. Cursor'
  <2>1. /\ \A n \in Provided :
             n \in Nodes /\ n \in 0..Size /\ doc.parent[n] = here
        /\ doc.kind[here'] \in {"object", "group", "list"}
    BY <1>0, <1>1, TreeFacts, KindFacts DEF Children, Provided
  <2> QED BY <1>0, <1>1, <2>1 DEF Cursor
<1>5. InOrder'
  <2>1. ASSUME NEW m \in made', NEW k \in Nodes,
               k < m, doc.kind[k] # "provided"
        PROVE  k \in made'
    <3>1. CASE m \in made BY <1>0, <2>1, <3>1 DEF InOrder
    <3>2. CASE m \in Provided
      <4>1. m \in Nodes /\ doc.parent[m] = here BY <3>2 DEF Children, Provided
      <4> QED BY <1>0, <2>1, <4>1, AllBefore
    <3> QED BY <3>1, <3>2
  <2>2. ASSUME NEW m \in made' PROVE m <= here' \/ here' \in Path[m]
    <3>1. m \in 0..Size BY <1>0, <1>4 DEF Cursor
    <3>2. CASE m \in made /\ m <= here
      <4>1. m <= here' \/ here' <= m BY <1>2, <3>1
      <4> QED BY <1>0, <1>2, <3>1, <3>2, <4>1, Contiguous
    <3>3. CASE here \in Path[m]
      BY <1>0, <1>2, <3>1, <3>3, PathTransitive
    <3>4. CASE m \in Provided
      <4>1. here \in Path[m]
        <5>1. m \in Nodes /\ doc.parent[m] = here
          BY <3>4 DEF Children, Provided
        <5> QED BY <1>0, <1>2, <5>1, PathFacts
      <4> QED BY <3>3, <4>1
    <3> QED BY <1>0, <3>2, <3>3, <3>4 DEF InOrder
  <2> QED BY <1>1, <2>1, <2>2 DEF InOrder
<1>6. ASSUME NEW n \in Nodes, doc.kind[n] # "provided", doc.parent[n] \in Left'
      PROVE  n \in made'
  <2>1. CASE doc.parent[n] \in Left BY <1>0, <1>6, <2>1 DEF Complete
  <2>2. CASE doc.parent[n] = here
    BY <1>6, <2>2 DEF Missing, Children
  <2>3. CASE doc.parent[n] \in Provided
    BY <1>0, <1>6, <2>3, KindFacts DEF Children, Provided
  <2> QED BY <1>1, <1>6, <2>1, <2>2, <2>3
<1> QED BY <1>3, <1>4, <1>5, <1>6

\* when it has done with a list or group and validates what is in a list,
LEMMA CompleteListKeeps ==
  ASSUME Loading, CompleteList
  PROVE  Loading'
<1> USE TreeFacts
<1>0. Tree /\ Cursor /\ InOrder /\ Complete /\ Validated /\ Loaded
  BY DEF Loading
<1>1. /\ doc' = doc /\ made' = made /\ configured' = configured
      /\ Missing = {} /\ phase = "loading"
      /\ doc.kind[here] \in {"group", "list"}
      /\ here' = IF here = 0 THEN 0 ELSE doc.parent[here]
  BY DEF CompleteList
<1>2. Path' = Path /\ Leads' = Leads BY <1>1, LeadsNext, LeadsAre
<1>3. CASE here = 0
  <2>1. here' = here /\ phase' = "ready" BY <1>1, <1>3 DEF CompleteList
  <2>2. Left' = Left /\ Missing' = Missing /\ Tree'
    BY <1>0, <1>1, <1>2, <2>1 DEF Left, Missing, Children, Tree
  <2>3. Cursor' /\ InOrder' /\ Complete'
    BY <1>0, <1>1, <1>2, <2>1, <2>2 DEF Cursor, InOrder, Complete
  <2>4. Validated'
    BY <1>0, <1>1, <1>2, <2>1, <2>2
       DEF Validated, ChildValidated, ElementValidated, Null
  <2> QED BY <1>1, <1>3, <2>1, <2>2, <2>3, <2>4 DEF Loading, Loaded
<1>4. CASE here # 0
  <2>1. /\ here' = doc.parent[here] /\ phase' \in {"loading", "failed"}
        /\ doc.kind[here] = "list" /\ (\E c \in Children(here) : ~ Valid(c))
             => phase' = "failed"
    BY <1>1, <1>4 DEF CompleteList
  <2>2. \A n \in Children(here) : doc.kind[n] # "provided"
    BY <1>0, <1>1, KindFacts DEF Children
  <2>8. Provided = {} BY <2>2 DEF Provided
  <2>9. made' = made \cup Provided BY <1>1, <2>8
  <2>3. /\ Left' = Left \cup {here} /\ here \in Nodes
        /\ Path[here] = {here} \cup Path[here']
    <3>1. /\ Left' = Left \cup {here} \cup Provided /\ here \in Nodes
          /\ Path[here] = {here} \cup Path[here']
      BY <1>0, <1>1, <1>4, <2>1, <2>9, LeftOut
    <3> QED BY <2>8, <3>1
  <2>4. /\ Tree' /\ Cursor' /\ InOrder'
        /\ \A n \in Nodes : doc.kind[n] # "provided" /\ doc.parent[n] \in Left'
              => n \in made'
    BY <1>1, <1>4, <2>1, <2>9, LeaveKeeps
  <2>5. Complete'
    BY <1>0, <1>1, <2>3, <2>4 DEF Complete
  <2>6. Validated'
    <3>1. \A c \in Nodes : /\ ChildValidated(c) => ChildValidated(c)'
                           /\ ElementValidated(c) => ElementValidated(c)'
      BY <1>0, <1>1, ValidatedKept
    <3>2. ASSUME NEW c \in Nodes, doc.kind[c] = "reference",
                 doc.kind[doc.parent[c]] = "list", doc.parent[c] \in Left'
          PROVE  ElementValidated(c)'
      <4>1. CASE doc.parent[c] \in Left BY <1>0, <3>1, <3>2, <4>1 DEF Validated
      <4>2. CASE doc.parent[c] = here /\ ~ Valid(c)
        <5>1. phase' = "failed" BY <2>1, <3>2, <4>2 DEF Children
        <5> QED BY <1>1, <2>1, <4>2, <5>1 DEF ElementValidated
      <4>3. CASE doc.parent[c] = here /\ Valid(c)
        <5>1. Null(Leads[c]) \/ doc.kind[Leads[c]] # "reference"
          BY <3>2, <4>3 DEF Valid
        <5>2. \/ Null(Leads[c])
              \/ /\ Leads[c] \in made
                 /\ doc.kind[Leads[c]] \in {"object", "provided"}
          BY <1>0, <3>2, <5>1, LeadsFacts, LeadsAre
        <5>3. CASE /\ Leads[c] \in made
                   /\ doc.kind[Leads[c]] \in {"object", "provided"}
          <6>1. Leads[c] <= here \/ here \in Path[Leads[c]]
            BY <1>0, <5>3 DEF InOrder
          <6>2. Leads[c] # here BY <3>2, <4>3, <5>3
          <6>3. here \in Nat /\ Leads[c] \in Nat
            BY <1>0, <5>3 DEF Cursor
          <6>4. Leads[c] < here \/ here \in Path[Leads[c]]
            BY <6>1, <6>2, <6>3
          <6>5. ElementValidated(c)
            BY <4>3, <5>3, <6>4 DEF ElementValidated
          <6> QED BY <3>1, <6>5
        <5>4. CASE Null(Leads[c])
          BY <3>1, <5>4 DEF ElementValidated
        <5> QED BY <5>2, <5>3, <5>4
      <4> QED BY <2>3, <3>2, <4>1, <4>2, <4>3
    <3>3. ASSUME NEW c \in made \cap Nodes, doc.kind[c] = "reference",
                 doc.kind[doc.parent[c]] = "object"
          PROVE  ChildValidated(c)'
      BY <1>0, <3>1, <3>3 DEF Validated
    <3> QED BY <1>1, <3>2, <3>3 DEF Validated
  <2>7. Loaded' BY <2>1 DEF Loaded
  <2> QED BY <2>4, <2>5, <2>6, <2>7 DEF Loading
<1> QED BY <1>3, <1>4

\* and when it configures an object.
LEMMA ConfigureKeeps ==
  ASSUME Loading, Configure
  PROVE  Loading'
<1> USE TreeFacts
<1>0. Tree /\ Cursor /\ InOrder /\ Complete /\ Validated /\ Loaded
  BY DEF Loading
<1>1. /\ doc' = doc /\ phase' = phase /\ phase = "loading" /\ Missing = {}
      /\ doc.kind[here] = "object" /\ here' = doc.parent[here]
      /\ made' = made \cup Children(here)
      /\ configured' = configured \cup {here} \cup (Children(here) \ made)
  BY DEF Configure
<1>2. here # 0 BY <1>0, <1>1, KindFacts
<1>3. \A n \in Children(here) : doc.kind[n] # "provided" => n \in made
  BY <1>1 DEF Missing
<1>4. here \in made /\ here \notin Left /\ here \notin configured
  <2>1. here \in made /\ here \in Path[here] BY <1>0, PathFacts DEF Cursor
  <2>2. here \notin Left BY <2>1 DEF Left
  <2> QED BY <1>0, <1>1, <2>1, <2>2 DEF Complete
<1>5. \A n \in Provided : n \in Nodes /\ doc.parent[n] = here /\ n \notin made
  BY <1>0, <1>4 DEF Complete, Children, Provided
<1>6. made' = made \cup Provided /\ Provided \subseteq Children(here)
      /\ configured' = configured \cup {here} \cup Provided
      /\ \A n \in Children(here) : doc.kind[n] = "provided" <=> n \in Provided
  BY <1>1, <1>3, <1>5 DEF Provided
<1>7. /\ Path' = Path
      /\ Path[here] = {here} \cup Path[here']
      /\ Left' = Left \cup {here} \cup Provided
      /\ here \in Nodes /\ here' \in made
  BY <1>0, <1>1, <1>2, <1>6, LeftOut
<1>8. /\ Tree' /\ Cursor' /\ InOrder'
      /\ \A n \in Nodes : doc.kind[n] # "provided" /\ doc.parent[n] \in Left'
            => n \in made'
  BY <1>1, <1>2, <1>6, LeaveKeeps
<1>9. Complete'
  <2>1. \A n \in Left' : doc.kind[n] = "object" => n \in configured'
    <3>1. \A n \in Provided : doc.kind[n] = "provided" BY <1>6
    <3> QED BY <1>0, <1>6, <1>7, <3>1 DEF Complete
  <2>2. \A n \in configured' :
          \/ doc.kind[n] = "object" /\ n \in Left'
          \/ doc.kind[n] = "provided" /\ doc.parent[n] \in configured'
    <3>1. \A n \in Provided : doc.kind[n] = "provided" /\ doc.parent[n] = here
      BY <1>5, <1>6
    <3> QED BY <1>0, <1>1, <1>6, <1>7, <3>1 DEF Complete
  <2>3. configured' \subseteq Nodes BY <1>0, <1>5, <1>6, <1>7 DEF Complete
  <2>4. \A n \in Nodes : doc.kind[n] = "provided" =>
          /\ n \in made' => doc.parent[n] \in configured'
          /\ doc.parent[n] \in configured' => n \in configured' /\ n \in made'
    <3> SUFFICES ASSUME NEW n \in Nodes, doc.kind[n] = "provided"
                 PROVE  /\ n \in made' => doc.parent[n] \in configured'
                        /\ doc.parent[n] \in configured' =>
                             n \in configured' /\ n \in made'
      OBVIOUS
    <3>1. doc.parent[n] = here => n \in Provided BY <1>6 DEF Children
    <3>2. doc.parent[n] \notin Provided BY <1>6, KindFacts, <1>0
    <3> QED BY <1>0, <1>5, <1>6, <3>1, <3>2 DEF Complete
  <2> QED BY <1>1, <1>8, <2>1, <2>2, <2>3, <2>4 DEF Complete
<1>10. Validated'
  <2>1. \A c \in Nodes : /\ ChildValidated(c) => ChildValidated(c)'
                         /\ ElementValidated(c) => ElementValidated(c)'
    BY <1>0, <1>1, ValidatedKept
  <2>2. \A c \in Provided : doc.kind[c] # "reference" BY <1>6
  <2>3. \A c \in Left' : doc.kind[c] = "list" => c \in Left
    BY <1>1, <1>6, <1>7
  <2> QED BY <1>0, <1>1, <1>6, <2>1, <2>2, <2>3 DEF Validated
<1>11. Loaded' BY <1>1 DEF Loaded
<1> QED BY <1>8, <1>9, <1>10, <1>11 DEF Loading

\* A walk leaves the tree alone.
LEMMA NothingLoaded ==
  ASSUME Loading, UNCHANGED <<doc, phase, made, here, configured>>
  PROVE  Loading'
<1>0. Tree /\ Cursor /\ InOrder /\ Complete /\ Validated /\ Loaded
  BY DEF Loading
<1>1. Path' = Path /\ Leads' = Leads BY LeadsNext, LeadsAre
<1>2. Left' = Left /\ Missing' = Missing /\ Tree'
  BY <1>0, <1>1 DEF Left, Missing, Children, Tree
<1>3. Cursor' /\ InOrder' /\ Complete' /\ Loaded'
  BY <1>0, <1>1, <1>2 DEF Cursor, InOrder, Complete, Loaded
<1>4. Validated'
  BY <1>0, <1>1, <1>2
     DEF Validated, ChildValidated, ElementValidated, Null
<1> QED BY <1>2, <1>3, <1>4 DEF Loading

\* Every step keeps the invariant.
LEMMA LoadingKept ==
  ASSUME Loading, [Next]_vars
  PROVE  Loading'
<1>1. CASE UNCHANGED vars BY <1>1, NothingLoaded
<1>2. ASSUME NEW n \in Nodes, Instantiate(n) PROVE Loading'
  BY <1>2, InstantiateKeeps
<1>3. ASSUME NEW n \in Nodes, Walk(n) \/ Visit(n) PROVE Loading'
  BY <1>3, NothingLoaded DEF Walk, Visit
<1>4. CASE CompleteList BY <1>4, CompleteListKeeps
<1>5. CASE Configure BY <1>5, ConfigureKeeps
<1>6. CASE Reconfigure BY <1>6, NothingLoaded DEF Reconfigure
<1>7. CASE Finished BY <1>7, NothingLoaded DEF Finished
<1> QED BY <1>1, <1>2, <1>3, <1>4, <1>5, <1>6, <1>7 DEF Next

\* It holds of the empty tree.
LEMMA LoadingInit == Init => Loading
<1> SUFFICES ASSUME Init PROVE Loading OBVIOUS
<1>1. Tree BY ConfigurationAssumption DEF Init, Tree
<1>2. /\ made = {0} /\ here = 0 /\ configured = {} /\ phase = "loading"
  BY DEF Init
<1>3. Path[0] = {0} /\ doc.kind[0] = "group" BY <1>1, PathFacts, KindFacts
<1>4. Left = {} BY <1>2, <1>3 DEF Left
<1>5. 0 \notin Nodes /\ 0 \in 0..Size BY <1>1, TreeFacts
<1>6. Cursor /\ InOrder
  BY <1>1, <1>2, <1>3, <1>5, TreeFacts DEF Cursor, InOrder
<1>7. Complete
  <2>1. \A n \in Nodes : n \notin made BY <1>2, <1>5
  <2> QED BY <1>2, <1>4, <2>1 DEF Complete
<1>8. Validated
  <2>1. \A n \in Nodes : n \notin made BY <1>2, <1>5
  <2> QED BY <1>4, <2>1 DEF Validated
<1>9. Loaded BY <1>2 DEF Loaded
<1> QED BY <1>1, <1>6, <1>7, <1>8, <1>9 DEF Loading

\* The invariant says enough about what an object finds when it is configured.
LEMMA LoadingOrders == Loading => ConfiguredFirst
<1> SUFFICES ASSUME Loading,
                    NEW n \in configured, NEW c \in Parameters(n),
                    doc.kind[c] # "list", ~ Null(Leads[c]),
                    Leads[c] \notin configured \cup Path[n]
             PROVE  FALSE
  BY DEF ConfiguredFirst
<1>0. Tree /\ Cursor /\ InOrder /\ Complete /\ Validated BY DEF Loading
<1> USE <1>0, TreeFacts
<1> DEFINE d == Leads[c]
           p == doc.parent[c]
<1>1. c \in Nodes /\ (p = n \/ (doc.kind[p] = "list" /\ doc.parent[p] = n))
  BY DEF Parameters
<1>2. p \in 0..Size /\ p \in Nodes
  <2>1. n \in Nodes BY DEF Complete
  <2> QED BY <1>1, <2>1, KindFacts
<1>3. doc.kind[n] = "object" /\ n \in Left /\ n \in made
  <2>1. doc.kind[n] # "provided" BY <1>1, <1>2, KindFacts
  <2>2. doc.kind[n] = "object" /\ n \in Left BY <2>1 DEF Complete
  <2> QED BY <2>2 DEF Left
<1>4. n \in Nodes BY DEF Complete
\* What is complete only has what is complete in it.
<1>5. \A m \in made : n \in Path[m] => m \in Left
  <2>1. n \notin Path[here] BY <1>3 DEF Left
  <2> SUFFICES ASSUME NEW m \in made, n \in Path[m], m \in Path[here]
               PROVE  FALSE
    BY DEF Left
  <2> QED BY <2>1, PathTransitive DEF Cursor
<1>6. p \in Left /\ n \in Path[p] /\ doc.kind[p] \in {"object", "list"}
  <2>1. CASE p = n BY <1>3, <1>4, <2>1, PathFacts
  <2>2. CASE doc.kind[p] = "list" /\ doc.parent[p] = n
    <3>1. p \in made BY <1>2, <1>3, <2>2 DEF Complete
    <3>2. n \in Path[p] BY <1>2, <1>4, <2>2, PathFacts
    <3> QED BY <1>5, <2>2, <3>1, <3>2
  <2> QED BY <1>1, <2>1, <2>2
<1>7. n \in Path[c] /\ p \in Path[c]
  <2>1. p \in Path[p] /\ Path[c] = {c} \cup Path[p] BY <1>1, <1>2, PathFacts
  <2> QED BY <1>6, <2>1
<1>8. CASE doc.kind[c] = "provided"
  <2>1. d = c BY <1>1, <1>8, LeadsFacts, LeadsAre
  <2>2. doc.kind[p] = "object" BY <1>1, <1>8, KindFacts
  <2>3. p = n BY <1>1, <2>2
  <2> QED BY <1>1, <1>8, <2>1, <2>3 DEF Complete
<1>9. CASE doc.kind[c] = "object"
  <2>1. d = c BY <1>1, <1>9, LeadsFacts, LeadsAre
  <2>2. c \in made BY <1>1, <1>6, <1>9 DEF Complete
  <2>3. c \in configured BY <1>5, <1>7, <1>9, <2>2 DEF Complete
  <2> QED BY <2>1, <2>3
<1>10. CASE doc.kind[c] = "reference"
  <2>1. c \in made BY <1>1, <1>6, <1>10 DEF Complete
  <2>2. ~ (phase = "failed" /\ here = n)
    BY <1>3, PathFacts DEF Left, Cursor
  <2>3. doc.kind[d] # "reference" /\ (d < c \/ p \in Path[d])
    <3>1. CASE p = n
      BY <1>1, <1>3, <1>10, <2>1, <2>2, <3>1 DEF Validated, ChildValidated
    <3>2. CASE doc.kind[p] = "list" /\ doc.parent[p] = n
      <4>1. ElementValidated(c) BY <1>1, <1>6, <1>10, <3>2 DEF Validated
      <4>2. doc.kind[d] # "reference" /\ (d < p \/ p \in Path[d])
        BY <2>2, <3>2, <4>1 DEF ElementValidated
      <4>3. d < p => d < c
        <5>1. d \in 0..Size BY <1>1, LeadsFacts, LeadsAre
        <5> QED BY <1>1, <1>2, <5>1
      <4> QED BY <4>2, <4>3
    <3> QED BY <1>1, <3>1, <3>2
  <2>4. /\ d \in made /\ d \in 0..Size
        /\ doc.kind[d] \in {"object", "provided"}
    BY <1>1, <1>10, <2>3, LeadsFacts, LeadsAre
  <2>5. d \in Nodes BY <2>4, KindFacts
  <2>6. doc.kind[d] = "object" /\ d \in Path[here]
    <3>1. doc.kind[d] # "provided" BY <2>4, <2>5 DEF Complete
    <3>2. d \notin Left BY <2>4, <3>1 DEF Complete
    <3> QED BY <2>4, <3>1, <3>2 DEF Left
  \* d is still being instantiated, so that all of it is what comes after it.
  <2>7. d < c
    <3>1. CASE p \in Path[d]
      <4>1. n \in Path[d] BY <1>6, <2>4, <3>1, PathTransitive
      <4> QED BY <1>5, <2>4, <2>6, <4>1 DEF Left
    <3> QED BY <2>3, <3>1
  <2>8. d \in Path[c]
    <3>1. CASE c <= here
      <4>1. d <= c BY <1>1, <2>4, <2>7
      <4> QED BY <1>1, <2>4, <2>6, <3>1, <4>1, Contiguous DEF Cursor
    <3>2. CASE here \in Path[c]
      BY <1>1, <2>6, <3>2, PathTransitive
    <3> QED BY <2>1, <3>1, <3>2 DEF InOrder
  <2>9. d \in Path[n]
    <3>1. Path[c] = {c} \cup Path[p] BY <1>1, PathFacts
    <3>2. d \in Path[p] BY <1>1, <2>4, <2>7, <2>8, <3>1
    <3>3. p # n => Path[p] = {p} \cup Path[n] BY <1>1, <1>2, PathFacts
    <3>4. p # n => d # p BY <1>1, <2>6
    <3> QED BY <3>2, <3>3, <3>4
  <2> QED BY <2>9
<1> QED
  <2>1. doc.kind[c] \in Kinds /\ doc.kind[c] # "group"
    BY <1>1, <1>6, KindFacts
  <2> QED BY <1>8, <1>9, <1>10, <2>1 DEF Kinds

\* configure() is "Only called once all parameters of the object have already
\* been set and configured" (configurable.h:736), whatever the document is, but
\* for parameters that are objects around it.
THEOREM ParametersFirst == Spec => []ConfiguredFirst
BY LoadingInit, LoadingKept, LoadingOrders, PTL DEF Spec

-----------------------------------------------------------------------------
(* reconfigure(): what a call has handled.                                 *)

\* Where the references lead does not change once the tree is there.
LEMMA SameTree ==
  ASSUME doc' = doc, made' = made
  PROVE  Leads' = Leads /\ Path' = Path
<1>1. Leads' = Leads BY Zenon DEF Leads
<1>2. Path' = Path BY Zenon DEF Path
<1> QED BY <1>1, <1>2

\* A child that needs no more attention in this walk.
Handled(n, c) ==
  \/ doc.kind[Leads[c]] = "reference"
  \/ Leads[c] \in done \cup Path[n]

Frames == [node : Nodes \cup {Leads[c] : c \in Nodes}, seen : SUBSET Nodes]

\* A call has handled the children it has visited, but for the one that the
\* next call is about; and nothing is walked before the tree is there.
Walking ==
  /\ phase # "ready" => stack = <<>> /\ done = {}
  /\ stack \in Seq(Frames)
  /\ \A i \in 1..Len(stack) : \A c \in stack[i].seen :
       \/ Handled(stack[i].node, c)
       \/ i < Len(stack) /\ stack[i + 1].node = Leads[c]
  /\ DependenciesFirst

\* A stack that is not empty has a top and something below it.
LEMMA StackFacts ==
  ASSUME NEW S, stack \in Seq(S), stack # <<>>
  PROVE  /\ Len(stack) \in Nat \ {0}
         /\ Top \in S /\ Top = stack[Len(stack)]
         /\ Above \in Seq(S) /\ Len(Above) = Len(stack) - 1
         /\ \A i \in 1..(Len(stack) - 1) : Above[i] = stack[i]
BY DEF Top, Above

LEMMA WalkingKept ==
  ASSUME Walking, [Next]_vars
  PROVE  Walking'
<1> USE DEF Walking, Frames, Handled, DependenciesFirst
<1>1. CASE UNCHANGED vars
  <2>1. Leads' = Leads /\ Path' = Path BY <1>1, SameTree
  <2> QED BY <1>1, <2>1 DEF Children
<1>2. ASSUME stack = <<>>, done = {}, stack' = stack, done' = done
      PROVE  Walking'
  BY <1>2
<1>3. ASSUME NEW n \in Nodes, Instantiate(n) PROVE Walking'
  BY <1>2, <1>3 DEF Instantiate
<1>4. CASE CompleteList BY <1>2, <1>4 DEF CompleteList
<1>5. CASE Configure BY <1>2, <1>5 DEF Configure
<1>6. ASSUME NEW n \in Nodes, Walk(n) PROVE Walking'
  BY <1>6 DEF Walk, Frame
<1>7. ASSUME NEW b \in Nodes, Visit(b) PROVE Walking'
  <2>1. /\ doc' = doc /\ done' = done /\ phase' = phase
        /\ Leads' = Leads /\ Path' = Path
    BY <1>7, SameTree DEF Visit
  <2> DEFINE k == Len(stack)
             new == [Top EXCEPT !.seen = @ \cup {b}]
  <2>2. stack \in Seq(Frames) /\ stack # <<>> BY <1>7 DEF Visit
  <2> HIDE DEF Frames
  <2>3. /\ k \in Nat \ {0} /\ Top \in Frames /\ Top = stack[k]
        /\ Above \in Seq(Frames) /\ Len(Above) = k - 1
        /\ \A i \in 1..(k - 1) : Above[i] = stack[i]
    BY <2>2, StackFacts
  <2>4. new \in Frames /\ new.node = Top.node /\ new.seen = Top.seen \cup {b}
    BY <2>3 DEF Frames
  <2>9. Frames' = Frames BY <2>1 DEF Frames
  <2> HIDE DEF new
  <2>5. CASE PassedOver(Top.node, b) /\ stack' = Append(Above, new)
    <3>1. stack' \in Seq(Frames) /\ Len(stack') = k BY <2>3, <2>4, <2>5
    <3>2. stack'[k] = new /\ \A i \in 1..(k - 1) : stack'[i] = stack[i]
      BY <2>3, <2>4, <2>5
    <3>3. Handled(Top.node, b) BY <2>5 DEF PassedOver, OnPath
    <3>4. \A i \in 1..k : /\ stack'[i].node = stack[i].node
                          /\ stack'[i].seen \subseteq stack[i].seen \cup
                               (IF i = k THEN {b} ELSE {})
      BY <2>3, <2>4, <3>2
    <3>5. \A i \in 1..k : \A c \in stack'[i].seen :
            \/ Handled(stack[i].node, c)
            \/ i < k /\ stack[i + 1].node = Leads[c]
      BY <2>3, <3>3, <3>4
    <3> QED BY <2>1, <2>2, <2>3, <2>9, <3>1, <3>4, <3>5 DEF Children
  <2>6. CASE stack' = Append(Append(Above, new), Frame(Leads[b]))
    <3> DEFINE call == Frame(Leads[b])
    <3>0. call \in Frames /\ call.node = Leads[b] /\ call.seen = {}
      BY DEF Frame, Frames
    <3> DEFINE seen == Append(Above, new)
    <3>6. stack' = Append(seen, call) BY <2>6
    <3> HIDE DEF call
    <3>7. /\ seen \in Seq(Frames) /\ Len(seen) = k /\ seen[k] = new
          /\ \A i \in 1..(k - 1) : seen[i] = stack[i]
      BY <2>3, <2>4
    <3> HIDE DEF seen
    <3>1. stack' \in Seq(Frames) /\ Len(stack') = k + 1
      BY <2>3, <3>0, <3>6, <3>7
    <3>2. /\ stack'[k] = new /\ stack'[k + 1] = call
          /\ \A i \in 1..(k - 1) : stack'[i] = stack[i]
      BY <2>3, <3>0, <3>6, <3>7
    <3>3. \A i \in 1..k : /\ stack'[i].node = stack[i].node
                          /\ stack'[i].seen \subseteq stack[i].seen \cup
                               (IF i = k THEN {b} ELSE {})
      BY <2>3, <2>4, <3>2
    <3>4. \A i \in 1..k : \A c \in stack'[i].seen :
            \/ Handled(stack[i].node, c)
            \/ stack'[i + 1].node = Leads[c]
      BY <2>3, <3>0, <3>2, <3>3
    <3>5. \A i \in 1..Len(stack') : \A c \in stack'[i].seen :
            \/ Handled(stack'[i].node, c)
            \/ i < Len(stack') /\ stack'[i + 1].node = Leads[c]
      BY <2>3, <3>0, <3>1, <3>2, <3>3, <3>4
    <3>8. phase' = "ready" BY <2>1, <2>2
    <3>9. DependenciesFirst' BY <2>1 DEF Children
    <3>10. \A i \in 1..Len(stack') : \A c \in stack'[i].seen :
             \/ doc'.kind[Leads'[c]] = "reference"
             \/ Leads'[c] \in done' \cup Path'[stack'[i].node]
             \/ i < Len(stack') /\ stack'[i + 1].node = Leads'[c]
      BY <2>1, <3>5
    <3> QED BY <2>9, <3>1, <3>8, <3>9, <3>10
  <2>10. \/ PassedOver(Top.node, b) /\ stack' = Append(Above, new)
         \/ stack' = Append(Append(Above, new), Frame(Leads[b]))
    BY Zenon, <1>7 DEF Visit, new
  <2> QED BY <2>5, <2>6, <2>10
<1>8. CASE Reconfigure
  <2>1. /\ doc' = doc /\ phase' = phase /\ done' = done \cup {Top.node}
        /\ Leads' = Leads /\ Path' = Path /\ stack' = Above
    BY <1>8, SameTree DEF Reconfigure
  <2>2. stack \in Seq(Frames) /\ stack # <<>> BY <1>8 DEF Reconfigure
  <2>3. Frames' = Frames BY <2>1
  <2> HIDE DEF Frames
  <2> DEFINE k == Len(stack)
  <2>4. /\ k \in Nat \ {0} /\ Top = stack[k]
        /\ Above \in Seq(Frames) /\ Len(Above) = k - 1
        /\ \A i \in 1..(k - 1) : Above[i] = stack[i]
    BY <2>2, StackFacts
  <2>5. \A c \in Children(Top.node) : Handled(Top.node, c)
    BY <1>8, <2>4 DEF Reconfigure
  <2>6. DependenciesFirst' BY <2>1, <2>5 DEF Children
  <2>7. \A i \in 1..(k - 1) : \A c \in stack[i].seen :
          \/ Handled(stack[i].node, c)
          \/ i < k - 1 /\ stack[i + 1].node = Leads[c]
          \/ Leads[c] = Top.node
    BY <2>4
  <2>8. \A i \in 1..Len(stack') : \A c \in stack'[i].seen :
          \/ doc.kind[Leads[c]] = "reference"
          \/ Leads[c] \in done' \cup Path[stack'[i].node]
          \/ i < Len(stack') /\ stack'[i + 1].node = Leads[c]
    BY <2>1, <2>4, <2>7
  <2> QED BY <1>8, <2>1, <2>2, <2>3, <2>4, <2>6, <2>8 DEF Reconfigure
<1>9. CASE Finished BY <1>1, <1>9 DEF Finished
<1> QED
  BY <1>1, <1>3, <1>4, <1>5, <1>6, <1>7, <1>8, <1>9 DEF Next

\* In any tree a walk reconfigures an object after everything that it uses.
THEOREM WalkKeepsOrder == Spec => []DependenciesFirst
<1>1. Init => Walking BY DEF Init, Walking, DependenciesFirst
<1>2. Walking => DependenciesFirst BY DEF Walking
<1> QED BY <1>1, <1>2, WalkingKept, PTL DEF Spec

-----------------------------------------------------------------------------
(* reconfigure(): what a call is inside of.                                *)

\* When the document is ready, all of it has been instantiated and left.
LEMMA AllMade ==
  ASSUME Loading, phase = "ready"
  PROVE  \A n \in Nodes : doc.kind[n] # "provided" => n \in made /\ n \in Left
<1> USE TreeFacts
<1>0. Tree /\ Cursor /\ Complete /\ here = 0 /\ Missing = {}
  BY DEF Loading, Loaded
<1>1. Path[here] = {0} BY <1>0, PathFacts
<1> DEFINE wrong == {n \in Nodes : doc.kind[n] # "provided" /\ n \notin made}
<1>2. ASSUME wrong # {} PROVE FALSE
  <2>1. wrong \subseteq Nat BY <1>0
  <2>2. PICK k \in wrong : \A m \in wrong : k <= m BY <1>2, <2>1, Least
  <2> DEFINE p == doc.parent[k]
  <2>3. p \in 0..Size /\ p < k /\ p \notin wrong BY <1>0, <2>2
  <2>4. p # 0 BY <1>0, <2>2 DEF Missing, Children
  <2>5. p \in made BY <1>0, <2>2, <2>3, <2>4, KindFacts
  <2>6. p \in Left BY <1>1, <2>4, <2>5 DEF Left
  <2> QED BY <1>0, <2>2, <2>6 DEF Complete
<1>3. \A n \in made \cap Nodes : n \in Left BY <1>0, <1>1 DEF Left
<1> QED BY <1>2, <1>3

\* What a walk can be in.
Walkable == {n \in Nodes : doc.kind[n] \in {"object", "list", "provided"}}

\* A call is for something that is complete before its caller is.
LEMMA CallBefore ==
  ASSUME Loading, phase = "ready", NEW n \in Walkable, NEW c \in Children(n),
         ~ PassedOver(n, c)
  PROVE  Leads[c] \in Walkable /\ Before(Leads[c], n)
<1>0. Tree /\ Cursor /\ InOrder /\ Validated BY DEF Loading
<1> USE <1>0, TreeFacts
<1>1. /\ c \in Nodes /\ doc.parent[c] = n /\ n \in Nodes
      /\ doc.kind[n] \in {"object", "list", "provided"}
  BY DEF Children, Walkable
<1> DEFINE d == Leads[c]
<1>2. d \notin Path[n] /\ doc.kind[d] # "reference"
  BY DEF PassedOver, OnPath
<1>3. n \in Path[n] /\ n \in Path[c] /\ n < c /\ n # c
  BY <1>1, PathFacts
<1>4. CASE doc.kind[c] # "reference"
  <2>1. d = c BY <1>1, <1>4, LeadsFacts, LeadsAre
  <2>2. doc.kind[c] \in Kinds /\ doc.kind[c] # "group" BY <1>1, KindFacts
  <2> QED BY <1>1, <1>3, <1>4, <2>1, <2>2 DEF Before, Walkable, Kinds
<1>5. CASE doc.kind[c] = "reference"
  <2>1. /\ d \in made /\ d \in 0..Size
        /\ doc.kind[d] \in {"object", "provided"}
    BY <1>1, <1>2, <1>5, LeadsFacts, LeadsAre
  <2>2. d # 0 /\ d \in Nodes BY <2>1, KindFacts
  <2>3. c \in made BY <1>1, <1>5, AllMade
  <2>4. ~ Null(d) BY <1>2 DEF Null
  <2>5. d # n BY <1>2, <1>3
  <2>6. doc.kind[n] \in {"object", "list"} BY <1>1, KindFacts
  <2>7. d < n \/ n \in Path[d]
    <3>1. CASE doc.kind[n] = "object"
      <4>1. d < c
        BY <1>1, <1>5, <2>3, <2>4, <3>1 DEF Validated, ChildValidated
      <4>2. ~ (d < n) => n < d BY <1>1, <2>2, <2>5
      <4>3. n < d => n \in Path[d]
        BY <1>1, <1>3, <2>1, <4>1, Contiguous
      <4> QED BY <4>2, <4>3
    <3>2. CASE doc.kind[n] = "list"
      <4>1. n \in Left BY <1>1, <3>2, AllMade
      <4> QED
        BY <1>1, <1>5, <2>4, <3>2, <4>1 DEF Validated, ElementValidated
    <3> QED BY <2>6, <3>1, <3>2
  <2> QED BY <1>2, <2>1, <2>2, <2>5, <2>7 DEF Before, Walkable
<1> QED BY <1>4, <1>5

Calls == [node : Walkable, seen : SUBSET Nodes]

\* Every call is for something that is complete before the caller is.
Descending ==
  /\ stack # <<>> => phase = "ready"
  /\ stack \in Seq(Calls)
  /\ \A i, j \in 1..Len(stack) :
       i < j => Before(stack[j].node, stack[i].node)

\* Every step keeps that.
LEMMA DescendingKept ==
  ASSUME Loading, Descending, [Next]_vars
  PROVE  Descending'
<1>0. Tree /\ Descending BY DEF Loading
<1> USE <1>0, TreeFacts
<1>1. ASSUME doc' = doc, stack' = stack, stack # <<>> => phase' = phase
      PROVE  Descending'
  <2>1. Path' = Path BY <1>1, LeadsNext
  <2> QED BY <1>1, <2>1 DEF Descending, Calls, Walkable, Before
<1>2. CASE UNCHANGED vars BY <1>1, <1>2
<1>3. ASSUME NEW n \in Nodes, Instantiate(n) PROVE Descending'
  BY <1>1, <1>3 DEF Instantiate, Descending
<1>4. CASE CompleteList BY <1>1, <1>4 DEF CompleteList, Descending
<1>5. CASE Configure BY <1>1, <1>5 DEF Configure
<1>6. ASSUME NEW n \in Nodes, Walk(n) PROVE Descending'
  <2>1. /\ stack' = <<Frame(n)>> /\ phase' = "ready" /\ doc' = doc
        /\ n \in Walkable
    BY <1>6 DEF Walk, Walkable
  <2>2. Frame(n) \in Calls' BY <2>1 DEF Frame, Calls, Walkable
  <2>3. \A i, j \in 1..Len(stack') : ~ (i < j) BY <2>1
  <2> QED BY <2>1, <2>2, <2>3 DEF Descending
<1>7. ASSUME NEW b \in Nodes, Visit(b) PROVE Descending'
  <2>1. /\ doc' = doc /\ phase' = phase /\ Path' = Path /\ stack # <<>>
        /\ b \in Children(Top.node)
    BY <1>7, LeadsNext DEF Visit
  <2> DEFINE k == Len(stack)
             new == [Top EXCEPT !.seen = @ \cup {b}]
             seen == Append(Above, new)
             call == Frame(Leads[b])
  <2>2. phase = "ready" /\ stack \in Seq(Calls) BY <2>1 DEF Descending
  <2>3. /\ k \in Nat \ {0} /\ Top \in Calls /\ Top = stack[k]
        /\ Above \in Seq(Calls) /\ Len(Above) = k - 1
        /\ \A i \in 1..(k - 1) : Above[i] = stack[i]
    BY <2>1, <2>2, StackFacts
  <2>4. new \in Calls /\ new.node = Top.node BY <2>3 DEF Calls
  <2>5. Calls' = Calls BY <2>1 DEF Calls, Walkable
  <2> HIDE DEF new
  <2>6. /\ seen \in Seq(Calls) /\ Len(seen) = k
        /\ \A i \in 1..k : seen[i].node = stack[i].node
    BY <2>3, <2>4
  <2>7. CASE stack' = seen
    <3> HIDE DEF seen
    <3> QED BY <2>1, <2>2, <2>3, <2>5, <2>6, <2>7 DEF Descending, Before
  <2>8. CASE stack' = Append(seen, call) /\ ~ PassedOver(Top.node, b)
    <3> HIDE DEF seen
    <3>1. Top.node \in Walkable BY <2>3 DEF Calls
    <3>2. Leads[b] \in Walkable /\ Before(Leads[b], Top.node)
      BY <2>1, <2>2, <2>8, <3>1, CallBefore
    <3>3. call \in Calls /\ call.node = Leads[b]
      BY <3>2 DEF Frame, Calls
    <3> HIDE DEF call
    <3>4. /\ stack' \in Seq(Calls) /\ Len(stack') = k + 1
          /\ \A i \in 1..k : stack'[i].node = stack[i].node
          /\ stack'[k + 1].node = Leads[b]
      BY <2>3, <2>6, <2>8, <3>3
    <3>5. \A i \in 1..k : stack[i].node \in Walkable
      <4> DEFINE C == Calls
      <4>1. stack \in Seq(C) BY <2>2
      <4> HIDE DEF C
      <4>2. \A i \in 1..k : stack[i] \in C BY <4>1
      <4> QED BY <4>2 DEF C, Calls
    <3>6. \A i \in 1..k : Before(Leads[b], stack[i].node)
      <4>1. \A i \in 1..(k - 1) : Before(Top.node, stack[i].node)
        BY <2>3 DEF Descending
      <4>2. \A n \in Walkable : n \in 0..Size BY DEF Walkable
      <4>3. \A i \in 1..(k - 1) : Before(Leads[b], stack[i].node)
        <5> TAKE i \in 1..(k - 1)
        <5>1. i \in 1..k BY <2>3
        <5>2. stack[i].node \in Walkable BY <5>1, <3>5
        <5> QED BY <3>1, <3>2, <4>1, <4>2, <5>2, BeforeTransitive
      <4>4. Before(Leads[b], stack[k].node) BY <2>3, <3>2
      <4> QED BY <2>3, <4>3, <4>4
    <3>7. \A i, j \in 1..(k + 1) :
            i < j => Before(stack'[j].node, stack'[i].node)
      <4> TAKE i, j \in 1..(k + 1)
      <4>1. CASE j = k + 1 BY <2>3, <3>4, <3>6, <4>1
      <4>2. CASE j # k + 1
        <5>1. i < j => i \in 1..k /\ j \in 1..k BY <2>3, <4>2
        <5> QED BY <2>3, <3>4, <5>1 DEF Descending
      <4> QED BY <4>1, <4>2
    <3> QED BY <2>1, <2>2, <2>5, <3>4, <3>7 DEF Descending, Before
  <2>9. \/ stack' = seen
        \/ stack' = Append(seen, call) /\ ~ PassedOver(Top.node, b)
    BY Zenon, <1>7 DEF Visit, new
  <2> QED BY <2>7, <2>8, <2>9
<1>8. CASE Reconfigure
  <2>1. /\ doc' = doc /\ phase' = phase /\ Path' = Path /\ stack # <<>>
        /\ stack' = Above
    BY <1>8, LeadsNext DEF Reconfigure
  <2>2. phase = "ready" /\ stack \in Seq(Calls) BY <2>1 DEF Descending
  <2> DEFINE k == Len(stack)
  <2>3. /\ k \in Nat \ {0}
        /\ Above \in Seq(Calls) /\ Len(Above) = k - 1
        /\ \A i \in 1..(k - 1) : Above[i] = stack[i]
    BY <2>1, <2>2, StackFacts
  <2>4. Calls' = Calls BY <2>1 DEF Calls, Walkable
  <2>5. \A i, j \in 1..Len(stack') :
          i < j => Before(stack'[j].node, stack'[i].node)
    <3> TAKE i, j \in 1..Len(stack')
    <3>1. i \in 1..(k - 1) /\ j \in 1..(k - 1) BY <2>1, <2>3
    <3> QED BY <2>1, <2>3, <3>1 DEF Descending
  <2> QED BY <2>1, <2>2, <2>3, <2>4, <2>5 DEF Descending, Before
<1>9. CASE Finished BY <1>2, <1>9 DEF Finished
<1> QED
  BY <1>2, <1>3, <1>4, <1>5, <1>6, <1>7, <1>8, <1>9 DEF Next

\* "Do not reconfigure if child is on path" (configurable.h:496) is enough:
\* although only the path of the node is looked at, no walk is in two calls for
\* the same node, in any tree that could be instantiated.
THEOREM WalkDescends == Spec => []NoReentry
<1>1. Init => Loading /\ Descending
  BY LoadingInit DEF Init, Descending
<1>2. Loading /\ Descending /\ [Next]_vars => (Loading /\ Descending)'
  BY LoadingKept, DescendingKept
<1>3. Descending => NoReentry
  <2> SUFFICES ASSUME Descending PROVE NoReentry OBVIOUS
  <2>1. stack \in Seq(Calls) BY DEF Descending
  <2> DEFINE C == Calls
  <2> HIDE DEF C
  <2>2. DOMAIN stack = 1..Len(stack) /\ Len(stack) \in Nat BY <2>1
  <2> QED BY <2>2 DEF Descending, Before, NoReentry
<1> QED BY <1>1, <1>2, <1>3, PTL DEF Spec

-----------------------------------------------------------------------------
\* What a walk has reconfigured are nodes of the document.
LEMMA DoneKept ==
  ASSUME Loading, Descending, done \subseteq 0..Size,
         phase \in {"loading", "failed", "ready"}, [Next]_vars
  PROVE  done' \subseteq 0..Size /\ phase' \in {"loading", "failed", "ready"}
<1>1. Tree /\ stack \in Seq(Calls) BY DEF Loading, Descending
<1>2. stack # <<>> => Top.node \in 0..Size
  <2> DEFINE C == Calls
  <2>0. stack \in Seq(C) BY <1>1
  <2> HIDE DEF C
  <2>1. stack # <<>> => Top \in C BY <2>0, StackFacts
  <2>2. \A n \in Walkable : n \in 0..Size BY <1>1, TreeFacts DEF Walkable
  <2> QED BY <2>1, <2>2 DEF C, Calls
<1>3. CASE Reconfigure BY <1>2, <1>3 DEF Reconfigure
<1>4. CASE CompleteList BY <1>4 DEF CompleteList
<1>5. CASE Configure BY <1>5 DEF Configure
<1>6. ASSUME NEW n \in Nodes, Instantiate(n) \/ Walk(n) \/ Visit(n)
      PROVE  /\ done' \subseteq 0..Size
             /\ phase' \in {"loading", "failed", "ready"}
  BY <1>6 DEF Instantiate, Walk, Visit
<1>7. CASE UNCHANGED vars BY <1>7
<1> QED BY <1>3, <1>4, <1>5, <1>6, <1>7 DEF Next, Finished

\* The variables have their types: a walk never leaves the document.
THEOREM TypeCorrect == Spec => []TypeOK
<1> DEFINE Inv == /\ Loading /\ Descending /\ done \subseteq 0..Size
                  /\ phase \in {"loading", "failed", "ready"}
<1>1. Init => Inv
  BY LoadingInit DEF Init, Descending
<1>2. Inv /\ [Next]_vars => Inv'
  BY LoadingKept, DescendingKept, DoneKept
<1>3. Inv => TypeOK
  <2> SUFFICES ASSUME Inv PROVE TypeOK OBVIOUS
  <2>1. Tree /\ Cursor /\ Complete /\ stack \in Seq(Calls)
    BY DEF Loading, Descending
  <2>2. Calls \subseteq [node : 0..Size, seen : SUBSET Nodes]
    BY <2>1, TreeFacts DEF Calls, Walkable
  <2>3. stack \in Seq([node : 0..Size, seen : SUBSET Nodes])
    <3> DEFINE C == Calls
               R == [node : 0..Size, seen : SUBSET Nodes]
    <3>1. C \subseteq R /\ stack \in Seq(C) BY <2>1, <2>2
    <3> HIDE DEF C, R
    <3>2. stack \in Seq(R) BY <3>1
    <3> QED BY <3>2 DEF R
  <2> QED BY <2>1, <2>3 DEF TypeOK, Tree, Cursor, Complete
<1> HIDE DEF Inv
<1> QED BY <1>1, <1>2, <1>3, PTL DEF Spec
=============================================================================
