------------------------- MODULE ConfigurationTree --------------------------
(***************************************************************************)
(* The configuration tree (configurable.h, configurable.cpp): a document   *)
(* of objects, groups, lists and references is instantiated in its order,  *)
(* and a walk (reset, load, save) reconfigures all objects below one of    *)
(* them, references included, those it uses before itself.                 *)
(*                                                                         *)
(* A node of the document is its position, the root is 0.  The path that a *)
(* reference is written as is abstracted to the node it leads to, whether  *)
(* that already exists is not.  A plain value is a reference to 0.         *)
(***************************************************************************)
EXTENDS Integers, Sequences

CONSTANTS
  Size,      \* nodes of a document, without the root
  Documents  \* the documents, see WellFormed

Nodes == 1..Size
Kinds == {"object", "group", "list", "reference", "provided"}
DocumentType == [parent : [Nodes -> 0..Size],
                 kind : [0..Size -> Kinds],
                 ref : [Nodes -> 0..Size]]

\* Parents come before their children, which are together.
Nested(parent) ==
  \A n \in Nodes :
    /\ parent[n] < n
    /\ \A m \in Nodes : parent[n] < m /\ m < n => parent[m] >= parent[n]

\* Groups are not inside of objects, lists are, and what an object provides
\* comes last.
Labelled(parent, kind) ==
  /\ kind[0] = "group"
  /\ \A n \in Nodes :
       /\ kind[parent[n]] \in {"object", "group", "list"}
       /\ kind[n] = "group" => kind[parent[n]] = "group"
       /\ kind[n] \in {"list", "provided"} => kind[parent[n]] = "object"
       /\ kind[n] = "provided" =>
            \A m \in Nodes : m > n => parent[m] # parent[n]

\* References lead to objects, or to references further up.
Linked(kind, ref) ==
  \A n \in Nodes :
    \/ ref[n] = 0
    \/ /\ kind[n] = "reference"
       /\ \/ kind[ref[n]] \in {"object", "provided"}
          \/ kind[ref[n]] = "reference" /\ ref[n] < n

WellFormed(d) ==
  Nested(d.parent) /\ Labelled(d.parent, d.kind) /\ Linked(d.kind, d.ref)

ASSUME ConfigurationAssumption ==
  /\ Size \in Nat
  /\ Documents \subseteq DocumentType
  /\ \A d \in Documents : WellFormed(d)

VARIABLES
  doc,         \* the document
  phase,       \* "loading", "failed" or "ready"
  made,        \* the nodes of the instantiated tree
  here,        \* the node whose children are being instantiated
  configured,  \* the objects that have been configured
  stack,       \* calls of reconfigure in progress: node and children visited
  done         \* the nodes that this walk has reconfigured

vars == <<doc, phase, made, here, configured, stack, done>>

Children(n) == {c \in Nodes : doc.parent[c] = n}

\* n and everything above it: the chain of parent_.
Path[n \in 0..Size] ==
  {n} \cup IF n = 0 THEN {} ELSE Path[doc.parent[n]]

\* find(""): where a reference leads to in the tree as it is now.  As long as
\* its target does not exist, a reference leads to itself.
Leads ==
  LET to[n \in 0..Size] ==
        IF n # 0 /\ doc.kind[n] = "reference" /\ doc.ref[n] \in made \ {0}
          THEN to[doc.ref[n]]
          ELSE n
  IN  to

\* The null object, which is asked for by the value 0.
Null(n) == doc.kind[n] = "reference" /\ doc.ref[n] = 0

TypeOK ==
  /\ doc \in DocumentType /\ WellFormed(doc)
  /\ phase \in {"loading", "failed", "ready"}
  /\ made \subseteq 0..Size
  /\ here \in 0..Size
  /\ configured \subseteq Nodes
  /\ stack \in Seq([node : 0..Size, seen : SUBSET Nodes])
  /\ done \subseteq 0..Size

Init ==
  /\ doc \in Documents
  /\ phase = "loading"
  /\ made = {0}
  /\ here = 0
  /\ configured = {}
  /\ stack = <<>>
  /\ done = {}

-----------------------------------------------------------------------------
(* Plausible bugs, to test that the properties can tell.                   *)

\* Parameters are not validated.
ValidAlways(n) == n \in Nodes

\* A walk does not follow references.
PassedOverUnfollowed(n, c) == doc.kind[c] = "reference"

\* The walk only looks at the parent for a circle.
OnPathOfParent(n, d) == d = n

-----------------------------------------------------------------------------
(* instantiate().                                                          *)

\* The children of here that are still to be instantiated.
Missing == {c \in Children(here) \ made : doc.kind[c] # "provided"}

\* validate(): a reference whose target does not exist yet is a string, and
\* no object.
Valid(n) ==
  doc.kind[n] = "reference" =>
    Null(Leads[n]) \/ doc.kind[Leads[n]] # "reference"

\* The next child is instantiated.  If here is an object it validates those
\* that are no lists at once; objects are valid.
Instantiate(n) ==
  /\ phase = "loading"
  /\ n \in Missing
  /\ \A m \in Missing : n <= m
  /\ made' = made \cup {n}
  /\ here' = IF doc.kind[n] = "reference" THEN here ELSE n
  /\ phase' = IF doc.kind[here] = "object" /\ ~Valid(n) THEN "failed"
                                                      ELSE phase
  /\ UNCHANGED <<doc, configured, stack, done>>

\* All children are there.  A list in an object has its elements validated.
CompleteList ==
  /\ phase = "loading"
  /\ Missing = {}
  /\ doc.kind[here] \in {"group", "list"}
  /\ phase' = IF here = 0 THEN "ready"
              ELSE IF doc.kind[here] = "list"
                      /\ \E c \in Children(here) : ~Valid(c) THEN "failed"
              ELSE phase
  /\ here' = IF here = 0 THEN 0 ELSE doc.parent[here]
  /\ UNCHANGED <<doc, made, configured, stack, done>>

\* The object is configured, and what it provides becomes part of the tree.
Configure ==
  /\ phase = "loading"
  /\ Missing = {}
  /\ doc.kind[here] = "object"
  /\ made' = made \cup Children(here)
  /\ configured' = configured \cup {here} \cup (Children(here) \ made)
  /\ here' = doc.parent[here]
  /\ UNCHANGED <<doc, phase, stack, done>>

-----------------------------------------------------------------------------
(* reconfigure(config, recursive).                                         *)

Top == stack[Len(stack)]
Above == SubSeq(stack, 1, Len(stack) - 1)
Frame(n) == [node |-> n, seen |-> {}]

\* walk() of an object.
Walk(n) ==
  /\ phase = "ready"
  /\ stack = <<>>
  /\ doc.kind[n] = "object"
  /\ stack' = <<Frame(n)>>
  /\ done' = {}
  /\ UNCHANGED <<doc, phase, made, here, configured>>

\* "Do not reconfigure if child is on path."
OnPath(n, d) == d \in Path[n]

\* Children that lead back to the path or to no object.
PassedOver(n, c) ==
  OnPath(n, Leads[c]) \/ doc.kind[Leads[c]] = "reference"

\* The loop over the children of the innermost call.
Visit(c) ==
  /\ stack # <<>>
  /\ c \in Children(Top.node) \ Top.seen
  /\ \A b \in Children(Top.node) \ Top.seen : c <= b
  /\ LET seen == Append(Above, [Top EXCEPT !.seen = @ \cup {c}])
     IN  stack' = IF PassedOver(Top.node, c) THEN seen
                                             ELSE Append(seen, Frame(Leads[c]))
  /\ UNCHANGED <<doc, phase, made, here, configured, done>>

\* The object itself is reconfigured, and the call returns.
Reconfigure ==
  /\ stack # <<>>
  /\ Children(Top.node) \subseteq Top.seen
  /\ done' = done \cup {Top.node}
  /\ stack' = Above
  /\ UNCHANGED <<doc, phase, made, here, configured>>

\* There is nothing to instantiate or nothing to walk.
Finished ==
  /\ phase = "failed" \/ (phase = "ready" /\ \A n \in Nodes :
                                                doc.kind[n] # "object")
  /\ UNCHANGED vars

Next ==
  \/ \E n \in Nodes : Instantiate(n) \/ Walk(n) \/ Visit(n)
  \/ CompleteList
  \/ Configure
  \/ Reconfigure
  \/ Finished

Spec == Init /\ [][Next]_vars

-----------------------------------------------------------------------------
(* Properties                                                              *)

\* configure() is "Only called once all parameters of the object have already
\* been set and configured" (configurable.h:736), except that a parameter can
\* be an object around this one, which is set and not configured yet.
Parameters(n) ==
  {c \in Nodes : \/ doc.parent[c] = n
                 \/ /\ doc.kind[doc.parent[c]] = "list"
                    /\ doc.parent[doc.parent[c]] = n}
ConfiguredFirst ==
  \A n \in configured : \A c \in Parameters(n) :
    \/ doc.kind[c] = "list"
    \/ Null(Leads[c])
    \/ Leads[c] \in configured \cup Path[n]

\* A walk reconfigures an object after all that it uses, wherever that is in
\* the tree, except for the objects around it.
DependenciesFirst ==
  \A n \in done : \A c \in Children(n) :
    \/ doc.kind[Leads[c]] = "reference"
    \/ Leads[c] \in done \cup Path[n]

\* "Do not reconfigure if child is on path" (configurable.h:496), which looks
\* at the path of the node and not at that of the walk, is enough: no call is
\* inside of another one for the same node, so every walk ends.
NoReentry ==
  \A i, j \in DOMAIN stack : i # j => stack[i].node # stack[j].node
=============================================================================
