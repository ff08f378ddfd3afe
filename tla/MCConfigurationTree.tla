------------------------ MODULE MCConfigurationTree -------------------------
(* All well-formed documents of a size.                                    *)
EXTENDS ConfigurationTree

\* The references of a document with these kinds of nodes.
Links(kind) ==
  LET from == {n \in Nodes : kind[n] = "reference"}
      ref(r) == [n \in Nodes |-> IF n \in from THEN r[n] ELSE 0]
  IN  {ref(r) : r \in {r \in [from -> 0..Size] : Linked(kind, ref(r))}}

AllDocuments ==
  UNION {UNION {{[parent |-> p, kind |-> k, ref |-> r] : r \in Links(k)} :
                k \in {k \in [0..Size -> Kinds] : Labelled(p, k)}} :
         p \in {p \in [Nodes -> 0..Size] : Nested(p)}}
=============================================================================
