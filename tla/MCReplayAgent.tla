--------------------------- MODULE MCReplayAgent ----------------------------
(***************************************************************************)
(* Bounds of the replay agent for TLC: the more threads, the fewer calls.  *)
(***************************************************************************)
EXTENDS ReplayAgent

Steps == [T \in Teams |-> CASE T = {}             -> <<5, 3, 3>>
                            [] Cardinality(T) = 1 -> <<3, 3, 3>>
                            [] OTHER              -> <<2, 1>>]
=============================================================================
