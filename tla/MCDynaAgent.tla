---------------------------- MODULE MCDynaAgent -----------------------------
(***************************************************************************)
(* Bounds of the Dyna agent for TLC: the more threads, the fewer calls.    *)
(***************************************************************************)
EXTENDS DynaAgent

Steps == [T \in Teams |-> IF Cardinality(T) < 2 THEN <<3, 2>> ELSE <<1, 0>>]
=============================================================================
