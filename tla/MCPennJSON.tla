----------------------------- MODULE MCPennJSON -----------------------------
(***************************************************************************)
(* PennJSON on small instances.  The players are interchangeable.          *)
(***************************************************************************)
EXTENDS PennJSON, TLC

PlayerSymmetry == Permutations(Player)
=============================================================================
