----------------------------- MODULE MCSharing -----------------------------
(***************************************************************************)
(* An instance of Sharing for TLC: two calls at a time, over any number of *)
(* sessions.                                                               *)
(***************************************************************************)
EXTENDS Sharing, TLC

Symmetry == Permutations(Calls)
=============================================================================
