----------------------------- MODULE MCSettings -----------------------------
(***************************************************************************)
(* Instances of Settings for TLC: the three lists and two functions to     *)
(* put in them, with and without room in the slice of the caller.          *)
(***************************************************************************)
EXTENDS Settings, TLC

SomeRoom == {0, 1}

\* The two lists of mutators are treated alike.
Symmetry ==
  Permutations(Functions)
  \cup Permutations({trackRecordingMutators, trackReplayingMutators})
=============================================================================
