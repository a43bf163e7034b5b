----------------------------- MODULE MCVCRStats -----------------------------
(***************************************************************************)
(* An instance of VCRStats for TLC: goroutines share a VCR with fixed      *)
(* settings while another asks for Stats.                                  *)
(***************************************************************************)
EXTENDS MCVCR, VCRStats
=============================================================================
