----------------------------- MODULE MCTallies -----------------------------
(* Small instances of Tallies for TLC.                                     *)
EXTENDS Tallies

CONSTANTS b1, b2
=============================================================================
