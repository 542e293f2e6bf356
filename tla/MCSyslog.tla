------------------------------ MODULE MCSyslog ------------------------------
(* Small instances of Syslog for TLC.                                      *)
EXTENDS Syslog, TLC

CONSTANTS w1, w2, r1, owner

\* The writers are alike.
Symmetry == Permutations(Writers)
=============================================================================
