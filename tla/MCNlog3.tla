------------------------------ MODULE MCNlog3 ------------------------------
(* Small instances of Nlog3 for TLC.                                       *)
EXTENDS Nlog3Ring
=============================================================================
