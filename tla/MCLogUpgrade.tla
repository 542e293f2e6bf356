---------------------------- MODULE MCLogUpgrade ----------------------------
(* Small instances of LogUpgrade for TLC.                                  *)
EXTENDS LogUpgrade
=============================================================================
