------------------------------ MODULE MCNvol3 ------------------------------
(* Small instances of Nvol3 for TLC.                                       *)
EXTENDS Nvol3KV, TLC

CONSTANTS k1, k2, k3, v1, v2

\* Keys and data are only compared for equality.
KeysAndVals == Permutations(Keys) \union Permutations(Vals)
=============================================================================
