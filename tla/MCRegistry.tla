----------------------------- MODULE MCRegistry -----------------------------
(* Small instances of Registry for TLC.                                    *)
EXTENDS Registry, TLC

CONSTANTS t1, t2, on, zero, one, byte

\* "on", "0" and "1"; "on" is no number.
Number == zero :> 0 @@ one :> 1

Text == 0 :> zero @@ 1 :> one

Blob == on :> NoBytes @@ zero :> byte @@ one :> byte

\* A type with the greatest id, one of whose names is a number, not its own.
Enum == 8191 :> [type_name |-> on,
                 values |-> <<[name |-> zero, value |-> 1], [name |-> on, value |-> 2]>>]
=============================================================================
