------------------------------ MODULE Nvol3KV ------------------------------
(***************************************************************************)
(* Nvol3 implements KVStore: the map is what a boot would find on FLASH,   *)
(* an answer is what nvol3_record_get() returns.                           *)
(***************************************************************************)
EXTENDS Nvol3

\* nvol3_record_get(), record_get(): from the cache, or the record that the
\* lookup table names.
RecordGet(k) ==
    IF idx[k] = NoIdx THEN None
    ELSE IF Cached THEN cache[k]
    ELSE IF slot[sector][idx[k]].flags = "VALID" THEN slot[sector][idx[k]].val
    ELSE None

KV == INSTANCE KVStore WITH
        store  <- [k \in Keys |-> Stored(k)],
        req    <- IF op \in {"none", "boot", "repair"}
                  THEN [op |-> "none", key |-> None, val |-> None]
                  ELSE [op |-> op, key |-> key, val |-> val],
        open   <- pc = "idle",
        answer <- [k \in Keys |-> IF pc = "idle" THEN RecordGet(k) ELSE None],
        result <- ret

\* The volume implements the atomic map: through writes, deletes, sector
\* swaps, repairs, erases, loads and power failures between and inside their
\* FLASH operations, what is on FLASH changes only by the effect of the
\* operation in progress, an operation that returned EOK has taken effect,
\* and a read returns what is on FLASH.
ImplementsKVStore == KV!Spec
=============================================================================
