------------------------------- MODULE Nvol3 -------------------------------
(***************************************************************************)
(* The record volume of src/nvram/nvol3.c: key/value records appended to   *)
(* one of two FLASH sectors, a RAM lookup table ("dict") over the sector   *)
(* in use, and a swap that copies the live records to the other sector     *)
(* when the first is full.  A step of the program is one FLASH operation   *)
(* with the computation around it, so power can fail between any two       *)
(* FLASH operations and in the middle of any of them.                      *)
(*                                                                         *)
(* The caller is registry.c: it holds one mutex around every call, so one  *)
(* operation runs at a time; it boots the volume as registry_start() does. *)
(***************************************************************************)
EXTENDS Integers, FiniteSets

CONSTANTS
    Keys,           \* record keys
    Vals,           \* record data
    None,           \* "no record", "no key"
    MaxRecords,     \* max_records(): slots in a sector
    Headroom,       \* NVOL3_HEADROOM
    Cached,         \* fully_cached(): every record's data is also in the dict
    Ops,            \* the operations the caller uses
    MaxCrashes,     \* bound: power failures
    Faults,         \* the kinds of FLASH failure that may happen
    MaxFaults       \* bound: FLASH failures

OpNames == {"record_set", "record_delete", "entry_save", "repair", "reset",
            "delete", "unload"}

FaultNames == {"write",         \* a record write returns an error
               "flag",          \* a record flag write returns an error
               "header",        \* a sector header write returns an error
               "erase",         \* a sector erase returns an error
               "erase_src",     \* so may the erase of a copy's source
               "torn_header",   \* power cut between the words of a header
               "torn_erase"}    \* power cut between the pages of a sector

ASSUME ConstantsAssumption ==
    /\ None \notin Keys \union Vals
    /\ IsFiniteSet(Keys)
    /\ MaxRecords \in Nat
    /\ Headroom \in Nat
    /\ 0 < Headroom
    /\ Headroom < MaxRecords
    /\ Cached \in BOOLEAN
    /\ Ops \subseteq OpNames
    /\ Faults \subseteq FaultNames
    /\ MaxCrashes \in Nat
    /\ MaxFaults \in Nat

VARIABLES
    \* FLASH
    hdr,        \* sector header flags
    ver,        \* sector header carries config->version
    slot,       \* the record slots of each sector
    \* NVOL3_INSTANCE_T
    sector,     \* instance->sector (0: not loaded)
    next_idx,   \* instance->next_idx
    idx,        \* the dict: entry->idx of each key, NoIdx if it has no entry
    cache,      \* the dict: entry->local of each key, where Cached
    stat,       \* instance->inuse, invalid and error
    \* the operation in progress
    pc,         \* the FLASH operation it is about to do
    op, key, val,
    ret,        \* result of the last operation
    todo,       \* swap_sectors(): dict entries not copied yet
    src_idx,    \* move_sector(): idx
    dst_idx,    \* move_sector(), swap_sectors(): dst_idx
    \* environment
    crashes, faults

flash   == <<hdr, ver, slot>>
ram     == <<sector, next_idx, idx, cache, stat>>
request == <<op, key, val>>
copy    == <<todo, src_idx, dst_idx>>
env     == <<crashes, faults>>
vars    == <<flash, ram, pc, request, ret, copy, env>>

----------------------------------------------------------------------------
(* FLASH contents.                                                         *)

Sectors == {1, 2}
Slots   == 0 .. (MaxRecords - 1)
NoIdx   == MaxRecords           \* NVOL3_INVALID_VAR_IDX

Other(s) == 3 - s

\* "UNKNOWN" is any value that is none of the four the code names.
SectorFlags == {"EMPTY", "INITIALIZING", "VALID", "INVALID", "UNKNOWN"}

\* "NEW" is any value that is none of the other three: read_variable_record()
\* answers E_UNKNOWN for all of them.
RecordFlags == {"EMPTY", "NEW", "VALID", "INVALID"}

\* A slot; ok: its checksum matches its key and data.
Records == [flags: RecordFlags, key: Keys \union {None},
            val: Vals \union {None}, ok: BOOLEAN]

Blank == [flags |-> "EMPTY", key |-> None, val |-> None, ok |-> FALSE]
Erased == [i \in Slots |-> Blank]

\* Programming can only clear bits: FFFF > AFFF > AAAF > 0000.
FlagsAnd(f, g) ==
    IF "INVALID" \in {f, g} THEN "INVALID"
    ELSE IF "VALID" \in {f, g} THEN "VALID"
    ELSE IF "NEW" \in {f, g} THEN "NEW" ELSE "EMPTY"

\* A record programmed over another leaves the AND of the two, whose checksum
\* does not match unless they were the same.
Program(old, rec) ==
    IF old.flags = "EMPTY"
    THEN rec
    ELSE [rec EXCEPT !.flags = FlagsAnd(old.flags, rec.flags),
                     !.ok = rec.ok /\ old.ok /\ old.key = rec.key
                                             /\ old.val = rec.val]

HeaderAnd(old, f) == IF old \in {"EMPTY", "INITIALIZING"} THEN f ELSE old

Record(f, k, v) == [flags |-> f, key |-> k, val |-> v, ok |-> TRUE]

\* read_variable_record() = EOK and variable_record_valid() = EOK.
Live(r) == r.flags = "VALID" /\ r.ok

LiveSlots(s, k) == {i \in Slots : Live(slot[s][i]) /\ slot[s][i].key = k}

Highest(S) == CHOOSE i \in S : \A j \in S : j <= i

----------------------------------------------------------------------------
(* FLASH operations and how they fail.                                     *)

Fault(f) ==
    /\ f \in Faults
    /\ faults < MaxFaults
    /\ faults' = faults + 1

\* erase_sector()
EraseSector(s) ==
    /\ hdr' = [hdr EXCEPT ![s] = "EMPTY"]
    /\ ver' = [ver EXCEPT ![s] = FALSE]
    /\ slot' = [slot EXCEPT ![s] = Erased]

TryErase(s, good) ==
    \/ good /\ EraseSector(s) /\ UNCHANGED faults
    \/ ~good /\ Fault("erase") /\ UNCHANGED flash

\* Mutant: a destination is VALID before its records are copied.
SetSectorFlagsEarly(s, f) ==
    /\ hdr' = [hdr EXCEPT ![s] = "VALID"]
    /\ ver' = [ver EXCEPT ![s] = TRUE]
    /\ UNCHANGED slot

\* set_sector_flags()
SetSectorFlags(s, f) ==
    /\ hdr' = [hdr EXCEPT ![s] = HeaderAnd(@, f)]
    /\ ver' = [ver EXCEPT ![s] = TRUE]
    /\ UNCHANGED slot

TryHeader(s, f, good) ==
    \/ good /\ SetSectorFlags(s, f) /\ UNCHANGED faults
    \/ ~good /\ Fault("header") /\ UNCHANGED flash

ProgramSlot(s, i, rec) ==
    /\ slot' = [slot EXCEPT ![s][i] = Program(@, rec)]
    /\ UNCHANGED <<hdr, ver>>

\* write_variable_record(); a write that fails may have programmed a part.
TryWrite(s, i, rec, good) ==
    \/ good /\ i \in Slots /\ ProgramSlot(s, i, rec) /\ UNCHANGED faults
    \/ ~good /\ i \notin Slots /\ UNCHANGED <<flash, faults>>
    \/ ~good /\ i \in Slots /\ Fault("write")
             /\ \/ UNCHANGED flash
                \/ ProgramSlot(s, i, [rec EXCEPT !.ok = FALSE])

MarkSlot(s, i, f) ==
    /\ slot' = [slot EXCEPT ![s][i].flags = FlagsAnd(@, f)]
    /\ UNCHANGED <<hdr, ver>>

\* set_variable_record_flags()
TryMark(s, i, f, good) ==
    \/ good /\ i \in Slots /\ MarkSlot(s, i, f) /\ UNCHANGED faults
    \/ ~good /\ i \notin Slots /\ UNCHANGED <<flash, faults>>
    \/ ~good /\ i \in Slots /\ Fault("flag") /\ UNCHANGED flash

----------------------------------------------------------------------------
(* Control flow shared by the operations.                                  *)

Return(r) ==
    /\ pc' = "idle"
    /\ op' = "none"
    /\ key' = None
    /\ val' = None
    /\ ret' = r

Goto(l) == pc' = l /\ UNCHANGED <<request, ret>>

\* No loaded instance: registry_start() has not run, or power is off.
Unloaded ==
    /\ sector' = 0
    /\ next_idx' = 0
    /\ idx' = [k \in Keys |-> NoIdx]
    /\ cache' = [k \in Keys |-> None]
    /\ stat' = [inuse |-> 0, invalid |-> 0, error |-> 0]

\* Mutant: dst_idx is not reset for the next copy.
CopyKept == UNCHANGED copy

\* The copy's locals go out of scope.
CopyDone == todo' = {} /\ src_idx' = 0 /\ dst_idx' = 0

\* instance->inuse, invalid and error go up, or down, by so much.
Count(inuse, invalid, error) ==
    stat' = [inuse   |-> stat.inuse + inuse,
             invalid |-> stat.invalid + invalid,
             error   |-> stat.error + error]

Entries == {k \in Keys : idx[k] # NoIdx}

\* dictionary_count() >= max_records() - NVOL3_HEADROOM
VolumeFull == Cardinality(Entries) >= MaxRecords - Headroom

\* swap_sectors() and move_sector() erase the destination only if its flags
\* say that it is not erased already.
SwapEntryDirty(s) == "swap_init"   \* Mutant: never erases.
SwapEntry(s) == IF hdr[Other(s)] = "EMPTY" THEN "swap_init" ELSE "swap_erase"
MoveEntryDirty(s) == "move_init"   \* Mutant: never erases.
MoveEntry(s) == IF hdr[Other(s)] = "EMPTY" THEN "move_init" ELSE "move_erase"

\* nvol3_load() runs, called by registry_start() or nvol3_reset().
Loading == op \in {"boot", "reset"}

\* A swap or a move that cannot be completed: swap_sectors() fails the
\* caller's write, nvol3_repair() returns the error, and init_sectors()
\* ignores it and goes on with the sector it has.
MoveFailed == IF Loading THEN Goto("construct") ELSE Return("FAIL")

\* construct_lookup_table(): the highest live slot of a key wins; a VALID
\* record with a bad checksum is marked INVALID.
ConstructLookupTable(s) ==
    LET bad(i)  == slot[s][i].flags = "VALID" /\ ~slot[s][i].ok
        used    == {i \in Slots : slot[s][i].flags # "EMPTY"}
        count(f) == Cardinality({i \in Slots : slot[s][i].flags = f})
        nbad    == Cardinality({i \in Slots : bad(i)})
        newest(k) == Highest(LiveSlots(s, k))
    IN  /\ slot' = [slot EXCEPT ![s] =
                        [i \in Slots |-> IF bad(i)
                            THEN [slot[s][i] EXCEPT !.flags = "INVALID"]
                            ELSE slot[s][i]]]
        /\ idx' = [k \in Keys |->
                        IF LiveSlots(s, k) = {} THEN NoIdx ELSE newest(k)]
        /\ cache' = [k \in Keys |->
                        IF Cached /\ LiveSlots(s, k) # {}
                        THEN slot[s][newest(k)].val ELSE None]
        /\ next_idx' = IF used = {} THEN 0 ELSE Highest(used) + 1
        /\ stat' = [inuse |-> count("VALID") - nbad,
                    invalid |-> count("INVALID") + nbad,
                    error |-> count("NEW") + nbad]
        /\ UNCHANGED <<hdr, ver>>

----------------------------------------------------------------------------
(* Writing a record: nvol3_record_set(), nvol3_entry_save(), record_set(). *)

StartWrite(o, k, v) ==
    /\ o \in Ops
    /\ pc = "idle"
    /\ op' = o
    /\ key' = k
    /\ val' = v
    /\ pc' = IF next_idx >= MaxRecords THEN SwapEntry(sector) ELSE "record_set"
    /\ UNCHANGED <<flash, ram, ret, copy, env>>

RecordSet(k, v) == StartWrite("record_set", k, v)

\* The caller changes the cached data through nvol3_entry_data().
EntryData(k, v) ==
    /\ Cached
    /\ "entry_save" \in Ops
    /\ pc = "idle"
    /\ idx[k] # NoIdx
    /\ cache' = [cache EXCEPT ![k] = v]
    /\ UNCHANGED <<flash, sector, next_idx, idx, stat, pc, request, ret, copy,
                   env>>

EntrySave(k) ==
    /\ Cached
    /\ idx[k] # NoIdx
    /\ StartWrite("entry_save", k, cache[k])

\* Mutant: compares the data with the cache, not with FLASH.
SameAsCached == idx[key] # NoIdx /\ cache[key] = val

\* record_set(): the record on FLASH has the same key and data.
SameRecord ==
    /\ idx[key] # NoIdx
    /\ slot[sector][idx[key]].flags = "VALID"
    /\ slot[sector][idx[key]].key = key
    /\ slot[sector][idx[key]].val = val

\* record_set() up to its write: volume full, or no update required;
\* nvol3_entry_save() finds no entry when the swap lost it.
RecordSetCheck ==
    /\ pc = "record_set"
    /\ IF VolumeFull \/ (op = "entry_save" /\ idx[key] = NoIdx)
       THEN Return("FAIL")
       ELSE IF SameRecord THEN Return("EOK") ELSE Goto("write")
    /\ UNCHANGED <<flash, ram, copy, env>>

RecordSetWrite ==
    /\ pc = "write"
    /\ \E good \in BOOLEAN :
        /\ TryWrite(sector, next_idx, Record("NEW", key, val), good)
        /\ Goto(IF good THEN "set_valid" ELSE "mark_bad")
    /\ UNCHANGED <<ram, copy, crashes>>

RecordSetMarkBad ==
    /\ pc = "mark_bad"
    /\ \E good \in BOOLEAN : TryMark(sector, next_idx, "INVALID", good)
    /\ next_idx' = next_idx + 1
    /\ Count(0, 1, 1)
    /\ Return("FAIL")
    /\ UNCHANGED <<sector, idx, cache, copy, crashes>>

\* Mutant: the cached data is updated and entry->idx is not.
InsertCacheOnly(k, v, i) ==
    /\ idx' = [idx EXCEPT ![k] = IF @ = NoIdx THEN i ELSE @]
    /\ cache' = [cache EXCEPT ![k] = IF Cached THEN v ELSE None]

\* insert_lookup_table()
InsertLookupTable(k, v, i) ==
    /\ idx' = [idx EXCEPT ![k] = i]
    /\ cache' = [cache EXCEPT ![k] = IF Cached THEN v ELSE None]

RecordSetValid ==
    /\ pc = "set_valid"
    /\ \E good \in BOOLEAN :
        /\ TryMark(sector, next_idx, "VALID", good)
        /\ Count(IF good THEN 1 ELSE 0, 0, 0)
        /\ IF good /\ idx[key] = NoIdx
           THEN InsertLookupTable(key, val, next_idx)
           ELSE UNCHANGED <<idx, cache>>
        /\ IF good /\ idx[key] # NoIdx
           THEN Goto("mark_old")
           ELSE Return(IF good THEN "EOK" ELSE "FAIL")
    /\ next_idx' = next_idx + 1
    /\ UNCHANGED <<sector, copy, crashes>>

\* Mutant: the previous record stays VALID.
RecordSetKeepOld ==
    /\ pc = "mark_old"
    /\ Count(-1, 1, 0)
    /\ InsertLookupTable(key, val, next_idx - 1)
    /\ Return("EOK")
    /\ UNCHANGED <<flash, sector, next_idx, copy, env>>

\* The result of marking the previous record is ignored.
RecordSetMarkOld ==
    /\ pc = "mark_old"
    /\ \E good \in BOOLEAN : TryMark(sector, idx[key], "INVALID", good)
    /\ Count(-1, 1, 0)
    /\ InsertLookupTable(key, val, next_idx - 1)
    /\ Return("EOK")
    /\ UNCHANGED <<sector, next_idx, copy, crashes>>

----------------------------------------------------------------------------
(* Deleting a record: nvol3_record_delete(), nvol3_entry_delete().         *)

RecordDelete(k) ==
    /\ "record_delete" \in Ops
    /\ pc = "idle"
    /\ idx[k] # NoIdx
    /\ op' = "record_delete"
    /\ key' = k
    /\ val' = None
    /\ pc' = "mark_deleted"
    /\ UNCHANGED <<flash, ram, ret, copy, env>>

RecordDeleteMark ==
    /\ pc = "mark_deleted"
    /\ \E good \in BOOLEAN :
        /\ TryMark(sector, idx[key], "INVALID", good)
        /\ IF good
           THEN /\ Count(IF stat.inuse > 0 THEN -1 ELSE 0, 1, 0)
                /\ idx' = [idx EXCEPT ![key] = NoIdx]
                /\ cache' = [cache EXCEPT ![key] = None]
                /\ Return("EOK")
           ELSE /\ UNCHANGED <<stat, idx, cache>>
                /\ Return("FAIL")
    /\ UNCHANGED <<sector, next_idx, copy, crashes>>

----------------------------------------------------------------------------
(* swap_sectors()                                                          *)

SwapErase ==
    /\ pc = "swap_erase"
    /\ \E good \in BOOLEAN :
        /\ TryErase(Other(sector), good)
        /\ IF good THEN Goto("swap_init") ELSE Return("FAIL")
    /\ UNCHANGED <<ram, copy, crashes>>

SwapInit ==
    /\ pc = "swap_init"
    /\ \E good \in BOOLEAN :
        /\ TryHeader(Other(sector), "INITIALIZING", good)
        /\ IF good
           THEN /\ todo' = Entries
                /\ src_idx' = 0
                /\ dst_idx' = 0
                /\ Goto(IF Entries = {} THEN "swap_valid" ELSE "swap_copy")
           ELSE UNCHANGED copy /\ Return("FAIL")
    /\ UNCHANGED <<ram, crashes>>

\* record_from_entry() where Cached, else the record read back from FLASH.
SwapRecord(k) ==
    IF Cached THEN Record("VALID", k, cache[k]) ELSE slot[sector][idx[k]]

\* One dict entry, in an order the hash decides.  entry->idx becomes the
\* slot in the destination at once.  Any error falls back to move_sector().
SwapCopy ==
    /\ pc = "swap_copy"
    /\ \E k \in todo :
        \/ /\ SwapRecord(k).flags = "VALID"
           /\ \E good \in BOOLEAN :
               /\ TryWrite(Other(sector), dst_idx, SwapRecord(k), good)
               /\ IF good
                  THEN /\ idx' = [idx EXCEPT ![k] = dst_idx]
                       /\ dst_idx' = dst_idx + 1
                       /\ todo' = todo \ {k}
                       /\ UNCHANGED src_idx
                       /\ Goto(IF todo = {k} THEN "swap_valid"
                                          ELSE "swap_copy")
                  ELSE /\ UNCHANGED idx
                       /\ CopyDone
                       /\ Goto(MoveEntry(sector))
        \/ /\ SwapRecord(k).flags # "VALID"
           /\ CopyDone
           /\ Goto(MoveEntry(sector))
           /\ UNCHANGED <<flash, idx, faults>>
    /\ UNCHANGED <<sector, next_idx, cache, stat, crashes>>

SwapValid ==
    /\ pc = "swap_valid"
    /\ \E good \in BOOLEAN :
        /\ TryHeader(Other(sector), "VALID", good)
        /\ IF good
           THEN /\ sector' = Other(sector)
                /\ IF Cached
                   THEN /\ next_idx' = dst_idx
                        /\ stat' = [inuse |-> Cardinality(Entries),
                                    invalid |-> 0, error |-> 0]
                   ELSE UNCHANGED <<next_idx, stat>>
                /\ Goto(IF Cached THEN "erase_src" ELSE "rebuild")
           ELSE /\ UNCHANGED <<sector, next_idx, stat>>
                /\ Return("FAIL")
    /\ CopyDone
    /\ UNCHANGED <<idx, cache, crashes>>

----------------------------------------------------------------------------
(* move_sector(): the recovery of swap_sectors(), and nvol3_repair().      *)

Repair ==
    /\ "repair" \in Ops
    /\ pc = "idle"
    /\ op' = "repair"
    /\ pc' = MoveEntry(sector)
    /\ UNCHANGED <<flash, ram, key, val, ret, copy, env>>

MoveErase ==
    /\ pc = "move_erase"
    /\ \E good \in BOOLEAN :
        /\ TryErase(Other(sector), good)
        /\ IF good THEN Goto("move_init") ELSE MoveFailed
    /\ UNCHANGED <<ram, copy, crashes>>

MoveInit ==
    /\ pc = "move_init"
    /\ \E good \in BOOLEAN :
        /\ TryHeader(Other(sector), "INITIALIZING", good)
        /\ IF good THEN Goto("move_copy") ELSE MoveFailed
    /\ UNCHANGED <<ram, copy, crashes>>

\* The scan ends after the last slot, or at the first erased one.
MoveAtEnd == src_idx \in Slots => slot[sector][src_idx].flags = "EMPTY"

MoveEnd ==
    /\ pc = "move_copy"
    /\ MoveAtEnd
    /\ Goto("move_valid")
    /\ UNCHANGED <<flash, ram, copy, env>>

\* Mutant: continues without idx++.
MoveSkipStuck ==
    /\ pc = "move_copy"
    /\ ~MoveAtEnd
    /\ ~Live(slot[sector][src_idx])
    /\ UNCHANGED vars

MoveSkip ==
    /\ pc = "move_copy"
    /\ ~MoveAtEnd
    /\ ~Live(slot[sector][src_idx])
    /\ src_idx' = src_idx + 1
    /\ UNCHANGED <<flash, ram, pc, request, ret, todo, dst_idx, env>>

MoveCopy ==
    /\ pc = "move_copy"
    /\ ~MoveAtEnd
    /\ Live(slot[sector][src_idx])
    /\ \E good \in BOOLEAN :
        /\ TryWrite(Other(sector), dst_idx, slot[sector][src_idx], good)
        /\ dst_idx' = IF good THEN dst_idx + 1 ELSE dst_idx
        /\ Goto(IF good THEN "move_copy" ELSE "move_mark")
    /\ src_idx' = src_idx + 1
    /\ UNCHANGED <<ram, todo, crashes>>

\* Mutant: a slot whose write failed is left erased.
MoveLeaveHole ==
    /\ pc = "move_mark"
    /\ dst_idx' = dst_idx + 1
    /\ Goto("move_copy")
    /\ UNCHANGED <<flash, ram, todo, src_idx, env>>

\* The slot whose write failed is marked, so that a later move does not end
\* there.
MoveMark ==
    /\ pc = "move_mark"
    /\ \E good \in BOOLEAN : TryMark(Other(sector), dst_idx, "INVALID", good)
    /\ dst_idx' = dst_idx + 1
    /\ Goto("move_copy")
    /\ UNCHANGED <<ram, todo, src_idx, crashes>>

MoveValid ==
    /\ pc = "move_valid"
    /\ \E good \in BOOLEAN :
        /\ TryHeader(Other(sector), "VALID", good)
        /\ sector' = IF good THEN Other(sector) ELSE sector
        /\ IF good THEN Goto("rebuild") ELSE MoveFailed
    /\ CopyDone
    /\ UNCHANGED <<next_idx, idx, cache, stat, crashes>>

\* The rebuild that ends swap_sectors() and nvol3_repair(), its status
\* ignored by both.
Rebuild ==
    /\ pc = "rebuild"
    /\ ConstructLookupTable(sector)
    /\ Goto("erase_src")
    /\ UNCHANGED <<sector, copy, env>>

EraseSource ==
    /\ pc = "erase_src"
    /\ \E good \in BOOLEAN :
        /\ good \/ "erase_src" \in Faults
        /\ TryErase(Other(sector), good)
        /\ CASE Loading -> Goto("construct")
             [] op = "repair" -> Return(IF good THEN "EOK" ELSE "FAIL")
             [] OTHER -> IF good THEN Goto("record_set") ELSE Return("FAIL")
    /\ UNCHANGED <<ram, copy, crashes>>

----------------------------------------------------------------------------
(* Bringing the volume up and erasing it: registry_start(),                *)
(* nvol3_validate(), nvol3_reset(), nvol3_load(), init_sectors().          *)

Known(f) == f \in {"INITIALIZING", "VALID", "INVALID"}

Validate == IF Known(hdr[1]) THEN ver[1] ELSE Known(hdr[2]) /\ ver[2]

\* init_sectors(): the sector to use and what to do first, by the flags of
\* the two sectors; unknown flags have been erased, or are treated as if.
Plan(f1, f2) ==
    LET e == "EMPTY"
        use(s, act) == [sector |-> s, act |-> act]
        flags(f) == IF f = "UNKNOWN" THEN e ELSE f
        f == <<flags(f1), flags(f2)>>
    IN  CASE f[1] = "VALID"                      -> use(1, "erase_other")
          [] f[1] = e /\ f[2] = e                -> use(1, "format")
          [] f[1] = e /\ f[2] = "VALID"          -> use(2, "none")
          [] f[1] \notin {e, "VALID"} /\ f[2] = "VALID" -> use(2, "erase_other")
          [] f[1] = e /\ f[2] \notin {e, "VALID"} -> use(2, "repair")
          [] f[1] = "INITIALIZING" /\ f[2] = "INVALID" -> use(2, "repair")
          [] OTHER                               -> use(1, "repair")

Boot ==
    /\ pc = "off"
    /\ pc' = IF Validate THEN "load" ELSE "reset1"
    /\ op' = "boot"
    /\ UNCHANGED <<flash, ram, key, val, ret, copy, env>>

\* nvol3_reset() and nvol3_delete()
Reset(o) ==
    /\ o \in Ops \intersect {"reset", "delete"}
    /\ pc = "idle"
    /\ op' = o
    /\ pc' = "reset1"
    /\ UNCHANGED <<flash, ram, key, val, ret, copy, env>>

Reset1 ==
    /\ pc = "reset1"
    /\ \E good \in BOOLEAN : TryErase(1, good)
    /\ Goto("reset2")
    /\ UNCHANGED <<ram, copy, crashes>>

Reset2 ==
    /\ pc = "reset2"
    /\ \E good \in BOOLEAN : TryErase(2, good)
    /\ IF op = "delete"
       THEN /\ Unloaded
            /\ pc' = "off" /\ op' = "none" /\ ret' = "EOK"
            /\ UNCHANGED <<key, val>>
       ELSE UNCHANGED ram /\ Goto("load")
    /\ UNCHANGED <<copy, crashes>>

\* nvol3_unload()
Unload ==
    /\ "unload" \in Ops
    /\ pc = "idle"
    /\ Unloaded
    /\ pc' = "off"
    /\ UNCHANGED <<flash, request, ret, copy, env>>

Load ==
    /\ pc = "load"
    /\ Unloaded
    /\ Goto("init1")
    /\ UNCHANGED <<flash, copy, env>>

InitUnknown(l, s, then) ==
    /\ pc = l
    /\ \/ /\ hdr[s] = "UNKNOWN"
          /\ \E good \in BOOLEAN : TryErase(s, good)
       \/ /\ hdr[s] # "UNKNOWN"
          /\ UNCHANGED <<flash, faults>>
    /\ Goto(then)
    /\ UNCHANGED <<ram, copy, crashes>>

InitSectors ==
    LET plan == Plan(hdr[1], hdr[2])
    IN  /\ pc = "init_sectors"
        /\ sector' = plan.sector
        /\ Goto(CASE plan.act = "format" -> "format_erase"
                  [] plan.act = "erase_other" -> "init_erase"
                  [] plan.act = "repair" -> MoveEntry(plan.sector)
                  [] OTHER -> "construct")
        /\ UNCHANGED <<flash, next_idx, idx, cache, stat, copy, env>>

InitErase ==
    /\ pc = "init_erase"
    /\ \E good \in BOOLEAN : TryErase(Other(sector), good)
    /\ Goto("construct")
    /\ UNCHANGED <<ram, copy, crashes>>

FormatErase ==
    /\ pc = "format_erase"
    /\ \E good \in BOOLEAN : TryErase(sector, good)
    /\ Goto("format_valid")
    /\ UNCHANGED <<ram, copy, crashes>>

FormatValid ==
    /\ pc = "format_valid"
    /\ \E good \in BOOLEAN : TryHeader(sector, "VALID", good)
    /\ Goto("construct")
    /\ UNCHANGED <<ram, copy, crashes>>

\* E_VERSION is returned, but the dict is in place and the volume is used.
Construct ==
    /\ pc = "construct"
    /\ ConstructLookupTable(sector)
    /\ Return(IF ver[sector] THEN "EOK" ELSE "FAIL")
    /\ UNCHANGED <<sector, copy, env>>

----------------------------------------------------------------------------
(* Power failure.  RAM is lost; the FLASH operation in progress is done,   *)
(* not done, or cut in the middle.                                         *)

PowerOff ==
    /\ pc # "off"
    /\ crashes < MaxCrashes
    /\ crashes' = crashes + 1
    /\ pc' = "off"
    /\ op' = "none"
    /\ key' = None
    /\ val' = None
    /\ ret' = "none"
    /\ Unloaded
    /\ CopyDone
    /\ UNCHANGED faults

Crash == PowerOff /\ UNCHANGED flash

Torn(rec) == [rec EXCEPT !.ok = FALSE]

CrashInWrite ==
    /\ PowerOff
    /\ \/ /\ pc = "write" /\ next_idx \in Slots
          /\ ProgramSlot(sector, next_idx, Torn(Record("NEW", key, val)))
       \/ /\ pc = "swap_copy" /\ dst_idx \in Slots
          /\ \E k \in todo :
                /\ SwapRecord(k).flags = "VALID"
                /\ ProgramSlot(Other(sector), dst_idx, Torn(SwapRecord(k)))
       \/ /\ pc = "move_copy" /\ src_idx \in Slots /\ dst_idx \in Slots
          /\ Live(slot[sector][src_idx])
          /\ ProgramSlot(Other(sector), dst_idx, Torn(slot[sector][src_idx]))

\* The header write in progress: its sector and flags.
HeaderWrites ==
    CASE pc \in {"swap_init", "move_init"} -> {<<Other(sector), "INITIALIZING">>}
      [] pc \in {"swap_valid", "move_valid"} -> {<<Other(sector), "VALID">>}
      [] pc = "format_valid" -> {<<sector, "VALID">>}
      [] OTHER -> {}

\* Cut in the flags word, or after it and before the version word.
CrashInHeader ==
    /\ PowerOff
    /\ \E h \in HeaderWrites :
        \/ hdr' = [hdr EXCEPT ![h[1]] = "UNKNOWN"]
        \/ /\ "torn_header" \in Faults
           /\ hdr' = [hdr EXCEPT ![h[1]] = HeaderAnd(@, h[2])]
    /\ UNCHANGED <<ver, slot>>

\* The sector being erased.
Erasures ==
    CASE pc \in {"swap_erase", "move_erase", "erase_src", "init_erase"}
                                  -> {Other(sector)}
      [] pc = "format_erase"      -> {sector}
      [] pc \in {"reset1"}        -> {1}
      [] pc \in {"reset2"}        -> {2}
      [] pc = "init1" /\ hdr[1] = "UNKNOWN" -> {1}
      [] pc = "init2" /\ hdr[2] = "UNKNOWN" -> {2}
      [] OTHER                    -> {}

\* Cut in the page with the header, or after it and before the other pages.
CrashInErase ==
    /\ PowerOff
    /\ \E s \in Erasures :
        \/ /\ hdr' = [hdr EXCEPT ![s] = "UNKNOWN"]
           /\ UNCHANGED ver
        \/ /\ "torn_erase" \in Faults
           /\ hdr' = [hdr EXCEPT ![s] = "EMPTY"]
           /\ ver' = [ver EXCEPT ![s] = FALSE]
    /\ UNCHANGED slot

----------------------------------------------------------------------------
Init ==
    /\ hdr = [s \in Sectors |-> "EMPTY"]
    /\ ver = [s \in Sectors |-> FALSE]
    /\ slot = [s \in Sectors |-> Erased]
    /\ sector = 0
    /\ next_idx = 0
    /\ idx = [k \in Keys |-> NoIdx]
    /\ cache = [k \in Keys |-> None]
    /\ stat = [inuse |-> 0, invalid |-> 0, error |-> 0]
    /\ pc = "off"
    /\ op = "none"
    /\ key = None
    /\ val = None
    /\ ret = "none"
    /\ todo = {}
    /\ src_idx = 0
    /\ dst_idx = 0
    /\ crashes = 0
    /\ faults = 0

\* What the caller starts.
Call ==
    \/ \E k \in Keys, v \in Vals : RecordSet(k, v) \/ EntryData(k, v)
    \/ \E k \in Keys : EntrySave(k) \/ RecordDelete(k)
    \/ Repair
    \/ \E o \in Ops : Reset(o)
    \/ Unload

\* What the program does next, once started.
Step ==
    \/ RecordSetCheck \/ RecordSetWrite \/ RecordSetMarkBad
    \/ RecordSetValid \/ RecordSetMarkOld
    \/ RecordDeleteMark
    \/ SwapErase \/ SwapInit \/ SwapCopy \/ SwapValid
    \/ MoveErase \/ MoveInit \/ MoveEnd \/ MoveSkip \/ MoveCopy \/ MoveMark
    \/ MoveValid
    \/ Rebuild \/ EraseSource
    \/ Reset1 \/ Reset2 \/ Load
    \/ InitUnknown("init1", 1, "init2")
    \/ InitUnknown("init2", 2, "init_sectors")
    \/ InitSectors \/ InitErase \/ FormatErase \/ FormatValid \/ Construct

PowerFailure == Crash \/ CrashInWrite \/ CrashInHeader \/ CrashInErase

Next == Boot \/ Call \/ Step \/ PowerFailure

Spec == Init /\ [][Next]_vars

\* The thread that called keeps running: every step it can take it takes.
FairSpec == Spec /\ WF_vars(Boot) /\ WF_vars(Step)

----------------------------------------------------------------------------
(* What the FLASH contents mean.                                           *)

\* The slots of sector s that a boot reads: all of them, or up to the first
\* erased one when it has to repair the volume first.
Visible(s, act) ==
    {i \in Slots : act # "repair"
                   \/ \A j \in 0 .. i : slot[s][j].flags # "EMPTY"}

\* The value of k that a boot would find on FLASH as it is now.
Stored(k) ==
    LET plan == Plan(hdr[1], hdr[2])
        found == LiveSlots(plan.sector, k)
                    \intersect Visible(plan.sector, plan.act)
    IN  IF Validate /\ found # {}
        THEN slot[plan.sector][Highest(found)].val
        ELSE None

----------------------------------------------------------------------------
(* Properties.                                                             *)

PcNames == {"off", "idle", "record_set", "write", "mark_bad", "set_valid",
            "mark_old", "mark_deleted", "swap_erase", "swap_init",
            "swap_copy", "swap_valid", "move_erase", "move_init",
            "move_copy", "move_mark", "move_valid", "rebuild", "erase_src",
            "reset1", "reset2", "load", "init1", "init2", "init_sectors",
            "init_erase", "format_erase", "format_valid", "construct"}

\* Every variable has its type; next_idx passes the end of the sector by at
\* most one, after a record_set() whose write was refused there.
TypeOK ==
    /\ hdr \in [Sectors -> SectorFlags]
    /\ ver \in [Sectors -> BOOLEAN]
    /\ slot \in [Sectors -> [Slots -> Records]]
    /\ sector \in Sectors \union {0}
    /\ next_idx \in 0 .. (MaxRecords + 1)
    /\ idx \in [Keys -> Slots \union {NoIdx}]
    /\ cache \in [Keys -> Vals \union {None}]
    /\ stat \in [inuse: Int, invalid: Int, error: Int]
    /\ pc \in PcNames
    /\ op \in (OpNames \ {"unload"}) \union {"none", "boot"}
    /\ key \in Keys \union {None}
    /\ val \in Vals \union {None}
    /\ ret \in {"none", "EOK", "FAIL"}
    /\ todo \in SUBSET Keys
    /\ src_idx \in 0 .. MaxRecords
    /\ dst_idx \in 0 .. MaxRecords
    /\ crashes \in 0 .. MaxCrashes
    /\ faults \in 0 .. MaxFaults

Writing == op \in {"record_set", "entry_save"}

\* Atomic updates (README: "robustness against power failures and
\* asynchronous resets"): no step, of the program or of a power failure, in a
\* write, swap, move, load or erase, changes what a boot would find, except
\* for the key being written or deleted, which goes to its new value; data
\* that the caller changed in the cache, which a swap writes out of RAM
\* (nvol3.h: "persists every pending cached change"); and an erased volume,
\* which is empty.
UpdatesAreAtomic ==
    [][\A k \in Keys : Stored(k)' # Stored(k) =>
          \/ (Writing \/ op = "record_delete") /\ k = key /\ Stored(k)' = val
          \/ op \in {"reset", "delete"} /\ Stored(k)' = None
          \/ Cached /\ Writing /\ Stored(k)' = cache[k]]_vars

\* An operation that returns EOK has done its work on FLASH, whatever its
\* swaps, failures and earlier power failures were: the value written is what
\* a boot would find.
SetIsDurable ==
    [][\A k \in Keys :
          k = key /\ Writing /\ pc' = "idle" /\ ret' = "EOK" =>
              Stored(k)' = val]_vars

\* A record whose deletion returned EOK does not come back on the next load
\* (nvol3_record_delete(): FLASH first, so that it would not "come back on
\* the next load").
DeleteIsDurable ==
    [][\A k \in Keys :
          k = key /\ op = "record_delete" /\ pc' = "idle" /\ ret' = "EOK" =>
              Stored(k)' = None]_vars

\* Between operations the lookup table is the one a load would build: the
\* sector is the one a boot would choose, entry->idx is the newest live
\* record of its key in it, and every slot from next_idx on is erased.
LookupTableSound ==
    pc = "idle" =>
        /\ sector = Plan(hdr[1], hdr[2]).sector
        /\ \A k \in Keys : idx[k] = IF LiveSlots(sector, k) = {} THEN NoIdx
                                    ELSE Highest(LiveSlots(sector, k))
        /\ \A i \in Slots : i >= next_idx => slot[sector][i] = Blank

\* nvol3_status_get() reports the records of the sector in use as they are.
StatusIsExact ==
    LET count(f) == Cardinality({i \in Slots : slot[sector][i].flags = f})
    IN  pc = "idle" => stat.inuse = count("VALID")
                       /\ stat.invalid = count("INVALID")

\* FLASH discipline: a record is programmed only into an erased slot; after
\* that only its flags change, until its sector is erased.
ProgramsErased ==
    \A s \in Sectors, i \in Slots : slot'[s][i] # slot[s][i] =>
        \/ slot[s][i] = Blank
        \/ slot'[s] = Erased
        \/ slot'[s][i] = [slot[s][i] EXCEPT !.flags = slot'[s][i].flags]

WriteOnce == [][ProgramsErased]_vars

\* Every operation and every boot comes back to its caller.
OperationsReturn == (pc # "idle") ~> (pc = "idle")

\* A failed write loses one record, "not the tail" (move_sector()): unless the
\* caller deletes it, a step loses at most as many records as FLASH errors
\* have happened.
OneRecordPerFault ==
    [][op \notin {"record_delete", "reset", "delete"} =>
          Cardinality({k \in Keys : Stored(k) # None /\ Stored(k)' = None})
              <= faults]_vars

----------------------------------------------------------------------------
(* Inductive invariants.                                                   *)

SwapPcs == {"swap_erase", "swap_init", "swap_copy", "swap_valid"}
MovePcs == {"move_erase", "move_init", "move_copy", "move_mark", "move_valid"}
SetPcs  == {"record_set", "write", "mark_bad", "set_valid", "mark_old"}
TailPcs == {"rebuild", "erase_src"}
BootPcs == {"reset1", "reset2", "load", "init1", "init2", "init_sectors",
            "init_erase", "format_erase", "format_valid", "construct"}

\* The control state fixes which operation runs and on what.
ControlInv ==
    /\ pc \in {"off", "idle"} => op = "none"
    /\ pc \in SwapPcs \union SetPcs => Writing
    /\ pc = "mark_deleted" => op = "record_delete"
    /\ pc \in MovePcs \union TailPcs => Writing \/ Loading \/ op = "repair"
    /\ pc \in {"reset1", "reset2"} => Loading \/ op = "delete"
    /\ pc \in BootPcs \ {"reset1", "reset2"} => Loading
    /\ Writing \/ op = "record_delete" => key \in Keys
    /\ pc \notin BootPcs \union {"off"} => sector \in Sectors
    /\ pc \in {"init_erase", "format_erase", "format_valid", "construct"} =>
            sector \in Sectors

\* How far the cursors can get.
CursorInv ==
    /\ pc \in {"record_set", "write", "mark_bad", "erase_src"} =>
            next_idx <= MaxRecords
    /\ pc = "set_valid" => next_idx \in Slots
    /\ pc = "mark_old" => next_idx - 1 \in Slots
    /\ pc \notin {"swap_copy", "swap_valid", "move_copy", "move_mark",
                  "move_valid"} => src_idx = 0 /\ dst_idx = 0
    /\ pc = "move_copy" => dst_idx <= src_idx
    /\ pc = "move_mark" => dst_idx < src_idx
    /\ pc # "swap_copy" => todo = {}
    /\ todo \subseteq Entries

TypeInv == TypeOK /\ ControlInv /\ CursorInv

BlankFrom(s, n) == \A i \in Slots : n <= i => slot[s][i] = Blank

CopyPcs == {"swap_copy", "swap_valid", "move_copy", "move_mark", "move_valid"}

\* The sector in use, and the destination of a copy, have a header.
HeaderInv ==
    /\ pc \in {"idle", "mark_deleted", "init_erase", "construct"}
                 \union SetPcs \union SwapPcs \union MovePcs \union TailPcs =>
            hdr[sector] # "EMPTY"
    /\ pc \in CopyPcs => hdr[Other(sector)] # "EMPTY"

\* What looks erased is: a slot by its flags, a sector by its header.
BlankInv ==
    \A s \in Sectors :
        /\ \A i \in Slots : slot[s][i].flags = "EMPTY" => slot[s][i] = Blank
        /\ hdr[s] = "EMPTY" => slot[s] = Erased

\* The sector in use is erased from next_idx on, and the destination of a
\* copy from dst_idx on.
TailInv ==
    /\ pc \in {"idle", "record_set", "write", "mark_old", "mark_deleted",
               "erase_src"} \union SwapPcs => BlankFrom(sector, next_idx)
    /\ pc \in MovePcs /\ ~Loading => BlankFrom(sector, next_idx)
    /\ pc \in {"mark_bad", "set_valid"} => BlankFrom(sector, next_idx + 1)
    /\ pc \in {"swap_init", "move_init"} => hdr[Other(sector)] = "EMPTY"
    /\ pc \in {"swap_copy", "swap_valid", "move_copy", "move_valid"} =>
            BlankFrom(Other(sector), dst_idx)
    /\ pc = "move_mark" => BlankFrom(Other(sector), dst_idx + 1)

\* A dict entry names a slot before next_idx; in a swap, one that has been
\* copied names a slot before dst_idx.
EntryInv ==
    /\ pc \in {"idle", "mark_deleted", "erase_src"} \union SetPcs \union SwapPcs =>
            \A k \in Entries : idx[k] < next_idx
    /\ pc \in MovePcs /\ ~Loading => \A k \in Entries : idx[k] < next_idx
    /\ pc \in SwapPcs => MaxRecords <= next_idx
    /\ pc \in {"swap_copy", "swap_valid"} =>
            \A k \in Entries \ todo : idx[k] < dst_idx

\* The used and the erased part of each sector are where the code thinks
\* they are.
ErasedInv == HeaderInv /\ BlankInv /\ TailInv /\ EntryInv
=============================================================================
