---------------------------- MODULE Nvol3Proofs ----------------------------
(***************************************************************************)
(* Proofs about Nvol3, for every set of keys, size of sector, number of    *)
(* power failures and number of FLASH failures.                            *)
(***************************************************************************)
EXTENDS Nvol3, FiniteSetTheorems, NaturalsInduction, TLAPS

----------------------------------------------------------------------------
(* Operators.                                                              *)

\* The other of two sectors is a sector, and not the same one.
LEMMA OtherSector ==
    ASSUME NEW s \in Sectors
    PROVE  /\ Other(s) \in Sectors
           /\ Other(s) # s
           /\ Other(Other(s)) = s
BY DEF Sectors, Other

\* The scans of construct_lookup_table() find what they look for: a non-empty
\* set of slots has a highest one.
LEMMA HighestSlot ==
    ASSUME NEW S, S \subseteq Slots, S # {}
    PROVE  /\ Highest(S) \in S
           /\ \A j \in S : j <= Highest(S)
<1>1. MaxRecords \in Nat
  BY ConstantsAssumption
<1> DEFINE T == {n \in Nat : MaxRecords - n \in S}
<1>2. PICK i \in S : TRUE
  OBVIOUS
<1>3. MaxRecords - i \in T
  BY <1>1, <1>2 DEF Slots
<1>4. T \subseteq Nat /\ T # {}
  BY <1>3
<1>5. PICK n \in T : \A m \in T : n <= m
  <2>1. PICK n \in T : \A m \in T : <<m, n>> \notin OpToRel(<, Nat)
    BY <1>4, NatLessThanWellFounded, WFMin
  <2>2. OpToRel(<, Nat) = {p \in Nat \X Nat : p[1] < p[2]}
    BY DEF OpToRel
  <2>3. \A m \in T : ~(m < n)
    BY <1>4, <2>1, <2>2
  <2> QED BY <1>4, <2>3
<1>6. \A j \in S : j <= MaxRecords - n
  <2>1. TAKE j \in S
  <2>2. MaxRecords - j \in T
    BY <1>1 DEF Slots
  <2> QED BY <1>1, <1>5, <2>2 DEF Slots
<1>7. MaxRecords - n \in S
  BY <1>5
<1> QED BY <1>6, <1>7 DEF Highest

LEMMA HighestBounds ==
    ASSUME NEW S, S \subseteq Slots, S # {}
    PROVE  /\ Highest(S) \in Slots
           /\ Highest(S) + 1 \in 1 .. MaxRecords
<1>1. Highest(S) \in Slots
  BY HighestSlot
<1> QED BY <1>1, ConstantsAssumption DEF Slots

LEMMA SlotsFinite ==
    ASSUME NEW S, S \subseteq Slots
    PROVE  Cardinality(S) \in Nat
<1>1. 0 \in Int /\ MaxRecords - 1 \in Int
  BY ConstantsAssumption
<1>2. IsFiniteSet(Slots)
  BY <1>1, FS_Interval DEF Slots
<1> QED BY <1>2, FS_Subset, FS_CardinalityType

LEMMA KeysFinite ==
    ASSUME NEW S, S \subseteq Keys
    PROVE  Cardinality(S) \in Nat
BY FS_Subset, FS_CardinalityType, ConstantsAssumption

\* What a record may be and what programming makes of it.
LEMMA BlankType == Blank \in Records /\ Erased \in [Slots -> Records]
BY DEF Blank, Erased, Records, RecordFlags

LEMMA RecordType ==
    ASSUME NEW f \in RecordFlags, NEW k \in Keys, NEW v \in Vals \union {None}
    PROVE  Record(f, k, v) \in Records
BY DEF Record, Records

LEMMA FlagsAndType ==
    ASSUME NEW f \in RecordFlags, NEW g \in RecordFlags
    PROVE  FlagsAnd(f, g) \in RecordFlags
BY DEF FlagsAnd, RecordFlags

LEMMA ProgramType ==
    ASSUME NEW old \in Records, NEW rec \in Records
    PROVE  /\ Program(old, rec) \in Records
           /\ Torn(rec) \in Records
           /\ [rec EXCEPT !.ok = FALSE] \in Records
<1>1. FlagsAnd(old.flags, rec.flags) \in RecordFlags
  BY FlagsAndType DEF Records
<1> QED BY <1>1 DEF Program, Records, Torn

----------------------------------------------------------------------------
(* What the FLASH operations do to the types.                              *)

FlashType ==
    /\ hdr \in [Sectors -> SectorFlags]
    /\ ver \in [Sectors -> BOOLEAN]
    /\ slot \in [Sectors -> [Slots -> Records]]
    /\ faults \in 0 .. MaxFaults

LEMMA FaultType ==
    ASSUME FlashType, NEW f, Fault(f)
    PROVE  faults' \in 0 .. MaxFaults
BY ConstantsAssumption DEF FlashType, Fault

LEMMA TryEraseType ==
    ASSUME FlashType, NEW s \in Sectors, NEW good, TryErase(s, good)
    PROVE  FlashType'
<1>1. CASE EraseSector(s) /\ UNCHANGED faults
  BY <1>1, BlankType DEF FlashType, EraseSector, SectorFlags
<1>2. CASE Fault("erase") /\ UNCHANGED flash
  BY <1>2, FaultType DEF FlashType, flash
<1> QED BY <1>1, <1>2 DEF TryErase

LEMMA TryHeaderType ==
    ASSUME FlashType, NEW s \in Sectors, NEW f \in SectorFlags, NEW good,
           TryHeader(s, f, good)
    PROVE  FlashType'
<1>1. CASE SetSectorFlags(s, f) /\ UNCHANGED faults
  <2>1. HeaderAnd(hdr[s], f) \in SectorFlags
    BY DEF HeaderAnd, FlashType
  <2> QED BY <1>1, <2>1 DEF FlashType, SetSectorFlags
<1>2. CASE Fault("header") /\ UNCHANGED flash
  BY <1>2, FaultType DEF FlashType, flash
<1> QED BY <1>1, <1>2 DEF TryHeader

LEMMA SlotUpdateType ==
    ASSUME slot \in [Sectors -> [Slots -> Records]],
           NEW s \in Sectors, NEW i \in Slots, NEW rec \in Records,
           slot' = [slot EXCEPT ![s][i] = rec]
    PROVE  slot' \in [Sectors -> [Slots -> Records]]
<1>1. [slot[s] EXCEPT ![i] = rec] \in [Slots -> Records]
  OBVIOUS
<1> QED BY <1>1

LEMMA ProgramSlotType ==
    ASSUME FlashType, NEW s \in Sectors, NEW i \in Slots, NEW rec \in Records,
           ProgramSlot(s, i, rec)
    PROVE  /\ hdr' \in [Sectors -> SectorFlags]
           /\ ver' \in [Sectors -> BOOLEAN]
           /\ slot' \in [Sectors -> [Slots -> Records]]
<1>1. Program(slot[s][i], rec) \in Records
  BY ProgramType DEF FlashType
<1>2. slot' = [slot EXCEPT ![s][i] = Program(slot[s][i], rec)]
  BY DEF FlashType, ProgramSlot
<1>3. slot' \in [Sectors -> [Slots -> Records]]
  BY <1>1, <1>2, SlotUpdateType DEF FlashType
<1> QED BY <1>3 DEF FlashType, ProgramSlot

LEMMA TryWriteType ==
    ASSUME FlashType, NEW s \in Sectors, NEW i, NEW rec \in Records, NEW good,
           TryWrite(s, i, rec, good)
    PROVE  FlashType'
<1>1. CASE i \in Slots /\ ProgramSlot(s, i, rec) /\ UNCHANGED faults
  BY <1>1, ProgramSlotType DEF FlashType
<1>2. CASE UNCHANGED <<flash, faults>>
  BY <1>2 DEF FlashType, flash
<1>3. CASE /\ i \in Slots
           /\ Fault("write")
           /\ ProgramSlot(s, i, [rec EXCEPT !.ok = FALSE])
  <2>1. [rec EXCEPT !.ok = FALSE] \in Records
    BY ProgramType
  <2> QED BY <1>3, <2>1, FaultType, ProgramSlotType DEF FlashType
<1>4. CASE Fault("write") /\ UNCHANGED flash
  BY <1>4, FaultType DEF FlashType, flash
<1> QED BY <1>1, <1>2, <1>3, <1>4 DEF TryWrite

LEMMA TryMarkType ==
    ASSUME FlashType, NEW s \in Sectors, NEW i, NEW f \in RecordFlags,
           NEW good, TryMark(s, i, f, good)
    PROVE  FlashType'
<1>1. CASE i \in Slots /\ MarkSlot(s, i, f) /\ UNCHANGED faults
  <2>1. slot[s][i] \in Records
    BY <1>1 DEF FlashType
  <2>2. FlagsAnd(slot[s][i].flags, f) \in RecordFlags
    BY <2>1, FlagsAndType DEF Records
  <2> DEFINE rec == [slot[s][i] EXCEPT !.flags = FlagsAnd(slot[s][i].flags, f)]
  <2>3. rec \in Records
    BY <2>1, <2>2 DEF Records
  <2>4. slot' = [slot EXCEPT ![s][i] = rec]
    BY <1>1 DEF FlashType, MarkSlot
  <2> HIDE DEF rec
  <2>5. slot' \in [Sectors -> [Slots -> Records]]
    BY <1>1, <2>3, <2>4, SlotUpdateType DEF FlashType
  <2> QED BY <1>1, <2>5 DEF FlashType, MarkSlot
<1>2. CASE UNCHANGED <<flash, faults>>
  BY <1>2 DEF FlashType, flash
<1>3. CASE Fault("flag") /\ UNCHANGED flash
  BY <1>3, FaultType DEF FlashType, flash
<1> QED BY <1>1, <1>2, <1>3 DEF TryMark

\* construct_lookup_table() leaves every entry at a slot, and next_idx within
\* the sector or at its end.
LEMMA ConstructType ==
    ASSUME FlashType, NEW s \in Sectors, ConstructLookupTable(s)
    PROVE  /\ hdr' \in [Sectors -> SectorFlags]
           /\ ver' \in [Sectors -> BOOLEAN]
           /\ slot' \in [Sectors -> [Slots -> Records]]
           /\ next_idx' \in 0 .. MaxRecords
           /\ idx' \in [Keys -> Slots \union {NoIdx}]
           /\ cache' \in [Keys -> Vals \union {None}]
           /\ stat' \in [inuse: Int, invalid: Int, error: Int]
<1>1. \A i \in Slots : slot[s][i] \in Records
  BY DEF FlashType
<1>2. \A k \in Keys : LiveSlots(s, k) \subseteq Slots
  BY DEF LiveSlots
<1>3. \A k \in Keys : LiveSlots(s, k) # {} => Highest(LiveSlots(s, k)) \in Slots
  BY <1>2, HighestBounds
<1>4. hdr' \in [Sectors -> SectorFlags] /\ ver' \in [Sectors -> BOOLEAN]
  BY DEF ConstructLookupTable, FlashType
<1>5. slot' \in [Sectors -> [Slots -> Records]]
  <2>1. \A i \in Slots : [slot[s][i] EXCEPT !.flags = "INVALID"] \in Records
    BY <1>1 DEF Records, RecordFlags
  <2> QED BY <1>1, <2>1 DEF ConstructLookupTable, FlashType
<1>6. next_idx' \in 0 .. MaxRecords
  <2> DEFINE used == {i \in Slots : slot[s][i].flags # "EMPTY"}
  <2>1. next_idx' = IF used = {} THEN 0 ELSE Highest(used) + 1
    BY DEF ConstructLookupTable
  <2>2. used # {} => Highest(used) + 1 \in 1 .. MaxRecords
    BY HighestBounds
  <2> HIDE DEF used
  <2> QED BY <2>1, <2>2, ConstantsAssumption
<1>7. idx' \in [Keys -> Slots \union {NoIdx}]
  BY <1>3 DEF ConstructLookupTable
<1>8. cache' \in [Keys -> Vals \union {None}]
  BY <1>1, <1>3 DEF ConstructLookupTable, Records
<1>9. stat' \in [inuse: Int, invalid: Int, error: Int]
  <2> DEFINE count(f) == Cardinality({i \in Slots : slot[s][i].flags = f})
             nbad == Cardinality({i \in Slots : slot[s][i].flags = "VALID"
                                                /\ ~slot[s][i].ok})
  <2>1. stat' = [inuse |-> count("VALID") - nbad,
                 invalid |-> count("INVALID") + nbad,
                 error |-> count("NEW") + nbad]
    BY DEF ConstructLookupTable
  <2>2. /\ count("VALID") \in Nat
        /\ count("INVALID") \in Nat
        /\ count("NEW") \in Nat
        /\ nbad \in Nat
    BY SlotsFinite
  <2> HIDE DEF count, nbad
  <2> QED BY <2>1, <2>2
<1> QED BY <1>4, <1>5, <1>6, <1>7, <1>8, <1>9

----------------------------------------------------------------------------
(* Type correctness.                                                       *)

LEMMA TypeInit == Init => TypeInv
BY BlankType, ConstantsAssumption
   DEF Init, TypeInv, TypeOK, ControlInv, CursorInv, Sectors, SectorFlags,
       Writing, Loading, Entries, PcNames, SwapPcs, MovePcs, SetPcs, TailPcs,
       BootPcs

\* The counters stay integers.
LEMMA CountType ==
    ASSUME stat \in [inuse: Int, invalid: Int, error: Int],
           NEW i \in Int, NEW j \in Int, NEW e \in Int, Count(i, j, e)
    PROVE  stat' \in [inuse: Int, invalid: Int, error: Int]
BY DEF Count

LEMMA TypeFlash == TypeInv => FlashType
BY DEF TypeInv, TypeOK, FlashType

\* Every step of the program, of its caller and of a power failure keeps the
\* types, the control state and the cursors in order.
LEMMA TypeNext == ASSUME TypeInv, [Next]_vars PROVE TypeInv'
<1> USE ConstantsAssumption
<1> USE DEF TypeInv, TypeOK, ControlInv, CursorInv, PcNames, SwapPcs, MovePcs,
            SetPcs, TailPcs, BootPcs, OpNames, Writing, Loading, flash, ram,
            request, copy, env
<1>0. FlashType
  BY TypeFlash
<1>1. CASE Boot
  <2>1. FlashType'
    BY <1>0, <1>1 DEF FlashType, Boot
  <2>2. TypeOK'
    BY <1>1, <2>1 DEF FlashType, Boot
  <2>3. ControlInv'
    BY <1>1 DEF Boot
  <2>4. CursorInv'
    BY <1>1 DEF Boot, Entries
  <2> QED BY <2>2, <2>3, <2>4
<1>2. CASE \E k \in Keys, v \in Vals : RecordSet(k, v)
  <2>1. FlashType'
    BY <1>0, <1>2 DEF FlashType, RecordSet, StartWrite, SwapEntry
  <2>2. TypeOK'
    BY <1>2, <2>1 DEF FlashType, RecordSet, StartWrite, SwapEntry
  <2>3. ControlInv'
    BY <1>2 DEF RecordSet, StartWrite, SwapEntry
  <2>4. CursorInv'
    BY <1>2 DEF RecordSet, StartWrite, SwapEntry, Entries
  <2> QED BY <2>2, <2>3, <2>4
<1>3. CASE \E k \in Keys, v \in Vals : EntryData(k, v)
  <2>1. FlashType'
    BY <1>0, <1>3 DEF FlashType, EntryData
  <2>2. TypeOK'
    BY <1>3, <2>1 DEF FlashType, EntryData
  <2>3. ControlInv'
    BY <1>3 DEF EntryData
  <2>4. CursorInv'
    BY <1>3 DEF EntryData, Entries
  <2> QED BY <2>2, <2>3, <2>4
<1>4. CASE \E k \in Keys : EntrySave(k)
  <2>1. FlashType'
    BY <1>0, <1>4 DEF FlashType, EntrySave, StartWrite, SwapEntry
  <2>2. TypeOK'
    BY <1>4, <2>1 DEF FlashType, EntrySave, StartWrite, SwapEntry
  <2>3. ControlInv'
    BY <1>4 DEF EntrySave, StartWrite, SwapEntry
  <2>4. CursorInv'
    BY <1>4 DEF EntrySave, StartWrite, SwapEntry, Entries
  <2> QED BY <2>2, <2>3, <2>4
<1>5. CASE \E k \in Keys : RecordDelete(k)
  <2>1. FlashType'
    BY <1>0, <1>5 DEF FlashType, RecordDelete
  <2>2. TypeOK'
    BY <1>5, <2>1 DEF FlashType, RecordDelete
  <2>3. ControlInv'
    BY <1>5 DEF RecordDelete
  <2>4. CursorInv'
    BY <1>5 DEF RecordDelete, Entries
  <2> QED BY <2>2, <2>3, <2>4
<1>6. CASE Repair
  <2>1. FlashType'
    BY <1>0, <1>6 DEF FlashType, Repair, MoveEntry
  <2>2. TypeOK'
    BY <1>6, <2>1 DEF FlashType, Repair, MoveEntry
  <2>3. ControlInv'
    BY <1>6 DEF Repair, MoveEntry
  <2>4. CursorInv'
    BY <1>6 DEF Repair, MoveEntry, Entries
  <2> QED BY <2>2, <2>3, <2>4
<1>7. CASE \E o \in Ops : Reset(o)
  <2>1. FlashType'
    BY <1>0, <1>7 DEF FlashType, Reset
  <2>2. TypeOK'
    BY <1>7, <2>1 DEF FlashType, Reset
  <2>3. ControlInv'
    BY <1>7 DEF Reset
  <2>4. CursorInv'
    BY <1>7 DEF Reset, Entries
  <2> QED BY <2>2, <2>3, <2>4
<1>8. CASE Unload
  <2>1. FlashType'
    BY <1>0, <1>8 DEF FlashType, Unload, Unloaded
  <2>2. TypeOK'
    BY <1>8, <2>1 DEF FlashType, Unload, Unloaded
  <2>3. ControlInv'
    BY <1>8 DEF Unload, Unloaded
  <2>4. CursorInv'
    BY <1>8 DEF Unload, Unloaded, Entries
  <2> QED BY <2>2, <2>3, <2>4
<1>9. CASE RecordSetCheck
  <2>1. FlashType'
    BY <1>0, <1>9 DEF FlashType, RecordSetCheck, Return, Goto
  <2>2. TypeOK'
    BY <1>9, <2>1 DEF FlashType, RecordSetCheck, Return, Goto
  <2>3. ControlInv'
    BY <1>9 DEF RecordSetCheck, Return, Goto
  <2>4. CursorInv'
    BY <1>9 DEF RecordSetCheck, Return, Goto, Entries
  <2> QED BY <2>2, <2>3, <2>4
<1>10. CASE RecordSetWrite
  <2>1. FlashType'
    BY <1>0, <1>10, TryWriteType, RecordType DEF RecordSetWrite, RecordFlags
  <2>2. TypeOK'
    BY <1>10, <2>1 DEF FlashType, RecordSetWrite, TryWrite, Goto
  <2>3. ControlInv'
    BY <1>10 DEF RecordSetWrite, TryWrite, Goto
  <2>4. CursorInv'
    BY <1>10 DEF RecordSetWrite, TryWrite, Goto, Entries
  <2> QED BY <2>2, <2>3, <2>4
<1>11. CASE RecordSetMarkBad
  <2>1. FlashType'
    BY <1>0, <1>11, TryMarkType DEF RecordSetMarkBad, RecordFlags
  <2>2. stat' \in [inuse: Int, invalid: Int, error: Int]
    BY <1>11, CountType DEF RecordSetMarkBad
  <2>3. TypeOK'
    BY <1>11, <2>1, <2>2 DEF FlashType, RecordSetMarkBad, Return
  <2>4. ControlInv'
    BY <1>11, <2>2 DEF RecordSetMarkBad, Return
  <2>5. CursorInv'
    BY <1>11, <2>2 DEF RecordSetMarkBad, Return, Entries
  <2> QED BY <2>3, <2>4, <2>5
<1>12. CASE RecordSetValid
  <2>1. FlashType'
    BY <1>0, <1>12, TryMarkType DEF RecordSetValid, RecordFlags
  <2>2. stat' \in [inuse: Int, invalid: Int, error: Int]
    BY <1>12, CountType DEF RecordSetValid
  <2>3. /\ idx' \in [Keys -> Slots \union {NoIdx}]
        /\ cache' \in [Keys -> Vals \union {None}]
    BY <1>12, SMTT(60) DEF RecordSetValid, InsertLookupTable
  <2>4. /\ next_idx' - 1 \in Slots
        /\ todo' = {} /\ src_idx' = 0 /\ dst_idx' = 0
        /\ pc' \in {"idle", "mark_old"}
    BY <1>12 DEF RecordSetValid, Return, Goto, Slots
  <2>5. TypeOK'
    BY <1>12, <2>1, <2>2, <2>3, <2>4
       DEF FlashType, RecordSetValid, Return, Goto, Slots
  <2>6. ControlInv'
    BY <1>12, <2>2, <2>3, <2>4 DEF RecordSetValid, Return, Goto
  <2>7. CursorInv'
    BY <1>12, <2>2, <2>3, <2>4
       DEF RecordSetValid, Return, Goto, Slots, Entries
  <2> QED BY <2>5, <2>6, <2>7
<1>13. CASE RecordSetMarkOld
  <2>1. FlashType'
    BY <1>0, <1>13, TryMarkType DEF RecordSetMarkOld, RecordFlags
  <2>2. stat' \in [inuse: Int, invalid: Int, error: Int]
    BY <1>13, CountType DEF RecordSetMarkOld
  <2>3. /\ idx' \in [Keys -> Slots \union {NoIdx}]
        /\ cache' \in [Keys -> Vals \union {None}]
    BY <1>13 DEF RecordSetMarkOld, InsertLookupTable
  <2>4. TypeOK'
    BY <1>13, <2>1, <2>2, <2>3 DEF FlashType, RecordSetMarkOld, Return
  <2>5. ControlInv'
    BY <1>13, <2>2, <2>3 DEF RecordSetMarkOld, Return
  <2>6. CursorInv'
    BY <1>13, <2>2, <2>3 DEF RecordSetMarkOld, Return, Entries
  <2> QED BY <2>4, <2>5, <2>6
<1>14. CASE RecordDeleteMark
  <2>1. FlashType'
    BY <1>0, <1>14, TryMarkType DEF RecordDeleteMark, RecordFlags
  <2>2. stat' \in [inuse: Int, invalid: Int, error: Int]
    BY <1>14, CountType DEF RecordDeleteMark
  <2>3. /\ idx' \in [Keys -> Slots \union {NoIdx}]
        /\ cache' \in [Keys -> Vals \union {None}]
    <3>1. \/ idx' = [idx EXCEPT ![key] = NoIdx]
          \/ UNCHANGED idx
      BY <1>14 DEF RecordDeleteMark
    <3>2. \/ cache' = [cache EXCEPT ![key] = None]
          \/ UNCHANGED cache
      BY <1>14 DEF RecordDeleteMark
    <3>3. idx' \in [Keys -> Slots \union {NoIdx}]
      BY <3>1
    <3>4. cache' \in [Keys -> Vals \union {None}]
      BY <3>2
    <3> QED BY <3>3, <3>4
  <2>4. TypeOK'
    BY <1>14, <2>1, <2>2, <2>3 DEF FlashType, RecordDeleteMark, Return
  <2>5. ControlInv'
    BY <1>14, <2>2, <2>3 DEF RecordDeleteMark, Return
  <2>6. CursorInv'
    BY <1>14, <2>2, <2>3 DEF RecordDeleteMark, Return, Entries
  <2> QED BY <2>4, <2>5, <2>6
<1>15. CASE SwapErase
  <2>1. FlashType'
    BY <1>0, <1>15, OtherSector, TryEraseType DEF SwapErase
  <2>2. TypeOK'
    BY <1>15, <2>1 DEF FlashType, SwapErase, Return, Goto
  <2>3. ControlInv'
    BY <1>15 DEF SwapErase, Return, Goto
  <2>4. CursorInv'
    BY <1>15 DEF SwapErase, Return, Goto, Entries
  <2> QED BY <2>2, <2>3, <2>4
<1>16. CASE SwapInit
  <2>1. FlashType'
    BY <1>0, <1>16, OtherSector, TryHeaderType DEF SwapInit, SectorFlags
  <2>2. Entries \subseteq Keys
    BY DEF Entries
  <2>3. TypeOK'
    BY <1>16, <2>1, <2>2 DEF FlashType, SwapInit, Return, Goto
  <2>4. ControlInv'
    BY <1>16, <2>2 DEF SwapInit, Return, Goto
  <2>5. CursorInv'
    BY <1>16, <2>2 DEF SwapInit, Return, Goto, Entries
  <2> QED BY <2>3, <2>4, <2>5
<1>17. CASE SwapCopy
  <2>1. /\ Other(sector) \in Sectors
        /\ \A k \in todo : SwapRecord(k).flags = "VALID" => SwapRecord(k) \in Records
    <3>1. Other(sector) \in Sectors
      BY <1>17, OtherSector DEF SwapCopy
    <3>2. ASSUME NEW k \in todo PROVE SwapRecord(k) \in Records
      <4>1. k \in Keys /\ idx[k] \in Slots
        BY DEF Entries
      <4>2. Record("VALID", k, cache[k]) \in Records
        BY <4>1, RecordType DEF RecordFlags
      <4>3. slot[sector][idx[k]] \in Records
        BY <1>17, <4>1 DEF SwapCopy
      <4> QED BY <4>2, <4>3 DEF SwapRecord
    <3> QED BY <3>1, <3>2
  <2>2. \/ UNCHANGED <<idx, todo, dst_idx, src_idx>>
        \/ UNCHANGED idx /\ CopyDone
        \/ /\ dst_idx \in Slots
           /\ \E k \in todo : idx' = [idx EXCEPT ![k] = dst_idx]
           /\ todo' \subseteq todo
           /\ dst_idx' = dst_idx + 1
           /\ UNCHANGED src_idx
    BY <1>17 DEF SwapCopy, TryWrite
  <2>3. /\ idx' \in [Keys -> Slots \union {NoIdx}]
        /\ todo' \in SUBSET Keys
        /\ src_idx' \in 0 .. MaxRecords
        /\ dst_idx' \in 0 .. MaxRecords
        /\ \A k \in Keys : idx[k] # NoIdx => idx'[k] # NoIdx
    <3>1. CASE UNCHANGED <<idx, todo, dst_idx, src_idx>>
      BY <3>1
    <3>2. CASE UNCHANGED idx /\ CopyDone
      BY <3>2 DEF CopyDone
    <3>3. CASE /\ dst_idx \in Slots
               /\ \E k \in todo : idx' = [idx EXCEPT ![k] = dst_idx]
               /\ todo' \subseteq todo
               /\ dst_idx' = dst_idx + 1
               /\ UNCHANGED src_idx
      BY <3>3 DEF Slots, NoIdx
    <3> QED BY <2>2, <3>1, <3>2, <3>3
  <2>4. FlashType'
    BY <1>0, <1>17, <2>1, TryWriteType DEF SwapCopy, FlashType
  <2>5. TypeOK'
    BY <1>17, <2>4, <2>2, <2>3
       DEF FlashType, SwapCopy, Goto, CopyDone, MoveEntry
  <2>6. ControlInv'
    BY <1>17, <2>2, <2>3 DEF SwapCopy, Goto, CopyDone, MoveEntry
  <2>7. CursorInv'
    BY <1>17, <2>2, <2>3 DEF SwapCopy, Goto, CopyDone, MoveEntry, Entries
  <2> QED BY <2>5, <2>6, <2>7
<1>18. CASE SwapValid
  <2>1. FlashType'
    BY <1>0, <1>18, OtherSector, TryHeaderType DEF SwapValid, SectorFlags
  <2>2. sector' \in Sectors
    BY <1>18, OtherSector DEF SwapValid
  <2>3. Cardinality(Entries) \in Nat
    BY KeysFinite DEF Entries
  <2>4. TypeOK'
    BY <1>18, <2>1, <2>2, <2>3
       DEF FlashType, SwapValid, Return, Goto, CopyDone
  <2>5. ControlInv'
    BY <1>18, <2>2, <2>3 DEF SwapValid, Return, Goto, CopyDone
  <2>6. CursorInv'
    BY <1>18, <2>2, <2>3 DEF SwapValid, Return, Goto, CopyDone, Entries
  <2> QED BY <2>4, <2>5, <2>6
<1>19. CASE MoveErase
  <2>1. FlashType'
    BY <1>0, <1>19, OtherSector, TryEraseType DEF MoveErase
  <2>2. TypeOK'
    BY <1>19, <2>1 DEF FlashType, MoveErase, MoveFailed, Return, Goto
  <2>3. ControlInv'
    BY <1>19 DEF MoveErase, MoveFailed, Return, Goto
  <2>4. CursorInv'
    BY <1>19 DEF MoveErase, MoveFailed, Return, Goto, Entries
  <2> QED BY <2>2, <2>3, <2>4
<1>20. CASE MoveInit
  <2>1. FlashType'
    BY <1>0, <1>20, OtherSector, TryHeaderType DEF MoveInit, SectorFlags
  <2>2. TypeOK'
    BY <1>20, <2>1 DEF FlashType, MoveInit, MoveFailed, Return, Goto
  <2>3. ControlInv'
    BY <1>20 DEF MoveInit, MoveFailed, Return, Goto
  <2>4. CursorInv'
    BY <1>20 DEF MoveInit, MoveFailed, Return, Goto, Entries
  <2> QED BY <2>2, <2>3, <2>4
<1>21. CASE MoveEnd
  <2>1. FlashType'
    BY <1>0, <1>21 DEF FlashType, MoveEnd, Goto
  <2>2. TypeOK'
    BY <1>21, <2>1 DEF FlashType, MoveEnd, Goto
  <2>3. ControlInv'
    BY <1>21 DEF MoveEnd, Goto
  <2>4. CursorInv'
    BY <1>21 DEF MoveEnd, Goto, Entries
  <2> QED BY <2>2, <2>3, <2>4
<1>22. CASE MoveSkip
  <2>1. FlashType'
    BY <1>0, <1>22 DEF FlashType, MoveSkip, MoveAtEnd, Slots
  <2>2. TypeOK'
    BY <1>22, <2>1 DEF FlashType, MoveSkip, MoveAtEnd, Slots
  <2>3. ControlInv'
    BY <1>22 DEF MoveSkip, MoveAtEnd, Slots
  <2>4. CursorInv'
    BY <1>22 DEF MoveSkip, MoveAtEnd, Slots, Entries
  <2> QED BY <2>2, <2>3, <2>4
<1>23. CASE MoveCopy
  <2>1. FlashType'
    BY <1>0, <1>23, OtherSector, TryWriteType DEF MoveCopy, MoveAtEnd
  <2>2. TypeOK'
    BY <1>23, <2>1 DEF FlashType, MoveCopy, MoveAtEnd, Goto, Slots
  <2>3. ControlInv'
    BY <1>23 DEF MoveCopy, MoveAtEnd, Goto, Slots
  <2>4. CursorInv'
    BY <1>23 DEF MoveCopy, MoveAtEnd, Goto, Slots, Entries
  <2> QED BY <2>2, <2>3, <2>4
<1>24. CASE MoveMark
  <2>1. FlashType'
    BY <1>0, <1>24, OtherSector, TryMarkType DEF MoveMark, RecordFlags
  <2>2. TypeOK'
    BY <1>24, <2>1 DEF FlashType, MoveMark, Goto
  <2>3. ControlInv'
    BY <1>24 DEF MoveMark, Goto
  <2>4. CursorInv'
    BY <1>24 DEF MoveMark, Goto, Entries
  <2> QED BY <2>2, <2>3, <2>4
<1>25. CASE MoveValid
  <2>1. FlashType'
    BY <1>0, <1>25, OtherSector, TryHeaderType DEF MoveValid, SectorFlags
  <2>2. sector' \in Sectors
    BY <1>25, OtherSector DEF MoveValid
  <2>3. TypeOK'
    BY <1>25, <2>1, <2>2
       DEF FlashType, MoveValid, MoveFailed, Return, Goto, CopyDone
  <2>4. ControlInv'
    BY <1>25, <2>2 DEF MoveValid, MoveFailed, Return, Goto, CopyDone
  <2>5. CursorInv'
    BY <1>25, <2>2
       DEF MoveValid, MoveFailed, Return, Goto, CopyDone, Entries
  <2> QED BY <2>3, <2>4, <2>5
<1>26. CASE Rebuild
  <2>1. FlashType'
    BY <1>0, <1>26, ConstructType DEF Rebuild, FlashType
  <2>2. /\ next_idx' \in 0 .. MaxRecords
        /\ idx' \in [Keys -> Slots \union {NoIdx}]
        /\ cache' \in [Keys -> Vals \union {None}]
        /\ stat' \in [inuse: Int, invalid: Int, error: Int]
    BY <1>0, <1>26, ConstructType DEF Rebuild
  <2>3. TypeOK'
    BY <1>26, <2>1, <2>2 DEF FlashType, Rebuild, Goto
  <2>4. ControlInv'
    BY <1>26, <2>2 DEF Rebuild, Goto
  <2>5. CursorInv'
    BY <1>26, <2>2 DEF Rebuild, Goto, Entries
  <2> QED BY <2>3, <2>4, <2>5
<1>27. CASE EraseSource
  <2>1. FlashType'
    BY <1>0, <1>27, OtherSector, TryEraseType DEF EraseSource
  <2>2. TypeOK'
    BY <1>27, <2>1 DEF FlashType, EraseSource, Return, Goto
  <2>3. ControlInv'
    BY <1>27 DEF EraseSource, Return, Goto
  <2>4. CursorInv'
    BY <1>27 DEF EraseSource, Return, Goto, Entries
  <2> QED BY <2>2, <2>3, <2>4
<1>28. CASE Reset1
  <2>1. FlashType'
    BY <1>0, <1>28, TryEraseType DEF Reset1, Sectors
  <2>2. TypeOK'
    BY <1>28, <2>1 DEF FlashType, Reset1, Goto
  <2>3. ControlInv'
    BY <1>28 DEF Reset1, Goto
  <2>4. CursorInv'
    BY <1>28 DEF Reset1, Goto, Entries
  <2> QED BY <2>2, <2>3, <2>4
<1>29. CASE Reset2
  <2>1. FlashType'
    BY <1>0, <1>29, TryEraseType DEF Reset2, Sectors
  <2>2. TypeOK'
    BY <1>29, <2>1 DEF FlashType, Reset2, Unloaded, Goto
  <2>3. ControlInv'
    BY <1>29 DEF Reset2, Unloaded, Goto
  <2>4. CursorInv'
    BY <1>29 DEF Reset2, Unloaded, Goto, Entries
  <2> QED BY <2>2, <2>3, <2>4
<1>30. CASE Load
  <2>1. FlashType'
    BY <1>0, <1>30 DEF FlashType, Load, Unloaded, Goto
  <2>2. TypeOK'
    BY <1>30, <2>1 DEF FlashType, Load, Unloaded, Goto
  <2>3. ControlInv'
    BY <1>30 DEF Load, Unloaded, Goto
  <2>4. CursorInv'
    BY <1>30 DEF Load, Unloaded, Goto, Entries
  <2> QED BY <2>2, <2>3, <2>4
<1>31. CASE InitUnknown("init1", 1, "init2")
  <2>1. FlashType'
    BY <1>0, <1>31, TryEraseType DEF InitUnknown, Sectors, FlashType
  <2>2. TypeOK'
    BY <1>31, <2>1 DEF FlashType, InitUnknown, Goto
  <2>3. ControlInv'
    BY <1>31 DEF InitUnknown, Goto
  <2>4. CursorInv'
    BY <1>31 DEF InitUnknown, Goto, Entries
  <2> QED BY <2>2, <2>3, <2>4
<1>32. CASE InitUnknown("init2", 2, "init_sectors")
  <2>1. FlashType'
    BY <1>0, <1>32, TryEraseType DEF InitUnknown, Sectors, FlashType
  <2>2. TypeOK'
    BY <1>32, <2>1 DEF FlashType, InitUnknown, Goto
  <2>3. ControlInv'
    BY <1>32 DEF InitUnknown, Goto
  <2>4. CursorInv'
    BY <1>32 DEF InitUnknown, Goto, Entries
  <2> QED BY <2>2, <2>3, <2>4
<1>33. CASE InitSectors
  <2>1. FlashType'
    BY <1>0, <1>33
       DEF FlashType, InitSectors, MoveEntry, Goto, Plan, Sectors
  <2>2. TypeOK'
    BY <1>33, <2>1
       DEF FlashType, InitSectors, MoveEntry, Goto, Plan, Sectors
  <2>3. ControlInv'
    BY <1>33 DEF InitSectors, MoveEntry, Goto, Plan, Sectors
  <2>4. CursorInv'
    BY <1>33 DEF InitSectors, MoveEntry, Goto, Plan, Sectors, Entries
  <2> QED BY <2>2, <2>3, <2>4
<1>34. CASE InitErase
  <2>1. FlashType'
    BY <1>0, <1>34, OtherSector, TryEraseType DEF InitErase
  <2>2. TypeOK'
    BY <1>34, <2>1 DEF FlashType, InitErase, Goto
  <2>3. ControlInv'
    BY <1>34 DEF InitErase, Goto
  <2>4. CursorInv'
    BY <1>34 DEF InitErase, Goto, Entries
  <2> QED BY <2>2, <2>3, <2>4
<1>35. CASE FormatErase
  <2>1. FlashType'
    BY <1>0, <1>35, TryEraseType DEF FormatErase
  <2>2. TypeOK'
    BY <1>35, <2>1 DEF FlashType, FormatErase, Goto
  <2>3. ControlInv'
    BY <1>35 DEF FormatErase, Goto
  <2>4. CursorInv'
    BY <1>35 DEF FormatErase, Goto, Entries
  <2> QED BY <2>2, <2>3, <2>4
<1>36. CASE FormatValid
  <2>1. FlashType'
    BY <1>0, <1>36, TryHeaderType DEF FormatValid, SectorFlags
  <2>2. TypeOK'
    BY <1>36, <2>1 DEF FlashType, FormatValid, Goto
  <2>3. ControlInv'
    BY <1>36 DEF FormatValid, Goto
  <2>4. CursorInv'
    BY <1>36 DEF FormatValid, Goto, Entries
  <2> QED BY <2>2, <2>3, <2>4
<1>37. CASE Construct
  <2>1. FlashType'
    BY <1>0, <1>37, ConstructType DEF Construct, FlashType
  <2>2. /\ next_idx' \in 0 .. MaxRecords
        /\ idx' \in [Keys -> Slots \union {NoIdx}]
        /\ cache' \in [Keys -> Vals \union {None}]
        /\ stat' \in [inuse: Int, invalid: Int, error: Int]
    BY <1>0, <1>37, ConstructType DEF Construct
  <2>3. TypeOK'
    BY <1>37, <2>1, <2>2 DEF FlashType, Construct, Return
  <2>4. ControlInv'
    BY <1>37, <2>2 DEF Construct, Return
  <2>5. CursorInv'
    BY <1>37, <2>2 DEF Construct, Return, Entries
  <2> QED BY <2>3, <2>4, <2>5
<1>38. CASE Crash
  <2>1. FlashType'
    BY <1>0, <1>38 DEF FlashType, Crash, PowerOff, Unloaded, CopyDone
  <2>2. TypeOK'
    BY <1>38, <2>1 DEF FlashType, Crash, PowerOff, Unloaded, CopyDone
  <2>3. ControlInv'
    BY <1>38 DEF Crash, PowerOff, Unloaded, CopyDone
  <2>4. CursorInv'
    BY <1>38 DEF Crash, PowerOff, Unloaded, CopyDone, Entries
  <2> QED BY <2>2, <2>3, <2>4
<1>39. CASE CrashInWrite
  <2>1. \E s \in Sectors, i \in Slots, rec \in Records : ProgramSlot(s, i, Torn(rec))
    <3>1. CASE /\ pc = "write" /\ next_idx \in Slots
               /\ ProgramSlot(sector, next_idx, Torn(Record("NEW", key, val)))
      BY <3>1, RecordType DEF RecordFlags
    <3>2. CASE /\ pc = "swap_copy" /\ dst_idx \in Slots
               /\ \E k \in todo : ProgramSlot(Other(sector), dst_idx,
                                              Torn(SwapRecord(k)))
      <4>1. PICK k \in todo : ProgramSlot(Other(sector), dst_idx,
                                          Torn(SwapRecord(k)))
        BY <3>2
      <4>2. k \in Keys /\ idx[k] \in Slots
        BY DEF Entries
      <4>3. Record("VALID", k, cache[k]) \in Records
        BY <4>2, RecordType DEF RecordFlags
      <4>4. sector \in Sectors
        BY <3>2
      <4>5. slot[sector][idx[k]] \in Records
        BY <4>2, <4>4
      <4> QED BY <3>2, <4>1, <4>3, <4>4, <4>5, OtherSector DEF SwapRecord
    <3>3. CASE /\ pc = "move_copy" /\ src_idx \in Slots /\ dst_idx \in Slots
               /\ ProgramSlot(Other(sector), dst_idx,
                              Torn(slot[sector][src_idx]))
      BY <3>3, OtherSector
    <3> QED BY <1>39, <3>1, <3>2, <3>3 DEF CrashInWrite
  <2>2. FlashType'
    BY <1>0, <1>39, <2>1, ProgramSlotType, ProgramType
       DEF CrashInWrite, PowerOff, FlashType
  <2>3. TypeOK'
    BY <1>39, <2>2 DEF FlashType, CrashInWrite, PowerOff, Unloaded, CopyDone
  <2>4. ControlInv'
    BY <1>39 DEF CrashInWrite, PowerOff, Unloaded, CopyDone
  <2>5. CursorInv'
    BY <1>39 DEF CrashInWrite, PowerOff, Unloaded, CopyDone, Entries
  <2> QED BY <2>3, <2>4, <2>5
<1>40. CASE CrashInHeader
  <2>1. \A h \in HeaderWrites : h[1] \in Sectors /\ h[2] \in SectorFlags
    <3>1. CASE pc \in {"swap_init", "move_init"}
      BY <3>1, OtherSector DEF HeaderWrites, SectorFlags
    <3>2. CASE pc \in {"swap_valid", "move_valid"}
      BY <3>2, OtherSector DEF HeaderWrites, SectorFlags
    <3>3. CASE pc = "format_valid"
      BY <3>3 DEF HeaderWrites, SectorFlags
    <3>4. CASE pc \notin {"swap_init", "move_init", "swap_valid", "move_valid",
                          "format_valid"}
      BY <3>4 DEF HeaderWrites
    <3> QED BY <3>1, <3>2, <3>3, <3>4
  <2>2. \A s \in Sectors, f \in SectorFlags : HeaderAnd(hdr[s], f) \in SectorFlags
    BY <1>0 DEF FlashType, HeaderAnd
  <2>3. hdr' \in [Sectors -> SectorFlags]
    <3>1. PICK h \in HeaderWrites :
             \/ hdr' = [hdr EXCEPT ![h[1]] = "UNKNOWN"]
             \/ hdr' = [hdr EXCEPT ![h[1]] = HeaderAnd(@, h[2])]
      BY <1>40 DEF CrashInHeader
    <3>2. h[1] \in Sectors /\ HeaderAnd(hdr[h[1]], h[2]) \in SectorFlags
      BY <2>1, <2>2
    <3>3. "UNKNOWN" \in SectorFlags
      BY DEF SectorFlags
    <3> QED BY <1>0, <3>1, <3>2, <3>3 DEF FlashType
  <2>4. FlashType'
    BY <1>0, <1>40, <2>3 DEF CrashInHeader, PowerOff, FlashType
  <2>5. TypeOK'
    BY <1>40, <2>4
       DEF FlashType, CrashInHeader, PowerOff, Unloaded, CopyDone
  <2>6. ControlInv'
    BY <1>40 DEF CrashInHeader, PowerOff, Unloaded, CopyDone
  <2>7. CursorInv'
    BY <1>40 DEF CrashInHeader, PowerOff, Unloaded, CopyDone, Entries
  <2> QED BY <2>5, <2>6, <2>7
<1>41. CASE CrashInErase
  <2>1. Erasures \subseteq Sectors
    <3>1. pc \in {"swap_erase", "move_erase", "erase_src", "init_erase"} =>
                Other(sector) \in Sectors
      BY OtherSector
    <3> QED BY <3>1 DEF Erasures, Sectors
  <2>2. FlashType'
    BY <1>0, <1>41, <2>1 DEF CrashInErase, PowerOff, FlashType, SectorFlags
  <2>3. TypeOK'
    BY <1>41, <2>2 DEF FlashType, CrashInErase, PowerOff, Unloaded, CopyDone
  <2>4. ControlInv'
    BY <1>41 DEF CrashInErase, PowerOff, Unloaded, CopyDone
  <2>5. CursorInv'
    BY <1>41 DEF CrashInErase, PowerOff, Unloaded, CopyDone, Entries
  <2> QED BY <2>3, <2>4, <2>5
<1>42. CASE UNCHANGED vars
  <2>1. FlashType'
    BY <1>0, <1>42 DEF FlashType, vars
  <2>2. TypeOK'
    BY <1>42, <2>1 DEF FlashType, vars
  <2>3. ControlInv'
    BY <1>42 DEF vars
  <2>4. CursorInv'
    BY <1>42 DEF vars, Entries
  <2> QED BY <2>2, <2>3, <2>4
<1> QED
  BY <1>1, <1>2, <1>3, <1>4, <1>5, <1>6, <1>7, <1>8, <1>9, <1>10, <1>11,
     <1>12, <1>13, <1>14, <1>15, <1>16, <1>17, <1>18, <1>19, <1>20, <1>21,
     <1>22, <1>23, <1>24, <1>25, <1>26, <1>27, <1>28, <1>29, <1>30, <1>31,
     <1>32, <1>33, <1>34, <1>35, <1>36, <1>37, <1>38, <1>39, <1>40, <1>41,
     <1>42
     DEF Next, Call, Step, PowerFailure

\* The volume keeps its types, runs one operation at a time and stays within
\* its sectors, for every size of sector, with any number of power failures
\* and FLASH errors: next_idx never passes the end of a sector by more than
\* one, and a copy never writes further than it has read.
THEOREM TypeCorrect == Spec => []TypeInv
<1>1. Init => TypeInv
  BY TypeInit
<1>2. TypeInv /\ [Next]_vars => TypeInv'
  BY TypeNext
<1> QED BY <1>1, <1>2, PTL DEF Spec

----------------------------------------------------------------------------
(* FLASH discipline, where no sector header write fails and no power cut   *)
(* comes between the pages of an erase.                                    *)

SafeFaults == Faults \intersect {"header", "torn_erase"} = {}

\* What a step may do to a sector: nothing; erase it; program slot i, which
\* leaves something that does not look erased; change the flags of records.
Kept(s) == hdr'[s] = hdr[s] /\ slot'[s] = slot[s]

Wiped(s) == hdr'[s] = "EMPTY" /\ slot'[s] = Erased

Programmed(s, i) ==
    /\ hdr'[s] = hdr[s]
    /\ \A j \in Slots : j # i => slot'[s][j] = slot[s][j]
    /\ i \in Slots
    /\ slot'[s][i].flags # "EMPTY"

Marked(s) ==
    /\ hdr'[s] = hdr[s]
    /\ \A j \in Slots :
        \/ slot'[s][j] = slot[s][j]
        \/ /\ slot'[s][j] = [slot[s][j] EXCEPT !.flags = slot'[s][j].flags]
           /\ slot'[s][j].flags # "EMPTY"

LEMMA EraseEffect ==
    ASSUME FlashType, NEW s \in Sectors, NEW good \in BOOLEAN,
           TryErase(s, good)
    PROVE  /\ IF good THEN Wiped(s) ELSE Kept(s)
           /\ Kept(Other(s))
<1>1. Other(s) \in Sectors /\ Other(s) # s
  BY OtherSector
<1>2. CASE good
  BY <1>1, <1>2 DEF FlashType, TryErase, EraseSector, Wiped, Kept
<1>3. CASE ~good
  BY <1>1, <1>3 DEF TryErase, flash, Kept
<1> QED BY <1>2, <1>3

LEMMA HeaderEffect ==
    ASSUME FlashType, SafeFaults, NEW s \in Sectors, NEW good \in BOOLEAN,
           NEW f \in {"INITIALIZING", "VALID"}, TryHeader(s, f, good)
    PROVE  /\ good
           /\ hdr'[s] # "EMPTY"
           /\ hdr'[Other(s)] = hdr[Other(s)]
           /\ slot' = slot
<1>1. Other(s) \in Sectors /\ Other(s) # s
  BY OtherSector
<1>2. "header" \notin Faults
  BY DEF SafeFaults
<1>3. good /\ SetSectorFlags(s, f)
  BY <1>2 DEF TryHeader, Fault
<1> QED BY <1>1, <1>3 DEF FlashType, SetSectorFlags, HeaderAnd

LEMMA ProgramEffect ==
    ASSUME FlashType, NEW s \in Sectors, NEW i \in Slots, NEW rec \in Records,
           rec.flags # "EMPTY", ProgramSlot(s, i, rec)
    PROVE  Programmed(s, i) /\ Kept(Other(s))
<1>1. Other(s) \in Sectors /\ Other(s) # s
  BY OtherSector
<1>2. Program(slot[s][i], rec).flags # "EMPTY"
  <2>1. slot[s][i] \in Records
    BY DEF FlashType
  <2> QED BY <2>1 DEF Program, FlagsAnd, Records, RecordFlags
<1>3. slot' = [slot EXCEPT ![s][i] = Program(slot[s][i], rec)]
  BY DEF FlashType, ProgramSlot
<1> QED BY <1>1, <1>2, <1>3 DEF FlashType, ProgramSlot, Programmed, Kept

LEMMA WriteEffect ==
    ASSUME FlashType, NEW s \in Sectors, NEW i, NEW rec \in Records,
           NEW good \in BOOLEAN, rec.flags # "EMPTY", TryWrite(s, i, rec, good)
    PROVE  /\ Programmed(s, i) \/ (Kept(s) /\ ~good)
           /\ Kept(Other(s))
<1>1. CASE i \in Slots /\ ProgramSlot(s, i, rec)
  BY <1>1, ProgramEffect
<1>2. CASE UNCHANGED flash /\ ~good
  BY <1>2 DEF flash, Programmed, Kept
<1>3. CASE i \in Slots /\ ProgramSlot(s, i, [rec EXCEPT !.ok = FALSE])
  <2>1. [rec EXCEPT !.ok = FALSE] \in Records
    BY ProgramType
  <2>2. [rec EXCEPT !.ok = FALSE].flags = rec.flags
    BY DEF Records
  <2> QED BY <1>3, <2>1, <2>2, ProgramEffect
<1> QED BY <1>1, <1>2, <1>3 DEF TryWrite

LEMMA MarkEffect ==
    ASSUME FlashType, NEW s \in Sectors, NEW i, NEW good \in BOOLEAN,
           NEW f \in {"VALID", "INVALID"}, TryMark(s, i, f, good)
    PROVE  /\ Marked(s)
           /\ Programmed(s, i) \/ Kept(s)
           /\ Kept(Other(s))
<1>1. Other(s) \in Sectors /\ Other(s) # s
  BY OtherSector
<1>2. CASE i \in Slots /\ MarkSlot(s, i, f)
  <2>1. slot[s][i] \in Records
    BY <1>2 DEF FlashType
  <2> DEFINE g == FlagsAnd(slot[s][i].flags, f)
             rec == [slot[s][i] EXCEPT !.flags = g]
  <2>2. g # "EMPTY"
    BY DEF FlagsAnd
  <2>3. rec.flags = g
    BY <2>1 DEF Records
  <2>4. slot' = [slot EXCEPT ![s][i] = rec]
    BY <1>2 DEF FlashType, MarkSlot
  <2>5. rec = [slot[s][i] EXCEPT !.flags = rec.flags]
    BY <2>3
  <2> HIDE DEF g, rec
  <2>6. /\ slot'[s][i] = rec
        /\ \A j \in Slots : j # i => slot'[s][j] = slot[s][j]
        /\ slot'[Other(s)] = slot[Other(s)]
    BY <1>1, <1>2, <2>4 DEF FlashType
  <2>7. hdr' = hdr
    BY <1>2 DEF MarkSlot
  <2>8. Marked(s)
    BY <2>2, <2>3, <2>5, <2>6, <2>7 DEF Marked
  <2>9. Programmed(s, i) /\ Kept(Other(s))
    BY <1>2, <2>2, <2>3, <2>6, <2>7 DEF Programmed, Kept
  <2> QED BY <1>2, <2>8, <2>9
<1>3. CASE UNCHANGED flash /\ ~good
  BY <1>3 DEF flash, Marked, Programmed, Kept
<1> QED BY <1>2, <1>3 DEF TryMark

\* construct_lookup_table() changes flags only, and finds the last slot used.
LEMMA ConstructEffect ==
    ASSUME FlashType, BlankInv, NEW s \in Sectors, ConstructLookupTable(s)
    PROVE  /\ Marked(s)
           /\ Kept(Other(s))
           /\ \A i \in Slots : next_idx' <= i => slot'[s][i] = Blank
           /\ \A k \in Keys : idx'[k] # NoIdx => idx'[k] < next_idx'
<1>1. Other(s) \in Sectors /\ Other(s) # s
  BY OtherSector
<1>2. Kept(Other(s))
  BY <1>1 DEF FlashType, ConstructLookupTable, Kept
<1> DEFINE bad(i) == slot[s][i].flags = "VALID" /\ ~slot[s][i].ok
<1>3. \A i \in Slots : slot'[s][i] = IF bad(i)
                                     THEN [slot[s][i] EXCEPT !.flags = "INVALID"]
                                     ELSE slot[s][i]
  BY DEF FlashType, ConstructLookupTable
<1>4. ASSUME NEW i \in Slots, bad(i)
      PROVE  /\ slot'[s][i] = [slot[s][i] EXCEPT !.flags = slot'[s][i].flags]
             /\ slot'[s][i].flags # "EMPTY"
  <2>1. slot[s][i] \in Records
    BY DEF FlashType
  <2>2. slot'[s][i] = [slot[s][i] EXCEPT !.flags = "INVALID"]
    BY <1>3, <1>4
  <2>3. slot'[s][i].flags = "INVALID"
    BY <2>1, <2>2 DEF Records
  <2> QED BY <2>2, <2>3
<1>5. Marked(s)
  <2>1. hdr'[s] = hdr[s]
    BY DEF ConstructLookupTable
  <2>2. \A i \in Slots : ~bad(i) => slot'[s][i] = slot[s][i]
    BY <1>3
  <2> HIDE DEF bad
  <2> QED BY <1>4, <2>1, <2>2 DEF Marked
<1>6. ASSUME NEW i \in Slots, next_idx' <= i PROVE slot'[s][i] = Blank
  <2> DEFINE used == {j \in Slots : slot[s][j].flags # "EMPTY"}
  <2>1. next_idx' = IF used = {} THEN 0 ELSE Highest(used) + 1
    BY DEF ConstructLookupTable
  <2>2. used # {} => Highest(used) \in Slots /\ \A j \in used : j <= Highest(used)
    BY HighestSlot
  <2>3. i \notin used
    <3> HIDE DEF used
    <3> QED BY <1>6, <2>1, <2>2 DEF Slots
  <2>4. slot[s][i].flags = "EMPTY"
    BY <2>3
  <2>5. slot[s][i] = Blank
    BY <2>4 DEF BlankInv
  <2> QED BY <1>3, <2>4, <2>5
<1>7. ASSUME NEW k \in Keys, idx'[k] # NoIdx PROVE idx'[k] < next_idx'
  <2> DEFINE used == {j \in Slots : slot[s][j].flags # "EMPTY"}
  <2>1. LiveSlots(s, k) # {} /\ idx'[k] = Highest(LiveSlots(s, k))
    BY <1>7 DEF ConstructLookupTable
  <2>2. LiveSlots(s, k) \subseteq used /\ used \subseteq Slots
    BY DEF LiveSlots, Live
  <2>3. idx'[k] \in used
    BY <2>1, <2>2, HighestSlot
  <2>4. next_idx' = Highest(used) + 1
    BY <2>3 DEF ConstructLookupTable
  <2>5. Highest(used) \in Slots /\ idx'[k] <= Highest(used)
    BY <2>2, <2>3, HighestSlot
  <2> HIDE DEF used
  <2>6. idx'[k] \in Slots
    BY <2>2, <2>3
  <2> QED BY <2>4, <2>5, <2>6, ConstantsAssumption DEF Slots
<1> QED BY <1>2, <1>5, <1>6, <1>7

\* What every step does to a sector: one of these things, and it programs
\* erased slots only.
Benign(s) ==
    \/ Kept(s)
    \/ Wiped(s)
    \/ Marked(s) /\ hdr[s] # "EMPTY"
    \/ \E i \in Slots : Programmed(s, i) /\ slot[s][i] = Blank /\ hdr[s] # "EMPTY"
    \/ slot'[s] = slot[s] /\ hdr'[s] # "EMPTY"

\* The erased end of a sector, one step later.
LEMMA BlankFromStep ==
    ASSUME NEW s \in Sectors, NEW n \in Int, NEW m \in Int, NEW i,
           n <= m, BlankFrom(s, n), Kept(s) \/ (Programmed(s, i) /\ i < m)
    PROVE  \A j \in Slots : m <= j => slot'[s][j] = Blank
<1> SUFFICES ASSUME NEW j \in Slots, m <= j PROVE slot'[s][j] = Blank
  OBVIOUS
<1>1. j \in Int
  BY DEF Slots
<1>2. slot[s][j] = Blank
  BY <1>1 DEF BlankFrom
<1>3. Programmed(s, i) /\ i < m => i \in Int /\ i # j
  BY <1>1 DEF Programmed, Slots
<1> QED BY <1>2, <1>3 DEF Kept, Programmed

LEMMA BlankFromNext ==
    ASSUME NEW s \in Sectors, NEW n \in Int, BlankFrom(s, n),
           Kept(s) \/ Programmed(s, n)
    PROVE  \A j \in Slots : n + 1 <= j => slot'[s][j] = Blank
<1>1. n + 1 \in Int /\ n <= n + 1 /\ n < n + 1
  OBVIOUS
<1> QED BY <1>1, BlankFromStep

LEMMA BothSectors ==
    ASSUME NEW s \in Sectors, Benign(s), Benign(Other(s))
    PROVE  \A t \in Sectors : Benign(t)
<1>1. Sectors = {s, Other(s)}
  BY DEF Sectors, Other
<1> QED BY <1>1

LEMMA BenignStep ==
    ASSUME BlankInv, \A s \in Sectors : Benign(s)
    PROVE  BlankInv' /\ ProgramsErased
<1>1. ASSUME NEW s \in Sectors, NEW i \in Slots
      PROVE  /\ slot'[s][i].flags = "EMPTY" => slot'[s][i] = Blank
             /\ hdr'[s] = "EMPTY" => slot'[s] = Erased
             /\ slot'[s][i] # slot[s][i] =>
                    \/ slot[s][i] = Blank
                    \/ slot'[s] = Erased
                    \/ slot'[s][i] =
                            [slot[s][i] EXCEPT !.flags = slot'[s][i].flags]
  <2>1. CASE Kept(s)
    BY <2>1 DEF Kept, BlankInv
  <2>2. CASE Wiped(s)
    BY <2>2 DEF Wiped, Erased
  <2>3. CASE Marked(s) /\ hdr[s] # "EMPTY"
    BY <2>3 DEF Marked, BlankInv
  <2>4. CASE \E j \in Slots : Programmed(s, j) /\ slot[s][j] = Blank
                              /\ hdr[s] # "EMPTY"
    BY <2>4 DEF Programmed, BlankInv
  <2>5. CASE slot'[s] = slot[s] /\ hdr'[s] # "EMPTY"
    BY <2>5 DEF BlankInv
  <2> QED BY <2>1, <2>2, <2>3, <2>4, <2>5 DEF Benign
<1>2. 0 \in Slots
  BY ConstantsAssumption DEF Slots
<1> QED BY <1>1, <1>2 DEF BlankInv, ProgramsErased

\* A volume that is not formatted has a header on the sector it uses.
LEMMA PlanHeader ==
    ASSUME FlashType
    PROVE  LET plan == Plan(hdr[1], hdr[2])
           IN  /\ plan.sector \in Sectors
               /\ hdr[plan.sector] = "EMPTY" =>
                      plan.act \notin {"none", "erase_other", "repair"}
<1>1. hdr[1] \in SectorFlags /\ hdr[2] \in SectorFlags
  BY DEF FlashType, Sectors
<1>2. CASE hdr[1] = "VALID"
  BY <1>2 DEF Plan, Sectors
<1>3. CASE hdr[1] \in {"EMPTY", "UNKNOWN"}
  <2>1. CASE hdr[2] \in {"EMPTY", "UNKNOWN"}
    BY <1>3, <2>1 DEF Plan, Sectors
  <2>2. CASE hdr[2] \notin {"EMPTY", "UNKNOWN"}
    BY <1>3, <2>2 DEF Plan, Sectors
  <2> QED BY <2>1, <2>2
<1>4. CASE hdr[1] \in {"INITIALIZING", "INVALID"}
  <2>1. CASE hdr[2] \in {"VALID", "INVALID"}
    BY <1>4, <2>1 DEF Plan, Sectors
  <2>2. CASE hdr[2] \notin {"VALID", "INVALID"}
    BY <1>4, <2>2 DEF Plan, Sectors
  <2> QED BY <2>1, <2>2
<1> QED BY <1>1, <1>2, <1>3, <1>4 DEF SectorFlags

LEMMA PlanActs ==
    Plan(hdr[1], hdr[2]).act \in {"none", "erase_other", "repair", "format"}
BY DEF Plan

LEMMA ErasedInit == Init => ErasedInv
BY DEF Init, ErasedInv, HeaderInv, BlankInv, TailInv, SetPcs, SwapPcs,
       MovePcs, TailPcs, CopyPcs, Erased, EntryInv, Entries

\* Every step keeps the erased parts where they are taken to be, and programs
\* erased slots only.
LEMMA ErasedNext ==
    ASSUME SafeFaults, TypeInv, ErasedInv, [Next]_vars
    PROVE  ErasedInv' /\ ProgramsErased
<1> USE ConstantsAssumption
<1> USE DEF PcNames, SwapPcs, MovePcs, SetPcs, TailPcs, BootPcs, CopyPcs, Writing,
            Loading, flash, ram, request, copy, env
<1>0. /\ FlashType
      /\ TypeOK /\ ControlInv /\ CursorInv
      /\ HeaderInv /\ BlankInv /\ TailInv /\ EntryInv
      /\ sector \in Sectors => Other(sector) \in Sectors /\ Other(sector) # sector
                               /\ Other(Other(sector)) = sector
  BY TypeFlash, OtherSector DEF TypeInv, ErasedInv
<1>1. CASE Boot
  <2>1. UNCHANGED flash
    BY <1>0, <1>1 DEF Boot, ControlInv, CursorInv, FlashType
  <2>2. \A s \in Sectors : Benign(s)
    BY <2>1 DEF Benign, Kept
  <2>3. HeaderInv'
    BY <1>0, <1>1, <2>1
       DEF HeaderInv, ControlInv, Kept, Wiped, Marked, Programmed, Boot
  <2>4. TailInv'
    BY <1>0, <1>1, <2>1
       DEF TailInv, HeaderInv, BlankInv, BlankFrom, ControlInv, CursorInv,
           EntryInv, TypeOK, Kept, Wiped, Programmed, Erased, Entries, Boot
  <2>5. EntryInv'
    BY <1>0, <1>1, <2>1
       DEF EntryInv, TypeOK, ControlInv, CursorInv, Entries, Slots, NoIdx,
           Boot
  <2> QED BY <1>0, <2>2, <2>3, <2>4, <2>5, BenignStep DEF ErasedInv
<1>2. CASE \E k \in Keys, v \in Vals : RecordSet(k, v)
  <2>1. UNCHANGED flash
    BY <1>0, <1>2
       DEF RecordSet, StartWrite, ControlInv, CursorInv, FlashType
  <2>2. \A s \in Sectors : Benign(s)
    BY <2>1 DEF Benign, Kept
  <2>3. HeaderInv'
    BY <1>0, <1>2, <2>1
       DEF HeaderInv, ControlInv, Kept, Wiped, Marked, Programmed,
           RecordSet, StartWrite, SwapEntry
  <2>4. TailInv'
    BY <1>0, <1>2, <2>1
       DEF TailInv, HeaderInv, BlankInv, BlankFrom, ControlInv, CursorInv,
           EntryInv, TypeOK, Kept, Wiped, Programmed, Erased, Entries,
           RecordSet, StartWrite, SwapEntry
  <2>5. EntryInv'
    BY <1>0, <1>2, <2>1
       DEF EntryInv, TypeOK, ControlInv, CursorInv, Entries, Slots, NoIdx,
           RecordSet, StartWrite, SwapEntry
  <2> QED BY <1>0, <2>2, <2>3, <2>4, <2>5, BenignStep DEF ErasedInv
<1>3. CASE \E k \in Keys, v \in Vals : EntryData(k, v)
  <2>1. UNCHANGED flash
    BY <1>0, <1>3 DEF EntryData, ControlInv, CursorInv, FlashType
  <2>2. \A s \in Sectors : Benign(s)
    BY <2>1 DEF Benign, Kept
  <2>3. HeaderInv'
    BY <1>0, <1>3, <2>1
       DEF HeaderInv, ControlInv, Kept, Wiped, Marked, Programmed, EntryData
  <2>4. TailInv'
    BY <1>0, <1>3, <2>1
       DEF TailInv, HeaderInv, BlankInv, BlankFrom, ControlInv, CursorInv,
           EntryInv, TypeOK, Kept, Wiped, Programmed, Erased, Entries,
           EntryData
  <2>5. EntryInv'
    BY <1>0, <1>3, <2>1
       DEF EntryInv, TypeOK, ControlInv, CursorInv, Entries, Slots, NoIdx,
           EntryData
  <2> QED BY <1>0, <2>2, <2>3, <2>4, <2>5, BenignStep DEF ErasedInv
<1>4. CASE \E k \in Keys : EntrySave(k)
  <2>1. UNCHANGED flash
    BY <1>0, <1>4
       DEF EntrySave, StartWrite, ControlInv, CursorInv, FlashType
  <2>2. \A s \in Sectors : Benign(s)
    BY <2>1 DEF Benign, Kept
  <2>3. HeaderInv'
    BY <1>0, <1>4, <2>1
       DEF HeaderInv, ControlInv, Kept, Wiped, Marked, Programmed,
           EntrySave, StartWrite, SwapEntry
  <2>4. TailInv'
    BY <1>0, <1>4, <2>1
       DEF TailInv, HeaderInv, BlankInv, BlankFrom, ControlInv, CursorInv,
           EntryInv, TypeOK, Kept, Wiped, Programmed, Erased, Entries,
           EntrySave, StartWrite, SwapEntry
  <2>5. EntryInv'
    BY <1>0, <1>4, <2>1
       DEF EntryInv, TypeOK, ControlInv, CursorInv, Entries, Slots, NoIdx,
           EntrySave, StartWrite, SwapEntry
  <2> QED BY <1>0, <2>2, <2>3, <2>4, <2>5, BenignStep DEF ErasedInv
<1>5. CASE \E k \in Keys : RecordDelete(k)
  <2>1. UNCHANGED flash
    BY <1>0, <1>5 DEF RecordDelete, ControlInv, CursorInv, FlashType
  <2>2. \A s \in Sectors : Benign(s)
    BY <2>1 DEF Benign, Kept
  <2>3. HeaderInv'
    BY <1>0, <1>5, <2>1
       DEF HeaderInv, ControlInv, Kept, Wiped, Marked, Programmed,
           RecordDelete
  <2>4. TailInv'
    BY <1>0, <1>5, <2>1
       DEF TailInv, HeaderInv, BlankInv, BlankFrom, ControlInv, CursorInv,
           EntryInv, TypeOK, Kept, Wiped, Programmed, Erased, Entries,
           RecordDelete
  <2>5. EntryInv'
    BY <1>0, <1>5, <2>1
       DEF EntryInv, TypeOK, ControlInv, CursorInv, Entries, Slots, NoIdx,
           RecordDelete
  <2> QED BY <1>0, <2>2, <2>3, <2>4, <2>5, BenignStep DEF ErasedInv
<1>6. CASE Repair
  <2>1. UNCHANGED flash
    BY <1>0, <1>6 DEF Repair, ControlInv, CursorInv, FlashType
  <2>2. \A s \in Sectors : Benign(s)
    BY <2>1 DEF Benign, Kept
  <2>3. HeaderInv'
    BY <1>0, <1>6, <2>1
       DEF HeaderInv, ControlInv, Kept, Wiped, Marked, Programmed, Repair,
           MoveEntry
  <2>4. TailInv'
    BY <1>0, <1>6, <2>1
       DEF TailInv, HeaderInv, BlankInv, BlankFrom, ControlInv, CursorInv,
           EntryInv, TypeOK, Kept, Wiped, Programmed, Erased, Entries,
           Repair, MoveEntry
  <2>5. EntryInv'
    BY <1>0, <1>6, <2>1
       DEF EntryInv, TypeOK, ControlInv, CursorInv, Entries, Slots, NoIdx,
           Repair, MoveEntry
  <2> QED BY <1>0, <2>2, <2>3, <2>4, <2>5, BenignStep DEF ErasedInv
<1>7. CASE \E o \in Ops : Reset(o)
  <2>1. UNCHANGED flash
    BY <1>0, <1>7 DEF Reset, ControlInv, CursorInv, FlashType
  <2>2. \A s \in Sectors : Benign(s)
    BY <2>1 DEF Benign, Kept
  <2>3. HeaderInv'
    BY <1>0, <1>7, <2>1
       DEF HeaderInv, ControlInv, Kept, Wiped, Marked, Programmed, Reset
  <2>4. TailInv'
    BY <1>0, <1>7, <2>1
       DEF TailInv, HeaderInv, BlankInv, BlankFrom, ControlInv, CursorInv,
           EntryInv, TypeOK, Kept, Wiped, Programmed, Erased, Entries, Reset
  <2>5. EntryInv'
    BY <1>0, <1>7, <2>1
       DEF EntryInv, TypeOK, ControlInv, CursorInv, Entries, Slots, NoIdx,
           Reset
  <2> QED BY <1>0, <2>2, <2>3, <2>4, <2>5, BenignStep DEF ErasedInv
<1>8. CASE Unload
  <2>1. UNCHANGED flash
    BY <1>0, <1>8 DEF Unload, ControlInv, CursorInv, FlashType
  <2>2. \A s \in Sectors : Benign(s)
    BY <2>1 DEF Benign, Kept
  <2>3. HeaderInv'
    BY <1>0, <1>8, <2>1
       DEF HeaderInv, ControlInv, Kept, Wiped, Marked, Programmed, Unload
  <2>4. TailInv'
    BY <1>0, <1>8, <2>1
       DEF TailInv, HeaderInv, BlankInv, BlankFrom, ControlInv, CursorInv,
           EntryInv, TypeOK, Kept, Wiped, Programmed, Erased, Entries,
           Unload
  <2>5. EntryInv'
    BY <1>0, <1>8, <2>1
       DEF EntryInv, TypeOK, ControlInv, CursorInv, Entries, Slots, NoIdx,
           Unload
  <2> QED BY <1>0, <2>2, <2>3, <2>4, <2>5, BenignStep DEF ErasedInv
<1>9. CASE RecordSetCheck
  <2>1. UNCHANGED flash
    BY <1>0, <1>9 DEF RecordSetCheck, ControlInv, CursorInv, FlashType
  <2>2. \A s \in Sectors : Benign(s)
    BY <2>1 DEF Benign, Kept
  <2>3. HeaderInv'
    BY <1>0, <1>9, <2>1
       DEF HeaderInv, ControlInv, Kept, Wiped, Marked, Programmed,
           RecordSetCheck, Return, Goto
  <2>4. TailInv'
    BY <1>0, <1>9, <2>1
       DEF TailInv, HeaderInv, BlankInv, BlankFrom, ControlInv, CursorInv,
           EntryInv, TypeOK, Kept, Wiped, Programmed, Erased, Entries,
           RecordSetCheck, Return, Goto
  <2>5. EntryInv'
    BY <1>0, <1>9, <2>1
       DEF EntryInv, TypeOK, ControlInv, CursorInv, Entries, Slots, NoIdx,
           RecordSetCheck, Return, Goto
  <2> QED BY <1>0, <2>2, <2>3, <2>4, <2>5, BenignStep DEF ErasedInv
<1>10. CASE RecordSetWrite
  <2>1. Record("NEW", key, val) \in Records
    BY <1>0, <1>10, RecordType DEF RecordSetWrite, ControlInv, TypeOK, RecordFlags
  <2>2. Record("NEW", key, val).flags # "EMPTY"
    BY DEF Record
  <2>3. /\ Programmed(sector, next_idx) \/ Kept(sector)
        /\ Kept(Other(sector))
    BY <1>0, <1>10, <2>1, <2>2, WriteEffect DEF RecordSetWrite, ControlInv
  <2>4. next_idx \in Int /\ sector \in Sectors /\ BlankFrom(sector, next_idx)
    BY <1>0, <1>10 DEF RecordSetWrite, TypeOK, ControlInv, TailInv
  <2>5. \A i \in Slots : next_idx + 1 <= i => slot'[sector][i] = Blank
    BY <2>3, <2>4, BlankFromNext
  <2>6. /\ pc' \in {"set_valid", "mark_bad"}
        /\ UNCHANGED <<sector, next_idx>>
    BY <1>10 DEF RecordSetWrite, Goto
  <2>7. \A s \in Sectors : Benign(s)
    BY <1>0, <1>10, <2>3, BothSectors
       DEF Benign, HeaderInv, ControlInv, TailInv, BlankFrom, Programmed,
           TypeOK, Kept, RecordSetWrite
  <2>8. HeaderInv'
    BY <1>0, <1>10, <2>3
       DEF HeaderInv, ControlInv, Kept, Wiped, Marked, Programmed,
           RecordSetWrite, Goto
  <2>9. TailInv'
    BY <2>5, <2>6 DEF TailInv, BlankFrom
  <2>10. EntryInv'
    BY <1>0, <1>10, <2>3
       DEF EntryInv, TypeOK, ControlInv, CursorInv, Entries, Slots, NoIdx,
           RecordSetWrite, Goto
  <2> QED BY <1>0, <2>7, <2>8, <2>9, <2>10, BenignStep DEF ErasedInv
<1>11. CASE RecordSetMarkBad
  <2>1. Marked(sector) /\ (Programmed(sector, next_idx) \/ Kept(sector)) /\ Kept(Other(sector))
    BY <1>0, <1>11, MarkEffect
       DEF RecordSetMarkBad, ControlInv, CursorInv, FlashType
  <2>2. \A s \in Sectors : Benign(s)
    BY <1>0, <1>11, <2>1, BothSectors
       DEF Benign, HeaderInv, ControlInv, TailInv, BlankFrom, Programmed,
           TypeOK, Kept, RecordSetMarkBad
  <2>3. HeaderInv'
    BY <1>0, <1>11, <2>1
       DEF HeaderInv, ControlInv, Kept, Wiped, Marked, Programmed,
           RecordSetMarkBad, Return
  <2>4. TailInv'
    BY <1>0, <1>11, <2>1
       DEF TailInv, HeaderInv, BlankInv, BlankFrom, ControlInv, CursorInv,
           EntryInv, TypeOK, Kept, Wiped, Programmed, Erased, Entries,
           RecordSetMarkBad, Return
  <2>5. EntryInv'
    BY <1>0, <1>11, <2>1
       DEF EntryInv, TypeOK, ControlInv, CursorInv, Entries, Slots, NoIdx,
           RecordSetMarkBad, Return
  <2> QED BY <1>0, <2>2, <2>3, <2>4, <2>5, BenignStep DEF ErasedInv
<1>12. CASE RecordSetValid
  <2>1. Marked(sector) /\ (Programmed(sector, next_idx) \/ Kept(sector)) /\ Kept(Other(sector))
    BY <1>0, <1>12, MarkEffect
       DEF RecordSetValid, ControlInv, CursorInv, FlashType
  <2>2. \A s \in Sectors : Benign(s)
    BY <1>0, <1>12, <2>1, BothSectors
       DEF Benign, HeaderInv, ControlInv, TailInv, BlankFrom, Programmed,
           TypeOK, Kept, RecordSetValid
  <2>3. HeaderInv'
    BY <1>0, <1>12, <2>1
       DEF HeaderInv, ControlInv, Kept, Wiped, Marked, Programmed,
           RecordSetValid, Return, Goto
  <2>4. TailInv'
    BY <1>0, <1>12, <2>1
       DEF TailInv, HeaderInv, BlankInv, BlankFrom, ControlInv, CursorInv,
           EntryInv, TypeOK, Kept, Wiped, Programmed, Erased, Entries,
           RecordSetValid, Return, Goto
  <2>5. EntryInv'
    BY <1>0, <1>12, <2>1
       DEF EntryInv, TypeOK, ControlInv, CursorInv, Entries, Slots, NoIdx,
           RecordSetValid, Return, Goto, InsertLookupTable
  <2> QED BY <1>0, <2>2, <2>3, <2>4, <2>5, BenignStep DEF ErasedInv
<1>13. CASE RecordSetMarkOld
  <2>1. /\ Marked(sector)
        /\ Programmed(sector, idx[key]) \/ Kept(sector)
        /\ Kept(Other(sector))
    BY <1>0, <1>13, MarkEffect DEF RecordSetMarkOld, ControlInv
  <2>2. /\ next_idx \in Int
        /\ sector \in Sectors
        /\ BlankFrom(sector, next_idx)
    BY <1>0, <1>13 DEF RecordSetMarkOld, TypeOK, ControlInv, TailInv
  <2>3. Programmed(sector, idx[key]) => idx[key] < next_idx
    BY <1>0, <1>13 DEF RecordSetMarkOld, Programmed, EntryInv, ControlInv, Entries, Slots, NoIdx
  <2>4. \A i \in Slots : next_idx <= i => slot'[sector][i] = Blank
    BY <2>1, <2>2, <2>3, BlankFromStep
  <2>5. pc' = "idle" /\ UNCHANGED <<sector, next_idx>>
    BY <1>13 DEF RecordSetMarkOld, Return
  <2>6. \A s \in Sectors : Benign(s)
    BY <1>0, <1>13, <2>1, BothSectors
       DEF Benign, HeaderInv, ControlInv, TailInv, BlankFrom, Programmed,
           TypeOK, Kept, RecordSetMarkOld
  <2>7. HeaderInv'
    BY <1>0, <1>13, <2>1
       DEF HeaderInv, ControlInv, Kept, Wiped, Marked, Programmed,
           RecordSetMarkOld, Return
  <2>8. TailInv'
    BY <2>4, <2>5 DEF TailInv, BlankFrom
  <2>9. EntryInv'
    BY <1>0, <1>13, <2>1
       DEF EntryInv, TypeOK, ControlInv, CursorInv, Entries, Slots, NoIdx,
           RecordSetMarkOld, Return, InsertLookupTable
  <2> QED BY <1>0, <2>6, <2>7, <2>8, <2>9, BenignStep DEF ErasedInv
<1>14. CASE RecordDeleteMark
  <2>1. /\ Marked(sector)
        /\ Programmed(sector, idx[key]) \/ Kept(sector)
        /\ Kept(Other(sector))
    BY <1>0, <1>14, MarkEffect DEF RecordDeleteMark, ControlInv
  <2>2. /\ next_idx \in Int
        /\ sector \in Sectors
        /\ BlankFrom(sector, next_idx)
    BY <1>0, <1>14 DEF RecordDeleteMark, TypeOK, ControlInv, TailInv
  <2>3. Programmed(sector, idx[key]) => idx[key] < next_idx
    BY <1>0, <1>14 DEF RecordDeleteMark, Programmed, EntryInv, ControlInv, Entries, Slots, NoIdx
  <2>4. \A i \in Slots : next_idx <= i => slot'[sector][i] = Blank
    BY <2>1, <2>2, <2>3, BlankFromStep
  <2>5. pc' = "idle" /\ UNCHANGED <<sector, next_idx>>
    BY <1>14 DEF RecordDeleteMark, Return
  <2>6. \A s \in Sectors : Benign(s)
    BY <1>0, <1>14, <2>1, BothSectors
       DEF Benign, HeaderInv, ControlInv, TailInv, BlankFrom, Programmed,
           TypeOK, Kept, RecordDeleteMark
  <2>7. HeaderInv'
    BY <1>0, <1>14, <2>1
       DEF HeaderInv, ControlInv, Kept, Wiped, Marked, Programmed,
           RecordDeleteMark, Return
  <2>8. TailInv'
    BY <2>4, <2>5 DEF TailInv, BlankFrom
  <2>9. EntryInv'
    BY <1>0, <1>14, <2>1
       DEF EntryInv, TypeOK, ControlInv, CursorInv, Entries, Slots, NoIdx,
           RecordDeleteMark, Return
  <2> QED BY <1>0, <2>6, <2>7, <2>8, <2>9, BenignStep DEF ErasedInv
<1>15. CASE SwapErase
  <2>1. /\ Kept(sector)
        /\ \/ Wiped(Other(sector))
           \/ Kept(Other(sector)) /\ pc' # "swap_init"
    BY <1>0, <1>15, EraseEffect, OtherSector
       DEF SwapErase, Return, ControlInv, CursorInv, FlashType
  <2>2. \A s \in Sectors : Benign(s)
    BY <1>0, <1>15, <2>1, BothSectors
       DEF Benign, HeaderInv, ControlInv, TailInv, BlankFrom, Programmed,
           TypeOK, Kept, SwapErase
  <2>3. HeaderInv'
    BY <1>0, <1>15, <2>1
       DEF HeaderInv, ControlInv, Kept, Wiped, Marked, Programmed,
           SwapErase, Return, Goto
  <2>4. TailInv'
    BY <1>0, <1>15, <2>1
       DEF TailInv, HeaderInv, BlankInv, BlankFrom, ControlInv, CursorInv,
           EntryInv, TypeOK, Kept, Wiped, Programmed, Erased, Entries,
           SwapErase, Return, Goto
  <2>5. EntryInv'
    BY <1>0, <1>15, <2>1
       DEF EntryInv, TypeOK, ControlInv, CursorInv, Entries, Slots, NoIdx,
           SwapErase, Return, Goto
  <2> QED BY <1>0, <2>2, <2>3, <2>4, <2>5, BenignStep DEF ErasedInv
<1>16. CASE SwapInit
  <2>1. /\ slot' = slot
        /\ hdr'[sector] = hdr[sector]
        /\ hdr'[Other(sector)] # "EMPTY"
        /\ pc' \in {"swap_copy", "swap_valid"}
    BY <1>0, <1>16, HeaderEffect, OtherSector
       DEF SwapInit, Goto, ControlInv, CursorInv, FlashType
  <2>2. \A s \in Sectors : Benign(s)
    BY <1>0, <1>16, <2>1, BothSectors
       DEF Benign, HeaderInv, ControlInv, TailInv, BlankFrom, Programmed,
           TypeOK, Kept, SwapInit
  <2>3. HeaderInv'
    BY <1>0, <1>16, <2>1
       DEF HeaderInv, ControlInv, Kept, Wiped, Marked, Programmed, SwapInit,
           Goto, Return
  <2>4. TailInv'
    BY <1>0, <1>16, <2>1
       DEF TailInv, HeaderInv, BlankInv, BlankFrom, ControlInv, CursorInv,
           EntryInv, TypeOK, Kept, Wiped, Programmed, Erased, Entries,
           SwapInit, Goto, Return
  <2>5. EntryInv'
    BY <1>0, <1>16, <2>1
       DEF EntryInv, TypeOK, ControlInv, CursorInv, Entries, Slots, NoIdx,
           SwapInit, Goto, Return
  <2> QED BY <1>0, <2>2, <2>3, <2>4, <2>5, BenignStep DEF ErasedInv
<1>17. CASE SwapCopy
  <2>1. PICK k \in todo :
          \/ /\ SwapRecord(k).flags = "VALID"
             /\ \E good \in BOOLEAN :
                 /\ TryWrite(Other(sector), dst_idx, SwapRecord(k), good)
                 /\ IF good
                    THEN /\ idx' = [idx EXCEPT ![k] = dst_idx]
                         /\ dst_idx' = dst_idx + 1
                         /\ todo' = todo \ {k}
                         /\ pc' \in {"swap_copy", "swap_valid"}
                         /\ pc' = "swap_valid" => todo' = {}
                    ELSE UNCHANGED idx /\ pc' = "move_erase"
          \/ /\ UNCHANGED <<flash, idx>>
             /\ pc' = "move_erase"
    BY <1>0, <1>17 DEF SwapCopy, Goto, MoveEntry, HeaderInv
  <2>2. SwapRecord(k) \in Records
    <3>1. k \in Keys /\ idx[k] \in Slots
      BY <1>0 DEF CursorInv, Entries, TypeOK
    <3>2. Record("VALID", k, cache[k]) \in Records
      BY <1>0, <3>1, RecordType DEF RecordFlags, TypeOK
    <3>3. slot[sector][idx[k]] \in Records
      BY <1>0, <1>17, <3>1 DEF SwapCopy, ControlInv, TypeOK
    <3> QED BY <3>2, <3>3 DEF SwapRecord
  <2>3. /\ Kept(sector)
        /\ \/ /\ Programmed(Other(sector), dst_idx)
              /\ idx' = [idx EXCEPT ![k] = dst_idx]
              /\ dst_idx' = dst_idx + 1
              /\ todo' = todo \ {k}
              /\ pc' \in {"swap_copy", "swap_valid"}
              /\ pc' = "swap_valid" => todo' = {}
           \/ /\ Programmed(Other(sector), dst_idx) \/ Kept(Other(sector))
              /\ UNCHANGED idx
              /\ pc' = "move_erase"
    <3>1. Other(sector) \in Sectors /\ Other(Other(sector)) = sector
      BY <1>0, <1>17, OtherSector DEF SwapCopy, ControlInv
    <3>2. CASE UNCHANGED <<flash, idx>> /\ pc' = "move_erase"
      BY <3>2 DEF Kept
    <3>3. ASSUME NEW good \in BOOLEAN, SwapRecord(k).flags = "VALID",
                 TryWrite(Other(sector), dst_idx, SwapRecord(k), good)
          PROVE  /\ Programmed(Other(sector), dst_idx)
                        \/ (Kept(Other(sector)) /\ ~good)
                 /\ Kept(sector)
      BY <1>0, <2>2, <3>1, <3>3, WriteEffect
    <3> QED BY <2>1, <3>2, <3>3
  <2>4. /\ k \in todo /\ k \in Keys
        /\ dst_idx \in Int /\ next_idx \in Int
        /\ sector \in Sectors
        /\ Other(sector) \in Sectors
        /\ hdr[Other(sector)] # "EMPTY"
        /\ BlankFrom(Other(sector), dst_idx)
        /\ MaxRecords <= next_idx
    BY <1>0, <1>17 DEF SwapCopy, TypeOK, ControlInv, HeaderInv, TailInv, EntryInv
  <2>5. \A i \in Slots : dst_idx + 1 <= i => slot'[Other(sector)][i] = Blank
    BY <2>3, <2>4, BlankFromNext
  <2>6. UNCHANGED <<sector, next_idx>>
    BY <1>17 DEF SwapCopy
  <2>7. Programmed(Other(sector), dst_idx) =>
            dst_idx \in Slots /\ slot[Other(sector)][dst_idx] = Blank
    BY <2>4 DEF Programmed, BlankFrom
  <2>8. \A j \in Keys : idx'[j] \in Slots => idx'[j] < next_idx'
    BY <2>4, <2>6, ConstantsAssumption DEF Slots
  <2>9. idx' \in [Keys -> Slots \union {NoIdx}]
    BY <1>0, <2>3, <2>7 DEF TypeOK
  <2>10. pc' \in {"swap_copy", "swap_valid"} =>
            \A j \in {i \in Keys : idx'[i] # NoIdx} \ todo' : idx'[j] < dst_idx'
    BY <1>0, <1>17, <2>3, <2>4 DEF SwapCopy, EntryInv, Entries, TypeOK, Slots, NoIdx
  <2>11. \A s \in Sectors : Benign(s)
    BY <2>3, <2>4, <2>7, BothSectors DEF Benign
  <2>12. HeaderInv'
    BY <1>0, <1>17, <2>3, <2>4
       DEF HeaderInv, ControlInv, Kept, Wiped, Marked, Programmed, SwapCopy,
           Goto, CopyDone, MoveEntry
  <2>13. TailInv'
    BY <1>0, <1>17, <2>3, <2>5, <2>6 DEF TailInv, BlankFrom, Kept, SwapCopy
  <2>14. EntryInv'
    BY <2>3, <2>4, <2>6, <2>8, <2>9, <2>10 DEF EntryInv, Entries
  <2> QED BY <1>0, <2>11, <2>12, <2>13, <2>14, BenignStep DEF ErasedInv
<1>18. CASE SwapValid
  <2>1. /\ slot' = slot
        /\ hdr'[sector] = hdr[sector]
        /\ hdr'[Other(sector)] # "EMPTY"
        /\ pc' \in {"erase_src", "rebuild"}
    BY <1>0, <1>18, HeaderEffect, OtherSector
       DEF SwapValid, Goto, ControlInv, CursorInv, FlashType
  <2>2. \A s \in Sectors : Benign(s)
    BY <1>0, <1>18, <2>1, BothSectors
       DEF Benign, HeaderInv, ControlInv, TailInv, BlankFrom, Programmed,
           TypeOK, Kept, SwapValid
  <2>3. HeaderInv'
    BY <1>0, <1>18, <2>1
       DEF HeaderInv, ControlInv, Kept, Wiped, Marked, Programmed,
           SwapValid, Goto, Return
  <2>4. TailInv'
    BY <1>0, <1>18, <2>1
       DEF TailInv, HeaderInv, BlankInv, BlankFrom, ControlInv, CursorInv,
           EntryInv, TypeOK, Kept, Wiped, Programmed, Erased, Entries,
           SwapValid, Goto, Return
  <2>5. EntryInv'
    BY <1>0, <1>18, <2>1
       DEF EntryInv, TypeOK, ControlInv, CursorInv, Entries, Slots, NoIdx,
           SwapValid, Goto, Return
  <2> QED BY <1>0, <2>2, <2>3, <2>4, <2>5, BenignStep DEF ErasedInv
<1>19. CASE MoveErase
  <2>1. /\ Kept(sector)
        /\ \/ Wiped(Other(sector))
           \/ Kept(Other(sector)) /\ pc' # "move_init"
    BY <1>0, <1>19, EraseEffect, OtherSector
       DEF MoveErase, MoveFailed, Return, Goto, ControlInv, CursorInv,
           FlashType
  <2>2. \A s \in Sectors : Benign(s)
    BY <1>0, <1>19, <2>1, BothSectors
       DEF Benign, HeaderInv, ControlInv, TailInv, BlankFrom, Programmed,
           TypeOK, Kept, MoveErase
  <2>3. HeaderInv'
    BY <1>0, <1>19, <2>1
       DEF HeaderInv, ControlInv, Kept, Wiped, Marked, Programmed,
           MoveErase, MoveFailed, Return, Goto
  <2>4. TailInv'
    BY <1>0, <1>19, <2>1
       DEF TailInv, HeaderInv, BlankInv, BlankFrom, ControlInv, CursorInv,
           EntryInv, TypeOK, Kept, Wiped, Programmed, Erased, Entries,
           MoveErase, MoveFailed, Return, Goto
  <2>5. EntryInv'
    BY <1>0, <1>19, <2>1
       DEF EntryInv, TypeOK, ControlInv, CursorInv, Entries, Slots, NoIdx,
           MoveErase, MoveFailed, Return, Goto
  <2> QED BY <1>0, <2>2, <2>3, <2>4, <2>5, BenignStep DEF ErasedInv
<1>20. CASE MoveInit
  <2>1. /\ slot' = slot
        /\ hdr'[sector] = hdr[sector]
        /\ hdr'[Other(sector)] # "EMPTY"
        /\ pc' \in {"move_copy"}
    BY <1>0, <1>20, HeaderEffect, OtherSector
       DEF MoveInit, Goto, ControlInv, CursorInv, FlashType
  <2>2. \A s \in Sectors : Benign(s)
    BY <1>0, <1>20, <2>1, BothSectors
       DEF Benign, HeaderInv, ControlInv, TailInv, BlankFrom, Programmed,
           TypeOK, Kept, MoveInit
  <2>3. HeaderInv'
    BY <1>0, <1>20, <2>1
       DEF HeaderInv, ControlInv, Kept, Wiped, Marked, Programmed, MoveInit,
           Goto, MoveFailed, Return
  <2>4. TailInv'
    BY <1>0, <1>20, <2>1
       DEF TailInv, HeaderInv, BlankInv, BlankFrom, ControlInv, CursorInv,
           EntryInv, TypeOK, Kept, Wiped, Programmed, Erased, Entries,
           MoveInit, Goto, MoveFailed, Return
  <2>5. EntryInv'
    BY <1>0, <1>20, <2>1
       DEF EntryInv, TypeOK, ControlInv, CursorInv, Entries, Slots, NoIdx,
           MoveInit, Goto, MoveFailed, Return
  <2> QED BY <1>0, <2>2, <2>3, <2>4, <2>5, BenignStep DEF ErasedInv
<1>21. CASE MoveEnd
  <2>1. UNCHANGED flash
    BY <1>0, <1>21 DEF MoveEnd, ControlInv, CursorInv, FlashType
  <2>2. \A s \in Sectors : Benign(s)
    BY <2>1 DEF Benign, Kept
  <2>3. HeaderInv'
    BY <1>0, <1>21, <2>1
       DEF HeaderInv, ControlInv, Kept, Wiped, Marked, Programmed, MoveEnd,
           Goto
  <2>4. TailInv'
    BY <1>0, <1>21, <2>1
       DEF TailInv, HeaderInv, BlankInv, BlankFrom, ControlInv, CursorInv,
           EntryInv, TypeOK, Kept, Wiped, Programmed, Erased, Entries,
           MoveEnd, Goto
  <2>5. EntryInv'
    BY <1>0, <1>21, <2>1
       DEF EntryInv, TypeOK, ControlInv, CursorInv, Entries, Slots, NoIdx,
           MoveEnd, Goto
  <2> QED BY <1>0, <2>2, <2>3, <2>4, <2>5, BenignStep DEF ErasedInv
<1>22. CASE MoveSkip
  <2>1. UNCHANGED flash
    BY <1>0, <1>22 DEF MoveSkip, ControlInv, CursorInv, FlashType
  <2>2. \A s \in Sectors : Benign(s)
    BY <2>1 DEF Benign, Kept
  <2>3. HeaderInv'
    BY <1>0, <1>22, <2>1
       DEF HeaderInv, ControlInv, Kept, Wiped, Marked, Programmed, MoveSkip
  <2>4. TailInv'
    BY <1>0, <1>22, <2>1
       DEF TailInv, HeaderInv, BlankInv, BlankFrom, ControlInv, CursorInv,
           EntryInv, TypeOK, Kept, Wiped, Programmed, Erased, Entries,
           MoveSkip
  <2>5. EntryInv'
    BY <1>0, <1>22, <2>1
       DEF EntryInv, TypeOK, ControlInv, CursorInv, Entries, Slots, NoIdx,
           MoveSkip
  <2> QED BY <1>0, <2>2, <2>3, <2>4, <2>5, BenignStep DEF ErasedInv
<1>23. CASE MoveCopy
  <2>1. /\ sector \in Sectors
        /\ Other(sector) \in Sectors
        /\ Other(Other(sector)) = sector
    BY <1>0, <1>23, OtherSector DEF MoveCopy, ControlInv
  <2>2. slot[sector][src_idx] \in Records /\ slot[sector][src_idx].flags # "EMPTY"
    BY <1>0, <1>23, <2>1 DEF MoveCopy, MoveAtEnd, Live, TypeOK
  <2>3. /\ Kept(sector)
        /\ \/ Programmed(Other(sector), dst_idx)
           \/ Kept(Other(sector)) /\ pc' = "move_mark"
    BY <1>0, <1>23, <2>1, <2>2, WriteEffect DEF MoveCopy, Goto
  <2>4. dst_idx \in Int /\ BlankFrom(Other(sector), dst_idx)
    BY <1>0, <1>23 DEF MoveCopy, TypeOK, TailInv
  <2>5. \A i \in Slots : dst_idx + 1 <= i => slot'[Other(sector)][i] = Blank
    BY <2>1, <2>3, <2>4, BlankFromNext
  <2>6. /\ UNCHANGED <<sector, next_idx, op>>
        /\ \/ pc' = "move_copy" /\ dst_idx' = dst_idx + 1
           \/ pc' = "move_mark" /\ dst_idx' = dst_idx
    BY <1>23 DEF MoveCopy, Goto
  <2>7. \A s \in Sectors : Benign(s)
    BY <1>0, <1>23, <2>3, BothSectors
       DEF Benign, HeaderInv, ControlInv, TailInv, BlankFrom, Programmed,
           TypeOK, Kept, MoveCopy
  <2>8. HeaderInv'
    BY <1>0, <1>23, <2>3
       DEF HeaderInv, ControlInv, Kept, Wiped, Marked, Programmed, MoveCopy,
           Goto
  <2>9. TailInv'
    BY <1>0, <1>23, <2>3, <2>5, <2>6 DEF TailInv, BlankFrom, Kept, MoveCopy
  <2>10. EntryInv'
    BY <1>0, <1>23, <2>3
       DEF EntryInv, TypeOK, ControlInv, CursorInv, Entries, Slots, NoIdx,
           MoveCopy, Goto
  <2> QED BY <1>0, <2>7, <2>8, <2>9, <2>10, BenignStep DEF ErasedInv
<1>24. CASE MoveMark
  <2>1. Marked(Other(sector)) /\ (Programmed(Other(sector), dst_idx) \/ Kept(Other(sector))) /\ Kept(sector)
    BY <1>0, <1>24, MarkEffect, OtherSector
       DEF MoveMark, ControlInv, CursorInv, FlashType
  <2>2. \A s \in Sectors : Benign(s)
    BY <1>0, <1>24, <2>1, BothSectors
       DEF Benign, HeaderInv, ControlInv, TailInv, BlankFrom, Programmed,
           TypeOK, Kept, MoveMark
  <2>3. HeaderInv'
    BY <1>0, <1>24, <2>1
       DEF HeaderInv, ControlInv, Kept, Wiped, Marked, Programmed, MoveMark,
           Goto
  <2>4. TailInv'
    BY <1>0, <1>24, <2>1
       DEF TailInv, HeaderInv, BlankInv, BlankFrom, ControlInv, CursorInv,
           EntryInv, TypeOK, Kept, Wiped, Programmed, Erased, Entries,
           MoveMark, Goto
  <2>5. EntryInv'
    BY <1>0, <1>24, <2>1
       DEF EntryInv, TypeOK, ControlInv, CursorInv, Entries, Slots, NoIdx,
           MoveMark, Goto
  <2> QED BY <1>0, <2>2, <2>3, <2>4, <2>5, BenignStep DEF ErasedInv
<1>25. CASE MoveValid
  <2>1. /\ slot' = slot
        /\ hdr'[sector] = hdr[sector]
        /\ hdr'[Other(sector)] # "EMPTY"
        /\ pc' \in {"rebuild"}
    BY <1>0, <1>25, HeaderEffect, OtherSector
       DEF MoveValid, Goto, ControlInv, CursorInv, FlashType
  <2>2. \A s \in Sectors : Benign(s)
    BY <1>0, <1>25, <2>1, BothSectors
       DEF Benign, HeaderInv, ControlInv, TailInv, BlankFrom, Programmed,
           TypeOK, Kept, MoveValid
  <2>3. HeaderInv'
    BY <1>0, <1>25, <2>1
       DEF HeaderInv, ControlInv, Kept, Wiped, Marked, Programmed,
           MoveValid, Goto, MoveFailed, Return
  <2>4. TailInv'
    BY <1>0, <1>25, <2>1
       DEF TailInv, HeaderInv, BlankInv, BlankFrom, ControlInv, CursorInv,
           EntryInv, TypeOK, Kept, Wiped, Programmed, Erased, Entries,
           MoveValid, Goto, MoveFailed, Return
  <2>5. EntryInv'
    BY <1>0, <1>25, <2>1
       DEF EntryInv, TypeOK, ControlInv, CursorInv, Entries, Slots, NoIdx,
           MoveValid, Goto, MoveFailed, Return
  <2> QED BY <1>0, <2>2, <2>3, <2>4, <2>5, BenignStep DEF ErasedInv
<1>26. CASE Rebuild
  <2>1. /\ Marked(sector)
        /\ Kept(Other(sector))
        /\ BlankFrom(sector, next_idx)'
        /\ \A k \in Keys : idx'[k] # NoIdx => idx'[k] < next_idx'
    BY <1>0, <1>26, ConstructEffect DEF Rebuild, ControlInv, BlankFrom
  <2>2. \A s \in Sectors : Benign(s)
    BY <1>0, <1>26, <2>1, BothSectors
       DEF Benign, HeaderInv, ControlInv, TailInv, BlankFrom, Programmed,
           TypeOK, Kept, Rebuild
  <2>3. HeaderInv'
    BY <1>0, <1>26, <2>1
       DEF HeaderInv, ControlInv, Kept, Wiped, Marked, Programmed, Rebuild,
           Goto
  <2>4. TailInv'
    BY <1>0, <1>26, <2>1
       DEF TailInv, HeaderInv, BlankInv, BlankFrom, ControlInv, CursorInv,
           EntryInv, TypeOK, Kept, Wiped, Programmed, Erased, Entries,
           Rebuild, Goto
  <2>5. EntryInv'
    BY <1>0, <1>26, <2>1
       DEF EntryInv, TypeOK, ControlInv, CursorInv, Entries, Slots, NoIdx,
           Rebuild, Goto
  <2> QED BY <1>0, <2>2, <2>3, <2>4, <2>5, BenignStep DEF ErasedInv
<1>27. CASE EraseSource
  <2>1. Kept(sector) /\ (Wiped(Other(sector)) \/ Kept(Other(sector)))
    BY <1>0, <1>27, EraseEffect, OtherSector
       DEF EraseSource, ControlInv, CursorInv, FlashType
  <2>2. \A s \in Sectors : Benign(s)
    BY <1>0, <1>27, <2>1, BothSectors
       DEF Benign, HeaderInv, ControlInv, TailInv, BlankFrom, Programmed,
           TypeOK, Kept, EraseSource
  <2>3. HeaderInv'
    BY <1>0, <1>27, <2>1
       DEF HeaderInv, ControlInv, Kept, Wiped, Marked, Programmed,
           EraseSource, Return, Goto
  <2>4. TailInv'
    BY <1>0, <1>27, <2>1
       DEF TailInv, HeaderInv, BlankInv, BlankFrom, ControlInv, CursorInv,
           EntryInv, TypeOK, Kept, Wiped, Programmed, Erased, Entries,
           EraseSource, Return, Goto
  <2>5. EntryInv'
    BY <1>0, <1>27, <2>1
       DEF EntryInv, TypeOK, ControlInv, CursorInv, Entries, Slots, NoIdx,
           EraseSource, Return, Goto
  <2> QED BY <1>0, <2>2, <2>3, <2>4, <2>5, BenignStep DEF ErasedInv
<1>28. CASE Reset1
  <2>1. \A s \in Sectors : Wiped(s) \/ Kept(s)
    BY <1>0, <1>28, EraseEffect
       DEF Reset1, Sectors, Other, ControlInv, CursorInv, FlashType
  <2>2. \A s \in Sectors : Benign(s)
    BY <2>1, <1>0 DEF Benign, Kept
  <2>3. HeaderInv'
    BY <1>0, <1>28, <2>1
       DEF HeaderInv, ControlInv, Kept, Wiped, Marked, Programmed, Reset1,
           Goto
  <2>4. TailInv'
    BY <1>0, <1>28, <2>1
       DEF TailInv, HeaderInv, BlankInv, BlankFrom, ControlInv, CursorInv,
           EntryInv, TypeOK, Kept, Wiped, Programmed, Erased, Entries,
           Reset1, Goto
  <2>5. EntryInv'
    BY <1>0, <1>28, <2>1
       DEF EntryInv, TypeOK, ControlInv, CursorInv, Entries, Slots, NoIdx,
           Reset1, Goto
  <2> QED BY <1>0, <2>2, <2>3, <2>4, <2>5, BenignStep DEF ErasedInv
<1>29. CASE Reset2
  <2>1. \A s \in Sectors : Wiped(s) \/ Kept(s)
    BY <1>0, <1>29, EraseEffect
       DEF Reset2, Sectors, Other, ControlInv, CursorInv, FlashType
  <2>2. \A s \in Sectors : Benign(s)
    BY <2>1, <1>0 DEF Benign, Kept
  <2>3. HeaderInv'
    BY <1>0, <1>29, <2>1
       DEF HeaderInv, ControlInv, Kept, Wiped, Marked, Programmed, Reset2,
           Goto
  <2>4. TailInv'
    BY <1>0, <1>29, <2>1
       DEF TailInv, HeaderInv, BlankInv, BlankFrom, ControlInv, CursorInv,
           EntryInv, TypeOK, Kept, Wiped, Programmed, Erased, Entries,
           Reset2, Goto
  <2>5. EntryInv'
    BY <1>0, <1>29, <2>1
       DEF EntryInv, TypeOK, ControlInv, CursorInv, Entries, Slots, NoIdx,
           Reset2, Goto
  <2> QED BY <1>0, <2>2, <2>3, <2>4, <2>5, BenignStep DEF ErasedInv
<1>30. CASE Load
  <2>1. UNCHANGED flash
    BY <1>0, <1>30 DEF Load, ControlInv, CursorInv, FlashType
  <2>2. \A s \in Sectors : Benign(s)
    BY <2>1 DEF Benign, Kept
  <2>3. HeaderInv'
    BY <1>0, <1>30, <2>1
       DEF HeaderInv, ControlInv, Kept, Wiped, Marked, Programmed, Load,
           Goto
  <2>4. TailInv'
    BY <1>0, <1>30, <2>1
       DEF TailInv, HeaderInv, BlankInv, BlankFrom, ControlInv, CursorInv,
           EntryInv, TypeOK, Kept, Wiped, Programmed, Erased, Entries, Load,
           Goto
  <2>5. EntryInv'
    BY <1>0, <1>30, <2>1
       DEF EntryInv, TypeOK, ControlInv, CursorInv, Entries, Slots, NoIdx,
           Load, Goto
  <2> QED BY <1>0, <2>2, <2>3, <2>4, <2>5, BenignStep DEF ErasedInv
<1>31. CASE InitUnknown("init1", 1, "init2")
  <2>1. \A s \in Sectors : Wiped(s) \/ Kept(s)
    BY <1>0, <1>31, EraseEffect
       DEF InitUnknown, Sectors, Other, Kept, ControlInv, CursorInv,
           FlashType
  <2>2. \A s \in Sectors : Benign(s)
    BY <2>1, <1>0 DEF Benign, Kept
  <2>3. HeaderInv'
    BY <1>0, <1>31, <2>1
       DEF HeaderInv, ControlInv, Kept, Wiped, Marked, Programmed,
           InitUnknown, Goto
  <2>4. TailInv'
    BY <1>0, <1>31, <2>1
       DEF TailInv, HeaderInv, BlankInv, BlankFrom, ControlInv, CursorInv,
           EntryInv, TypeOK, Kept, Wiped, Programmed, Erased, Entries,
           InitUnknown, Goto
  <2>5. EntryInv'
    BY <1>0, <1>31, <2>1
       DEF EntryInv, TypeOK, ControlInv, CursorInv, Entries, Slots, NoIdx,
           InitUnknown, Goto
  <2> QED BY <1>0, <2>2, <2>3, <2>4, <2>5, BenignStep DEF ErasedInv
<1>32. CASE InitUnknown("init2", 2, "init_sectors")
  <2>1. \A s \in Sectors : Wiped(s) \/ Kept(s)
    BY <1>0, <1>32, EraseEffect
       DEF InitUnknown, Sectors, Other, Kept, ControlInv, CursorInv,
           FlashType
  <2>2. \A s \in Sectors : Benign(s)
    BY <2>1, <1>0 DEF Benign, Kept
  <2>3. HeaderInv'
    BY <1>0, <1>32, <2>1
       DEF HeaderInv, ControlInv, Kept, Wiped, Marked, Programmed,
           InitUnknown, Goto
  <2>4. TailInv'
    BY <1>0, <1>32, <2>1
       DEF TailInv, HeaderInv, BlankInv, BlankFrom, ControlInv, CursorInv,
           EntryInv, TypeOK, Kept, Wiped, Programmed, Erased, Entries,
           InitUnknown, Goto
  <2>5. EntryInv'
    BY <1>0, <1>32, <2>1
       DEF EntryInv, TypeOK, ControlInv, CursorInv, Entries, Slots, NoIdx,
           InitUnknown, Goto
  <2> QED BY <1>0, <2>2, <2>3, <2>4, <2>5, BenignStep DEF ErasedInv
<1>33. CASE InitSectors
  <2>1. UNCHANGED flash
    BY <1>0, <1>33 DEF InitSectors, ControlInv, CursorInv, FlashType
  <2>2. \A s \in Sectors : Benign(s)
    BY <2>1 DEF Benign, Kept
  <2>3. HeaderInv'
    <3> DEFINE plan == Plan(hdr[1], hdr[2])
    <3>1. /\ sector' = plan.sector
          /\ pc' = CASE plan.act = "format" -> "format_erase"
                     [] plan.act = "erase_other" -> "init_erase"
                     [] plan.act = "repair" -> MoveEntry(plan.sector)
                     [] OTHER -> "construct"
          /\ hdr' = hdr
      BY <1>33, <2>1 DEF InitSectors, Goto, flash
    <3>2. /\ hdr[plan.sector] = "EMPTY" =>
                plan.act \notin {"none", "erase_other", "repair"}
          /\ plan.act \in {"none", "erase_other", "repair", "format"}
      BY <1>0, PlanHeader, PlanActs
    <3> HIDE DEF plan
    <3> QED
      BY <3>1, <3>2
         DEF HeaderInv, MoveEntry, SetPcs, SwapPcs, MovePcs, TailPcs, CopyPcs
  <2>4. TailInv'
    <3>1. Loading' /\ Loading
      BY <1>0, <1>33
         DEF InitSectors, ControlInv, Loading, BootPcs, Goto, request
    <3>2. /\ pc' \in {"format_erase", "init_erase", "move_init", "move_erase",
                     "construct"}
          /\ pc' = "move_init" => hdr[Other(sector')] = "EMPTY"
      BY <1>0, <1>33
         DEF InitSectors, MoveEntry, Goto, Plan, Sectors, Other, TypeOK
    <3> QED BY <2>1, <3>1, <3>2 DEF TailInv, SwapPcs, MovePcs, flash
  <2>5. EntryInv'
    BY <1>0, <1>33, <2>1
       DEF EntryInv, TypeOK, ControlInv, CursorInv, Entries, Slots, NoIdx,
           InitSectors, MoveEntry, Goto, Plan, Sectors, Other
  <2> QED BY <1>0, <2>2, <2>3, <2>4, <2>5, BenignStep DEF ErasedInv
<1>34. CASE InitErase
  <2>1. Kept(sector) /\ (Wiped(Other(sector)) \/ Kept(Other(sector)))
    BY <1>0, <1>34, EraseEffect, OtherSector
       DEF InitErase, ControlInv, CursorInv, FlashType
  <2>2. \A s \in Sectors : Benign(s)
    BY <1>0, <1>34, <2>1, BothSectors
       DEF Benign, HeaderInv, ControlInv, TailInv, BlankFrom, Programmed,
           TypeOK, Kept, InitErase
  <2>3. HeaderInv'
    BY <1>0, <1>34, <2>1
       DEF HeaderInv, ControlInv, Kept, Wiped, Marked, Programmed,
           InitErase, Goto
  <2>4. TailInv'
    BY <1>0, <1>34, <2>1
       DEF TailInv, HeaderInv, BlankInv, BlankFrom, ControlInv, CursorInv,
           EntryInv, TypeOK, Kept, Wiped, Programmed, Erased, Entries,
           InitErase, Goto
  <2>5. EntryInv'
    BY <1>0, <1>34, <2>1
       DEF EntryInv, TypeOK, ControlInv, CursorInv, Entries, Slots, NoIdx,
           InitErase, Goto
  <2> QED BY <1>0, <2>2, <2>3, <2>4, <2>5, BenignStep DEF ErasedInv
<1>35. CASE FormatErase
  <2>1. (Wiped(sector) \/ Kept(sector)) /\ Kept(Other(sector))
    BY <1>0, <1>35, EraseEffect
       DEF FormatErase, ControlInv, CursorInv, FlashType
  <2>2. \A s \in Sectors : Benign(s)
    BY <1>0, <1>35, <2>1, BothSectors
       DEF Benign, HeaderInv, ControlInv, TailInv, BlankFrom, Programmed,
           TypeOK, Kept, FormatErase
  <2>3. HeaderInv'
    BY <1>0, <1>35, <2>1
       DEF HeaderInv, ControlInv, Kept, Wiped, Marked, Programmed,
           FormatErase, Goto
  <2>4. TailInv'
    BY <1>0, <1>35, <2>1
       DEF TailInv, HeaderInv, BlankInv, BlankFrom, ControlInv, CursorInv,
           EntryInv, TypeOK, Kept, Wiped, Programmed, Erased, Entries,
           FormatErase, Goto
  <2>5. EntryInv'
    BY <1>0, <1>35, <2>1
       DEF EntryInv, TypeOK, ControlInv, CursorInv, Entries, Slots, NoIdx,
           FormatErase, Goto
  <2> QED BY <1>0, <2>2, <2>3, <2>4, <2>5, BenignStep DEF ErasedInv
<1>36. CASE FormatValid
  <2>1. slot' = slot /\ hdr'[sector] # "EMPTY" /\ hdr'[Other(sector)] = hdr[Other(sector)]
    BY <1>0, <1>36, HeaderEffect
       DEF FormatValid, ControlInv, CursorInv, FlashType
  <2>2. \A s \in Sectors : Benign(s)
    BY <1>0, <1>36, <2>1, BothSectors
       DEF Benign, HeaderInv, ControlInv, TailInv, BlankFrom, Programmed,
           TypeOK, Kept, FormatValid
  <2>3. HeaderInv'
    BY <1>0, <1>36, <2>1
       DEF HeaderInv, ControlInv, Kept, Wiped, Marked, Programmed,
           FormatValid, Goto
  <2>4. TailInv'
    BY <1>0, <1>36, <2>1
       DEF TailInv, HeaderInv, BlankInv, BlankFrom, ControlInv, CursorInv,
           EntryInv, TypeOK, Kept, Wiped, Programmed, Erased, Entries,
           FormatValid, Goto
  <2>5. EntryInv'
    BY <1>0, <1>36, <2>1
       DEF EntryInv, TypeOK, ControlInv, CursorInv, Entries, Slots, NoIdx,
           FormatValid, Goto
  <2> QED BY <1>0, <2>2, <2>3, <2>4, <2>5, BenignStep DEF ErasedInv
<1>37. CASE Construct
  <2>1. /\ Marked(sector)
        /\ Kept(Other(sector))
        /\ BlankFrom(sector, next_idx)'
        /\ \A k \in Keys : idx'[k] # NoIdx => idx'[k] < next_idx'
    BY <1>0, <1>37, ConstructEffect DEF Construct, ControlInv, BlankFrom
  <2>2. \A s \in Sectors : Benign(s)
    BY <1>0, <1>37, <2>1, BothSectors
       DEF Benign, HeaderInv, ControlInv, TailInv, BlankFrom, Programmed,
           TypeOK, Kept, Construct
  <2>3. HeaderInv'
    BY <1>0, <1>37, <2>1
       DEF HeaderInv, ControlInv, Kept, Wiped, Marked, Programmed,
           Construct, Return
  <2>4. TailInv'
    BY <1>0, <1>37, <2>1
       DEF TailInv, HeaderInv, BlankInv, BlankFrom, ControlInv, CursorInv,
           EntryInv, TypeOK, Kept, Wiped, Programmed, Erased, Entries,
           Construct, Return
  <2>5. EntryInv'
    BY <1>0, <1>37, <2>1
       DEF EntryInv, TypeOK, ControlInv, CursorInv, Entries, Slots, NoIdx,
           Construct, Return
  <2> QED BY <1>0, <2>2, <2>3, <2>4, <2>5, BenignStep DEF ErasedInv
<1>38. CASE Crash
  <2>1. UNCHANGED flash
    BY <1>0, <1>38 DEF Crash, ControlInv, CursorInv, FlashType
  <2>2. \A s \in Sectors : Benign(s)
    BY <2>1 DEF Benign, Kept
  <2>3. HeaderInv'
    BY <1>0, <1>38, <2>1
       DEF HeaderInv, ControlInv, Kept, Wiped, Marked, Programmed, Crash,
           PowerOff
  <2>4. TailInv'
    BY <1>0, <1>38, <2>1
       DEF TailInv, HeaderInv, BlankInv, BlankFrom, ControlInv, CursorInv,
           EntryInv, TypeOK, Kept, Wiped, Programmed, Erased, Entries,
           Crash, PowerOff
  <2>5. EntryInv'
    BY <1>0, <1>38, <2>1
       DEF EntryInv, TypeOK, ControlInv, CursorInv, Entries, Slots, NoIdx,
           Crash, PowerOff
  <2> QED BY <1>0, <2>2, <2>3, <2>4, <2>5, BenignStep DEF ErasedInv
<1>39. CASE CrashInWrite
  <2>1. \E s \in Sectors, i \in Slots :
            /\ Programmed(s, i)
            /\ Kept(Other(s))
            /\ hdr[s] # "EMPTY"
            /\ slot[s][i] = Blank
    <3>1. ASSUME NEW rec \in Records
          PROVE  Torn(rec) \in Records /\ Torn(rec).flags = rec.flags
      BY DEF Torn, Records
    <3>2. CASE /\ pc = "write" /\ next_idx \in Slots
               /\ ProgramSlot(sector, next_idx, Torn(Record("NEW", key, val)))
      <4>1. sector \in Sectors /\ hdr[sector] # "EMPTY"
        BY <1>0, <3>2 DEF ControlInv, HeaderInv
      <4>2. slot[sector][next_idx] = Blank
        BY <1>0, <3>2 DEF TailInv, BlankFrom, Slots
      <4>3. Record("NEW", key, val) \in Records
        BY <1>0, <3>2, RecordType DEF ControlInv, TypeOK, RecordFlags
      <4>4. Record("NEW", key, val).flags # "EMPTY"
        BY DEF Record
      <4>5. Programmed(sector, next_idx) /\ Kept(Other(sector))
        BY <1>0, <3>1, <3>2, <4>1, <4>3, <4>4, ProgramEffect
      <4> QED BY <3>2, <4>1, <4>2, <4>5
    <3>3. CASE /\ pc = "swap_copy" /\ dst_idx \in Slots
               /\ \E k \in todo :
                    /\ SwapRecord(k).flags = "VALID"
                    /\ ProgramSlot(Other(sector), dst_idx, Torn(SwapRecord(k)))
      <4>1. PICK k \in todo :
                /\ SwapRecord(k).flags = "VALID"
                /\ ProgramSlot(Other(sector), dst_idx, Torn(SwapRecord(k)))
        BY <3>3
      <4>2. /\ sector \in Sectors
            /\ Other(sector) \in Sectors
            /\ hdr[Other(sector)] # "EMPTY"
        BY <1>0, <3>3 DEF ControlInv, HeaderInv
      <4>3. k \in Keys /\ idx[k] \in Slots
        BY <1>0 DEF CursorInv, Entries, TypeOK
      <4>4. Record("VALID", k, cache[k]) \in Records
        BY <1>0, <4>3, RecordType DEF RecordFlags, TypeOK
      <4>5. SwapRecord(k) \in Records
        BY <1>0, <4>2, <4>3, <4>4 DEF SwapRecord, TypeOK
      <4>6. slot[Other(sector)][dst_idx] = Blank
        BY <1>0, <3>3 DEF TailInv, BlankFrom, Slots
      <4>7. Programmed(Other(sector), dst_idx) /\ Kept(Other(Other(sector)))
        BY <1>0, <3>1, <3>3, <4>1, <4>2, <4>5, ProgramEffect
      <4> QED BY <3>3, <4>2, <4>6, <4>7
    <3>4. CASE /\ pc = "move_copy" /\ src_idx \in Slots /\ dst_idx \in Slots
               /\ Live(slot[sector][src_idx])
               /\ ProgramSlot(Other(sector), dst_idx,
                              Torn(slot[sector][src_idx]))
      <4>1. /\ sector \in Sectors
            /\ Other(sector) \in Sectors
            /\ hdr[Other(sector)] # "EMPTY"
        BY <1>0, <3>4 DEF ControlInv, HeaderInv
      <4>2. slot[sector][src_idx] \in Records
        BY <1>0, <3>4, <4>1 DEF TypeOK
      <4>3. slot[sector][src_idx].flags # "EMPTY"
        BY <3>4 DEF Live
      <4>4. slot[Other(sector)][dst_idx] = Blank
        BY <1>0, <3>4 DEF TailInv, BlankFrom, Slots
      <4>5. Programmed(Other(sector), dst_idx) /\ Kept(Other(Other(sector)))
        BY <1>0, <3>1, <3>4, <4>1, <4>2, <4>3, ProgramEffect
      <4> QED BY <3>4, <4>1, <4>4, <4>5
    <3> QED BY <1>39, <3>2, <3>3, <3>4 DEF CrashInWrite
  <2>2. \A s \in Sectors : Benign(s)
    BY <2>1, BothSectors DEF Benign
  <2>3. HeaderInv'
    BY <1>0, <1>39, <2>1
       DEF HeaderInv, ControlInv, Kept, Wiped, Marked, Programmed,
           CrashInWrite, PowerOff
  <2>4. TailInv'
    BY <1>0, <1>39, <2>1
       DEF TailInv, HeaderInv, BlankInv, BlankFrom, ControlInv, CursorInv,
           EntryInv, TypeOK, Kept, Wiped, Programmed, Erased, Entries,
           CrashInWrite, PowerOff
  <2>5. EntryInv'
    BY <1>0, <1>39, <2>1
       DEF EntryInv, TypeOK, ControlInv, CursorInv, Entries, Slots, NoIdx,
           CrashInWrite, PowerOff
  <2> QED BY <1>0, <2>2, <2>3, <2>4, <2>5, BenignStep DEF ErasedInv
<1>40. CASE CrashInHeader
  <2>1. slot' = slot /\ \A s \in Sectors : hdr'[s] = hdr[s] \/ hdr'[s] # "EMPTY"
    BY <1>0, <1>40, OtherSector
       DEF CrashInHeader, HeaderWrites, HeaderAnd, ControlInv, CursorInv,
           FlashType
  <2>2. \A s \in Sectors : Benign(s)
    BY <2>1, <1>0 DEF Benign, Kept
  <2>3. HeaderInv'
    BY <1>0, <1>40, <2>1
       DEF HeaderInv, ControlInv, Kept, Wiped, Marked, Programmed,
           CrashInHeader, PowerOff
  <2>4. TailInv'
    BY <1>0, <1>40, <2>1
       DEF TailInv, HeaderInv, BlankInv, BlankFrom, ControlInv, CursorInv,
           EntryInv, TypeOK, Kept, Wiped, Programmed, Erased, Entries,
           CrashInHeader, PowerOff
  <2>5. EntryInv'
    BY <1>0, <1>40, <2>1
       DEF EntryInv, TypeOK, ControlInv, CursorInv, Entries, Slots, NoIdx,
           CrashInHeader, PowerOff
  <2> QED BY <1>0, <2>2, <2>3, <2>4, <2>5, BenignStep DEF ErasedInv
<1>41. CASE CrashInErase
  <2>1. slot' = slot /\ \A s \in Sectors : hdr'[s] = hdr[s] \/ hdr'[s] # "EMPTY"
    BY <1>0, <1>41, OtherSector
       DEF CrashInErase, SafeFaults, ControlInv, CursorInv, FlashType
  <2>2. \A s \in Sectors : Benign(s)
    BY <2>1, <1>0 DEF Benign, Kept
  <2>3. HeaderInv'
    BY <1>0, <1>41, <2>1
       DEF HeaderInv, ControlInv, Kept, Wiped, Marked, Programmed,
           CrashInErase, PowerOff
  <2>4. TailInv'
    BY <1>0, <1>41, <2>1
       DEF TailInv, HeaderInv, BlankInv, BlankFrom, ControlInv, CursorInv,
           EntryInv, TypeOK, Kept, Wiped, Programmed, Erased, Entries,
           CrashInErase, PowerOff
  <2>5. EntryInv'
    BY <1>0, <1>41, <2>1
       DEF EntryInv, TypeOK, ControlInv, CursorInv, Entries, Slots, NoIdx,
           CrashInErase, PowerOff
  <2> QED BY <1>0, <2>2, <2>3, <2>4, <2>5, BenignStep DEF ErasedInv
<1>42. CASE UNCHANGED vars
  <2>1. UNCHANGED flash
    BY <1>0, <1>42 DEF vars, ControlInv, CursorInv, FlashType
  <2>2. \A s \in Sectors : Benign(s)
    BY <2>1 DEF Benign, Kept
  <2>3. HeaderInv'
    BY <1>0, <1>42, <2>1
       DEF HeaderInv, ControlInv, Kept, Wiped, Marked, Programmed, vars
  <2>4. TailInv'
    BY <1>0, <1>42, <2>1
       DEF TailInv, HeaderInv, BlankInv, BlankFrom, ControlInv, CursorInv,
           EntryInv, TypeOK, Kept, Wiped, Programmed, Erased, Entries, vars
  <2>5. EntryInv'
    BY <1>0, <1>42, <2>1
       DEF EntryInv, TypeOK, ControlInv, CursorInv, Entries, Slots, NoIdx,
           vars
  <2> QED BY <1>0, <2>2, <2>3, <2>4, <2>5, BenignStep DEF ErasedInv
<1> QED
  BY <1>1, <1>2, <1>3, <1>4, <1>5, <1>6, <1>7, <1>8, <1>9, <1>10, <1>11,
     <1>12, <1>13, <1>14, <1>15, <1>16, <1>17, <1>18, <1>19, <1>20, <1>21,
     <1>22, <1>23, <1>24, <1>25, <1>26, <1>27, <1>28, <1>29, <1>30, <1>31,
     <1>32, <1>33, <1>34, <1>35, <1>36, <1>37, <1>38, <1>39, <1>40, <1>41,
     <1>42
     DEF Next, Call, Step, PowerFailure

\* Where no sector header write fails and no erase is cut between two pages,
\* the used and the erased parts of the sectors are where the volume takes
\* them to be: what record_set(), swap_sectors() and move_sector() write into
\* is erased.  Any other failure, and power failures anywhere else, included.
THEOREM ErasedWhereTold == ASSUME SafeFaults PROVE Spec => []ErasedInv
<1>1. Init => TypeInv /\ ErasedInv
  BY TypeInit, ErasedInit
<1>2. TypeInv /\ ErasedInv /\ [Next]_vars => TypeInv' /\ ErasedInv'
  BY TypeNext, ErasedNext
<1> QED BY <1>1, <1>2, PTL DEF Spec

\* Under the same assumption a record is programmed into an erased slot only,
\* and after that only its flags change until its sector is erased.
THEOREM RecordsWrittenOnce == ASSUME SafeFaults PROVE Spec => WriteOnce
<1>1. Init => TypeInv /\ ErasedInv
  BY TypeInit, ErasedInit
<1>2. TypeInv /\ ErasedInv /\ [Next]_vars =>
            TypeInv' /\ ErasedInv' /\ [ProgramsErased]_vars
  BY TypeNext, ErasedNext
<1> QED BY <1>1, <1>2, PTL DEF Spec, WriteOnce
=============================================================================
