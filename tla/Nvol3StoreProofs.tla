-------------------------- MODULE Nvol3StoreProofs --------------------------
(***************************************************************************)
(* Proofs about Nvol3: a write that returned EOK is what a boot finds, the *)
(* lookup table is the one that a load would build, a deleted record stays *)
(* deleted, and the status counts the records that are there.              *)
(***************************************************************************)
EXTENDS Nvol3Proofs

----------------------------------------------------------------------------
(* Sector headers, where no erase and no header write fails and no power   *)
(* cut comes between the words of a header or the pages of an erase.       *)
(* Record writes and record flag writes may fail, and power may fail       *)
(* anywhere else.                                                          *)

RecordFaults == Faults \subseteq {"write", "flag"}

Formatted == {"INITIALIZING", "VALID"}
NotInUse  == {"EMPTY", "UNKNOWN"}

\* A header that is complete carries the version, and one sector is VALID
\* unless there is no volume at all.
VolumeInv ==
    /\ \A s \in Sectors :
        /\ hdr[s] # "INVALID"
        /\ hdr[s] \in Formatted => ver[s]
    /\ \/ \E s \in Sectors : hdr[s] = "VALID"
       \/ \A s \in Sectors : hdr[s] \in NotInUse

\* The headers of the sector in use and of the other one, by what the program
\* is doing.  A load never has to repair the volume.
InUseInv ==
    /\ pc # "swap_erase"
    /\ pc \in MovePcs => ~Loading
    /\ pc \in {"idle", "mark_deleted", "init_erase", "construct"}
                 \union SetPcs \union SwapPcs \union MovePcs \union TailPcs =>
            hdr[sector] = "VALID"
    /\ pc \in {"idle", "mark_deleted", "construct", "swap_init", "move_init"}
                 \union SetPcs =>
            hdr[Other(sector)] = "EMPTY"
    /\ pc \in CopyPcs \union {"move_erase"} =>
            hdr[Other(sector)] = "INITIALIZING"
    /\ pc \in TailPcs => hdr[Other(sector)] = "VALID"

\* The headers while a volume is erased, loaded or formatted.
BootInv ==
    /\ pc \in {"reset1", "reset2"} =>
            \A s \in Sectors : hdr[s] # "INITIALIZING"
    /\ pc = "reset2" => hdr[1] = "EMPTY"
    /\ pc \in {"init2", "init_sectors"} => hdr[1] # "UNKNOWN"
    /\ pc = "init_sectors" => hdr[2] # "UNKNOWN"
    /\ pc \in {"format_erase", "format_valid"} =>
            sector = 1 /\ \A s \in Sectors : hdr[s] = "EMPTY"

HeadersInv == VolumeInv /\ InUseInv /\ BootInv

\* What an erase or a header write does to the headers.
Stamped(s, f) ==
    /\ hdr'[s] = f
    /\ ver'[s] = (f # "EMPTY")
    /\ hdr'[Other(s)] = hdr[Other(s)]
    /\ ver'[Other(s)] = ver[Other(s)]

LEMMA EraseDone ==
    ASSUME RecordFaults, FlashType, NEW s \in Sectors, NEW good \in BOOLEAN,
           TryErase(s, good)
    PROVE  good /\ EraseSector(s) /\ Stamped(s, "EMPTY")
<1>1. good /\ EraseSector(s)
  BY DEF RecordFaults, TryErase, Fault
<1>2. Other(s) \in Sectors /\ Other(s) # s
  BY OtherSector
<1> QED BY <1>1, <1>2 DEF EraseSector, Stamped, FlashType

LEMMA HeaderDone ==
    ASSUME RecordFaults, FlashType, NEW s \in Sectors, NEW good \in BOOLEAN,
           NEW f \in Formatted, TryHeader(s, f, good),
           hdr[s] \in {"EMPTY", "INITIALIZING"}
    PROVE  good /\ Stamped(s, f) /\ slot' = slot
<1>1. good /\ SetSectorFlags(s, f)
  BY DEF RecordFaults, TryHeader, Fault
<1>2. Other(s) \in Sectors /\ Other(s) # s
  BY OtherSector
<1> QED BY <1>1, <1>2
    DEF SetSectorFlags, HeaderAnd, Stamped, Formatted, FlashType

LEMMA WriteKeepsHeaders ==
    ASSUME NEW s, NEW i, NEW rec, NEW good \in BOOLEAN,
           TryWrite(s, i, rec, good)
    PROVE  UNCHANGED <<hdr, ver>>
BY DEF TryWrite, ProgramSlot, flash

LEMMA MarkKeepsHeaders ==
    ASSUME NEW s, NEW i, NEW f, NEW good \in BOOLEAN, TryMark(s, i, f, good)
    PROVE  UNCHANGED <<hdr, ver>>
BY DEF TryMark, MarkSlot, flash

LEMMA HeadersInit == Init => HeadersInv
BY DEF Init, HeadersInv, VolumeInv, InUseInv, BootInv, NotInUse, Formatted,
       SetPcs, SwapPcs, MovePcs, TailPcs, CopyPcs

\* A boot loads a volume that has a VALID sector and erases any other.
LEMMA BootChoice ==
    ASSUME VolumeInv
    PROVE  Validate <=> \E s \in Sectors : hdr[s] = "VALID"
BY DEF VolumeInv, Validate, Known, NotInUse, Formatted, Sectors

LEMMA PlanChoice ==
    ASSUME VolumeInv, FlashType,
           \A s \in Sectors : hdr[s] # "UNKNOWN",
           NEW plan, plan = Plan(hdr[1], hdr[2])
    PROVE  \/ /\ plan.act = "format"
              /\ plan.sector = 1
              /\ \A s \in Sectors : hdr[s] = "EMPTY"
           \/ /\ plan.act \in {"none", "erase_other"}
              /\ plan.sector \in Sectors
              /\ hdr[plan.sector] = "VALID"
              /\ plan.act = "none" => hdr[Other(plan.sector)] = "EMPTY"
<1>1. hdr[1] \in {"EMPTY", "INITIALIZING", "VALID"}
      /\ hdr[2] \in {"EMPTY", "INITIALIZING", "VALID"}
  BY DEF VolumeInv, FlashType, SectorFlags, Sectors
<1>2. \/ hdr[1] = "VALID" \/ hdr[2] = "VALID"
      \/ hdr[1] = "EMPTY" /\ hdr[2] = "EMPTY"
  BY <1>1 DEF VolumeInv, NotInUse, Sectors
<1>3. Other(1) = 2 /\ Other(2) = 1 /\ 1 \in Sectors /\ 2 \in Sectors
      /\ \A s \in Sectors : s = 1 \/ s = 2
  BY DEF Other, Sectors
<1>4. CASE hdr[1] = "VALID"
  <2>1. plan = [sector |-> 1, act |-> "erase_other"]
    BY <1>4 DEF Plan
  <2> QED BY <1>3, <1>4, <2>1
<1>5. CASE hdr[1] = "EMPTY" /\ hdr[2] = "EMPTY"
  <2>1. plan = [sector |-> 1, act |-> "format"]
    BY <1>5 DEF Plan
  <2> QED BY <1>3, <1>5, <2>1
<1>6. CASE hdr[1] = "EMPTY" /\ hdr[2] = "VALID"
  <2>1. plan = [sector |-> 2, act |-> "none"]
    BY <1>6 DEF Plan
  <2> QED BY <1>3, <1>6, <2>1
<1>7. CASE hdr[1] = "INITIALIZING" /\ hdr[2] = "VALID"
  <2>1. plan = [sector |-> 2, act |-> "erase_other"]
    BY <1>7 DEF Plan
  <2> QED BY <1>3, <1>7, <2>1
<1> QED BY <1>1, <1>2, <1>4, <1>5, <1>6, <1>7
\* A header cut off in the middle is UNKNOWN.
Cut(s) ==
    /\ hdr'[s] = "UNKNOWN"
    /\ hdr'[Other(s)] = hdr[Other(s)]
    /\ UNCHANGED ver

LEMMA CutVolume ==
    ASSUME VolumeInv, NEW s \in Sectors, Cut(s),
           hdr[Other(s)] \in NotInUse \union {"VALID"}
    PROVE  VolumeInv'
<1>1. /\ Other(s) \in Sectors
      /\ \A t \in Sectors : t = s \/ t = Other(s)
  BY DEF Sectors, Other
<1> QED BY <1>1 DEF VolumeInv, Cut, NotInUse, Formatted

LEMMA StampedVolume ==
    ASSUME VolumeInv, NEW s \in Sectors,
           NEW f \in {"EMPTY", "INITIALIZING", "VALID"}, Stamped(s, f),
           \/ f = "VALID"
           \/ hdr[Other(s)] = "VALID"
           \/ f = "EMPTY" /\ hdr[Other(s)] \in NotInUse
    PROVE  VolumeInv'
<1>1. /\ Other(s) \in Sectors
      /\ \A t \in Sectors : t = s \/ t = Other(s)
  BY DEF Sectors, Other
<1> QED BY <1>1 DEF VolumeInv, Stamped, NotInUse, Formatted

\* Every step keeps the headers in order.
LEMMA HeadersNext ==
    ASSUME RecordFaults, TypeInv, HeadersInv, [Next]_vars
    PROVE  HeadersInv'
<1> USE DEF SwapPcs, MovePcs, SetPcs, TailPcs, BootPcs, CopyPcs, Writing,
            Loading, Formatted, NotInUse, flash, ram, request, copy, env
<1>0. /\ FlashType /\ ControlInv
      /\ VolumeInv /\ InUseInv /\ BootInv
      /\ \A s \in Sectors : /\ Other(s) \in Sectors
                            /\ Other(s) # s
                            /\ Other(Other(s)) = s
                            /\ \A t \in Sectors : t = s \/ t = Other(s)
      /\ Other(1) = 2 /\ Other(2) = 1 /\ 1 \in Sectors /\ 2 \in Sectors
  BY TypeFlash DEF TypeInv, HeadersInv, Sectors, Other
<1>1. CASE Boot
  <2>1. UNCHANGED <<hdr, ver>>
    BY <1>1 DEF Boot
  <2>2. pc' = "reset1" => \A s \in Sectors : hdr[s] \in NotInUse
    BY <1>0, <1>1, BootChoice DEF Boot, VolumeInv
  <2>3. VolumeInv'
    BY <1>0, <1>1, <2>1, <2>2
    DEF VolumeInv, InUseInv, ControlInv, Boot
  <2>4. InUseInv'
    BY <1>0, <1>1, <2>1, <2>2
    DEF InUseInv, BootInv, ControlInv, Boot
  <2>5. BootInv'
    BY <1>0, <1>1, <2>1, <2>2
    DEF BootInv, InUseInv, ControlInv, Boot
  <2> QED BY <2>3, <2>4, <2>5 DEF HeadersInv
<1>2. CASE \E k \in Keys, v \in Vals : RecordSet(k, v)
  <2>1. UNCHANGED <<hdr, ver>>
    BY <1>2 DEF RecordSet, StartWrite, SwapEntry
  <2>2. VolumeInv'
    BY <1>0, <1>2, <2>1
    DEF VolumeInv, InUseInv, ControlInv, RecordSet, StartWrite, SwapEntry
  <2>3. InUseInv'
    BY <1>0, <1>2, <2>1
    DEF InUseInv, BootInv, ControlInv, RecordSet, StartWrite, SwapEntry
  <2>4. BootInv'
    BY <1>0, <1>2, <2>1
    DEF BootInv, InUseInv, ControlInv, RecordSet, StartWrite, SwapEntry
  <2> QED BY <2>2, <2>3, <2>4 DEF HeadersInv
<1>3. CASE \E k \in Keys, v \in Vals : EntryData(k, v)
  <2>1. UNCHANGED <<hdr, ver>>
    BY <1>3 DEF EntryData
  <2>2. VolumeInv'
    BY <1>0, <1>3, <2>1
    DEF VolumeInv, InUseInv, ControlInv, EntryData
  <2>3. InUseInv'
    BY <1>0, <1>3, <2>1
    DEF InUseInv, BootInv, ControlInv, EntryData
  <2>4. BootInv'
    BY <1>0, <1>3, <2>1
    DEF BootInv, InUseInv, ControlInv, EntryData
  <2> QED BY <2>2, <2>3, <2>4 DEF HeadersInv
<1>4. CASE \E k \in Keys : EntrySave(k)
  <2>1. UNCHANGED <<hdr, ver>>
    BY <1>4 DEF EntrySave, StartWrite, SwapEntry
  <2>2. VolumeInv'
    BY <1>0, <1>4, <2>1
    DEF VolumeInv, InUseInv, ControlInv, EntrySave, StartWrite, SwapEntry
  <2>3. InUseInv'
    BY <1>0, <1>4, <2>1
    DEF InUseInv, BootInv, ControlInv, EntrySave, StartWrite, SwapEntry
  <2>4. BootInv'
    BY <1>0, <1>4, <2>1
    DEF BootInv, InUseInv, ControlInv, EntrySave, StartWrite, SwapEntry
  <2> QED BY <2>2, <2>3, <2>4 DEF HeadersInv
<1>5. CASE \E k \in Keys : RecordDelete(k)
  <2>1. UNCHANGED <<hdr, ver>>
    BY <1>5 DEF RecordDelete
  <2>2. VolumeInv'
    BY <1>0, <1>5, <2>1
    DEF VolumeInv, InUseInv, ControlInv, RecordDelete
  <2>3. InUseInv'
    BY <1>0, <1>5, <2>1
    DEF InUseInv, BootInv, ControlInv, RecordDelete
  <2>4. BootInv'
    BY <1>0, <1>5, <2>1
    DEF BootInv, InUseInv, ControlInv, RecordDelete
  <2> QED BY <2>2, <2>3, <2>4 DEF HeadersInv
<1>6. CASE Repair
  <2>1. UNCHANGED <<hdr, ver>>
    BY <1>6 DEF Repair, MoveEntry
  <2>2. VolumeInv'
    BY <1>0, <1>6, <2>1
    DEF VolumeInv, InUseInv, ControlInv, Repair, MoveEntry
  <2>3. InUseInv'
    BY <1>0, <1>6, <2>1
    DEF InUseInv, BootInv, ControlInv, Repair, MoveEntry
  <2>4. BootInv'
    BY <1>0, <1>6, <2>1
    DEF BootInv, InUseInv, ControlInv, Repair, MoveEntry
  <2> QED BY <2>2, <2>3, <2>4 DEF HeadersInv
<1>7. CASE \E o \in Ops : Reset(o)
  <2>1. UNCHANGED <<hdr, ver>>
    BY <1>7 DEF Reset
  <2>2. VolumeInv'
    BY <1>0, <1>7, <2>1
    DEF VolumeInv, InUseInv, ControlInv, Reset
  <2>3. InUseInv'
    BY <1>0, <1>7, <2>1
    DEF InUseInv, BootInv, ControlInv, Reset
  <2>4. BootInv'
    BY <1>0, <1>7, <2>1
    DEF BootInv, InUseInv, ControlInv, Reset
  <2> QED BY <2>2, <2>3, <2>4 DEF HeadersInv
<1>8. CASE Unload
  <2>1. UNCHANGED <<hdr, ver>>
    BY <1>8 DEF Unload
  <2>2. VolumeInv'
    BY <1>0, <1>8, <2>1
    DEF VolumeInv, InUseInv, ControlInv, Unload
  <2>3. InUseInv'
    BY <1>0, <1>8, <2>1
    DEF InUseInv, BootInv, ControlInv, Unload
  <2>4. BootInv'
    BY <1>0, <1>8, <2>1
    DEF BootInv, InUseInv, ControlInv, Unload
  <2> QED BY <2>2, <2>3, <2>4 DEF HeadersInv
<1>9. CASE RecordSetCheck
  <2>1. UNCHANGED <<hdr, ver>>
    BY <1>9 DEF RecordSetCheck, Return, Goto
  <2>2. VolumeInv'
    BY <1>0, <1>9, <2>1
    DEF VolumeInv, InUseInv, ControlInv, RecordSetCheck, Return, Goto
  <2>3. InUseInv'
    BY <1>0, <1>9, <2>1
    DEF InUseInv, BootInv, ControlInv, RecordSetCheck, Return, Goto
  <2>4. BootInv'
    BY <1>0, <1>9, <2>1
    DEF BootInv, InUseInv, ControlInv, RecordSetCheck, Return, Goto
  <2> QED BY <2>2, <2>3, <2>4 DEF HeadersInv
<1>10. CASE RecordSetWrite
  <2>1. UNCHANGED <<hdr, ver>>
    BY <1>10, WriteKeepsHeaders DEF RecordSetWrite
  <2>2. /\ pc = "write"
        /\ pc' \in {"set_valid", "mark_bad"}
        /\ UNCHANGED <<sector, op>>
    BY <1>0, <1>10 DEF RecordSetWrite, Goto
  <2>3. VolumeInv'
    BY <1>0, <1>10, <2>1, <2>2
    DEF VolumeInv, InUseInv, ControlInv
  <2>4. InUseInv'
    BY <1>0, <1>10, <2>1, <2>2
    DEF InUseInv, BootInv, ControlInv
  <2>5. BootInv'
    BY <1>0, <1>10, <2>1, <2>2
    DEF BootInv, InUseInv, ControlInv
  <2> QED BY <2>3, <2>4, <2>5 DEF HeadersInv
<1>11. CASE RecordSetMarkBad
  <2>1. UNCHANGED <<hdr, ver>>
    BY <1>11, MarkKeepsHeaders DEF RecordSetMarkBad
  <2>2. pc = "mark_bad" /\ pc' = "idle" /\ UNCHANGED sector
    BY <1>0, <1>11 DEF RecordSetMarkBad, Return
  <2>3. VolumeInv'
    BY <1>0, <1>11, <2>1, <2>2
    DEF VolumeInv, InUseInv, ControlInv
  <2>4. InUseInv'
    BY <1>0, <1>11, <2>1, <2>2
    DEF InUseInv, BootInv, ControlInv
  <2>5. BootInv'
    BY <1>0, <1>11, <2>1, <2>2
    DEF BootInv, InUseInv, ControlInv
  <2> QED BY <2>3, <2>4, <2>5 DEF HeadersInv
<1>12. CASE RecordSetValid
  <2>1. UNCHANGED <<hdr, ver>>
    BY <1>12, MarkKeepsHeaders DEF RecordSetValid
  <2>2. pc = "set_valid" /\ pc' \in {"idle", "mark_old"} /\ UNCHANGED sector
    BY <1>0, <1>12 DEF RecordSetValid, Return, Goto
  <2>3. VolumeInv'
    BY <1>0, <1>12, <2>1, <2>2
    DEF VolumeInv, InUseInv, ControlInv
  <2>4. InUseInv'
    BY <1>0, <1>12, <2>1, <2>2
    DEF InUseInv, BootInv, ControlInv
  <2>5. BootInv'
    BY <1>0, <1>12, <2>1, <2>2
    DEF BootInv, InUseInv, ControlInv
  <2> QED BY <2>3, <2>4, <2>5 DEF HeadersInv
<1>13. CASE RecordSetMarkOld
  <2>1. UNCHANGED <<hdr, ver>>
    BY <1>13, MarkKeepsHeaders DEF RecordSetMarkOld
  <2>2. pc = "mark_old" /\ pc' = "idle" /\ UNCHANGED sector
    BY <1>0, <1>13 DEF RecordSetMarkOld, Return
  <2>3. VolumeInv'
    BY <1>0, <1>13, <2>1, <2>2
    DEF VolumeInv, InUseInv, ControlInv
  <2>4. InUseInv'
    BY <1>0, <1>13, <2>1, <2>2
    DEF InUseInv, BootInv, ControlInv
  <2>5. BootInv'
    BY <1>0, <1>13, <2>1, <2>2
    DEF BootInv, InUseInv, ControlInv
  <2> QED BY <2>3, <2>4, <2>5 DEF HeadersInv
<1>14. CASE RecordDeleteMark
  <2>1. UNCHANGED <<hdr, ver>>
    BY <1>14, MarkKeepsHeaders DEF RecordDeleteMark
  <2>2. pc = "mark_deleted" /\ pc' = "idle" /\ UNCHANGED sector
    BY <1>0, <1>14 DEF RecordDeleteMark, Return
  <2>3. VolumeInv'
    BY <1>0, <1>14, <2>1, <2>2
    DEF VolumeInv, InUseInv, ControlInv
  <2>4. InUseInv'
    BY <1>0, <1>14, <2>1, <2>2
    DEF InUseInv, BootInv, ControlInv
  <2>5. BootInv'
    BY <1>0, <1>14, <2>1, <2>2
    DEF BootInv, InUseInv, ControlInv
  <2> QED BY <2>3, <2>4, <2>5 DEF HeadersInv
<1>15. CASE SwapErase
  BY <1>0, <1>15 DEF SwapErase, InUseInv
<1>16. CASE SwapInit
  <2>1. Other(sector) \in Sectors /\ hdr[Other(sector)] = "EMPTY"
    BY <1>0, <1>16 DEF InUseInv, BootInv, SwapInit, ControlInv
  <2> pc = "swap_init"
    BY <1>16 DEF SwapInit
  <2>2. "INITIALIZING" \in Formatted
    BY DEF Formatted
  <2>3. PICK good \in BOOLEAN :
            /\ TryHeader(Other(sector), "INITIALIZING", good)
            /\ good =>
                   /\ pc' \in {"swap_copy", "swap_valid"}
                   /\ UNCHANGED <<sector, op>>
    BY <1>16 DEF SwapInit, Goto
  <2>4. /\ Stamped(Other(sector), "INITIALIZING")
        /\ pc' \in {"swap_copy", "swap_valid"}
        /\ UNCHANGED <<sector, op>>
    BY <1>0, <2>1, <2>2, <2>3, HeaderDone
  <2>5. VolumeInv'
    <3>1. hdr[Other(Other(sector))] = "VALID"
      BY <1>0, <2>1, <2>4
      DEF VolumeInv, InUseInv, BootInv, ControlInv, FlashType, SectorFlags
    <3> QED BY <1>0, <3>1, <2>1, <2>4, StampedVolume
  <2>6. InUseInv'
    BY <1>0, <1>16, <2>1, <2>4
    DEF InUseInv, BootInv, ControlInv, Stamped
  <2>7. BootInv'
    BY <1>0, <1>16, <2>1, <2>4
    DEF BootInv, InUseInv, ControlInv, Stamped
  <2> QED BY <2>5, <2>6, <2>7 DEF HeadersInv
<1>17. CASE SwapCopy
  <2>1. UNCHANGED <<hdr, ver>>
    BY <1>17, WriteKeepsHeaders DEF SwapCopy
  <2>2. /\ pc = "swap_copy"
        /\ pc' \in {"swap_copy", "swap_valid", "move_erase"}
        /\ UNCHANGED <<sector, op>>
    BY <1>0, <1>17 DEF SwapCopy, Goto, MoveEntry, InUseInv
  <2>3. VolumeInv'
    BY <1>0, <1>17, <2>1, <2>2
    DEF VolumeInv, InUseInv, ControlInv
  <2>4. InUseInv'
    BY <1>0, <1>17, <2>1, <2>2
    DEF InUseInv, BootInv, ControlInv
  <2>5. BootInv'
    BY <1>0, <1>17, <2>1, <2>2
    DEF BootInv, InUseInv, ControlInv
  <2> QED BY <2>3, <2>4, <2>5 DEF HeadersInv
<1>18. CASE SwapValid
  <2>1. Other(sector) \in Sectors /\ hdr[Other(sector)] = "INITIALIZING"
    BY <1>0, <1>18 DEF InUseInv, BootInv, SwapValid, ControlInv
  <2> pc = "swap_valid"
    BY <1>18 DEF SwapValid
  <2>2. "VALID" \in Formatted
    BY DEF Formatted
  <2>3. PICK good \in BOOLEAN :
            /\ TryHeader(Other(sector), "VALID", good)
            /\ good =>
                   /\ pc' \in {"rebuild", "erase_src"}
                   /\ sector' = Other(sector)
                   /\ UNCHANGED op
    BY <1>18 DEF SwapValid, Goto
  <2>4. /\ Stamped(Other(sector), "VALID")
        /\ pc' \in {"rebuild", "erase_src"}
        /\ sector' = Other(sector)
        /\ UNCHANGED op
    BY <1>0, <2>1, <2>2, <2>3, HeaderDone
  <2>5. VolumeInv'
    <3>1. TRUE
      BY <1>0, <2>1, <2>4
      DEF VolumeInv, InUseInv, BootInv, ControlInv, FlashType, SectorFlags
    <3> QED BY <1>0, <3>1, <2>1, <2>4, StampedVolume
  <2>6. InUseInv'
    BY <1>0, <1>18, <2>1, <2>4
    DEF InUseInv, BootInv, ControlInv, Stamped
  <2>7. BootInv'
    BY <1>0, <1>18, <2>1, <2>4
    DEF BootInv, InUseInv, ControlInv, Stamped
  <2> QED BY <2>5, <2>6, <2>7 DEF HeadersInv
<1>19. CASE MoveErase
  <2>1. Other(sector) \in Sectors
    BY <1>0, <1>19 DEF MoveErase, ControlInv, Sectors
  <2> pc = "move_erase"
    BY <1>19 DEF MoveErase
  <2>2. PICK good \in BOOLEAN :
            /\ TryErase(Other(sector), good)
            /\ good => pc' = "move_init" /\ UNCHANGED <<sector, op>>
    BY <1>19 DEF MoveErase, Goto
  <2>3. /\ Stamped(Other(sector), "EMPTY")
        /\ pc' = "move_init"
        /\ UNCHANGED <<sector, op>>
    BY <1>0, <2>1, <2>2, EraseDone
  <2>4. VolumeInv'
    <3>1. hdr[Other(Other(sector))] \in NotInUse \union {"VALID"}
      BY <1>0, <2>1, <2>3
      DEF VolumeInv, InUseInv, BootInv, ControlInv, FlashType, SectorFlags
    <3> QED BY <1>0, <3>1, <2>1, <2>3, StampedVolume
  <2>5. InUseInv'
    BY <1>0, <1>19, <2>1, <2>3
    DEF InUseInv, BootInv, ControlInv, Stamped
  <2>6. BootInv'
    BY <1>0, <1>19, <2>1, <2>3
    DEF BootInv, InUseInv, ControlInv, Stamped
  <2> QED BY <2>4, <2>5, <2>6 DEF HeadersInv
<1>20. CASE MoveInit
  <2>1. Other(sector) \in Sectors /\ hdr[Other(sector)] = "EMPTY"
    BY <1>0, <1>20 DEF InUseInv, BootInv, MoveInit, ControlInv
  <2> pc = "move_init"
    BY <1>20 DEF MoveInit
  <2>2. "INITIALIZING" \in Formatted
    BY DEF Formatted
  <2>3. PICK good \in BOOLEAN :
            /\ TryHeader(Other(sector), "INITIALIZING", good)
            /\ good => pc' = "move_copy" /\ UNCHANGED <<sector, op>>
    BY <1>20 DEF MoveInit, Goto
  <2>4. /\ Stamped(Other(sector), "INITIALIZING")
        /\ pc' = "move_copy"
        /\ UNCHANGED <<sector, op>>
    BY <1>0, <2>1, <2>2, <2>3, HeaderDone
  <2>5. VolumeInv'
    <3>1. hdr[Other(Other(sector))] = "VALID"
      BY <1>0, <2>1, <2>4
      DEF VolumeInv, InUseInv, BootInv, ControlInv, FlashType, SectorFlags
    <3> QED BY <1>0, <3>1, <2>1, <2>4, StampedVolume
  <2>6. InUseInv'
    BY <1>0, <1>20, <2>1, <2>4
    DEF InUseInv, BootInv, ControlInv, Stamped
  <2>7. BootInv'
    BY <1>0, <1>20, <2>1, <2>4
    DEF BootInv, InUseInv, ControlInv, Stamped
  <2> QED BY <2>5, <2>6, <2>7 DEF HeadersInv
<1>21. CASE MoveEnd
  <2>1. UNCHANGED <<hdr, ver>>
    BY <1>21 DEF MoveEnd, Goto
  <2>2. VolumeInv'
    BY <1>0, <1>21, <2>1
    DEF VolumeInv, InUseInv, ControlInv, MoveEnd, Goto
  <2>3. InUseInv'
    BY <1>0, <1>21, <2>1
    DEF InUseInv, BootInv, ControlInv, MoveEnd, Goto
  <2>4. BootInv'
    BY <1>0, <1>21, <2>1
    DEF BootInv, InUseInv, ControlInv, MoveEnd, Goto
  <2> QED BY <2>2, <2>3, <2>4 DEF HeadersInv
<1>22. CASE MoveSkip
  <2>1. UNCHANGED <<hdr, ver>>
    BY <1>22 DEF MoveSkip
  <2>2. VolumeInv'
    BY <1>0, <1>22, <2>1
    DEF VolumeInv, InUseInv, ControlInv, MoveSkip
  <2>3. InUseInv'
    BY <1>0, <1>22, <2>1
    DEF InUseInv, BootInv, ControlInv, MoveSkip
  <2>4. BootInv'
    BY <1>0, <1>22, <2>1
    DEF BootInv, InUseInv, ControlInv, MoveSkip
  <2> QED BY <2>2, <2>3, <2>4 DEF HeadersInv
<1>23. CASE MoveCopy
  <2>1. UNCHANGED <<hdr, ver>>
    BY <1>23, WriteKeepsHeaders DEF MoveCopy
  <2>2. /\ pc = "move_copy"
        /\ pc' \in {"move_copy", "move_mark"}
        /\ UNCHANGED <<sector, op>>
    BY <1>0, <1>23 DEF MoveCopy, Goto
  <2>3. VolumeInv'
    BY <1>0, <1>23, <2>1, <2>2
    DEF VolumeInv, InUseInv, ControlInv
  <2>4. InUseInv'
    BY <1>0, <1>23, <2>1, <2>2
    DEF InUseInv, BootInv, ControlInv
  <2>5. BootInv'
    BY <1>0, <1>23, <2>1, <2>2
    DEF BootInv, InUseInv, ControlInv
  <2> QED BY <2>3, <2>4, <2>5 DEF HeadersInv
<1>24. CASE MoveMark
  <2>1. UNCHANGED <<hdr, ver>>
    BY <1>24, MarkKeepsHeaders DEF MoveMark
  <2>2. pc = "move_mark" /\ pc' = "move_copy" /\ UNCHANGED <<sector, op>>
    BY <1>0, <1>24 DEF MoveMark, Goto
  <2>3. VolumeInv'
    BY <1>0, <1>24, <2>1, <2>2
    DEF VolumeInv, InUseInv, ControlInv
  <2>4. InUseInv'
    BY <1>0, <1>24, <2>1, <2>2
    DEF InUseInv, BootInv, ControlInv
  <2>5. BootInv'
    BY <1>0, <1>24, <2>1, <2>2
    DEF BootInv, InUseInv, ControlInv
  <2> QED BY <2>3, <2>4, <2>5 DEF HeadersInv
<1>25. CASE MoveValid
  <2>1. Other(sector) \in Sectors /\ hdr[Other(sector)] = "INITIALIZING"
    BY <1>0, <1>25 DEF InUseInv, BootInv, MoveValid, ControlInv
  <2> pc = "move_valid"
    BY <1>25 DEF MoveValid
  <2>2. "VALID" \in Formatted
    BY DEF Formatted
  <2>3. PICK good \in BOOLEAN :
            /\ TryHeader(Other(sector), "VALID", good)
            /\ good =>
                   /\ pc' = "rebuild"
                   /\ sector' = Other(sector)
                   /\ UNCHANGED op
    BY <1>25 DEF MoveValid, Goto
  <2>4. /\ Stamped(Other(sector), "VALID")
        /\ pc' = "rebuild"
        /\ sector' = Other(sector)
        /\ UNCHANGED op
    BY <1>0, <2>1, <2>2, <2>3, HeaderDone
  <2>5. VolumeInv'
    <3>1. TRUE
      BY <1>0, <2>1, <2>4
      DEF VolumeInv, InUseInv, BootInv, ControlInv, FlashType, SectorFlags
    <3> QED BY <1>0, <3>1, <2>1, <2>4, StampedVolume
  <2>6. InUseInv'
    BY <1>0, <1>25, <2>1, <2>4
    DEF InUseInv, BootInv, ControlInv, Stamped
  <2>7. BootInv'
    BY <1>0, <1>25, <2>1, <2>4
    DEF BootInv, InUseInv, ControlInv, Stamped
  <2> QED BY <2>5, <2>6, <2>7 DEF HeadersInv
<1>26. CASE Rebuild
  <2>1. UNCHANGED <<hdr, ver>>
    BY <1>26 DEF Rebuild, ConstructLookupTable, Goto
  <2>2. VolumeInv'
    BY <1>0, <1>26, <2>1
    DEF VolumeInv, InUseInv, ControlInv, Rebuild, ConstructLookupTable, Goto
  <2>3. InUseInv'
    BY <1>0, <1>26, <2>1
    DEF InUseInv, BootInv, ControlInv, Rebuild, ConstructLookupTable, Goto
  <2>4. BootInv'
    BY <1>0, <1>26, <2>1
    DEF BootInv, InUseInv, ControlInv, Rebuild, ConstructLookupTable, Goto
  <2> QED BY <2>2, <2>3, <2>4 DEF HeadersInv
<1>27. CASE EraseSource
  <2>1. Other(sector) \in Sectors
    BY <1>0, <1>27 DEF EraseSource, ControlInv, Sectors
  <2> pc = "erase_src"
    BY <1>27 DEF EraseSource
  <2>2. PICK good \in BOOLEAN :
            /\ TryErase(Other(sector), good)
            /\ good =>
                   /\ pc' \in {"construct", "idle", "record_set"}
                   /\ UNCHANGED sector
    BY <1>27 DEF EraseSource, Goto, Return
  <2>3. /\ Stamped(Other(sector), "EMPTY")
        /\ pc' \in {"construct", "idle", "record_set"}
        /\ UNCHANGED sector
    BY <1>0, <2>1, <2>2, EraseDone
  <2>4. VolumeInv'
    <3>1. hdr[Other(Other(sector))] \in NotInUse \union {"VALID"}
      BY <1>0, <2>1, <2>3
      DEF VolumeInv, InUseInv, BootInv, ControlInv, FlashType, SectorFlags
    <3> QED BY <1>0, <3>1, <2>1, <2>3, StampedVolume
  <2>5. InUseInv'
    BY <1>0, <1>27, <2>1, <2>3
    DEF InUseInv, BootInv, ControlInv, Stamped
  <2>6. BootInv'
    BY <1>0, <1>27, <2>1, <2>3
    DEF BootInv, InUseInv, ControlInv, Stamped
  <2> QED BY <2>4, <2>5, <2>6 DEF HeadersInv
<1>28. CASE Reset1
  <2>1. 1 \in Sectors
    BY <1>0, <1>28 DEF Reset1, ControlInv, Sectors
  <2> pc = "reset1"
    BY <1>28 DEF Reset1
  <2>2. PICK good \in BOOLEAN :
            /\ TryErase(1, good)
            /\ good => pc' = "reset2" /\ UNCHANGED op
    BY <1>28 DEF Reset1, Goto
  <2>3. Stamped(1, "EMPTY") /\ pc' = "reset2" /\ UNCHANGED op
    BY <1>0, <2>1, <2>2, EraseDone
  <2>4. VolumeInv'
    <3>1. hdr[Other(1)] \in NotInUse \union {"VALID"}
      BY <1>0, <2>1, <2>3
      DEF VolumeInv, InUseInv, BootInv, ControlInv, FlashType, SectorFlags
    <3> QED BY <1>0, <3>1, <2>1, <2>3, StampedVolume
  <2>5. InUseInv'
    BY <1>0, <1>28, <2>1, <2>3
    DEF InUseInv, BootInv, ControlInv, Stamped
  <2>6. BootInv'
    BY <1>0, <1>28, <2>1, <2>3
    DEF BootInv, InUseInv, ControlInv, Stamped
  <2> QED BY <2>4, <2>5, <2>6 DEF HeadersInv
<1>29. CASE Reset2
  <2>1. 2 \in Sectors
    BY <1>0, <1>29 DEF Reset2, ControlInv, Sectors
  <2> pc = "reset2"
    BY <1>29 DEF Reset2
  <2>2. PICK good \in BOOLEAN :
            /\ TryErase(2, good)
            /\ good => pc' \in {"off", "load"}
    BY <1>29 DEF Reset2, Goto
  <2>3. Stamped(2, "EMPTY") /\ pc' \in {"off", "load"}
    BY <1>0, <2>1, <2>2, EraseDone
  <2>4. VolumeInv'
    <3>1. hdr[Other(2)] \in NotInUse \union {"VALID"}
      BY <1>0, <2>1, <2>3
      DEF VolumeInv, InUseInv, BootInv, ControlInv, FlashType, SectorFlags
    <3> QED BY <1>0, <3>1, <2>1, <2>3, StampedVolume
  <2>5. InUseInv'
    BY <1>0, <1>29, <2>1, <2>3
    DEF InUseInv, BootInv, ControlInv, Stamped
  <2>6. BootInv'
    BY <1>0, <1>29, <2>1, <2>3
    DEF BootInv, InUseInv, ControlInv, Stamped
  <2> QED BY <2>4, <2>5, <2>6 DEF HeadersInv
<1>30. CASE Load
  <2>1. UNCHANGED <<hdr, ver>>
    BY <1>30 DEF Load, Goto
  <2>2. VolumeInv'
    BY <1>0, <1>30, <2>1
    DEF VolumeInv, InUseInv, ControlInv, Load, Goto
  <2>3. InUseInv'
    BY <1>0, <1>30, <2>1
    DEF InUseInv, BootInv, ControlInv, Load, Goto
  <2>4. BootInv'
    BY <1>0, <1>30, <2>1
    DEF BootInv, InUseInv, ControlInv, Load, Goto
  <2> QED BY <2>2, <2>3, <2>4 DEF HeadersInv
<1>31. CASE InitUnknown("init1", 1, "init2")
  <2>1. 1 \in Sectors
    BY DEF Sectors
  <2>2. \/ Stamped(1, "EMPTY") /\ hdr[1] = "UNKNOWN"
        \/ UNCHANGED <<hdr, ver>> /\ hdr[1] # "UNKNOWN"
    BY <1>0, <1>31, <2>1, EraseDone DEF InitUnknown
  <2>3. pc = "init1" /\ pc' = "init2" /\ UNCHANGED op
    BY <1>31 DEF InitUnknown, Goto
  <2>4. VolumeInv'
    <3>1. UNCHANGED <<hdr, ver>> \/ hdr[Other(1)] \in NotInUse \union {"VALID"}
      BY <1>0, <2>1, <2>2, <2>3
      DEF VolumeInv, InUseInv, BootInv, ControlInv, FlashType, SectorFlags
    <3> QED BY <1>0, <3>1, <2>1, <2>2, <2>3, StampedVolume DEF VolumeInv
  <2>5. InUseInv'
    BY <1>0, <1>31, <2>1, <2>2, <2>3
    DEF InUseInv, BootInv, ControlInv, Stamped
  <2>6. BootInv'
    BY <1>0, <1>31, <2>1, <2>2, <2>3
    DEF BootInv, InUseInv, ControlInv, Stamped
  <2> QED BY <2>4, <2>5, <2>6 DEF HeadersInv
<1>32. CASE InitUnknown("init2", 2, "init_sectors")
  <2>1. 2 \in Sectors
    BY DEF Sectors
  <2>2. \/ Stamped(2, "EMPTY") /\ hdr[2] = "UNKNOWN"
        \/ UNCHANGED <<hdr, ver>> /\ hdr[2] # "UNKNOWN"
    BY <1>0, <1>32, <2>1, EraseDone DEF InitUnknown
  <2>3. pc = "init2" /\ pc' = "init_sectors" /\ UNCHANGED op
    BY <1>32 DEF InitUnknown, Goto
  <2>4. VolumeInv'
    <3>1. UNCHANGED <<hdr, ver>> \/ hdr[Other(2)] \in NotInUse \union {"VALID"}
      BY <1>0, <2>1, <2>2, <2>3
      DEF VolumeInv, InUseInv, BootInv, ControlInv, FlashType, SectorFlags
    <3> QED BY <1>0, <3>1, <2>1, <2>2, <2>3, StampedVolume DEF VolumeInv
  <2>5. InUseInv'
    BY <1>0, <1>32, <2>1, <2>2, <2>3
    DEF InUseInv, BootInv, ControlInv, Stamped
  <2>6. BootInv'
    BY <1>0, <1>32, <2>1, <2>2, <2>3
    DEF BootInv, InUseInv, ControlInv, Stamped
  <2> QED BY <2>4, <2>5, <2>6 DEF HeadersInv
<1>33. CASE InitSectors
  <2> DEFINE plan == Plan(hdr[1], hdr[2])
  <2>1. /\ UNCHANGED <<hdr, ver, op>>
        /\ sector' = plan.sector
        /\ pc' = CASE plan.act = "format" -> "format_erase"
                   [] plan.act = "erase_other" -> "init_erase"
                   [] plan.act = "repair" -> MoveEntry(plan.sector)
                   [] OTHER -> "construct"
    BY <1>33 DEF InitSectors, Goto
  <2>2. VolumeInv /\ \A s \in Sectors : hdr[s] # "UNKNOWN"
    BY <1>0, <1>33 DEF InitSectors, BootInv, Sectors
  <2> HIDE DEF plan
  <2>3. \/ /\ plan.act = "format"
           /\ plan.sector = 1
           /\ \A s \in Sectors : hdr[s] = "EMPTY"
        \/ /\ plan.act \in {"none", "erase_other"}
           /\ plan.sector \in Sectors
           /\ hdr[plan.sector] = "VALID"
           /\ plan.act = "none" => hdr[Other(plan.sector)] = "EMPTY"
    BY <1>0, <2>2, PlanChoice DEF plan
  <2>4. /\ pc' \in {"format_erase", "init_erase", "construct"}
        /\ pc' = "format_erase" =>
                sector' = 1 /\ \A s \in Sectors : hdr[s] = "EMPTY"
        /\ pc' # "format_erase" => hdr[sector'] = "VALID"
        /\ pc' = "construct" => hdr[Other(sector')] = "EMPTY"
    BY <2>1, <2>3
  <2>5. VolumeInv'
    BY <1>0, <1>33, <2>1, <2>2, <2>4
    DEF VolumeInv, InUseInv, ControlInv, Other
  <2>6. InUseInv'
    BY <1>0, <1>33, <2>1, <2>2, <2>4
    DEF InUseInv, BootInv, ControlInv, Other
  <2>7. BootInv'
    BY <1>0, <1>33, <2>1, <2>2, <2>4
    DEF BootInv, InUseInv, ControlInv, Other
  <2> QED BY <2>5, <2>6, <2>7 DEF HeadersInv
<1>34. CASE InitErase
  <2>1. Other(sector) \in Sectors
    BY <1>0, <1>34 DEF InitErase, ControlInv, Sectors
  <2> pc = "init_erase"
    BY <1>34 DEF InitErase
  <2>2. PICK good \in BOOLEAN :
            /\ TryErase(Other(sector), good)
            /\ good => pc' = "construct" /\ UNCHANGED <<sector, op>>
    BY <1>34 DEF InitErase, Goto
  <2>3. /\ Stamped(Other(sector), "EMPTY")
        /\ pc' = "construct"
        /\ UNCHANGED <<sector, op>>
    BY <1>0, <2>1, <2>2, EraseDone
  <2>4. VolumeInv'
    <3>1. hdr[Other(Other(sector))] \in NotInUse \union {"VALID"}
      BY <1>0, <2>1, <2>3
      DEF VolumeInv, InUseInv, BootInv, ControlInv, FlashType, SectorFlags
    <3> QED BY <1>0, <3>1, <2>1, <2>3, StampedVolume
  <2>5. InUseInv'
    BY <1>0, <1>34, <2>1, <2>3
    DEF InUseInv, BootInv, ControlInv, Stamped
  <2>6. BootInv'
    BY <1>0, <1>34, <2>1, <2>3
    DEF BootInv, InUseInv, ControlInv, Stamped
  <2> QED BY <2>4, <2>5, <2>6 DEF HeadersInv
<1>35. CASE FormatErase
  <2>1. sector \in Sectors
    BY <1>0, <1>35 DEF FormatErase, ControlInv, Sectors
  <2> pc = "format_erase"
    BY <1>35 DEF FormatErase
  <2>2. PICK good \in BOOLEAN :
            /\ TryErase(sector, good)
            /\ good => pc' = "format_valid" /\ UNCHANGED <<sector, op>>
    BY <1>35 DEF FormatErase, Goto
  <2>3. /\ Stamped(sector, "EMPTY")
        /\ pc' = "format_valid"
        /\ UNCHANGED <<sector, op>>
    BY <1>0, <2>1, <2>2, EraseDone
  <2>4. VolumeInv'
    <3>1. hdr[Other(sector)] \in NotInUse \union {"VALID"}
      BY <1>0, <2>1, <2>3
      DEF VolumeInv, InUseInv, BootInv, ControlInv, FlashType, SectorFlags
    <3> QED BY <1>0, <3>1, <2>1, <2>3, StampedVolume
  <2>5. InUseInv'
    BY <1>0, <1>35, <2>1, <2>3
    DEF InUseInv, BootInv, ControlInv, Stamped
  <2>6. BootInv'
    BY <1>0, <1>35, <2>1, <2>3
    DEF BootInv, InUseInv, ControlInv, Stamped
  <2> QED BY <2>4, <2>5, <2>6 DEF HeadersInv
<1>36. CASE FormatValid
  <2>1. sector \in Sectors /\ hdr[sector] = "EMPTY"
    BY <1>0, <1>36 DEF InUseInv, BootInv, FormatValid, ControlInv
  <2> pc = "format_valid"
    BY <1>36 DEF FormatValid
  <2>2. "VALID" \in Formatted
    BY DEF Formatted
  <2>3. PICK good \in BOOLEAN :
            /\ TryHeader(sector, "VALID", good)
            /\ good => pc' = "construct" /\ UNCHANGED <<sector, op>>
    BY <1>36 DEF FormatValid, Goto
  <2>4. /\ Stamped(sector, "VALID")
        /\ pc' = "construct"
        /\ UNCHANGED <<sector, op>>
    BY <1>0, <2>1, <2>2, <2>3, HeaderDone
  <2>5. VolumeInv'
    <3>1. TRUE
      BY <1>0, <2>1, <2>4
      DEF VolumeInv, InUseInv, BootInv, ControlInv, FlashType, SectorFlags
    <3> QED BY <1>0, <3>1, <2>1, <2>4, StampedVolume
  <2>6. InUseInv'
    BY <1>0, <1>36, <2>1, <2>4
    DEF InUseInv, BootInv, ControlInv, Stamped
  <2>7. BootInv'
    BY <1>0, <1>36, <2>1, <2>4
    DEF BootInv, InUseInv, ControlInv, Stamped
  <2> QED BY <2>5, <2>6, <2>7 DEF HeadersInv
<1>37. CASE Construct
  <2>1. UNCHANGED <<hdr, ver>>
    BY <1>37 DEF Construct, ConstructLookupTable, Return
  <2>2. VolumeInv'
    BY <1>0, <1>37, <2>1
    DEF VolumeInv, InUseInv, ControlInv, Construct, ConstructLookupTable,
        Return
  <2>3. InUseInv'
    BY <1>0, <1>37, <2>1
    DEF InUseInv, BootInv, ControlInv, Construct, ConstructLookupTable, Return
  <2>4. BootInv'
    BY <1>0, <1>37, <2>1
    DEF BootInv, InUseInv, ControlInv, Construct, ConstructLookupTable, Return
  <2> QED BY <2>2, <2>3, <2>4 DEF HeadersInv
<1>38. CASE Crash
  <2>1. UNCHANGED <<hdr, ver>>
    BY <1>38 DEF Crash, PowerOff, Unloaded
  <2>2. VolumeInv'
    BY <1>0, <1>38, <2>1
    DEF VolumeInv, InUseInv, ControlInv, Crash, PowerOff, Unloaded
  <2>3. InUseInv'
    BY <1>0, <1>38, <2>1
    DEF InUseInv, BootInv, ControlInv, Crash, PowerOff, Unloaded
  <2>4. BootInv'
    BY <1>0, <1>38, <2>1
    DEF BootInv, InUseInv, ControlInv, Crash, PowerOff, Unloaded
  <2> QED BY <2>2, <2>3, <2>4 DEF HeadersInv
<1>39. CASE CrashInWrite
  <2>1. UNCHANGED <<hdr, ver>>
    BY <1>39 DEF CrashInWrite, ProgramSlot, PowerOff, Unloaded
  <2>2. VolumeInv'
    BY <1>0, <1>39, <2>1
    DEF VolumeInv, InUseInv, ControlInv, CrashInWrite, ProgramSlot, PowerOff,
        Unloaded
  <2>3. InUseInv'
    BY <1>0, <1>39, <2>1
    DEF InUseInv, BootInv, ControlInv, CrashInWrite, ProgramSlot, PowerOff,
        Unloaded
  <2>4. BootInv'
    BY <1>0, <1>39, <2>1
    DEF BootInv, InUseInv, ControlInv, CrashInWrite, ProgramSlot, PowerOff,
        Unloaded
  <2> QED BY <2>2, <2>3, <2>4 DEF HeadersInv
<1>40. CASE CrashInHeader
  <2>1. PICK h \in HeaderWrites : hdr' = [hdr EXCEPT ![h[1]] = "UNKNOWN"]
    BY <1>40 DEF CrashInHeader, RecordFaults
  <2>2. PICK s \in Sectors :
            /\ hdr' = [hdr EXCEPT ![s] = "UNKNOWN"]
            /\ hdr[Other(s)] \in NotInUse \union {"VALID"}
    <3>1. CASE pc \in {"swap_init", "move_init", "swap_valid", "move_valid"}
      <4>1. h[1] = Other(sector)
        BY <3>1 DEF HeaderWrites
      <4>2. sector \in Sectors /\ hdr[sector] = "VALID"
        BY <1>0, <3>1 DEF InUseInv, ControlInv
      <4>3. h[1] \in Sectors /\ Other(h[1]) = sector
        BY <1>0, <4>1, <4>2
      <4> QED BY <2>1, <4>2, <4>3
    <3>2. CASE pc = "format_valid"
      <4>1. h[1] = sector
        BY <3>2 DEF HeaderWrites
      <4>2. sector \in Sectors /\ hdr[Other(sector)] = "EMPTY"
        BY <1>0, <3>2 DEF BootInv, ControlInv
      <4> QED BY <1>0, <2>1, <4>1, <4>2
    <3>3. CASE pc \notin {"swap_init", "move_init", "swap_valid", "move_valid",
                           "format_valid"}
      BY <3>3 DEF HeaderWrites
    <3> QED BY <3>1, <3>2, <3>3
  <2>3. Cut(s)
    BY <1>0, <1>40, <2>1, <2>2, OtherSector DEF CrashInHeader, FlashType, Cut
  <2>4. pc' = "off" /\ op' = "none"
    BY <1>40 DEF CrashInHeader, PowerOff
  <2>5. VolumeInv'
    <3>1. TRUE
      BY <1>0, <2>2, <2>3, <2>4
      DEF VolumeInv, InUseInv, BootInv, ControlInv, FlashType, SectorFlags
    <3> QED BY <1>0, <3>1, <2>2, <2>3, <2>4, CutVolume
  <2>6. InUseInv'
    BY <1>0, <1>40, <2>2, <2>3, <2>4
    DEF InUseInv, BootInv, ControlInv, Cut
  <2>7. BootInv'
    BY <1>0, <1>40, <2>2, <2>3, <2>4
    DEF BootInv, InUseInv, ControlInv, Cut
  <2> QED BY <2>5, <2>6, <2>7 DEF HeadersInv
<1>41. CASE CrashInErase
  <2>1. PICK s \in Erasures :
            hdr' = [hdr EXCEPT ![s] = "UNKNOWN"] /\ UNCHANGED ver
    BY <1>41 DEF CrashInErase, RecordFaults
  <2>2. /\ s \in Sectors
        /\ \/ hdr[Other(s)] = "VALID"
           \/ hdr[Other(s)] \in NotInUse
    BY <1>0 
       DEF InUseInv, BootInv, Erasures, ControlInv, VolumeInv, FlashType,
           SectorFlags
  <2>3. Cut(s)
    BY <1>0, <2>1, <2>2, OtherSector DEF FlashType, Cut
  <2>4. pc' = "off" /\ op' = "none"
    BY <1>41 DEF CrashInErase, PowerOff
  <2>5. VolumeInv'
    <3>1. TRUE
      BY <1>0, <2>2, <2>3, <2>4
      DEF VolumeInv, InUseInv, BootInv, ControlInv, FlashType, SectorFlags
    <3> QED BY <1>0, <3>1, <2>2, <2>3, <2>4, CutVolume
  <2>6. InUseInv'
    BY <1>0, <1>41, <2>2, <2>3, <2>4
    DEF InUseInv, BootInv, ControlInv, Cut
  <2>7. BootInv'
    BY <1>0, <1>41, <2>2, <2>3, <2>4
    DEF BootInv, InUseInv, ControlInv, Cut
  <2> QED BY <2>5, <2>6, <2>7 DEF HeadersInv
<1>42. CASE UNCHANGED vars
  BY <1>0, <1>42 DEF HeadersInv, VolumeInv, InUseInv, BootInv, vars
<1> QED BY <1>1, <1>2, <1>3, <1>4, <1>5, <1>6, <1>7, <1>8, <1>9, <1>10, <1>11,
         <1>12, <1>13, <1>14, <1>15, <1>16, <1>17, <1>18, <1>19, <1>20, <1>21,
         <1>22, <1>23, <1>24, <1>25, <1>26, <1>27, <1>28, <1>29, <1>30, <1>31,
         <1>32, <1>33, <1>34, <1>35, <1>36, <1>37, <1>38, <1>39, <1>40, <1>41,
         <1>42
    DEF Next, Call, Step, PowerFailure
----------------------------------------------------------------------------
(* The lookup table names the newest live record of each key.              *)

\* The live records of key k among the slots c of a sector, and the newest.
LiveIn(c, k) == {i \in Slots : Live(c[i]) /\ c[i].key = k}

Newest(c, k, i) == i \in LiveIn(c, k) /\ \A j \in LiveIn(c, k) : j <= i

TablePcs == {"idle", "record_set", "write", "mark_bad", "set_valid",
             "mark_deleted", "erase_src"}

\* An entry of the dict names the newest live record of its key.  While a
\* record is replaced, the new one is the newest and the entry still names
\* the old one; in a swap out of the cache, an entry that has been copied
\* names the only live record of its key in the destination.
TableInv ==
    /\ pc \in TablePcs => \A k \in Entries : Newest(slot[sector], k, idx[k])
    /\ pc = "mark_old" =>
        /\ \A k \in Entries \ {key} : Newest(slot[sector], k, idx[k])
        /\ key \in Entries
        /\ idx[key] < next_idx - 1
        /\ slot[sector][idx[key]].key = key
        /\ slot[sector][next_idx - 1] = Record("VALID", key, val)
    /\ pc = "mark_bad" /\ next_idx \in Slots =>
            ~Live(slot[sector][next_idx])
    /\ pc = "set_valid" =>
            slot[sector][next_idx] = Record("NEW", key, val)
    /\ pc \in {"swap_copy", "swap_valid"} /\ Cached =>
        \A k \in Keys : LiveIn(slot[Other(sector)], k) =
                            IF k \in Entries \ todo THEN {idx[k]} ELSE {}

\* Writing or marking one slot changes what is live there and nowhere else.
LEMMA SameLive ==
    ASSUME NEW s, NEW k,
           \A i \in Slots : \/ slot'[s][i] = slot[s][i]
                            \/ ~Live(slot[s][i]) /\ ~Live(slot'[s][i])
    PROVE  LiveIn(slot'[s], k) = LiveIn(slot[s], k)
BY DEF LiveIn

LEMMA AddLive ==
    ASSUME NEW s, NEW i \in Slots, Live(slot'[s][i]), ~Live(slot[s][i]),
           \A n \in Slots : n # i => slot'[s][n] = slot[s][n]
    PROVE  \A k : LiveIn(slot'[s], k) =
               IF k = slot'[s][i].key THEN LiveIn(slot[s], k) \union {i}
                                      ELSE LiveIn(slot[s], k)
<1>1. ASSUME NEW k, k # slot'[s][i].key
      PROVE  LiveIn(slot'[s], k) = LiveIn(slot[s], k)
  BY <1>1 DEF LiveIn
<1>2. LiveIn(slot'[s], slot'[s][i].key) =
          LiveIn(slot[s], slot'[s][i].key) \union {i}
  BY DEF LiveIn
<1> QED BY <1>1, <1>2

LEMMA KillLive ==
    ASSUME NEW s, NEW i \in Slots, NEW k,
           slot[s][i].key # k, slot'[s][i].key # k,
           \A n \in Slots : n # i => slot'[s][n] = slot[s][n]
    PROVE  LiveIn(slot'[s], k) = LiveIn(slot[s], k)
BY DEF LiveIn

LEMMA BlankNotLive == ~Live(Blank)
BY DEF Live, Blank

\* What a record write and a flag write leave in a slot that was erased, and
\* in one that was used.
LEMMA ProgramDone ==
    ASSUME FlashType, NEW s \in Sectors, NEW i \in Slots, NEW rec,
           slot[s][i] = Blank, ProgramSlot(s, i, rec)
    PROVE  /\ slot'[Other(s)] = slot[Other(s)]
           /\ \A j \in Slots : j # i => slot'[s][j] = slot[s][j]
           /\ slot'[s][i] = rec
<1>1. Other(s) \in Sectors /\ Other(s) # s
  BY OtherSector
<1>2. Program(slot[s][i], rec) = rec
  BY DEF Program, Blank
<1>3. slot' = [slot EXCEPT ![s][i] = rec]
  BY <1>2 DEF FlashType, ProgramSlot
<1> QED BY <1>1, <1>3 DEF FlashType

LEMMA WriteDone ==
    ASSUME FlashType, NEW s \in Sectors, NEW i, NEW rec \in Records,
           NEW good \in BOOLEAN, TryWrite(s, i, rec, good),
           i \in Slots => slot[s][i] = Blank
    PROVE  /\ slot'[Other(s)] = slot[Other(s)]
           /\ \A j \in Slots : j # i => slot'[s][j] = slot[s][j]
           /\ good => i \in Slots /\ slot'[s][i] = rec
           /\ ~good /\ i \in Slots => ~Live(slot'[s][i])
<1>1. CASE good
  <2>1. i \in Slots /\ ProgramSlot(s, i, rec)
    BY <1>1 DEF TryWrite
  <2> QED BY <1>1, <2>1, ProgramDone
<1>2. CASE ~good /\ UNCHANGED flash
  BY <1>2, BlankNotLive DEF flash
<1>3. CASE i \in Slots /\ ~good /\ ProgramSlot(s, i, [rec EXCEPT !.ok = FALSE])
  <2> DEFINE torn == [rec EXCEPT !.ok = FALSE]
  <2>1. ~Live(torn)
    BY DEF Live, Records
  <2>2. ProgramSlot(s, i, torn)
    BY <1>3
  <2> HIDE DEF torn
  <2>3. /\ slot'[Other(s)] = slot[Other(s)]
        /\ \A j \in Slots : j # i => slot'[s][j] = slot[s][j]
        /\ slot'[s][i] = torn
    BY <1>3, <2>2, ProgramDone
  <2> QED BY <1>3, <2>1, <2>3
<1> QED BY <1>1, <1>2, <1>3 DEF TryWrite, flash

LEMMA MarkDone ==
    ASSUME FlashType, NEW s \in Sectors, NEW i \in Slots, NEW f,
           MarkSlot(s, i, f)
    PROVE  /\ \A j \in Slots : j # i => slot'[s][j] = slot[s][j]
           /\ slot'[s][i].flags = FlagsAnd(slot[s][i].flags, f)
           /\ slot'[s][i].key = slot[s][i].key
           /\ slot'[s][i].val = slot[s][i].val
           /\ slot'[s][i].ok = slot[s][i].ok
           /\ slot'[s][i] = [flags |-> slot'[s][i].flags,
                             key |-> slot'[s][i].key,
                             val |-> slot'[s][i].val,
                             ok |-> slot'[s][i].ok]
<1> DEFINE rec == [slot[s][i] EXCEPT !.flags = FlagsAnd(@, f)]
<1>1. slot[s][i] \in Records
  BY DEF FlashType
<1>2. slot' = [slot EXCEPT ![s][i] = rec]
  BY DEF FlashType, MarkSlot
<1>3. /\ rec.flags = FlagsAnd(slot[s][i].flags, f)
      /\ rec.key = slot[s][i].key
      /\ rec.val = slot[s][i].val
      /\ rec.ok = slot[s][i].ok
      /\ rec = [flags |-> rec.flags, key |-> rec.key, val |-> rec.val,
                ok |-> rec.ok]
  BY <1>1 DEF Records
<1> HIDE DEF rec
<1>4. slot'[s][i] = rec /\ \A j \in Slots : j # i => slot'[s][j] = slot[s][j]
  BY <1>2 DEF FlashType
<1> QED BY <1>3, <1>4

LEMMA MarkInvalidDone ==
    ASSUME FlashType, NEW s \in Sectors, NEW i, NEW good \in BOOLEAN,
           TryMark(s, i, "INVALID", good)
    PROVE  /\ \A j \in Slots : j # i => slot'[s][j] = slot[s][j]
           /\ good => i \in Slots /\ ~Live(slot'[s][i])
           /\ ~good => slot' = slot
           /\ i \in Slots => /\ slot'[s][i].key = slot[s][i].key
                             /\ Live(slot'[s][i]) => Live(slot[s][i])
                             /\ slot'[s][i].flags = "EMPTY" =>
                                    slot[s][i].flags = "EMPTY"
<1>1. CASE good
  <2>1. i \in Slots /\ MarkSlot(s, i, "INVALID")
    BY <1>1 DEF TryMark
  <2>2. FlagsAnd(slot[s][i].flags, "INVALID") = "INVALID"
    BY DEF FlagsAnd
  <2>3. /\ \A j \in Slots : j # i => slot'[s][j] = slot[s][j]
        /\ slot'[s][i].flags = "INVALID"
        /\ slot'[s][i].key = slot[s][i].key
    BY <2>1, <2>2, MarkDone
  <2> QED BY <1>1, <2>1, <2>3 DEF Live
<1>2. CASE ~good
  BY <1>2 DEF TryMark, flash
<1> QED BY <1>1, <1>2

\* A record whose flags have been written to VALID.
Promoted(r) == [flags |-> FlagsAnd(r.flags, "VALID"),
                key |-> r.key, val |-> r.val, ok |-> r.ok]

LEMMA PromotedRecord ==
    ASSUME NEW k, NEW v
    PROVE  Promoted(Record("NEW", k, v)) = Record("VALID", k, v)
<1>1. FlagsAnd("NEW", "VALID") = "VALID"
  BY DEF FlagsAnd
<1> DEFINE r == Record("NEW", k, v)
<1>2. r.flags = "NEW" /\ r.key = k /\ r.val = v /\ r.ok = TRUE
  BY DEF Record
<1> HIDE DEF r
<1>3. Promoted(r) = Record("VALID", k, v)
  BY <1>1, <1>2 DEF Promoted, Record
<1> QED BY <1>3 DEF r

LEMMA MarkValidDone ==
    ASSUME FlashType, NEW s \in Sectors, NEW i, NEW good \in BOOLEAN,
           TryMark(s, i, "VALID", good)
    PROVE  good => /\ \A j \in Slots : j # i => slot'[s][j] = slot[s][j]
                   /\ slot'[s][i] = Promoted(slot[s][i])
<1> SUFFICES ASSUME good
             PROVE  /\ \A j \in Slots : j # i => slot'[s][j] = slot[s][j]
                    /\ slot'[s][i] = Promoted(slot[s][i])
  OBVIOUS
<1> DEFINE rec == [slot[s][i] EXCEPT !.flags = FlagsAnd(@, "VALID")]
<1>1. i \in Slots
  BY DEF TryMark
<1>2. slot' = [slot EXCEPT ![s][i] = rec]
  BY DEF FlashType, TryMark, MarkSlot
<1>3. rec = Promoted(slot[s][i])
  BY <1>1 DEF Promoted, FlashType, Records
<1> HIDE DEF rec
<1> QED BY <1>1, <1>2, <1>3 DEF FlashType

\* construct_lookup_table() finds the newest record of every key.
LEMMA ConstructDone ==
    ASSUME FlashType, NEW s \in Sectors, ConstructLookupTable(s)
    PROVE  /\ slot'[Other(s)] = slot[Other(s)]
           /\ \A k \in Keys : LiveIn(slot'[s], k) = LiveIn(slot[s], k)
           /\ \A k \in Keys : idx'[k] # NoIdx => Newest(slot'[s], k, idx'[k])
<1>1. Other(s) \in Sectors /\ Other(s) # s
  BY OtherSector
<1>2. slot'[Other(s)] = slot[Other(s)]
  BY <1>1 DEF FlashType, ConstructLookupTable
<1>3. ASSUME NEW i \in Slots
      PROVE  \/ slot'[s][i] = slot[s][i]
             \/ ~Live(slot[s][i]) /\ ~Live(slot'[s][i])
  <2> DEFINE bad == slot[s][i].flags = "VALID" /\ ~slot[s][i].ok
  <2>1. slot'[s][i] = IF bad THEN [slot[s][i] EXCEPT !.flags = "INVALID"]
                             ELSE slot[s][i]
    BY DEF FlashType, ConstructLookupTable
  <2>2. slot[s][i] \in Records
    BY DEF FlashType
  <2> QED BY <2>1, <2>2 DEF Live, Records
<1>4. ASSUME NEW k \in Keys PROVE LiveIn(slot'[s], k) = LiveIn(slot[s], k)
  BY <1>3, SameLive
<1>5. ASSUME NEW k \in Keys, idx'[k] # NoIdx PROVE Newest(slot'[s], k, idx'[k])
  <2>1. LiveSlots(s, k) # {} /\ idx'[k] = Highest(LiveSlots(s, k))
    BY <1>5 DEF ConstructLookupTable
  <2>2. LiveSlots(s, k) = LiveIn(slot[s], k) /\ LiveSlots(s, k) \subseteq Slots
    BY DEF LiveSlots, LiveIn
  <2> QED BY <1>4, <2>1, <2>2, HighestSlot DEF Newest
<1> QED BY <1>2, <1>4, <1>5

LEMMA TableInit == Init => TableInv
BY DEF Init, TableInv, TablePcs

\* Every step keeps the lookup table in step with FLASH.
LEMMA TableNext ==
    ASSUME RecordFaults, TypeInv, ErasedInv, HeadersInv, TableInv, [Next]_vars
    PROVE  TableInv'
<1> USE ConstantsAssumption
<1> USE DEF SwapPcs, MovePcs, SetPcs, TailPcs, BootPcs, CopyPcs, Writing,
            Loading, flash, ram, request, copy, env
<1>0. /\ FlashType /\ TypeOK /\ ControlInv /\ CursorInv
      /\ VolumeInv /\ InUseInv /\ BootInv
      /\ HeaderInv /\ BlankInv /\ TailInv /\ EntryInv
      /\ TableInv
      /\ \A s \in Sectors : /\ Other(s) \in Sectors
                            /\ Other(s) # s
                            /\ Other(Other(s)) = s
  BY TypeFlash, OtherSector DEF TypeInv, HeadersInv, ErasedInv
<1>1. CASE Boot
  <2>1. pc' \in {"load", "reset1"}
    BY <1>0, <1>1
       DEF Boot
  <2> QED BY <2>1 DEF TableInv, TablePcs
<1>2. CASE \E k \in Keys, v \in Vals : RecordSet(k, v)
  BY <1>0, <1>2
     DEF TableInv, TablePcs, Entries, RecordSet, StartWrite, SwapEntry
<1>3. CASE \E k \in Keys, v \in Vals : EntryData(k, v)
  BY <1>0, <1>3 DEF TableInv, TablePcs, Entries, EntryData
<1>4. CASE \E k \in Keys : EntrySave(k)
  BY <1>0, <1>4
     DEF TableInv, TablePcs, Entries, EntrySave, StartWrite, SwapEntry
<1>5. CASE \E k \in Keys : RecordDelete(k)
  BY <1>0, <1>5 DEF TableInv, TablePcs, Entries, RecordDelete
<1>6. CASE Repair
  <2>1. pc' \in {"move_init", "move_erase"}
    BY <1>0, <1>6
       DEF Repair, MoveEntry
  <2> QED BY <2>1 DEF TableInv, TablePcs
<1>7. CASE \E o \in Ops : Reset(o)
  <2>1. pc' \in {"reset1"}
    BY <1>0, <1>7
       DEF Reset
  <2> QED BY <2>1 DEF TableInv, TablePcs
<1>8. CASE Unload
  <2>1. pc' \in {"off"}
    BY <1>0, <1>8
       DEF Unload
  <2> QED BY <2>1 DEF TableInv, TablePcs
<1>9. CASE RecordSetCheck
  BY <1>0, <1>9 DEF TableInv, TablePcs, Entries, RecordSetCheck, Return, Goto
<1>10. CASE RecordSetWrite
  <2> DEFINE s == sector
             rec == Record("NEW", key, val)
  <2>1. /\ s \in Sectors /\ rec \in Records
        /\ next_idx \in Slots => slot[s][next_idx] = Blank
    BY <1>0, <1>10, RecordType
       DEF RecordSetWrite, ControlInv, TypeOK, RecordFlags, TailInv, BlankFrom,
           Slots
  <2>2. PICK good \in BOOLEAN :
            /\ TryWrite(s, next_idx, rec, good)
            /\ pc' = IF good THEN "set_valid" ELSE "mark_bad"
    BY <1>10 DEF RecordSetWrite, Goto
  <2>3. UNCHANGED <<sector, next_idx, idx, key, val>> /\ pc = "write"
    BY <1>10 DEF RecordSetWrite, Goto
  <2> HIDE DEF rec, s
  <2>4. /\ \A j \in Slots : j # next_idx => slot'[s][j] = slot[s][j]
        /\ good => next_idx \in Slots /\ slot'[s][next_idx] = rec
        /\ ~good /\ next_idx \in Slots => ~Live(slot'[s][next_idx])
    BY <1>0, <2>1, <2>2, WriteDone
  <2>5. ~Live(rec)
    BY DEF rec, Record, Live
  <2>6. \A k \in Keys : LiveIn(slot'[s], k) = LiveIn(slot[s], k)
    BY <2>1, <2>4, <2>5, BlankNotLive, SameLive
  <2> QED BY <1>0, <2>2, <2>3, <2>4, <2>6
          DEF TableInv, TablePcs, Newest, Entries, rec, s
<1>11. CASE RecordSetMarkBad
  <2> DEFINE s == sector
  <2>1. s \in Sectors /\ pc = "mark_bad"
    BY <1>0, <1>11 DEF RecordSetMarkBad, ControlInv
  <2>2. PICK good \in BOOLEAN : TryMark(s, next_idx, "INVALID", good)
    BY <1>11 DEF RecordSetMarkBad
  <2>3. UNCHANGED <<sector, idx>> /\ pc' = "idle"
    BY <1>11 DEF RecordSetMarkBad, Return
  <2> HIDE DEF s
  <2>4. /\ \A j \in Slots : j # next_idx => slot'[s][j] = slot[s][j]
        /\ good => next_idx \in Slots /\ ~Live(slot'[s][next_idx])
        /\ ~good => slot' = slot
    BY <1>0, <2>1, <2>2, MarkInvalidDone
  <2>5. \A k \in Keys : LiveIn(slot'[s], k) = LiveIn(slot[s], k)
    BY <1>0, <2>1, <2>4, SameLive DEF TableInv, s
  <2> QED BY <1>0, <2>1, <2>3, <2>5 DEF TableInv, TablePcs, Newest, Entries, s
<1>12. CASE RecordSetValid
  <2> DEFINE s == sector
             rec == Record("VALID", key, val)
  <2>1. /\ s \in Sectors /\ pc = "set_valid" /\ key \in Keys
        /\ next_idx \in Slots /\ next_idx \in Int
        /\ slot[s][next_idx] = Record("NEW", key, val)
        /\ BlankFrom(s, next_idx + 1)
        /\ \A k \in Entries : idx[k] < next_idx /\ Newest(slot[s], k, idx[k])
    BY <1>0, <1>12
       DEF RecordSetValid, ControlInv, CursorInv, TableInv, TablePcs, TailInv,
           EntryInv, Slots
  <2>2. PICK good \in BOOLEAN :
            /\ TryMark(s, next_idx, "VALID", good)
            /\ IF good /\ idx[key] = NoIdx
               THEN idx' = [idx EXCEPT ![key] = next_idx]
               ELSE UNCHANGED idx
            /\ pc' = IF good /\ idx[key] # NoIdx THEN "mark_old" ELSE "idle"
            /\ pc' = "mark_old" => UNCHANGED <<key, val>>
    BY <1>12 DEF RecordSetValid, Return, Goto, InsertLookupTable
  <2>3. sector' = sector /\ next_idx' = next_idx + 1
    BY <1>12 DEF RecordSetValid
  <2> HIDE DEF s
  <2>4. CASE good
    <3>1. /\ \A j \in Slots : j # next_idx => slot'[s][j] = slot[s][j]
          /\ slot'[s][next_idx] = rec
      <4> HIDE DEF rec
      <4>1. FlashType /\ TryMark(s, next_idx, "VALID", good) /\ s \in Sectors
        BY <1>0, <2>1, <2>2
      <4>2. /\ \A j \in Slots : j # next_idx => slot'[s][j] = slot[s][j]
            /\ slot'[s][next_idx] = Promoted(slot[s][next_idx])
        BY <2>4, <4>1, MarkValidDone
      <4> QED BY <2>1, <4>2, PromotedRecord DEF rec
    <3> HIDE DEF rec
    <3>2. ~Live(slot[s][next_idx])
      BY <2>1 DEF Record, Live
    <3>3. \A k \in Keys : LiveIn(slot'[s], k) =
              IF k = key THEN LiveIn(slot[s], k) \union {next_idx}
                         ELSE LiveIn(slot[s], k)
      <4>1. Live(slot'[s][next_idx]) /\ slot'[s][next_idx].key = key
        BY <3>1 DEF rec, Live, Record
      <4>2. next_idx \in Slots
        BY <2>1
      <4>3. \A k : LiveIn(slot'[s], k) =
                IF k = slot'[s][next_idx].key
                THEN LiveIn(slot[s], k) \union {next_idx}
                ELSE LiveIn(slot[s], k)
        BY <3>1, <3>2, <4>1, <4>2, AddLive
      <4> QED BY <4>1, <4>3
    <3>4. \A j \in Slots : Live(slot[s][j]) => j <= next_idx
      BY <2>1, BlankNotLive DEF BlankFrom, Slots
    <3>5. Newest(slot'[s], key, next_idx)
      <4>1. LiveIn(slot'[s], key) = LiveIn(slot[s], key) \union {next_idx}
        BY <2>1, <3>3
      <4>2. \A j \in LiveIn(slot[s], key) : j <= next_idx
        BY <3>4 DEF LiveIn
      <4> QED BY <2>1, <4>1, <4>2 DEF Newest
    <3>6. \A k \in Entries \ {key} : Newest(slot'[s], k, idx[k])
      BY <2>1, <3>3 DEF Newest, Entries
    <3>7. CASE idx[key] = NoIdx
      <4>1. /\ pc' = "idle" /\ idx'[key] = next_idx
            /\ \A k \in Keys : k # key => idx'[k] = idx[k]
        BY <1>0, <2>1, <2>2, <2>4, <3>7 DEF TypeOK
      <4> QED BY <2>3, <3>5, <3>6, <4>1 DEF TableInv, TablePcs, Entries, s
    <3>8. CASE idx[key] # NoIdx
      <4>1. pc' = "mark_old" /\ UNCHANGED <<idx, key, val>>
        BY <2>2, <2>4, <3>8
      <4>2. /\ key \in Entries /\ idx[key] < next_idx
            /\ slot[s][idx[key]].key = key
            /\ idx[key] \in Slots
        BY <2>1, <3>8 DEF Entries, Newest, LiveIn
      <4>3. slot'[s][idx[key]].key = key
        BY <2>1, <3>1, <4>2 DEF Slots
      <4>4. next_idx' - 1 = next_idx
        BY <2>1, <2>3
      <4> QED BY <2>3, <3>1, <3>6, <4>1, <4>2, <4>3, <4>4
              DEF TableInv, TablePcs, Entries, s, rec
    <3> QED BY <3>7, <3>8
  <2>5. CASE ~good
    <3>1. slot' = slot /\ pc' = "idle" /\ idx' = idx
      BY <2>2, <2>5 DEF TryMark
    <3> QED BY <2>1, <2>3, <3>1 DEF TableInv, TablePcs, Entries, s
  <2> QED BY <2>4, <2>5
<1>13. CASE RecordSetMarkOld
  <2> DEFINE s == sector
             i == idx[key]
             n == next_idx - 1
             rec == Record("VALID", key, val)
  <2>1. /\ s \in Sectors /\ pc = "mark_old" /\ key \in Entries
        /\ n \in Slots /\ n \in Int
        /\ i \in Slots /\ i \in Int /\ i < n /\ slot[s][i].key = key
        /\ slot[s][n] = rec
        /\ BlankFrom(s, next_idx)
        /\ \A k \in Entries \ {key} : Newest(slot[s], k, idx[k])
    BY <1>0, <1>13
       DEF RecordSetMarkOld, ControlInv, CursorInv, TableInv, TailInv, Slots,
           Entries, TypeOK, NoIdx
  <2>2. PICK good \in BOOLEAN : TryMark(s, i, "INVALID", good)
    BY <1>13 DEF RecordSetMarkOld
  <2>3. /\ sector' = sector /\ pc' = "idle"
        /\ idx' = [idx EXCEPT ![key] = n]
    BY <1>13 DEF RecordSetMarkOld, Return, InsertLookupTable
  <2>4. \A j \in Slots : Live(slot[s][j]) => j <= n
    <3>1. next_idx \in Int
      BY <1>0 DEF TypeOK
    <3> QED BY <2>1, <3>1, BlankNotLive DEF BlankFrom, Slots
  <2>5. Live(rec) /\ rec.key = key
    BY DEF Record, Live
  <2> HIDE DEF s, i, n, rec
  <2>6. /\ \A j \in Slots : j # i => slot'[s][j] = slot[s][j]
        /\ slot'[s][i].key = key
        /\ Live(slot'[s][i]) => Live(slot[s][i])
    BY <1>0, <2>1, <2>2, MarkInvalidDone
  <2>7. \A k \in Entries \ {key} : LiveIn(slot'[s], k) = LiveIn(slot[s], k)
    <3> SUFFICES ASSUME NEW k \in Entries, k # key
                 PROVE  LiveIn(slot'[s], k) = LiveIn(slot[s], k)
      OBVIOUS
    <3>1. i \in Slots /\ slot[s][i].key # k /\ slot'[s][i].key # k
      BY <2>1, <2>6
    <3> QED BY <2>6, <3>1, KillLive
  <2>8. Newest(slot'[s], key, n)
    <3>1. n \in LiveIn(slot'[s], key)
      BY <2>1, <2>5, <2>6 DEF LiveIn
    <3>2. \A j \in LiveIn(slot'[s], key) : j <= n
      BY <2>4, <2>6 DEF LiveIn
    <3> QED BY <3>1, <3>2 DEF Newest
  <2>9. \A k \in Entries \ {key} : Newest(slot'[s], k, idx[k])
    BY <2>1, <2>7 DEF Newest
  <2>10. /\ idx'[key] = n
         /\ \A k \in Keys : k # key => idx'[k] = idx[k]
    BY <1>0, <2>1, <2>3 DEF TypeOK, Entries
  <2> QED BY <2>3, <2>8, <2>9, <2>10 DEF TableInv, TablePcs, Entries, s
<1>14. CASE RecordDeleteMark
  <2> DEFINE s == sector
             i == idx[key]
  <2>1. /\ s \in Sectors /\ key \in Keys
        /\ \A k \in Entries : Newest(slot[s], k, idx[k])
    BY <1>0, <1>14
       DEF RecordDeleteMark, ControlInv, TableInv, TablePcs
  <2>2. PICK good \in BOOLEAN :
            /\ TryMark(s, i, "INVALID", good)
            /\ idx' = IF good THEN [idx EXCEPT ![key] = NoIdx] ELSE idx
    BY <1>14 DEF RecordDeleteMark
  <2>3. sector' = sector /\ pc' = "idle"
    BY <1>14 DEF RecordDeleteMark, Return
  <2> HIDE DEF s, i
  <2>4. CASE good
    <3>1. i \in Slots /\ key \in Entries
      BY <1>0, <2>1, <2>2, <2>4 DEF TryMark, Entries, Slots, NoIdx, i
    <3>2. slot[s][i].key = key /\ slot[s][i] \in Records
      BY <1>0, <2>1, <3>1 DEF Newest, LiveIn, FlashType, i
    <3>3. /\ \A j \in Slots : j # i => slot'[s][j] = slot[s][j]
          /\ slot'[s][i].key = key
      BY <1>0, <2>1, <2>2, <3>1, <3>2, MarkInvalidDone
    <3>4. \A k \in Entries \ {key} : LiveIn(slot'[s], k) = LiveIn(slot[s], k)
      BY <3>1, <3>2, <3>3, KillLive
    <3>5. /\ idx'[key] = NoIdx
          /\ \A k \in Keys : k # key => idx'[k] = idx[k]
      BY <1>0, <2>1, <2>2, <2>4 DEF TypeOK
    <3> QED BY <2>1, <2>3, <3>4, <3>5
        DEF TableInv, TablePcs, Entries, Newest, s
  <2>5. CASE ~good
    <3>1. slot' = slot /\ idx' = idx
      BY <2>2, <2>5 DEF TryMark
    <3> QED BY <2>1, <2>3, <3>1 DEF TableInv, TablePcs, Entries, s
  <2> QED BY <2>4, <2>5
<1>15. CASE SwapErase
  BY <1>0, <1>15 DEF SwapErase, InUseInv
<1>16. CASE SwapInit
  <2>1. /\ Other(sector) \in Sectors
        /\ hdr[Other(sector)] = "EMPTY"
        /\ slot[Other(sector)] = Erased
    BY <1>0, <1>16 DEF SwapInit, InUseInv, ControlInv, BlankInv
  <2>2. PICK good \in BOOLEAN :
            /\ TryHeader(Other(sector), "INITIALIZING", good)
            /\ good => todo' = Entries /\ pc' \in {"swap_copy", "swap_valid"}
    BY <1>16 DEF SwapInit, Goto
  <2>3. good /\ slot' = slot
    BY <1>0, <2>1, <2>2, HeaderDone DEF Formatted
  <2>4. UNCHANGED <<sector, idx>>
    BY <1>16 DEF SwapInit
  <2>5. \A k \in Keys : LiveIn(slot[Other(sector)], k) = {}
    BY <2>1, BlankNotLive DEF LiveIn, Erased
  <2> QED BY <2>2, <2>3, <2>4, <2>5 DEF TableInv, TablePcs, Entries
<1>17. CASE SwapCopy
  <2>1. pc' \in {"swap_copy", "swap_valid", "move_erase"} /\ pc = "swap_copy"
    BY <1>0, <1>17 DEF SwapCopy, Goto, MoveEntry, InUseInv
  <2>2. ASSUME Cached, pc' # "move_erase"
        PROVE  \A j \in Keys : LiveIn(slot'[Other(sector')], j) =
                    IF idx'[j] # NoIdx /\ j \notin todo' THEN {idx'[j]} ELSE {}
    <3> DEFINE o == Other(sector)
    <3>1. PICK k \in todo :
            /\ TryWrite(o, dst_idx, Record("VALID", k, cache[k]), TRUE)
            /\ idx' = [idx EXCEPT ![k] = dst_idx]
            /\ todo' = todo \ {k}
      BY <1>0, <2>2, <1>17 DEF SwapCopy, Goto, MoveEntry, SwapRecord, InUseInv
    <3> DEFINE rec == Record("VALID", k, cache[k])
    <3>2. /\ o \in Sectors /\ k \in Keys /\ k \in Entries
          /\ rec \in Records
          /\ dst_idx \in Slots => slot[o][dst_idx] = Blank
      BY <1>0, <1>17, RecordType
         DEF SwapCopy, ControlInv, CursorInv, Entries, TypeOK, RecordFlags,
             TailInv, BlankFrom, Slots
    <3> HIDE DEF o, rec
    <3>3. /\ \A j \in Slots : j # dst_idx => slot'[o][j] = slot[o][j]
          /\ dst_idx \in Slots /\ slot'[o][dst_idx] = rec
      <4>1. dst_idx \in Slots /\ ProgramSlot(o, dst_idx, rec)
        BY <3>1 DEF TryWrite, rec
      <4> QED BY <1>0, <3>2, <4>1, ProgramDone
    <3>4. \A j \in Keys : LiveIn(slot'[o], j) =
              IF j = k THEN LiveIn(slot[o], j) \union {dst_idx}
                       ELSE LiveIn(slot[o], j)
      <4>1. /\ Live(slot'[o][dst_idx]) /\ slot'[o][dst_idx].key = k
            /\ ~Live(slot[o][dst_idx])
        BY <3>2, <3>3, BlankNotLive DEF rec, Live, Record
      <4>2. \A j : LiveIn(slot'[o], j) =
                IF j = slot'[o][dst_idx].key
                THEN LiveIn(slot[o], j) \union {dst_idx}
                ELSE LiveIn(slot[o], j)
        BY <3>3, <4>1, AddLive
      <4> QED BY <4>1, <4>2
    <3>5. \A j \in Keys : LiveIn(slot[o], j) =
              IF j \in Entries \ todo THEN {idx[j]} ELSE {}
      BY <1>0, <2>1, <2>2 DEF TableInv, o
    <3>6. /\ sector' = sector
          /\ idx'[k] = dst_idx
          /\ \A j \in Keys : j # k => idx'[j] = idx[j]
      BY <1>0, <1>17, <3>1, <3>2 DEF SwapCopy, TypeOK
    <3>7. dst_idx # NoIdx
      BY <3>3 DEF Slots, NoIdx
    <3> QED BY <3>1, <3>4, <3>5, <3>6, <3>7 DEF Entries, o
  <2> QED BY <2>1, <2>2 DEF TableInv, TablePcs, Entries
<1>18. CASE SwapValid
  <2>1. /\ Other(sector) \in Sectors
        /\ hdr[Other(sector)] = "INITIALIZING"
        /\ todo = {} /\ pc = "swap_valid"
    BY <1>0, <1>18 DEF SwapValid, InUseInv, ControlInv, CursorInv
  <2>2. PICK good \in BOOLEAN :
            /\ TryHeader(Other(sector), "VALID", good)
            /\ good => /\ sector' = Other(sector)
                       /\ pc' = IF Cached THEN "erase_src" ELSE "rebuild"
    BY <1>18 DEF SwapValid, Goto
  <2>3. good /\ slot' = slot
    BY <1>0, <2>1, <2>2, HeaderDone DEF Formatted
  <2>4. UNCHANGED idx
    BY <1>18 DEF SwapValid
  <2>5. Cached => \A k \in Entries :
            LiveIn(slot[Other(sector)], k) = {idx[k]} /\ idx[k] \in Int
    BY <1>0, <2>1 DEF TableInv, Entries, TypeOK, Slots, NoIdx
  <2>6. Cached => \A k \in Entries : Newest(slot[Other(sector)], k, idx[k])
    BY <2>5 DEF Newest
  <2> QED BY <2>2, <2>3, <2>4, <2>6 DEF TableInv, TablePcs, Entries
<1>19. CASE MoveErase
  <2>1. Other(sector) \in Sectors
    BY <1>0, <1>19 DEF MoveErase, ControlInv, InUseInv, BootInv
  <2>2. PICK good \in BOOLEAN :
            /\ TryErase(Other(sector), good)
            /\ good => pc' = "move_init"
    BY <1>19 DEF MoveErase, Goto
  <2>3. pc' = "move_init"
    BY <1>0, <2>1, <2>2, EraseDone
  <2> QED BY <2>3 DEF TableInv, TablePcs
<1>20. CASE MoveInit
  <2>1. Other(sector) \in Sectors /\ hdr[Other(sector)] = "EMPTY"
    BY <1>0, <1>20 DEF MoveInit, ControlInv, InUseInv, BootInv
  <2>2. PICK good \in BOOLEAN :
            /\ TryHeader(Other(sector), "INITIALIZING", good)
            /\ good => pc' = "move_copy"
    BY <1>20 DEF MoveInit, Goto
  <2>3. pc' = "move_copy"
    BY <1>0, <2>1, <2>2, HeaderDone DEF Formatted
  <2> QED BY <2>3 DEF TableInv, TablePcs
<1>21. CASE MoveEnd
  <2>1. pc' \in {"move_valid"}
    BY <1>0, <1>21
       DEF MoveEnd, Goto
  <2> QED BY <2>1 DEF TableInv, TablePcs
<1>22. CASE MoveSkip
  <2>1. pc' \in {"move_copy"}
    BY <1>0, <1>22
       DEF MoveSkip
  <2> QED BY <2>1 DEF TableInv, TablePcs
<1>23. CASE MoveCopy
  <2>1. pc' \in {"move_copy", "move_mark"}
    BY <1>0, <1>23
       DEF MoveCopy, Goto
  <2> QED BY <2>1 DEF TableInv, TablePcs
<1>24. CASE MoveMark
  <2>1. pc' \in {"move_copy"}
    BY <1>0, <1>24
       DEF MoveMark, Goto
  <2> QED BY <2>1 DEF TableInv, TablePcs
<1>25. CASE MoveValid
  <2>1. Other(sector) \in Sectors /\ hdr[Other(sector)] = "INITIALIZING"
    BY <1>0, <1>25 DEF MoveValid, ControlInv, InUseInv, BootInv
  <2>2. PICK good \in BOOLEAN :
            /\ TryHeader(Other(sector), "VALID", good)
            /\ good => pc' = "rebuild"
    BY <1>25 DEF MoveValid, Goto
  <2>3. pc' = "rebuild"
    BY <1>0, <2>1, <2>2, HeaderDone DEF Formatted
  <2> QED BY <2>3 DEF TableInv, TablePcs
<1>26. CASE Rebuild
  <2>1. sector \in Sectors /\ ConstructLookupTable(sector)
    BY <1>0, <1>26 DEF Rebuild, ControlInv
  <2>2. pc' = "erase_src" /\ sector' = sector
    BY <1>26 DEF Rebuild, Goto
  <2>3. \A k \in Keys : idx'[k] # NoIdx => Newest(slot'[sector], k, idx'[k])
    BY <1>0, <2>1, ConstructDone
  <2> QED BY <2>2, <2>3 DEF TableInv, TablePcs, Entries
<1>27. CASE EraseSource
  <2>1. Other(sector) \in Sectors /\ sector \in Sectors /\ pc = "erase_src"
    BY <1>0, <1>27 DEF EraseSource, ControlInv
  <2>2. PICK good \in BOOLEAN : TryErase(Other(sector), good)
    BY <1>27 DEF EraseSource
  <2>3. slot'[sector] = slot[sector]
    BY <1>0, <2>1, <2>2, EraseDone DEF EraseSector, FlashType
  <2>4. /\ pc' \in {"construct", "idle", "record_set"}
        /\ UNCHANGED <<sector, idx>>
    BY <1>27 DEF EraseSource, Return, Goto
  <2> QED BY <1>0, <2>1, <2>3, <2>4 DEF TableInv, TablePcs, Entries
<1>28. CASE Reset1
  <2>1. pc' \in {"reset2"}
    BY <1>0, <1>28
       DEF Reset1, Goto
  <2> QED BY <2>1 DEF TableInv, TablePcs
<1>29. CASE Reset2
  <2>1. pc' \in {"off", "load"}
    BY <1>0, <1>29
       DEF Reset2, Goto
  <2> QED BY <2>1 DEF TableInv, TablePcs
<1>30. CASE Load
  <2>1. pc' \in {"init1"}
    BY <1>0, <1>30
       DEF Load, Goto
  <2> QED BY <2>1 DEF TableInv, TablePcs
<1>31. CASE InitUnknown("init1", 1, "init2")
  <2>1. pc' \in {"init2"}
    BY <1>0, <1>31
       DEF InitUnknown, Goto
  <2> QED BY <2>1 DEF TableInv, TablePcs
<1>32. CASE InitUnknown("init2", 2, "init_sectors")
  <2>1. pc' \in {"init_sectors"}
    BY <1>0, <1>32
       DEF InitUnknown, Goto
  <2> QED BY <2>1 DEF TableInv, TablePcs
<1>33. CASE InitSectors
  <2>1. pc' \in
            {"format_erase", "init_erase", "move_init", "move_erase",
             "construct"}
    BY <1>0, <1>33
       DEF InitSectors, Goto, MoveEntry
  <2> QED BY <2>1 DEF TableInv, TablePcs
<1>34. CASE InitErase
  <2>1. pc' \in {"construct"}
    BY <1>0, <1>34
       DEF InitErase, Goto
  <2> QED BY <2>1 DEF TableInv, TablePcs
<1>35. CASE FormatErase
  <2>1. pc' \in {"format_valid"}
    BY <1>0, <1>35
       DEF FormatErase, Goto
  <2> QED BY <2>1 DEF TableInv, TablePcs
<1>36. CASE FormatValid
  <2>1. pc' \in {"construct"}
    BY <1>0, <1>36
       DEF FormatValid, Goto
  <2> QED BY <2>1 DEF TableInv, TablePcs
<1>37. CASE Construct
  <2>1. sector \in Sectors /\ ConstructLookupTable(sector)
    BY <1>0, <1>37 DEF Construct, ControlInv
  <2>2. pc' = "idle" /\ sector' = sector
    BY <1>37 DEF Construct, Return
  <2>3. \A k \in Keys : idx'[k] # NoIdx => Newest(slot'[sector], k, idx'[k])
    BY <1>0, <2>1, ConstructDone
  <2> QED BY <2>2, <2>3 DEF TableInv, TablePcs, Entries
<1>38. CASE Crash
  <2>1. pc' \in {"off"}
    BY <1>0, <1>38
       DEF Crash, PowerOff
  <2> QED BY <2>1 DEF TableInv, TablePcs
<1>39. CASE CrashInWrite
  <2>1. pc' \in {"off"}
    BY <1>0, <1>39
       DEF CrashInWrite, PowerOff
  <2> QED BY <2>1 DEF TableInv, TablePcs
<1>40. CASE CrashInHeader
  <2>1. pc' \in {"off"}
    BY <1>0, <1>40
       DEF CrashInHeader, PowerOff
  <2> QED BY <2>1 DEF TableInv, TablePcs
<1>41. CASE CrashInErase
  <2>1. pc' \in {"off"}
    BY <1>0, <1>41
       DEF CrashInErase, PowerOff
  <2> QED BY <2>1 DEF TableInv, TablePcs
<1>42. CASE UNCHANGED vars
  BY <1>0, <1>42 DEF TableInv, TablePcs, Entries, vars
<1> QED BY <1>1, <1>2, <1>3, <1>4, <1>5, <1>6, <1>7, <1>8, <1>9, <1>10, <1>11,
         <1>12, <1>13, <1>14, <1>15, <1>16, <1>17, <1>18, <1>19, <1>20, <1>21,
         <1>22, <1>23, <1>24, <1>25, <1>26, <1>27, <1>28, <1>29, <1>30, <1>31,
         <1>32, <1>33, <1>34, <1>35, <1>36, <1>37, <1>38, <1>39, <1>40, <1>41,
         <1>42
    DEF Next, Call, Step, PowerFailure
----------------------------------------------------------------------------
(* What a boot would find.                                                 *)

\* Between operations a boot would find the records that the dict names.
StoredInv ==
    pc = "idle" =>
        \A k \in Entries : Stored(k) = slot[sector][idx[k]].val

\* A boot reads every live record of the sector that is VALID.
LEMMA StoredIn ==
    ASSUME VolumeInv, NEW s \in Sectors,
           hdr[s] = "VALID", hdr[Other(s)] = "EMPTY", NEW k
    PROVE  Stored(k) = IF LiveIn(slot[s], k) = {} THEN None
                       ELSE slot[s][Highest(LiveIn(slot[s], k))].val
<1> DEFINE plan == Plan(hdr[1], hdr[2])
<1>1. plan.sector = s /\ plan.act # "repair" /\ Validate
  <2>1. CASE s = 1
    <3>1. plan = [sector |-> 1, act |-> "erase_other"]
      BY <2>1 DEF Plan
    <3>2. Validate
      BY <2>1 DEF Validate, Known, VolumeInv, Formatted, Sectors
    <3> QED BY <2>1, <3>1, <3>2
  <2>2. CASE s = 2
    <3>1. hdr[1] = "EMPTY" /\ hdr[2] = "VALID"
      BY <2>2 DEF Other
    <3>2. plan = [sector |-> 2, act |-> "none"]
      BY <3>1 DEF Plan
    <3>3. Validate
      BY <3>1 DEF Validate, Known, VolumeInv, Formatted, Sectors
    <3> QED BY <2>2, <3>2, <3>3
  <2> QED BY <2>1, <2>2 DEF Sectors
<1> DEFINE found == LiveSlots(plan.sector, k)
                        \intersect Visible(plan.sector, plan.act)
<1>2. Stored(k) = IF Validate /\ found # {}
                  THEN slot[plan.sector][Highest(found)].val ELSE None
  BY DEF Stored
<1>3. found = LiveIn(slot[s], k)
  <2> HIDE DEF plan
  <2> QED BY <1>1 DEF LiveSlots, LiveIn, Visible
<1> HIDE DEF plan, found
<1> QED BY <1>1, <1>2, <1>3

LEMMA StoredNewest ==
    ASSUME FlashType, VolumeInv, NEW s \in Sectors,
           hdr[s] = "VALID", hdr[Other(s)] = "EMPTY",
           NEW k, NEW i, Newest(slot[s], k, i)
    PROVE  Stored(k) = slot[s][i].val
<1> DEFINE found == LiveIn(slot[s], k)
<1>1. Stored(k) = IF found = {} THEN None ELSE slot[s][Highest(found)].val
  BY StoredIn
<1>2. found \subseteq Slots /\ i \in found /\ \A j \in found : j <= i
  BY DEF LiveIn, Newest
<1> HIDE DEF found
<1>3. Highest(found) \in found /\ \A j \in found : j <= Highest(found)
  BY <1>2, HighestSlot
<1>4. Highest(found) = i
  <2> DEFINE h == Highest(found)
  <2>1. h \in found /\ \A j \in found : j <= h
    BY <1>3
  <2> HIDE DEF h
  <2>2. h \in Int /\ i \in Int /\ h <= i /\ i <= h
    BY <1>2, <2>1 DEF Slots
  <2> QED BY <2>2 DEF h
<1> QED BY <1>1, <1>2, <1>4

LEMMA StoredEntries ==
    ASSUME TypeInv, HeadersInv, TableInv
    PROVE  StoredInv
<1> SUFFICES ASSUME pc = "idle", NEW k \in Entries
             PROVE  Stored(k) = slot[sector][idx[k]].val
  BY DEF StoredInv
<1>1. /\ FlashType /\ VolumeInv /\ sector \in Sectors
      /\ hdr[sector] = "VALID" /\ hdr[Other(sector)] = "EMPTY"
  BY TypeFlash
     DEF HeadersInv, InUseInv, TypeInv, ControlInv, BootPcs
<1>2. Newest(slot[sector], k, idx[k])
  BY DEF TableInv, TablePcs
<1> QED BY <1>1, <1>2, StoredNewest

\* A write that returns EOK leaves the value in the record that the dict
\* names.
SetEntry ==
    Writing /\ pc' = "idle" /\ ret' = "EOK" =>
        /\ key \in Keys
        /\ idx'[key] # NoIdx
        /\ slot'[sector'][idx'[key]].val = val

LEMMA SetNext ==
    ASSUME TypeInv, HeadersInv, TableInv, Next
    PROVE  SetEntry
<1> USE DEF SwapPcs, MovePcs, SetPcs, TailPcs, BootPcs, CopyPcs, Writing,
            Loading, flash, ram, request, copy, env
<1>0. FlashType /\ TypeOK /\ ControlInv /\ CursorInv /\ InUseInv /\ TableInv
  BY TypeFlash DEF TypeInv, HeadersInv
<1>1. CASE Boot
  BY <1>0, <1>1 DEF SetEntry, Boot
<1>2. CASE \E k \in Keys, v \in Vals : RecordSet(k, v)
  BY <1>0, <1>2 DEF SetEntry, RecordSet, StartWrite, SwapEntry
<1>3. CASE \E k \in Keys, v \in Vals : EntryData(k, v)
  BY <1>0, <1>3 DEF SetEntry, EntryData, ControlInv
<1>4. CASE \E k \in Keys : EntrySave(k)
  BY <1>0, <1>4 DEF SetEntry, EntrySave, StartWrite, SwapEntry
<1>5. CASE \E k \in Keys : RecordDelete(k)
  BY <1>0, <1>5 DEF SetEntry, RecordDelete
<1>6. CASE Repair
  BY <1>0, <1>6 DEF SetEntry, Repair, MoveEntry
<1>7. CASE \E o \in Ops : Reset(o)
  BY <1>0, <1>7 DEF SetEntry, Reset
<1>8. CASE Unload
  BY <1>0, <1>8 DEF SetEntry, Unload
<1>9. CASE RecordSetCheck
  <2>1. pc' = "idle" /\ ret' = "EOK" => SameRecord
    BY <1>9 DEF RecordSetCheck, Return, Goto
  <2>2. UNCHANGED <<slot, sector, idx>>
    BY <1>9 DEF RecordSetCheck
  <2> QED BY <1>0, <2>1, <2>2 DEF SetEntry, SameRecord, ControlInv
<1>10. CASE RecordSetWrite
  BY <1>0, <1>10 DEF SetEntry, RecordSetWrite, Goto
<1>11. CASE RecordSetMarkBad
  BY <1>0, <1>11 DEF SetEntry, RecordSetMarkBad, Return
<1>12. CASE RecordSetValid
  <2> DEFINE s == sector
  <2>1. /\ s \in Sectors /\ key \in Keys /\ next_idx \in Slots
        /\ slot[s][next_idx] = Record("NEW", key, val)
    BY <1>0, <1>12 DEF RecordSetValid, ControlInv, CursorInv, TableInv
  <2>2. PICK good \in BOOLEAN :
            /\ TryMark(s, next_idx, "VALID", good)
            /\ pc' = "idle" /\ ret' = "EOK" =>
                    good /\ idx' = [idx EXCEPT ![key] = next_idx]
    BY <1>12 DEF RecordSetValid, Return, Goto, InsertLookupTable
  <2>3. sector' = sector
    BY <1>12 DEF RecordSetValid
  <2> HIDE DEF s
  <2>4. SUFFICES ASSUME pc' = "idle", ret' = "EOK" PROVE SetEntry
    BY DEF SetEntry
  <2>5. slot'[s][next_idx] = Promoted(slot[s][next_idx])
    BY <1>0, <2>1, <2>2, <2>4, MarkValidDone
  <2>6. slot'[s][next_idx].val = val
    <3>1. slot'[s][next_idx] = Record("VALID", key, val)
      BY <2>1, <2>5, PromotedRecord
    <3> QED BY <3>1 DEF Record
  <2>7. idx'[key] = next_idx /\ next_idx # NoIdx
    BY <1>0, <2>1, <2>2, <2>4 DEF TypeOK, Slots, NoIdx
  <2> QED BY <2>1, <2>3, <2>6, <2>7 DEF SetEntry, s
<1>13. CASE RecordSetMarkOld
  <2> DEFINE s == sector
             n == next_idx - 1
  <2>1. /\ s \in Sectors /\ key \in Keys /\ n \in Slots
        /\ idx[key] # n
        /\ slot[s][n] = Record("VALID", key, val)
    BY <1>0, <1>13
       DEF RecordSetMarkOld, ControlInv, CursorInv, TableInv, Slots, TypeOK,
           NoIdx
  <2>2. PICK good \in BOOLEAN : TryMark(s, idx[key], "INVALID", good)
    BY <1>13 DEF RecordSetMarkOld
  <2>3. sector' = sector /\ idx' = [idx EXCEPT ![key] = n]
    BY <1>13 DEF RecordSetMarkOld, InsertLookupTable
  <2> HIDE DEF s, n
  <2>4. slot'[s][n] = slot[s][n]
    BY <1>0, <2>1, <2>2, MarkInvalidDone
  <2>5. slot'[s][n].val = val
    BY <2>1, <2>4 DEF Record
  <2>6. idx'[key] = n /\ n # NoIdx
    BY <1>0, <2>1, <2>3 DEF TypeOK, Slots, NoIdx
  <2> QED BY <2>1, <2>3, <2>5, <2>6 DEF SetEntry, s
<1>14. CASE RecordDeleteMark
  BY <1>0, <1>14 DEF SetEntry, RecordDeleteMark, ControlInv
<1>15. CASE SwapErase
  BY <1>0, <1>15 DEF SetEntry, SwapErase, InUseInv
<1>16. CASE SwapInit
  BY <1>0, <1>16 DEF SetEntry, SwapInit, Return, Goto
<1>17. CASE SwapCopy
  BY <1>0, <1>17 DEF SetEntry, SwapCopy, Return, Goto, MoveEntry
<1>18. CASE SwapValid
  BY <1>0, <1>18 DEF SetEntry, SwapValid, Return, Goto
<1>19. CASE MoveErase
  BY <1>0, <1>19 DEF SetEntry, MoveErase, MoveFailed, Return, Goto
<1>20. CASE MoveInit
  BY <1>0, <1>20 DEF SetEntry, MoveInit, MoveFailed, Return, Goto
<1>21. CASE MoveEnd
  BY <1>0, <1>21 DEF SetEntry, MoveEnd, Goto
<1>22. CASE MoveSkip
  BY <1>0, <1>22 DEF SetEntry, MoveSkip
<1>23. CASE MoveCopy
  BY <1>0, <1>23 DEF SetEntry, MoveCopy, Goto
<1>24. CASE MoveMark
  BY <1>0, <1>24 DEF SetEntry, MoveMark, Goto
<1>25. CASE MoveValid
  BY <1>0, <1>25 DEF SetEntry, MoveValid, MoveFailed, Return, Goto
<1>26. CASE Rebuild
  BY <1>0, <1>26 DEF SetEntry, Rebuild, Goto
<1>27. CASE EraseSource
  BY <1>0, <1>27 DEF SetEntry, EraseSource, Return, Goto
<1>28. CASE Reset1
  BY <1>0, <1>28 DEF SetEntry, Reset1, Goto
<1>29. CASE Reset2
  BY <1>0, <1>29 DEF SetEntry, Reset2, Goto
<1>30. CASE Load
  BY <1>0, <1>30 DEF SetEntry, Load, Goto
<1>31. CASE InitUnknown("init1", 1, "init2")
  BY <1>0, <1>31 DEF SetEntry, InitUnknown, Goto
<1>32. CASE InitUnknown("init2", 2, "init_sectors")
  BY <1>0, <1>32 DEF SetEntry, InitUnknown, Goto
<1>33. CASE InitSectors
  BY <1>0, <1>33
     DEF SetEntry, InitSectors, Goto, MoveEntry, InUseInv, ControlInv,
      BootPcs
<1>34. CASE InitErase
  BY <1>0, <1>34 DEF SetEntry, InitErase, Goto
<1>35. CASE FormatErase
  BY <1>0, <1>35 DEF SetEntry, FormatErase, Goto
<1>36. CASE FormatValid
  BY <1>0, <1>36 DEF SetEntry, FormatValid, Goto
<1>37. CASE Construct
  BY <1>0, <1>37 DEF SetEntry, Construct, Return, ControlInv
<1>38. CASE Crash
  BY <1>0, <1>38 DEF SetEntry, Crash, PowerOff
<1>39. CASE CrashInWrite
  BY <1>0, <1>39 DEF SetEntry, CrashInWrite, PowerOff
<1>40. CASE CrashInHeader
  BY <1>0, <1>40 DEF SetEntry, CrashInHeader, PowerOff
<1>41. CASE CrashInErase
  BY <1>0, <1>41 DEF SetEntry, CrashInErase, PowerOff
<1> QED BY <1>1, <1>2, <1>3, <1>4, <1>5, <1>6, <1>7, <1>8, <1>9, <1>10, <1>11,
         <1>12, <1>13, <1>14, <1>15, <1>16, <1>17, <1>18, <1>19, <1>20, <1>21,
         <1>22, <1>23, <1>24, <1>25, <1>26, <1>27, <1>28, <1>29, <1>30, <1>31,
         <1>32, <1>33, <1>34, <1>35, <1>36, <1>37, <1>38, <1>39, <1>40, <1>41
    DEF Next, Call, Step, PowerFailure

StoreInv == TypeInv /\ ErasedInv /\ HeadersInv /\ TableInv

LEMMA StoreInit == Init => StoreInv
BY TypeInit, ErasedInit, HeadersInit, TableInit DEF StoreInv

LEMMA StoreNext ==
    ASSUME RecordFaults, StoreInv, [Next]_vars
    PROVE  StoreInv'
<1>1. TypeInv'
  BY TypeNext DEF StoreInv
<1>2. ErasedInv'
  <2>1. SafeFaults
    BY DEF SafeFaults, RecordFaults
  <2> QED BY <2>1, ErasedNext DEF StoreInv
<1>3. HeadersInv'
  BY HeadersNext DEF StoreInv
<1>4. TableInv'
  BY TableNext DEF StoreInv
<1> QED BY <1>1, <1>2, <1>3, <1>4 DEF StoreInv

\* A write that returned EOK is what a boot would find: through swaps whose
\* copies fail and fall back to a move, record and flag writes that fail, and
\* power failures inside any FLASH operation, for any number of keys, slots,
\* crashes and failures.
THEOREM SetDurable == ASSUME RecordFaults PROVE Spec => SetIsDurable
<1> DEFINE Durable == \A k \in Keys :
               k = key /\ Writing /\ pc' = "idle" /\ ret' = "EOK" =>
                   Stored(k)' = val
<1>1. Init => StoreInv
  BY StoreInit
<1>2. StoreInv /\ [Next]_vars => StoreInv'
  BY StoreNext
<1>3. StoreInv => StoredInv
  BY StoredEntries DEF StoreInv
<1>4. StoreInv /\ [Next]_vars => [SetEntry]_vars
  BY SetNext DEF StoreInv
<1>5. StoredInv' /\ [SetEntry]_vars => [Durable]_vars
  BY DEF StoredInv, SetEntry, Entries
<1>6. Spec => [][Durable]_vars
  BY <1>1, <1>2, <1>3, <1>4, <1>5, PTL DEF Spec
<1> QED BY <1>6 DEF SetIsDurable

----------------------------------------------------------------------------
(* The lookup table.                                                       *)

\* A key without an entry has no live record in the sector in use.
StrayPcs == {"idle", "mark_deleted", "erase_src"} \union SetPcs

StrayInv ==
    pc \in StrayPcs =>
        \A k \in Keys : idx[k] = NoIdx => LiveIn(slot[sector], k) = {}

LEMMA StrayInit == Init => StrayInv
BY DEF Init, StrayInv, StrayPcs, SetPcs

\* A slot that keeps its record, or has no live one, leaves the others alone.
LEMMA StrayKept ==
    ASSUME StrayInv, pc \in StrayPcs, sector' = sector, idx' = idx,
           \A k \in Keys : LiveIn(slot'[sector], k) = LiveIn(slot[sector], k)
    PROVE  StrayInv'
BY DEF StrayInv

LEMMA StrayNext ==
    ASSUME RecordFaults, StoreInv, StrayInv, Next, ~RecordDeleteMark
    PROVE  StrayInv'
<1> USE ConstantsAssumption
<1> USE DEF SetPcs, StrayPcs, flash, ram, request
<1>0. /\ FlashType /\ TypeOK /\ ControlInv /\ CursorInv
      /\ VolumeInv /\ InUseInv
      /\ HeaderInv /\ BlankInv /\ TailInv /\ EntryInv /\ TableInv
      /\ \A s \in Sectors : /\ Other(s) \in Sectors
                            /\ Other(s) # s
                            /\ Other(Other(s)) = s
  BY TypeFlash, OtherSector
     DEF StoreInv, TypeInv, HeadersInv, ErasedInv
<1>1. CASE \/ \E k \in Keys, v \in Vals : RecordSet(k, v)
           \/ \E k \in Keys : EntrySave(k)
  <2>1. /\ pc = "idle"
        /\ UNCHANGED <<slot, sector, idx>>
    BY <1>1 DEF RecordSet, EntrySave, StartWrite
  <2> QED BY <2>1, StrayKept
<1>2. CASE \/ \E k \in Keys, v \in Vals : EntryData(k, v)
           \/ \E k \in Keys : RecordDelete(k)
  <2>1. pc = "idle" /\ UNCHANGED <<slot, sector, idx>>
    BY <1>2 DEF EntryData, RecordDelete
  <2> QED BY <2>1, StrayKept
<1>3. CASE RecordSetCheck
  <2>1. /\ pc = "record_set"
        /\ UNCHANGED <<slot, sector, idx>>
    BY <1>3 DEF RecordSetCheck, Return, Goto, StrayInv
  <2> QED BY <2>1, StrayKept
<1>4. CASE RecordSetWrite
  <2> DEFINE s == sector
             rec == Record("NEW", key, val)
  <2>1. /\ s \in Sectors /\ rec \in Records
        /\ next_idx \in Slots => slot[s][next_idx] = Blank
    BY <1>0, <1>4, RecordType
       DEF RecordSetWrite, ControlInv, BootPcs, TypeOK, RecordFlags, TailInv,
           BlankFrom, Slots
  <2>2. PICK good \in BOOLEAN : TryWrite(s, next_idx, rec, good)
    BY <1>4 DEF RecordSetWrite
  <2>3. UNCHANGED <<sector, idx>> /\ pc = "write"
    BY <1>4 DEF RecordSetWrite, Goto
  <2> HIDE DEF rec, s
  <2>5. /\ \A j \in Slots : j # next_idx => slot'[s][j] = slot[s][j]
        /\ good => next_idx \in Slots /\ slot'[s][next_idx] = rec
        /\ ~good /\ next_idx \in Slots => ~Live(slot'[s][next_idx])
    BY <1>0, <2>1, <2>2, WriteDone
  <2>6. ~Live(rec)
    BY DEF rec, Record, Live
  <2>7. \A k \in Keys : LiveIn(slot'[s], k) = LiveIn(slot[s], k)
    BY <2>1, <2>5, <2>6, BlankNotLive, SameLive
  <2> QED BY <2>3, <2>7, StrayKept DEF s
<1>5. CASE RecordSetMarkBad
  <2> DEFINE s == sector
  <2>1. s \in Sectors /\ pc = "mark_bad"
    BY <1>0, <1>5 DEF RecordSetMarkBad, ControlInv, BootPcs
  <2>2. PICK good \in BOOLEAN : TryMark(s, next_idx, "INVALID", good)
    BY <1>5 DEF RecordSetMarkBad
  <2>3. UNCHANGED <<sector, idx>>
    BY <1>5 DEF RecordSetMarkBad, Return
  <2> HIDE DEF s
  <2>4. /\ \A j \in Slots : j # next_idx => slot'[s][j] = slot[s][j]
        /\ good => next_idx \in Slots /\ ~Live(slot'[s][next_idx])
        /\ ~good => slot' = slot
    BY <1>0, <2>1, <2>2, MarkInvalidDone
  <2>5. \A k \in Keys : LiveIn(slot'[s], k) = LiveIn(slot[s], k)
    BY <1>0, <2>1, <2>4, SameLive DEF TableInv, s
  <2> QED BY <2>1, <2>3, <2>5, StrayKept DEF s
<1>6. CASE RecordSetValid
  <2> DEFINE s == sector
  <2>1. /\ s \in Sectors /\ pc = "set_valid" /\ key \in Keys
        /\ next_idx \in Slots
        /\ slot[s][next_idx] = Record("NEW", key, val)
    BY <1>0, <1>6
       DEF RecordSetValid, ControlInv, BootPcs, Writing, CursorInv, TableInv
  <2>2. PICK good \in BOOLEAN :
            /\ TryMark(s, next_idx, "VALID", good)
            /\ IF good /\ idx[key] = NoIdx
               THEN idx' = [idx EXCEPT ![key] = next_idx]
               ELSE UNCHANGED idx
    BY <1>6 DEF RecordSetValid, InsertLookupTable
  <2>3. sector' = sector
    BY <1>6 DEF RecordSetValid, Return, Goto, StrayInv
  <2>4. \A k \in Keys : idx[k] = NoIdx => LiveIn(slot[s], k) = {}
    BY <2>1 DEF StrayInv
  <2> HIDE DEF s
  <2>5. CASE ~good
    BY <2>1, <2>2, <2>3, <2>5, StrayKept DEF TryMark, s
  <2>6. CASE good
    <3>1. /\ \A j \in Slots : j # next_idx => slot'[s][j] = slot[s][j]
          /\ slot'[s][next_idx] = Record("VALID", key, val)
      <4>1. FlashType /\ TryMark(s, next_idx, "VALID", good) /\ s \in Sectors
        BY <1>0, <2>1, <2>2
      <4>2. /\ \A j \in Slots : j # next_idx => slot'[s][j] = slot[s][j]
            /\ slot'[s][next_idx] = Promoted(slot[s][next_idx])
        BY <2>6, <4>1, MarkValidDone
      <4> QED BY <2>1, <4>2, PromotedRecord
    <3>2. slot[s][next_idx].key = key /\ slot'[s][next_idx].key = key
      BY <2>1, <3>1 DEF Record
    <3>3. \A k \in Keys : k # key => LiveIn(slot'[s], k) = LiveIn(slot[s], k)
      BY <2>1, <3>1, <3>2, KillLive
    <3>4. /\ idx'[key] # NoIdx
          /\ \A k \in Keys : k # key => idx'[k] = idx[k]
      <4>1. next_idx # NoIdx
        BY <2>1 DEF Slots, NoIdx
      <4> QED BY <1>0, <2>1, <2>2, <2>6, <4>1 DEF TypeOK
    <3>5. ASSUME NEW k \in Keys, idx'[k] = NoIdx
          PROVE  LiveIn(slot'[s], k) = {}
      BY <2>4, <3>3, <3>4, <3>5
    <3> QED BY <2>3, <3>5 DEF StrayInv, s
  <2> QED BY <2>5, <2>6
<1>7. CASE RecordSetMarkOld
  <2> DEFINE s == sector
             i == idx[key]
  <2>1. /\ s \in Sectors /\ pc = "mark_old" /\ key \in Keys
        /\ i \in Slots /\ slot[s][i].key = key /\ next_idx - 1 # NoIdx
    BY <1>0, <1>7
       DEF RecordSetMarkOld, ControlInv, BootPcs, CursorInv, TableInv, Slots,
           Entries, TypeOK, NoIdx
  <2>2. PICK good \in BOOLEAN : TryMark(s, i, "INVALID", good)
    BY <1>7 DEF RecordSetMarkOld
  <2>3. /\ sector' = sector
        /\ idx' = [idx EXCEPT ![key] = next_idx - 1]
    BY <1>7 DEF RecordSetMarkOld, Return, InsertLookupTable
  <2>4. \A k \in Keys : idx[k] = NoIdx => LiveIn(slot[s], k) = {}
    BY <2>1 DEF StrayInv
  <2> HIDE DEF s, i
  <2>5. /\ \A j \in Slots : j # i => slot'[s][j] = slot[s][j]
        /\ slot'[s][i].key = key
    BY <1>0, <2>1, <2>2, MarkInvalidDone
  <2>6. \A k \in Keys : k # key => LiveIn(slot'[s], k) = LiveIn(slot[s], k)
    BY <2>1, <2>5, KillLive
  <2>7. /\ idx'[key] # NoIdx
        /\ \A k \in Keys : k # key => idx'[k] = idx[k]
    BY <1>0, <2>1, <2>3 DEF TypeOK
  <2>8. ASSUME NEW k \in Keys, idx'[k] = NoIdx
        PROVE  LiveIn(slot'[s], k) = {}
    BY <2>4, <2>6, <2>7, <2>8
  <2> QED BY <2>3, <2>8 DEF StrayInv, s
<1>8. CASE SwapValid
  <2>1. /\ Other(sector) \in Sectors
        /\ hdr[Other(sector)] = "INITIALIZING"
        /\ todo = {} /\ pc = "swap_valid"
    BY <1>0, <1>8 DEF SwapValid, InUseInv, ControlInv, CursorInv, SwapPcs,
                      BootPcs, CopyPcs
  <2>2. PICK good \in BOOLEAN :
            /\ TryHeader(Other(sector), "VALID", good)
            /\ good => /\ sector' = Other(sector) /\ op' = op
                       /\ pc' = IF Cached THEN "erase_src" ELSE "rebuild"
    BY <1>8 DEF SwapValid, Goto
  <2>3. good /\ slot' = slot
    BY <1>0, <2>1, <2>2, HeaderDone DEF Formatted
  <2>4. UNCHANGED idx
    BY <1>8 DEF SwapValid
  <2>5. Cached => \A k \in Keys : idx[k] = NoIdx =>
                                      LiveIn(slot[Other(sector)], k) = {}
    BY <1>0, <2>1 DEF TableInv, Entries
  <2> QED BY <2>2, <2>3, <2>4, <2>5 DEF StrayInv
<1>9. CASE Rebuild \/ Construct
  <2>1. /\ sector \in Sectors /\ ConstructLookupTable(sector)
        /\ sector' = sector
    BY <1>0, <1>9
       DEF Rebuild, Construct, ControlInv, BootPcs, TailPcs, Goto, Return,
           StrayInv
  <2>2. \A k \in Keys : LiveIn(slot'[sector], k) = LiveIn(slot[sector], k)
    BY <1>0, <2>1, ConstructDone
  <2>3. ASSUME NEW k \in Keys, idx'[k] = NoIdx
        PROVE  LiveIn(slot[sector], k) = {}
    <3>1. LiveSlots(sector, k) = LiveIn(slot[sector], k)
      BY DEF LiveSlots, LiveIn
    <3>2. LiveSlots(sector, k) # {} => Highest(LiveSlots(sector, k)) # NoIdx
      <4>1. LiveSlots(sector, k) \subseteq Slots
        BY DEF LiveSlots
      <4> QED BY <4>1, HighestBounds DEF Slots, NoIdx
    <3> QED BY <2>1, <2>3, <3>1, <3>2 DEF ConstructLookupTable
  <2> QED BY <2>1, <2>2, <2>3 DEF StrayInv
<1>10. CASE EraseSource
  <2>1. /\ Other(sector) \in Sectors /\ sector \in Sectors
        /\ pc = "erase_src"
    BY <1>0, <1>10 DEF EraseSource, ControlInv, BootPcs, TailPcs, StrayInv
  <2>2. PICK good \in BOOLEAN : TryErase(Other(sector), good)
    BY <1>10 DEF EraseSource
  <2>3. slot'[sector] = slot[sector]
    BY <1>0, <2>1, <2>2, EraseDone DEF EraseSector, FlashType
  <2>4. UNCHANGED <<sector, idx>>
    BY <1>10, <2>1 DEF EraseSource, Return, Goto
  <2> QED BY <2>1, <2>3, <2>4, StrayKept
<1>11. ASSUME pc' \notin StrayPcs PROVE StrayInv'
  BY <1>11 DEF StrayInv
<1>12. CASE Boot \/ Repair \/ (\E o \in Ops : Reset(o)) \/ Unload
  <2>1. pc' \notin StrayPcs
    BY <1>12 DEF Boot, Repair, Reset, Unload, MoveEntry, StrayInv
  <2> QED BY <1>11, <2>1
<1>13. CASE PowerFailure
  <2>1. pc' \notin StrayPcs
    BY <1>13
       DEF PowerFailure, Crash, CrashInWrite, CrashInHeader, CrashInErase,
           PowerOff
  <2> QED BY <1>11, <2>1
<1>14. ~SwapErase
  BY <1>0 DEF SwapErase, InUseInv
<1>15. CASE SwapInit \/ MoveErase \/ MoveInit \/ MoveValid
  <2>1. /\ Other(sector) \in Sectors
        /\ MoveErase \/ hdr[Other(sector)] \in {"EMPTY", "INITIALIZING"}
    BY <1>0, <1>15 DEF SwapInit, MoveErase, MoveInit, MoveValid, InUseInv,
                       ControlInv, BootPcs, SwapPcs, MovePcs, CopyPcs
  <2>3. pc' \notin StrayPcs
    <3>1. CASE SwapInit
      <4>1. PICK good \in BOOLEAN :
                /\ TryHeader(Other(sector), "INITIALIZING", good)
                /\ good => pc' \in {"swap_copy", "swap_valid"}
        BY <3>1 DEF SwapInit, Goto
      <4>2. hdr[Other(sector)] \in {"EMPTY", "INITIALIZING"}
        BY <1>0, <3>1 DEF SwapInit, InUseInv
      <4> QED BY <1>0, <2>1, <4>1, <4>2, HeaderDone DEF Formatted
    <3>2. CASE MoveErase
      <4>1. PICK good \in BOOLEAN :
                /\ TryErase(Other(sector), good)
                /\ good => pc' = "move_init"
        BY <3>2 DEF MoveErase, Goto
      <4> QED BY <1>0, <2>1, <4>1, EraseDone
    <3>3. CASE MoveInit
      <4>1. PICK good \in BOOLEAN :
                /\ TryHeader(Other(sector), "INITIALIZING", good)
                /\ good => pc' = "move_copy"
        BY <3>3 DEF MoveInit, Goto
      <4>2. hdr[Other(sector)] \in {"EMPTY", "INITIALIZING"}
        BY <1>0, <3>3 DEF MoveInit, InUseInv
      <4> QED BY <1>0, <2>1, <4>1, <4>2, HeaderDone DEF Formatted
    <3>4. CASE MoveValid
      <4>1. PICK good \in BOOLEAN :
                /\ TryHeader(Other(sector), "VALID", good)
                /\ good => pc' = "rebuild"
        BY <3>4 DEF MoveValid, Goto
      <4>2. hdr[Other(sector)] \in {"EMPTY", "INITIALIZING"}
        BY <1>0, <3>4 DEF MoveValid, InUseInv, CopyPcs
      <4> QED BY <1>0, <2>1, <4>1, <4>2, HeaderDone DEF Formatted
    <3> QED BY <1>15, <3>1, <3>2, <3>3, <3>4
  <2> QED BY <1>11, <2>3
<1>16. CASE SwapCopy \/ MoveEnd \/ MoveSkip \/ MoveCopy \/ MoveMark
  <2>1. pc' \notin StrayPcs
    BY <1>16 DEF SwapCopy, MoveEnd, MoveSkip, MoveCopy, MoveMark, MoveEntry,
                 Goto, StrayInv
  <2> QED BY <1>11, <2>1
<1>17. CASE \/ Reset1 \/ Reset2 \/ Load
            \/ InitUnknown("init1", 1, "init2")
            \/ InitUnknown("init2", 2, "init_sectors")
            \/ InitSectors \/ InitErase \/ FormatErase \/ FormatValid
  <2>1. pc' \notin StrayPcs
    BY <1>17 DEF Reset1, Reset2, Load, InitUnknown, InitSectors, InitErase,
                 FormatErase, FormatValid, MoveEntry, Goto, StrayInv
  <2> QED BY <1>11, <2>1
<1> QED BY <1>1, <1>2, <1>3, <1>4, <1>5, <1>6, <1>7, <1>8, <1>9, <1>10, <1>12,
           <1>13, <1>14, <1>15, <1>16, <1>17
        DEF Next, Call, Step

----------------------------------------------------------------------------
(* Deleting: no older record of a key is live beside its newest, where no  *)
(* flag write fails and power does not fail.  A record whose deletion or   *)
(* replacement could not be marked stays live, and comes back.             *)

NoLeftovers == Faults \subseteq {"write"} /\ MaxCrashes = 0

Sole(c, k) == \A i, j \in LiveIn(c, k) : i = j

\* A VALID sector has one live record of each key, except for the key being
\* replaced, between the new record and marking the old one.
SoleInUse ==
    /\ \A s \in Sectors, k \in Keys :
            hdr[s] = "VALID" /\ ~(pc = "mark_old" /\ s = sector /\ k = key) =>
                Sole(slot[s], k)
    /\ pc = "mark_old" =>
            LiveIn(slot[sector], key) = {idx[key], next_idx - 1}

\* So has the destination of a copy.
SoleCopied ==
    pc \in CopyPcs => \A k \in Keys : Sole(slot[Other(sector)], k)

\* An entry that a swap has not copied has no record in the destination.
SoleSwapped ==
    /\ pc = "swap_init" => \A k \in Entries : slot[sector][idx[k]].key = k
    /\ pc = "swap_copy" => \A k \in todo :
            /\ slot[sector][idx[k]].key = k
            /\ LiveIn(slot[Other(sector)], k) = {}

\* A move has passed the record of a key that it has copied.
SoleMoved ==
    pc \in {"move_copy", "move_mark", "move_valid"} =>
        \A k \in Keys : LiveIn(slot[Other(sector)], k) # {} =>
            \A i \in LiveIn(slot[sector], k) : i < src_idx

SoleInv == SoleInUse /\ SoleCopied /\ SoleSwapped /\ SoleMoved

LEMMA SoleInit == Init => SoleInv
BY DEF Init, SoleInv, SoleInUse, SoleCopied, SoleSwapped, SoleMoved, CopyPcs,
       Sectors

LEMMA NoLeftoverFaults ==
    ASSUME NoLeftovers
    PROVE  RecordFaults
BY DEF NoLeftovers, RecordFaults

\* A sector that was VALID before the step and gains no live record.
Unspoilt(s) ==
    hdr'[s] = "VALID" =>
        /\ hdr[s] = "VALID"
        /\ \A k \in Keys : LiveIn(slot'[s], k) \subseteq LiveIn(slot[s], k)

LEMMA ErasedNotLive ==
    ASSUME NEW k
    PROVE  LiveIn(Erased, k) = {}
BY BlankNotLive DEF LiveIn, Erased

LEMMA SoleKept ==
    ASSUME SoleInv, pc # "mark_old", \A s \in Sectors : Unspoilt(s),
           pc' \notin {"mark_old", "swap_init"} \union CopyPcs
    PROVE  SoleInv'
<1>1. SoleInUse'
  BY DEF SoleInv, SoleInUse, Unspoilt, Sole
<1> QED BY <1>1 DEF SoleInv, SoleCopied, SoleSwapped, SoleMoved, CopyPcs

LEMMA EraseUnspoilt ==
    ASSUME RecordFaults, FlashType, NEW s \in Sectors, NEW good \in BOOLEAN,
           TryErase(s, good)
    PROVE  \A t \in Sectors : Unspoilt(t)
<1>1. EraseSector(s)
  BY EraseDone
<1> QED BY <1>1 DEF EraseSector, Unspoilt, FlashType

LEMMA MarkUnspoilt ==
    ASSUME FlashType, NEW s \in Sectors, NEW i, NEW good \in BOOLEAN,
           TryMark(s, i, "INVALID", good)
    PROVE  \A t \in Sectors : Unspoilt(t)
<1>1. UNCHANGED hdr
  BY MarkKeepsHeaders
<1>2. \A k : LiveIn(slot'[s], k) \subseteq LiveIn(slot[s], k)
  <2>1. /\ \A j \in Slots : j # i => slot'[s][j] = slot[s][j]
        /\ i \in Slots => /\ slot'[s][i].key = slot[s][i].key
                          /\ Live(slot'[s][i]) => Live(slot[s][i])
    BY MarkInvalidDone
  <2> QED BY <2>1 DEF LiveIn
<1>3. \A t \in Sectors : t # s => slot'[t] = slot[t]
  BY DEF TryMark, MarkSlot, FlashType, flash
<1> QED BY <1>1, <1>2, <1>3 DEF Unspoilt

LEMMA KeptUnspoilt ==
    ASSUME UNCHANGED <<hdr, slot>>
    PROVE  \A t \in Sectors : Unspoilt(t)
BY DEF Unspoilt

\* Every step keeps the records sole.
LEMMA SoleNext ==
    ASSUME NoLeftovers, StoreInv, StrayInv, SoleInv, Next
    PROVE  SoleInv'
<1> USE ConstantsAssumption
<1>0. /\ RecordFaults /\ FlashType /\ TypeOK /\ ControlInv /\ CursorInv
      /\ InUseInv /\ BootInv /\ BlankInv /\ TailInv /\ TableInv
      /\ \A s \in Sectors : /\ Other(s) \in Sectors
                            /\ Other(s) # s
                            /\ Other(Other(s)) = s
                            /\ \A t \in Sectors : t = s \/ t = Other(s)
  BY NoLeftoverFaults, TypeFlash
     DEF StoreInv, TypeInv, HeadersInv, ErasedInv, Sectors, Other
<1>1. CASE \/ \E k \in Keys, v \in Vals : RecordSet(k, v)
           \/ \E k \in Keys : EntrySave(k)
  <2>1. /\ pc = "idle" /\ pc' \in {"swap_init", "record_set"}
        /\ UNCHANGED <<hdr, slot, sector, idx>>
    BY <1>0, <1>1
       DEF RecordSet, EntrySave, StartWrite, SwapEntry, InUseInv, flash, ram
  <2>2. \A k \in Entries : slot[sector][idx[k]].key = k
    BY <1>0, <2>1 DEF TableInv, TablePcs, Newest, LiveIn
  <2> QED BY <2>1, <2>2
      DEF SoleInv, SoleInUse, SoleCopied, SoleSwapped, SoleMoved, CopyPcs,
          Entries
<1>2. CASE \/ \E k \in Keys, v \in Vals : EntryData(k, v)
           \/ \E k \in Keys : RecordDelete(k)
           \/ Boot \/ Repair \/ (\E o \in Ops : Reset(o)) \/ Unload
           \/ RecordSetCheck \/ Load \/ InitSectors
  <2>1. /\ pc # "mark_old" /\ UNCHANGED <<hdr, slot>>
        /\ pc' \notin {"mark_old", "swap_init"} \union CopyPcs
    BY <1>2
       DEF EntryData, RecordDelete, Boot, Repair, Reset, Unload,
           RecordSetCheck, Load, InitSectors, MoveEntry, Return, Goto, flash,
           CopyPcs
  <2> QED BY <2>1, KeptUnspoilt, SoleKept
<1>3. CASE RecordSetWrite
  <2> DEFINE s == sector
             rec == Record("NEW", key, val)
  <2>1. /\ s \in Sectors /\ rec \in Records
        /\ next_idx \in Slots => slot[s][next_idx] = Blank
    BY <1>0, <1>3, RecordType
       DEF RecordSetWrite, ControlInv, BootPcs, TypeOK, RecordFlags, TailInv,
           BlankFrom, Slots, SetPcs
  <2>2. PICK good \in BOOLEAN : TryWrite(s, next_idx, rec, good)
    BY <1>3 DEF RecordSetWrite
  <2>3. /\ pc = "write" /\ pc' \in {"set_valid", "mark_bad"}
    BY <1>3 DEF RecordSetWrite, Goto
  <2> HIDE DEF rec, s
  <2>4. /\ \A j \in Slots : j # next_idx => slot'[s][j] = slot[s][j]
        /\ good => next_idx \in Slots /\ slot'[s][next_idx] = rec
        /\ ~good /\ next_idx \in Slots => ~Live(slot'[s][next_idx])
        /\ slot'[Other(s)] = slot[Other(s)]
    BY <1>0, <2>1, <2>2, WriteDone
  <2>5. ~Live(rec)
    BY DEF rec, Record, Live
  <2>6. \A k \in Keys : LiveIn(slot'[s], k) = LiveIn(slot[s], k)
    BY <2>1, <2>4, <2>5, BlankNotLive, SameLive
  <2>7. \A t \in Sectors : Unspoilt(t)
    <3>1. UNCHANGED hdr
      BY <2>2, WriteKeepsHeaders
    <3> QED BY <1>0, <2>1, <2>4, <2>6, <3>1 DEF Unspoilt
  <2> QED BY <2>3, <2>7, SoleKept DEF CopyPcs
<1>4. CASE RecordSetMarkBad \/ RecordDeleteMark
  <2>1. /\ sector \in Sectors /\ pc \in {"mark_bad", "mark_deleted"}
        /\ pc' = "idle"
    BY <1>0, <1>4 DEF RecordSetMarkBad, RecordDeleteMark, Return, ControlInv,
                      BootPcs
  <2>2. \/ \E good \in BOOLEAN : TryMark(sector, next_idx, "INVALID", good)
        \/ \E good \in BOOLEAN : TryMark(sector, idx[key], "INVALID", good)
    BY <1>4 DEF RecordSetMarkBad, RecordDeleteMark
  <2>3. \A t \in Sectors : Unspoilt(t)
    BY <1>0, <2>1, <2>2, MarkUnspoilt
  <2> QED BY <2>1, <2>3, SoleKept DEF CopyPcs
<1>5. CASE RecordSetValid
  <2> DEFINE s == sector
  <2>1. /\ s \in Sectors /\ pc = "set_valid" /\ key \in Keys
        /\ next_idx \in Slots
        /\ slot[s][next_idx] = Record("NEW", key, val)
        /\ hdr[s] = "VALID" /\ hdr[Other(s)] = "EMPTY"
    BY <1>0, <1>5
       DEF RecordSetValid, ControlInv, BootPcs, SetPcs, Writing, CursorInv,
           TableInv, InUseInv
  <2>2. PICK good \in BOOLEAN :
            /\ TryMark(s, next_idx, "VALID", good)
            /\ good /\ idx[key] = NoIdx => pc' = "idle"
            /\ good /\ idx[key] # NoIdx => pc' = "mark_old" /\ idx' = idx
    BY <1>5 DEF RecordSetValid, Return, Goto
  <2>3. good
    BY <2>1, <2>2 DEF TryMark, Fault, NoLeftovers
  <2>4. sector' = sector /\ next_idx' = next_idx + 1
    BY <1>5 DEF RecordSetValid
  <2>5. good /\ idx[key] # NoIdx => key' = key
    BY <1>5, <2>2 DEF RecordSetValid, Return, Goto, request
  <2>6. UNCHANGED hdr
    BY <2>2, MarkKeepsHeaders
  <2> HIDE DEF s
  <2>7. /\ \A j \in Slots : j # next_idx => slot'[s][j] = slot[s][j]
        /\ slot'[s][next_idx] = Record("VALID", key, val)
    <3>1. /\ \A j \in Slots : j # next_idx => slot'[s][j] = slot[s][j]
          /\ slot'[s][next_idx] = Promoted(slot[s][next_idx])
      BY <1>0, <2>1, <2>2, <2>3, MarkValidDone
    <3> QED BY <2>1, <3>1, PromotedRecord
  <2>8. \A k \in Keys : LiveIn(slot'[s], k) =
            IF k = key THEN LiveIn(slot[s], k) \union {next_idx}
                       ELSE LiveIn(slot[s], k)
    <3>1. /\ Live(slot'[s][next_idx]) /\ slot'[s][next_idx].key = key
          /\ ~Live(slot[s][next_idx])
      BY <2>1, <2>7 DEF Live, Record
    <3>2. \A k : LiveIn(slot'[s], k) =
              IF k = slot'[s][next_idx].key
              THEN LiveIn(slot[s], k) \union {next_idx}
              ELSE LiveIn(slot[s], k)
      BY <2>1, <2>7, <3>1, AddLive
    <3> QED BY <3>1, <3>2
  <2>9. \A k \in Keys : Sole(slot[s], k)
    BY <2>1 DEF SoleInv, SoleInUse
  <2>10. \A t \in Sectors : hdr'[t] = "VALID" => t = s
    BY <1>0, <2>1, <2>6
  <2>11. CASE idx[key] = NoIdx
    <3>1. LiveIn(slot[s], key) = {}
      BY <2>1, <2>11 DEF StrayInv, StrayPcs, SetPcs, s
    <3>2. \A k \in Keys : Sole(slot'[s], k)
      BY <2>8, <2>9, <3>1 DEF Sole
    <3>3. pc' = "idle"
      BY <2>2, <2>3, <2>11
    <3> QED BY <2>10, <3>2, <3>3
        DEF SoleInv, SoleInUse, SoleCopied, SoleSwapped, SoleMoved, CopyPcs
  <2>12. CASE idx[key] # NoIdx
    <3>1. idx[key] \in LiveIn(slot[s], key)
      BY <1>0, <2>1, <2>12 DEF TableInv, TablePcs, Newest, Entries, s
    <3>2. LiveIn(slot[s], key) = {idx[key]}
      BY <2>1, <2>9, <3>1 DEF Sole
    <3>3. LiveIn(slot'[s], key) = {idx[key], next_idx}
      BY <2>1, <2>8, <3>2
    <3>4. next_idx' - 1 = next_idx
      BY <2>1, <2>4 DEF Slots
    <3>5. \A k \in Keys : k # key => Sole(slot'[s], k)
      BY <2>8, <2>9 DEF Sole
    <3>6. pc' = "mark_old" /\ idx' = idx /\ key' = key
      BY <2>2, <2>3, <2>5, <2>12
    <3> QED BY <2>4, <2>10, <3>3, <3>4, <3>5, <3>6
        DEF SoleInv, SoleInUse, SoleCopied, SoleSwapped, SoleMoved, CopyPcs, s
  <2> QED BY <2>11, <2>12
<1>6. CASE RecordSetMarkOld
  <2> DEFINE s == sector
             i == idx[key]
  <2>1. /\ s \in Sectors /\ pc = "mark_old" /\ key \in Keys
        /\ i \in Slots /\ slot[s][i].key = key
        /\ hdr[s] = "VALID" /\ hdr[Other(s)] = "EMPTY"
    BY <1>0, <1>6
       DEF RecordSetMarkOld, ControlInv, BootPcs, SetPcs, Writing, TableInv,
           InUseInv, Entries, TypeOK
  <2>2. PICK good \in BOOLEAN : TryMark(s, i, "INVALID", good)
    BY <1>6 DEF RecordSetMarkOld
  <2>3. good
    BY <2>1, <2>2 DEF TryMark, Fault, NoLeftovers
  <2>4. sector' = sector /\ pc' = "idle"
    BY <1>6 DEF RecordSetMarkOld, Return
  <2>5. UNCHANGED hdr
    BY <2>2, MarkKeepsHeaders
  <2>6. LiveIn(slot[s], key) = {i, next_idx - 1}
    BY <2>1 DEF SoleInv, SoleInUse
  <2> HIDE DEF s, i
  <2>7. /\ \A j \in Slots : j # i => slot'[s][j] = slot[s][j]
        /\ slot'[s][i].key = key
        /\ ~Live(slot'[s][i])
    BY <1>0, <2>1, <2>2, <2>3, MarkInvalidDone
  <2>8. \A k \in Keys : k # key => LiveIn(slot'[s], k) = LiveIn(slot[s], k)
    BY <2>1, <2>7, KillLive
  <2>9. LiveIn(slot'[s], key) \subseteq {next_idx - 1}
    BY <2>6, <2>7 DEF LiveIn
  <2>10. \A k \in Keys : k # key => Sole(slot[s], k)
    BY <2>1 DEF SoleInv, SoleInUse
  <2>11. \A k \in Keys : Sole(slot'[s], k)
    BY <2>8, <2>9, <2>10 DEF Sole
  <2>12. \A t \in Sectors : hdr'[t] = "VALID" => t = s
    BY <1>0, <2>1, <2>5
  <2> QED BY <2>4, <2>11, <2>12
      DEF SoleInv, SoleInUse, SoleCopied, SoleSwapped, SoleMoved, CopyPcs
<1>7. CASE SwapErase
  BY <1>0, <1>7 DEF SwapErase, InUseInv
<1>8. CASE SwapInit
  <2> DEFINE o == Other(sector)
  <2>1. /\ sector \in Sectors /\ o \in Sectors /\ pc = "swap_init"
        /\ hdr[o] = "EMPTY" /\ slot[o] = Erased
    BY <1>0, <1>8
       DEF SwapInit, InUseInv, ControlInv, BootPcs, BlankInv
  <2>2. PICK good \in BOOLEAN :
            /\ TryHeader(o, "INITIALIZING", good)
            /\ good => todo' = Entries /\ pc' \in {"swap_copy", "swap_valid"}
    BY <1>8 DEF SwapInit, Goto
  <2>3. good /\ Stamped(o, "INITIALIZING") /\ slot' = slot
    BY <1>0, <2>1, <2>2, HeaderDone DEF Formatted
  <2>4. UNCHANGED <<sector, idx>>
    BY <1>8 DEF SwapInit, ram
  <2>5. \A k \in Keys : LiveIn(slot[o], k) = {}
    BY <2>1, ErasedNotLive
  <2>6. SoleInUse'
    BY <1>0, <2>1, <2>2, <2>3 DEF SoleInv, SoleInUse, Stamped
  <2>7. SoleCopied'
    BY <2>3, <2>4, <2>5 DEF SoleCopied, Sole
  <2>8. SoleSwapped'
    <3>1. \A k \in Entries : k \in Keys /\ slot[sector][idx[k]].key = k
      BY <2>1 DEF SoleInv, SoleSwapped, Entries
    <3> QED BY <2>2, <2>3, <2>4, <2>5, <3>1 DEF SoleSwapped
  <2> QED BY <2>2, <2>3, <2>6, <2>7, <2>8 DEF SoleInv, SoleMoved
<1>9. CASE SwapCopy
  <2> DEFINE o == Other(sector)
  <2>1. /\ sector \in Sectors /\ o \in Sectors /\ pc = "swap_copy"
        /\ hdr[o] = "INITIALIZING" /\ todo \subseteq Keys
    BY <1>0, <1>9
       DEF SwapCopy, InUseInv, ControlInv, BootPcs, CopyPcs, TypeOK
  <2>2. sector' = sector /\ UNCHANGED hdr
    BY <1>9, WriteKeepsHeaders DEF SwapCopy, flash
  <2>3. pc' \in {"swap_copy", "swap_valid", "move_erase"}
    BY <1>9, <2>1 DEF SwapCopy, Goto, MoveEntry
  <2>4. slot'[sector] = slot[sector]
    <3>1. ASSUME NEW i, NEW rec, NEW good \in BOOLEAN,
                 TryWrite(o, i, rec, good)
          PROVE  slot'[sector] = slot[sector]
      BY <1>0, <2>1, <3>1 DEF TryWrite, ProgramSlot, FlashType, flash
    <3> QED BY <1>9, <3>1 DEF SwapCopy, flash
  <2> HIDE DEF o
  <2>5. SoleInUse'
    BY <1>0, <2>1, <2>2, <2>3, <2>4 DEF SoleInv, SoleInUse, o
  <2>6. CASE pc' = "move_erase"
    BY <2>5, <2>6 DEF SoleInv, SoleCopied, SoleSwapped, SoleMoved, CopyPcs
  <2>7. CASE pc' # "move_erase"
    <3>1. PICK k \in todo :
              /\ TryWrite(o, dst_idx, SwapRecord(k), TRUE)
              /\ idx' = [idx EXCEPT ![k] = dst_idx]
              /\ todo' = todo \ {k}
      BY <1>9, <2>1, <2>7 DEF SwapCopy, Goto, MoveEntry, o
    <3> DEFINE rec == SwapRecord(k)
    <3>2. /\ slot[sector][idx[k]].key = k /\ LiveIn(slot[o], k) = {}
          /\ \A j \in todo : /\ slot[sector][idx[j]].key = j
                             /\ LiveIn(slot[o], j) = {}
      BY <2>1 DEF SoleInv, SoleSwapped, o
    <3>3. rec.key = k
      BY <3>2 DEF SwapRecord, Record
    <3>4. dst_idx \in Slots /\ slot[o][dst_idx] = Blank
      BY <1>0, <2>1, <3>1 DEF TryWrite, TailInv, BlankFrom, Slots, o
    <3> HIDE DEF rec
    <3>5. /\ \A j \in Slots : j # dst_idx => slot'[o][j] = slot[o][j]
          /\ slot'[o][dst_idx] = rec
      <4>1. ProgramSlot(o, dst_idx, rec)
        BY <3>1 DEF TryWrite, rec
      <4> QED BY <1>0, <2>1, <3>4, <4>1, ProgramDone
    <3>6. /\ \A j \in Keys : j # k =>
                LiveIn(slot'[o], j) = LiveIn(slot[o], j)
          /\ LiveIn(slot'[o], k) \subseteq {dst_idx}
      <4>1. ASSUME NEW j \in Keys, j # k
            PROVE  LiveIn(slot'[o], j) = LiveIn(slot[o], j)
        BY <3>3, <3>4, <3>5, <4>1, BlankNotLive DEF LiveIn
      <4>2. LiveIn(slot'[o], k) \subseteq {dst_idx}
        BY <3>2, <3>5 DEF LiveIn
      <4> QED BY <4>1, <4>2
    <3>7. SoleCopied'
      <4>1. \A j \in Keys : Sole(slot[o], j)
        BY <2>1 DEF SoleInv, SoleCopied, CopyPcs, o
      <4>2. \A j \in Keys : Sole(slot'[o], j)
        BY <3>6, <4>1 DEF Sole
      <4> QED BY <2>2, <4>2 DEF SoleCopied, o
    <3>8. SoleSwapped'
      <4>1. \A j \in todo' : j \in todo /\ j \in Keys /\ j # k
        BY <2>1, <3>1
      <4>2. \A j \in todo' : idx'[j] = idx[j]
        BY <1>0, <3>1, <4>1 DEF TypeOK
      <4> QED BY <2>2, <2>3, <2>4, <3>2, <3>6, <4>1, <4>2 DEF SoleSwapped, o
    <3> QED BY <2>3, <2>5, <2>7, <3>7, <3>8 DEF SoleInv, SoleMoved
  <2> QED BY <2>6, <2>7
<1>10. CASE SwapValid \/ MoveValid
  <2> DEFINE o == Other(sector)
  <2>1. /\ sector \in Sectors /\ o \in Sectors
        /\ pc \in {"swap_valid", "move_valid"}
        /\ hdr[o] = "INITIALIZING"
    BY <1>0, <1>10
       DEF SwapValid, MoveValid, InUseInv, ControlInv, BootPcs, CopyPcs
  <2>2. PICK good \in BOOLEAN :
            /\ TryHeader(o, "VALID", good)
            /\ good => pc' \in {"erase_src", "rebuild"}
    BY <1>10 DEF SwapValid, MoveValid, Goto
  <2>3. good /\ Stamped(o, "VALID") /\ slot' = slot
    BY <1>0, <2>1, <2>2, HeaderDone DEF Formatted
  <2>4. \A k \in Keys : Sole(slot[o], k)
    BY <2>1 DEF SoleInv, SoleCopied, CopyPcs
  <2> HIDE DEF o
  <2>5. SoleInUse'
    <3>1. ASSUME NEW t \in Sectors, NEW k \in Keys, hdr'[t] = "VALID"
          PROVE  Sole(slot[t], k)
      <4>1. CASE t = o
        BY <2>4, <4>1
      <4>2. CASE t # o
        <5>1. hdr[t] = "VALID"
          BY <1>0, <2>1, <2>3, <3>1, <4>2 DEF Stamped
        <5> QED BY <2>1, <5>1 DEF SoleInv, SoleInUse
      <4> QED BY <4>1, <4>2
    <3> QED BY <2>2, <2>3, <3>1 DEF SoleInUse
  <2> QED BY <2>2, <2>3, <2>5
      DEF SoleInv, SoleCopied, SoleSwapped, SoleMoved, CopyPcs
<1>11. CASE MoveInit
  <2> DEFINE o == Other(sector)
  <2>1. /\ o \in Sectors /\ pc = "move_init"
        /\ hdr[o] = "EMPTY" /\ slot[o] = Erased
    BY <1>0, <1>11
       DEF MoveInit, InUseInv, ControlInv, BootPcs, BlankInv
  <2>2. PICK good \in BOOLEAN :
            /\ TryHeader(o, "INITIALIZING", good)
            /\ good => pc' = "move_copy"
    BY <1>11 DEF MoveInit, Goto
  <2>3. good /\ Stamped(o, "INITIALIZING") /\ slot' = slot
    BY <1>0, <2>1, <2>2, HeaderDone DEF Formatted
  <2>4. sector' = sector
    BY <1>11 DEF MoveInit, ram
  <2>5. \A k \in Keys : LiveIn(slot[o], k) = {}
    BY <2>1, ErasedNotLive
  <2>6. SoleInUse'
    BY <1>0, <2>1, <2>2, <2>3 DEF SoleInv, SoleInUse, Stamped
  <2>7. SoleCopied' /\ SoleMoved'
    BY <2>3, <2>4, <2>5 DEF SoleCopied, SoleMoved, Sole
  <2> QED BY <2>2, <2>3, <2>6, <2>7 DEF SoleInv, SoleSwapped
<1>12. CASE MoveEnd \/ MoveSkip
  <2>1. /\ pc = "move_copy" /\ pc' \in {"move_copy", "move_valid"}
        /\ UNCHANGED <<hdr, slot, sector>>
        /\ src_idx' \in {src_idx, src_idx + 1}
    BY <1>12 DEF MoveEnd, MoveSkip, Goto, flash, ram, copy
  <2>2. SoleInUse' /\ SoleCopied'
    BY <2>1 DEF SoleInv, SoleInUse, SoleCopied, CopyPcs
  <2>3. SoleMoved'
    <3>1. \A i \in Slots : i < src_idx => i < src_idx'
      BY <1>0, <2>1 DEF TypeOK, Slots
    <3> QED BY <2>1, <3>1 DEF SoleInv, SoleMoved, LiveIn
  <2> QED BY <2>1, <2>2, <2>3 DEF SoleInv, SoleSwapped
<1>13. CASE MoveCopy
  <2> DEFINE o == Other(sector)
             rec == slot[sector][src_idx]
  <2>1. /\ sector \in Sectors /\ o \in Sectors /\ o # sector
        /\ pc = "move_copy" /\ src_idx \in Slots /\ Live(rec)
        /\ hdr[sector] = "VALID" /\ hdr[o] = "INITIALIZING"
        /\ rec \in Records
    BY <1>0, <1>13
       DEF MoveCopy, MoveAtEnd, InUseInv, ControlInv, BootPcs, CopyPcs,
           MovePcs, FlashType
  <2>2. dst_idx \in Slots => slot[o][dst_idx] = Blank
    BY <1>0, <2>1 DEF TailInv, BlankFrom, Slots
  <2>3. PICK good \in BOOLEAN :
            /\ TryWrite(o, dst_idx, rec, good)
            /\ pc' = IF good THEN "move_copy" ELSE "move_mark"
    BY <1>13 DEF MoveCopy, Goto
  <2>4. sector' = sector /\ src_idx' = src_idx + 1 /\ UNCHANGED hdr
    BY <1>13, WriteKeepsHeaders DEF MoveCopy, ram
  <2> HIDE DEF o, rec
  <2>5. /\ \A j \in Slots : j # dst_idx => slot'[o][j] = slot[o][j]
        /\ good => dst_idx \in Slots /\ slot'[o][dst_idx] = rec
        /\ ~good /\ dst_idx \in Slots => ~Live(slot'[o][dst_idx])
        /\ slot'[sector] = slot[sector]
    <3>1. Other(o) = sector
      BY <1>0, <2>1 DEF o
    <3> QED BY <1>0, <2>1, <2>2, <2>3, <3>1, WriteDone
  <2>6. SoleInUse'
    BY <1>0, <2>1, <2>3, <2>4, <2>5 DEF SoleInv, SoleInUse, o
  <2>7. \A k \in Keys : Sole(slot[o], k) /\ Sole(slot[sector], k)
    BY <2>1 DEF SoleInv, SoleInUse, SoleCopied, CopyPcs, o
  <2>8. \A k \in Keys : LiveIn(slot[o], k) # {} =>
            \A i \in LiveIn(slot[sector], k) : i < src_idx
    BY <2>1 DEF SoleInv, SoleMoved, o
  <2>9. ASSUME NEW k \in Keys, ~(good /\ k = rec.key)
        PROVE  LiveIn(slot'[o], k) \subseteq LiveIn(slot[o], k)
    BY <2>5, <2>9 DEF LiveIn
  <2>10. ASSUME good, rec.key \in Keys
         PROVE  /\ LiveIn(slot'[o], rec.key) \subseteq {dst_idx}
                /\ LiveIn(slot[sector], rec.key) = {src_idx}
    <3>1. src_idx \in LiveIn(slot[sector], rec.key)
      BY <2>1 DEF LiveIn, rec
    <3>2. LiveIn(slot[o], rec.key) = {}
      BY <2>1, <2>8, <2>10, <3>1 DEF Slots
    <3>3. LiveIn(slot'[o], rec.key) \subseteq {dst_idx}
      BY <2>5, <3>2 DEF LiveIn
    <3>4. LiveIn(slot[sector], rec.key) = {src_idx}
      BY <2>7, <2>10, <3>1 DEF Sole
    <3> QED BY <3>3, <3>4
  <2>11. \A k \in Keys : Sole(slot'[o], k)
    <3>1. ASSUME NEW k \in Keys PROVE Sole(slot'[o], k)
      <4>1. CASE good /\ k = rec.key
        BY <2>10, <4>1 DEF Sole
      <4>2. CASE ~(good /\ k = rec.key)
        BY <2>7, <2>9, <4>2 DEF Sole
      <4> QED BY <4>1, <4>2
    <3> QED BY <3>1
  <2>12. ASSUME NEW k \in Keys, LiveIn(slot'[o], k) # {},
                NEW i \in LiveIn(slot[sector], k)
         PROVE  i < src_idx + 1
    <3>0. i \in Slots
      BY <2>12 DEF LiveIn
    <3>1. CASE good /\ k = rec.key
      <4>1. i = src_idx
        BY <2>10, <2>12, <3>1
      <4> QED BY <2>1, <4>1 DEF Slots
    <3>2. CASE ~(good /\ k = rec.key)
      <4>1. i < src_idx
        BY <2>8, <2>9, <2>12, <3>2
      <4> QED BY <2>1, <3>0, <4>1 DEF Slots
    <3> QED BY <3>1, <3>2
  <2>13. SoleCopied'
    BY <2>4, <2>11 DEF SoleCopied, o
  <2>14. SoleMoved'
    BY <2>4, <2>5, <2>12 DEF SoleMoved, o
  <2> QED BY <2>3, <2>6, <2>13, <2>14 DEF SoleInv, SoleSwapped
<1>14. CASE MoveMark
  <2> DEFINE o == Other(sector)
  <2>1. /\ sector \in Sectors /\ o \in Sectors /\ o # sector
        /\ pc = "move_mark" /\ hdr[o] = "INITIALIZING"
    BY <1>0, <1>14
       DEF MoveMark, InUseInv, ControlInv, BootPcs, CopyPcs, MovePcs
  <2>2. PICK good \in BOOLEAN : TryMark(o, dst_idx, "INVALID", good)
    BY <1>14 DEF MoveMark
  <2>3. sector' = sector /\ src_idx' = src_idx /\ pc' = "move_copy"
    BY <1>14 DEF MoveMark, Goto, ram
  <2> HIDE DEF o
  <2>4. UNCHANGED hdr
    BY <2>2, MarkKeepsHeaders
  <2>5. slot'[sector] = slot[sector]
    BY <1>0, <2>1, <2>2 DEF TryMark, MarkSlot, FlashType, flash
  <2>6. \A k \in Keys : LiveIn(slot'[o], k) \subseteq LiveIn(slot[o], k)
    <3>1. /\ \A j \in Slots : j # dst_idx => slot'[o][j] = slot[o][j]
          /\ dst_idx \in Slots =>
                /\ slot'[o][dst_idx].key = slot[o][dst_idx].key
                /\ Live(slot'[o][dst_idx]) => Live(slot[o][dst_idx])
      BY <1>0, <2>1, <2>2, MarkInvalidDone
    <3> QED BY <3>1 DEF LiveIn
  <2>7. SoleInUse'
    BY <1>0, <2>1, <2>3, <2>4, <2>5 DEF SoleInv, SoleInUse, o
  <2>8. SoleCopied'
    <3>1. \A k \in Keys : Sole(slot[o], k)
      BY <2>1 DEF SoleInv, SoleCopied, CopyPcs, o
    <3>2. \A k \in Keys : Sole(slot'[o], k)
      BY <2>6, <3>1 DEF Sole
    <3> QED BY <2>3, <3>2 DEF SoleCopied, o
  <2>9. SoleMoved'
    <3>1. \A k \in Keys : LiveIn(slot[o], k) # {} =>
              \A i \in LiveIn(slot[sector], k) : i < src_idx
      BY <2>1 DEF SoleInv, SoleMoved, o
    <3>2. \A k \in Keys : LiveIn(slot'[o], k) # {} => LiveIn(slot[o], k) # {}
      BY <2>6
    <3> QED BY <2>3, <2>5, <3>1, <3>2 DEF SoleMoved, o
  <2> QED BY <2>3, <2>7, <2>8, <2>9 DEF SoleInv, SoleSwapped
<1>15. CASE Rebuild \/ Construct
  <2>1. /\ sector \in Sectors /\ ConstructLookupTable(sector)
        /\ pc # "mark_old" /\ pc' \in {"erase_src", "idle"}
    BY <1>0, <1>15
       DEF Rebuild, Construct, ControlInv, BootPcs, TailPcs, Goto, Return
  <2>2. UNCHANGED hdr
    BY <2>1 DEF ConstructLookupTable
  <2>3. /\ slot'[Other(sector)] = slot[Other(sector)]
        /\ \A k \in Keys : LiveIn(slot'[sector], k) = LiveIn(slot[sector], k)
    BY <1>0, <2>1, ConstructDone
  <2>4. \A t \in Sectors : Unspoilt(t)
    BY <1>0, <2>1, <2>2, <2>3 DEF Unspoilt
  <2> QED BY <2>1, <2>4, SoleKept DEF CopyPcs
<1>16. CASE \/ MoveErase \/ EraseSource \/ Reset1 \/ Reset2 \/ InitErase
            \/ FormatErase
  <2>1. PICK s \in Sectors, good \in BOOLEAN : TryErase(s, good)
    BY <1>0, <1>16
       DEF MoveErase, EraseSource, Reset1, Reset2, InitErase, FormatErase,
           ControlInv, BootPcs, Sectors
  <2>2. \A t \in Sectors : Unspoilt(t)
    BY <1>0, <2>1, EraseUnspoilt
  <2>3. /\ pc # "mark_old"
        /\ pc' \notin {"mark_old", "swap_init"} \union CopyPcs
    BY <1>16
       DEF MoveErase, EraseSource, Reset1, Reset2, InitErase, FormatErase,
           MoveFailed, Return, Goto, CopyPcs
  <2> QED BY <2>2, <2>3, SoleKept
<1>17. CASE \/ InitUnknown("init1", 1, "init2")
            \/ InitUnknown("init2", 2, "init_sectors")
  <2>1. \/ UNCHANGED <<hdr, slot>>
        \/ \E s \in Sectors, good \in BOOLEAN : TryErase(s, good)
    BY <1>17 DEF InitUnknown, Sectors, flash
  <2>2. \A t \in Sectors : Unspoilt(t)
    BY <1>0, <2>1, EraseUnspoilt, KeptUnspoilt
  <2>3. /\ pc # "mark_old"
        /\ pc' \notin {"mark_old", "swap_init"} \union CopyPcs
    BY <1>17 DEF InitUnknown, Goto, CopyPcs
  <2> QED BY <2>2, <2>3, SoleKept
<1>18. CASE FormatValid
  <2>1. /\ sector \in Sectors /\ hdr[sector] = "EMPTY"
        /\ slot[sector] = Erased
    BY <1>0, <1>18 DEF FormatValid, BootInv, ControlInv, BlankInv
  <2>2. PICK good \in BOOLEAN : TryHeader(sector, "VALID", good)
    BY <1>18 DEF FormatValid
  <2>3. Stamped(sector, "VALID") /\ slot' = slot
    BY <1>0, <2>1, <2>2, HeaderDone DEF Formatted
  <2>4. pc = "format_valid" /\ pc' = "construct"
    BY <1>18 DEF FormatValid, Goto
  <2>5. \A k \in Keys : LiveIn(slot[sector], k) = {}
    BY <2>1, ErasedNotLive
  <2>6. SoleInUse'
    BY <1>0, <2>1, <2>3, <2>4, <2>5 DEF SoleInv, SoleInUse, Stamped, Sole
  <2> QED BY <2>4, <2>6
      DEF SoleInv, SoleCopied, SoleSwapped, SoleMoved, CopyPcs
<1>19. ~PowerFailure
  BY <1>0
     DEF PowerFailure, Crash, CrashInWrite, CrashInHeader, CrashInErase,
         PowerOff, TypeOK, NoLeftovers
<1> QED BY <1>1, <1>2, <1>3, <1>4, <1>5, <1>6, <1>7, <1>8, <1>9, <1>10, <1>11,
           <1>12, <1>13, <1>14, <1>15, <1>16, <1>17, <1>18, <1>19
        DEF Next, Call, Step

\* A deletion takes the last live record of its key.
LEMMA StrayDeleted ==
    ASSUME NoLeftovers, StoreInv, StrayInv, SoleInv, RecordDeleteMark
    PROVE  StrayInv'
<1> DEFINE s == sector
           i == idx[key]
<1>1. /\ s \in Sectors /\ key \in Keys /\ pc = "mark_deleted"
      /\ hdr[s] = "VALID" /\ FlashType /\ TypeOK
      /\ \A k \in Entries : Newest(slot[s], k, idx[k])
  BY TypeFlash
     DEF StoreInv, TypeInv, HeadersInv, RecordDeleteMark, ControlInv,
         InUseInv, TableInv, TablePcs, BootPcs
<1>2. PICK good \in BOOLEAN :
          /\ TryMark(s, i, "INVALID", good)
          /\ idx' = IF good THEN [idx EXCEPT ![key] = NoIdx] ELSE idx
  BY DEF RecordDeleteMark
<1>3. sector' = sector
  BY DEF RecordDeleteMark
<1>4. \A k \in Keys : idx[k] = NoIdx => LiveIn(slot[s], k) = {}
  BY <1>1 DEF StrayInv, StrayPcs
<1>5. \A k \in Keys : Sole(slot[s], k)
  BY <1>1 DEF SoleInv, SoleInUse
<1> HIDE DEF s, i
<1>6. /\ \A j \in Slots : j # i => slot'[s][j] = slot[s][j]
      /\ good => i \in Slots /\ ~Live(slot'[s][i])
      /\ ~good => slot' = slot
      /\ i \in Slots => slot'[s][i].key = slot[s][i].key
  BY <1>1, <1>2, MarkInvalidDone
<1>7. CASE good
  <2>1. i \in LiveIn(slot[s], key)
    BY <1>1, <1>6, <1>7, ConstantsAssumption
       DEF Newest, Entries, Slots, NoIdx, i
  <2>2. LiveIn(slot'[s], key) = {}
    <3>1. LiveIn(slot[s], key) = {i}
      BY <1>1, <1>5, <2>1 DEF Sole
    <3> QED BY <1>6, <1>7, <3>1 DEF LiveIn
  <2>3. \A k \in Keys : k # key => LiveIn(slot'[s], k) = LiveIn(slot[s], k)
    <3>1. slot[s][i].key = key /\ slot'[s][i].key = key
      BY <1>6, <1>7, <2>1 DEF LiveIn
    <3> QED BY <1>6, <1>7, <3>1, KillLive
  <2>4. \A k \in Keys : k # key => idx'[k] = idx[k]
    BY <1>1, <1>2, <1>7 DEF TypeOK
  <2> QED BY <1>3, <1>4, <2>2, <2>3, <2>4 DEF StrayInv, s
<1>8. CASE ~good
  BY <1>2, <1>3, <1>4, <1>6, <1>8 DEF StrayInv, s
<1> QED BY <1>7, <1>8

\* A caller that does not delete is never in a deletion.
DeletesInv == op = "record_delete" => "record_delete" \in Ops

LEMMA DeletesNext ==
    ASSUME DeletesInv, [Next]_vars
    PROVE  DeletesInv'
<1>1. UNCHANGED op \/ op' # "record_delete" \/ "record_delete" \in Ops
  BY DEF Next, Call, Step, PowerFailure, Boot, RecordSet, EntryData,
         EntrySave, StartWrite, RecordDelete, Repair, Reset, Unload,
         RecordSetCheck, RecordSetWrite, RecordSetMarkBad, RecordSetValid,
         RecordSetMarkOld, RecordDeleteMark, SwapErase, SwapInit, SwapCopy,
         SwapValid, MoveErase, MoveInit, MoveEnd, MoveSkip, MoveCopy,
         MoveMark, MoveValid, MoveFailed, Rebuild, EraseSource, Reset1,
         Reset2, Load, InitUnknown, InitSectors, InitErase, FormatErase,
         FormatValid, Construct, Crash, CrashInWrite, CrashInHeader,
         CrashInErase, PowerOff, Goto, Return, request, vars
<1> QED BY <1>1 DEF DeletesInv

\* Between operations the lookup table is the one a load would build.
LEMMA TableLoaded ==
    ASSUME StoreInv, StrayInv
    PROVE  LookupTableSound
<1> SUFFICES ASSUME pc = "idle" PROVE LookupTableSound
  BY DEF LookupTableSound
<1>1. /\ sector \in Sectors
      /\ hdr[sector] = "VALID" /\ hdr[Other(sector)] = "EMPTY"
      /\ BlankFrom(sector, next_idx)
  BY DEF StoreInv, TypeInv, ControlInv, BootPcs, HeadersInv, InUseInv,
         ErasedInv, TailInv
<1>2. sector = Plan(hdr[1], hdr[2]).sector
  <2>1. CASE sector = 1
    <3>1. Plan(hdr[1], hdr[2]) = [sector |-> 1, act |-> "erase_other"]
      BY <1>1, <2>1 DEF Plan
    <3> QED BY <2>1, <3>1
  <2>2. CASE sector = 2
    <3>1. hdr[1] = "EMPTY" /\ hdr[2] = "VALID"
      BY <1>1, <2>2 DEF Other
    <3>2. Plan(hdr[1], hdr[2]) = [sector |-> 2, act |-> "none"]
      BY <3>1 DEF Plan
    <3> QED BY <2>2, <3>2
  <2> QED BY <1>1, <2>1, <2>2 DEF Sectors
<1>3. ASSUME NEW k \in Keys
      PROVE  idx[k] = IF LiveSlots(sector, k) = {} THEN NoIdx
                      ELSE Highest(LiveSlots(sector, k))
  <2> DEFINE live == LiveSlots(sector, k)
  <2> SUFFICES idx[k] = IF live = {} THEN NoIdx ELSE Highest(live)
    OBVIOUS
  <2>1. live = LiveIn(slot[sector], k) /\ live \subseteq Slots
    BY DEF LiveSlots, LiveIn
  <2> HIDE DEF live
  <2>2. CASE idx[k] = NoIdx
    BY <2>1, <2>2 DEF StrayInv, StrayPcs
  <2>3. CASE idx[k] # NoIdx
    <3>1. Newest(slot[sector], k, idx[k])
      BY <2>3 DEF StoreInv, TableInv, TablePcs, Entries
    <3>2. idx[k] \in live /\ \A j \in live : j <= idx[k]
      BY <2>1, <3>1 DEF Newest
    <3> DEFINE h == Highest(live)
    <3>3. h \in live /\ \A j \in live : j <= h
      BY <2>1, <3>2, HighestSlot
    <3> HIDE DEF h
    <3>4. h \in Int /\ idx[k] \in Int /\ h <= idx[k] /\ idx[k] <= h
      BY <2>1, <3>2, <3>3 DEF Slots
    <3> QED BY <3>2, <3>4 DEF h
  <2> QED BY <2>2, <2>3
<1>4. \A i \in Slots : i >= next_idx => slot[sector][i] = Blank
  <2>1. next_idx \in Int
    BY DEF StoreInv, TypeInv, TypeOK
  <2> QED BY <1>1, <2>1 DEF BlankFrom, Slots
<1> QED BY <1>2, <1>3, <1>4 DEF LookupTableSound


\* Power failures and flag writes that fail leave VALID records behind, which
\* a deletion would uncover.
TableUse == RecordFaults /\ ("record_delete" \in Ops => NoLeftovers)

SoundInv ==
    /\ StoreInv /\ StrayInv /\ DeletesInv
    /\ NoLeftovers => SoleInv

LEMMA SoundInit == Init => SoundInv
BY StoreInit, StrayInit, SoleInit DEF Init, SoundInv, DeletesInv

LEMMA SoundNext ==
    ASSUME TableUse, SoundInv, [Next]_vars
    PROVE  SoundInv'
<1>1. StoreInv' /\ DeletesInv'
  BY StoreNext, DeletesNext DEF SoundInv, TableUse
<1>2. CASE UNCHANGED vars
  <2>1. StrayInv'
    BY <1>2 DEF SoundInv, StrayInv, vars, flash, ram, request
  <2>2. SoleInv => SoleInv'
    BY <1>2
       DEF SoleInv, SoleInUse, SoleCopied, SoleSwapped, SoleMoved, Entries,
           vars, flash, ram, request, copy
  <2> QED BY <1>1, <2>1, <2>2 DEF SoundInv
<1>3. CASE Next
  <2>1. NoLeftovers => SoleInv'
    BY <1>3, SoleNext DEF SoundInv
  <2>2. CASE RecordDeleteMark
    <3>1. NoLeftovers
      BY <2>2 DEF TableUse, SoundInv, DeletesInv, StoreInv, TypeInv,
                  ControlInv, RecordDeleteMark
    <3>2. StrayInv'
      BY <2>2, <3>1, StrayDeleted DEF SoundInv
    <3> QED BY <1>1, <2>1, <3>2 DEF SoundInv
  <2>3. CASE ~RecordDeleteMark
    <3>1. StrayInv'
      BY <1>3, <2>3, StrayNext DEF SoundInv, TableUse
    <3> QED BY <1>1, <2>1, <3>1 DEF SoundInv
  <2> QED BY <2>2, <2>3
<1> QED BY <1>2, <1>3

\* Between operations the lookup table is the one a load would build: through
\* swaps and repairs whose record and flag writes fail and power failures
\* inside any FLASH operation, if the caller deletes no records; with
\* deletions, through swaps and repairs whose record writes fail.
THEOREM TableIsSound == ASSUME TableUse PROVE Spec => []LookupTableSound
<1>1. Init => SoundInv
  BY SoundInit
<1>2. SoundInv /\ [Next]_vars => SoundInv'
  BY SoundNext
<1>3. SoundInv => LookupTableSound
  BY TableLoaded DEF SoundInv
<1> QED BY <1>1, <1>2, <1>3, PTL DEF Spec

\* A deletion that returns EOK leaves its key without an entry.
DeleteEntry ==
    op = "record_delete" /\ pc' = "idle" /\ ret' = "EOK" =>
        key \in Keys /\ idx'[key] = NoIdx

LEMMA DeleteNext ==
    ASSUME TypeInv, Next
    PROVE  DeleteEntry
<1> SUFFICES ASSUME op = "record_delete", pc' = "idle", ret' = "EOK"
             PROVE  key \in Keys /\ idx'[key] = NoIdx
  BY DEF DeleteEntry
<1>1. key \in Keys /\ pc = "mark_deleted" /\ TypeOK
  BY DEF TypeInv, TypeOK, ControlInv, PcNames, Writing, Loading, SwapPcs,
         MovePcs, SetPcs, TailPcs, BootPcs
<1>2. RecordDeleteMark
  BY <1>1
     DEF Next, Call, Step, PowerFailure, Boot, RecordSet, EntryData,
         EntrySave, StartWrite, RecordDelete, Repair, Reset, Unload,
         RecordSetCheck, RecordSetWrite, RecordSetMarkBad, RecordSetValid,
         RecordSetMarkOld, SwapErase, SwapInit, SwapCopy, SwapValid,
         MoveErase, MoveInit, MoveEnd, MoveSkip, MoveCopy, MoveMark,
         MoveValid, Rebuild, EraseSource, Reset1, Reset2, Load, InitUnknown,
         InitSectors, InitErase, FormatErase, FormatValid, Construct, Crash,
         CrashInWrite, CrashInHeader, CrashInErase, PowerOff
<1>3. idx' = [idx EXCEPT ![key] = NoIdx]
  BY <1>2 DEF RecordDeleteMark, Return
<1> QED BY <1>1, <1>3 DEF TypeOK

\* Between operations a boot finds nothing of a key without an entry.
MissingInv ==
    pc = "idle" => \A k \in Keys : idx[k] = NoIdx => Stored(k) = None

LEMMA MissingStored ==
    ASSUME StoreInv, StrayInv
    PROVE  MissingInv
<1> SUFFICES ASSUME pc = "idle", NEW k \in Keys, idx[k] = NoIdx
             PROVE  Stored(k) = None
  BY DEF MissingInv
<1>1. /\ VolumeInv /\ sector \in Sectors
      /\ hdr[sector] = "VALID" /\ hdr[Other(sector)] = "EMPTY"
  BY DEF StoreInv, HeadersInv, InUseInv, TypeInv, ControlInv, BootPcs
<1>2. LiveIn(slot[sector], k) = {}
  BY DEF StrayInv, StrayPcs
<1> QED BY <1>1, <1>2, StoredIn

\* A record whose deletion returned EOK is not found by the next boot, through
\* swaps whose copies fail and fall back to a move, repairs, resets and record
\* writes that fail, for any number of keys, slots and failures.  Power
\* failures are left out because the run nvol3_delete_crash shows a deleted
\* record come back after one; a failed marking of a replaced record does the
\* same.
THEOREM DeleteDurable == ASSUME NoLeftovers PROVE Spec => DeleteIsDurable
<1> DEFINE Deleted == \A k \in Keys :
               k = key /\ op = "record_delete" /\ pc' = "idle"
                       /\ ret' = "EOK" => Stored(k)' = None
<1>1. Init => SoundInv
  BY SoundInit
<1>2. SoundInv /\ [Next]_vars => SoundInv'
  BY SoundNext, NoLeftoverFaults DEF TableUse
<1>3. SoundInv => MissingInv
  BY MissingStored DEF SoundInv
<1>4. SoundInv /\ [Next]_vars => [DeleteEntry]_vars
  BY DeleteNext DEF SoundInv, StoreInv
<1>5. MissingInv' /\ [DeleteEntry]_vars => [Deleted]_vars
  BY DEF MissingInv, DeleteEntry
<1>6. Spec => [][Deleted]_vars
  BY <1>1, <1>2, <1>3, <1>4, <1>5, PTL DEF Spec
<1> QED BY <1>6 DEF DeleteIsDurable

----------------------------------------------------------------------------
(* nvol3_status_get(): the counters of records, under the same assumption. *)
(* A record whose write was refused at the end of the sector is counted    *)
(* and is not there, so first: a write always finds room.                  *)

Limit == MaxRecords - Headroom

\* The keys that have a record among the slots c of a sector, and the slots
\* with flags f.
Named(c) == {k \in Keys : LiveIn(c, k) # {}}
Flagged(c, f) == {i \in Slots : c[i].flags = f}

KeyInv ==
    \A s \in Sectors, i \in Slots : Live(slot[s][i]) => slot[s][i].key \in Keys

\* No sector has records of more keys than a volume takes.
LimitInv ==
    /\ \A s \in Sectors :
            hdr[s] = "VALID" => Cardinality(Named(slot[s])) <= Limit
    /\ pc \in CopyPcs =>
            Named(slot[Other(sector)]) \subseteq Named(slot[sector])
    /\ pc \in SwapPcs => Entries \subseteq Named(slot[sector])
    /\ pc \in {"write", "set_valid"} => Cardinality(Entries) < Limit

\* A swap fills the destination with one record of each entry.
FillInv ==
    pc \in {"swap_copy", "swap_valid"} =>
        /\ dst_idx + Cardinality(todo) = Cardinality(Entries)
        /\ \A i \in Slots :
                i < dst_idx => slot[Other(sector)][i].flags = "VALID"

\* A move has fewer slots to write than it has read once it has passed one
\* that is not live.
Passed(i) == \E d \in Slots : d < i /\ ~Live(slot[sector][d])

GapInv ==
    /\ pc = "move_copy" /\ Passed(src_idx) => dst_idx < src_idx
    /\ pc = "move_mark" /\ Passed(src_idx) => dst_idx + 1 < src_idx
    /\ pc = "move_valid" => dst_idx < MaxRecords

\* After a copy, and for a write, there is a slot left.
FreeInv ==
    /\ pc \in {"record_set", "write", "mark_bad", "erase_src"} =>
            next_idx \in Slots
    /\ pc = "rebuild" => slot[sector][MaxRecords - 1] = Blank

RoomInv == LimitInv /\ FillInv /\ GapInv /\ FreeInv

LEMMA RoomInit == Init => KeyInv /\ RoomInv
<1>1. Init => KeyInv
  BY BlankNotLive DEF Init, KeyInv, Erased
<1>2. Init => RoomInv
  BY DEF Init, RoomInv, LimitInv, FillInv, GapInv, FreeInv, CopyPcs, SwapPcs,
         Sectors
<1> QED BY <1>1, <1>2

LEMMA FlaggedFinite ==
    ASSUME NEW c, NEW f
    PROVE  IsFiniteSet(Flagged(c, f)) /\ Cardinality(Flagged(c, f)) \in Nat
<1>1. IsFiniteSet(Slots)
  BY FS_Interval, ConstantsAssumption DEF Slots
<1> QED BY <1>1, FS_Subset, FS_CardinalityType DEF Flagged

\* A set of keys within another has no more keys.
LEMMA KeysWithin ==
    ASSUME NEW S, NEW T, S \subseteq T, T \subseteq Keys
    PROVE  /\ IsFiniteSet(S) /\ IsFiniteSet(T)
           /\ Cardinality(S) \in Nat /\ Cardinality(T) \in Nat
           /\ Cardinality(S) <= Cardinality(T)
<1>1. IsFiniteSet(T)
  BY FS_Subset, ConstantsAssumption
<1> QED BY <1>1, FS_Subset, FS_CardinalityType

LEMMA NamedWithin ==
    ASSUME NEW c, NEW d,
           \A k \in Keys : LiveIn(d, k) \subseteq LiveIn(c, k)
    PROVE  /\ Named(d) \subseteq Named(c)
           /\ Cardinality(Named(d)) \in Nat /\ Cardinality(Named(c)) \in Nat
           /\ Cardinality(Named(d)) <= Cardinality(Named(c))
<1>1. Named(d) \subseteq Named(c) /\ Named(c) \subseteq Keys
  BY DEF Named
<1> QED BY <1>1, KeysWithin

LEMMA LimitBound == Limit \in Nat /\ 0 < Limit /\ Limit < MaxRecords
BY ConstantsAssumption DEF Limit

\* A sector in which every record is the only one of its key has a slot that
\* is not live.
LEMMA DeadSlot ==
    ASSUME KeyInv, NEW s \in Sectors, \A k \in Keys : Sole(slot[s], k),
           Cardinality(Named(slot[s])) <= Limit
    PROVE  \E d \in Slots : ~Live(slot[s][d])
<1> SUFFICES ASSUME \A d \in Slots : Live(slot[s][d]) PROVE FALSE
  OBVIOUS
<1> DEFINE f == [i \in Slots |-> slot[s][i].key]
           N == Named(slot[s])
<1>1. f \in [Slots -> N]
  BY DEF KeyInv, Named, LiveIn
<1>2. IsFiniteSet(N) /\ Cardinality(N) \in Nat
  BY KeysWithin DEF Named
<1>3. IsFiniteSet(Slots) /\ Cardinality(Slots) = MaxRecords
  <2>1. 0 \in Int /\ MaxRecords - 1 \in Int /\ MaxRecords \in Int
        /\ ~(0 > MaxRecords - 1) /\ (MaxRecords - 1) - 0 + 1 = MaxRecords
    BY ConstantsAssumption
  <2> QED BY <2>1, FS_Interval DEF Slots
<1> HIDE DEF N, f
<1>4. Cardinality(N) < Cardinality(Slots)
  <2>1. Cardinality(N) <= Limit
    BY DEF N
  <2> QED BY <1>2, <1>3, <2>1, LimitBound, ConstantsAssumption
<1>5. PICK x, y \in Slots : x # y /\ f[x] = f[y]
  BY <1>1, <1>2, <1>3, <1>4, FS_PigeonHole
<1> USE DEF f
<1>6. /\ slot[s][x].key \in Keys
      /\ x \in LiveIn(slot[s], slot[s][x].key)
      /\ y \in LiveIn(slot[s], slot[s][x].key)
  BY <1>5 DEF KeyInv, LiveIn
<1> QED BY <1>5, <1>6 DEF Sole

\* What construct_lookup_table() does to a slot.
LEMMA ConstructSlot ==
    ASSUME FlashType, NEW s \in Sectors, ConstructLookupTable(s),
           NEW i \in Slots
    PROVE  IF slot[s][i].flags = "VALID" /\ ~slot[s][i].ok
           THEN /\ slot'[s][i].flags = "INVALID"
                /\ ~Live(slot'[s][i])
           ELSE slot'[s][i] = slot[s][i]
<1> DEFINE bad == slot[s][i].flags = "VALID" /\ ~slot[s][i].ok
<1>1. slot'[s][i] = IF bad THEN [slot[s][i] EXCEPT !.flags = "INVALID"]
                           ELSE slot[s][i]
  BY DEF FlashType, ConstructLookupTable
<1>2. slot[s][i] \in Records
  BY DEF FlashType
<1> QED BY <1>1, <1>2 DEF Live, Records

\* One slot that changes its flags changes two counts.
LEMMA Reflagged ==
    ASSUME NEW c, NEW d, NEW i \in Slots,
           \A j \in Slots : j # i => d[j] = c[j], NEW f
    PROVE  Cardinality(Flagged(d, f)) =
               Cardinality(Flagged(c, f))
                   + (IF d[i].flags = f THEN 1 ELSE 0)
                   - (IF c[i].flags = f THEN 1 ELSE 0)
<1> DEFINE C == Flagged(c, f)
           D == Flagged(d, f)
<1>1. IsFiniteSet(C) /\ Cardinality(C) \in Nat
  BY FlaggedFinite
<1>2. i \in C <=> c[i].flags = f
  BY DEF Flagged
<1>3. D = IF d[i].flags = f THEN C \union {i} ELSE C \ {i}
  BY DEF Flagged
<1> HIDE DEF C, D
<1>4. CASE d[i].flags = f
  <2>1. Cardinality(C \union {i}) =
            IF i \in C THEN Cardinality(C) ELSE Cardinality(C) + 1
    BY <1>1, FS_AddElement
  <2> QED BY <1>1, <1>2, <1>3, <1>4, <2>1 DEF C, D
<1>5. CASE d[i].flags # f
  <2>1. Cardinality(C \ {i}) =
            IF i \in C THEN Cardinality(C) - 1 ELSE Cardinality(C)
    BY <1>1, FS_RemoveElement
  <2> QED BY <1>1, <1>2, <1>3, <1>5, <2>1 DEF C, D
<1> QED BY <1>4, <1>5

LEMMA KeyKept ==
    ASSUME KeyInv,
           \A s \in Sectors, i \in Slots :
                Live(slot'[s][i]) =>
                    \/ slot'[s][i].key \in Keys
                    \/ Live(slot[s][i]) /\ slot'[s][i].key = slot[s][i].key
    PROVE  KeyInv'
BY DEF KeyInv

LEMMA KeyErased ==
    ASSUME RecordFaults, FlashType, KeyInv, NEW s \in Sectors,
           NEW good \in BOOLEAN, TryErase(s, good)
    PROVE  KeyInv'
<1>1. slot' = [slot EXCEPT ![s] = Erased]
  BY EraseDone DEF EraseSector
<1>2. ASSUME NEW t \in Sectors, NEW i \in Slots, Live(slot'[t][i])
      PROVE  slot'[t][i] = slot[t][i]
  <2>1. CASE t = s
    <3>1. slot'[t][i] = Blank
      BY <1>1, <2>1 DEF Erased, FlashType
    <3> QED BY <1>2, <3>1, BlankNotLive
  <2>2. CASE t # s
    BY <1>1, <2>2 DEF FlashType
  <2> QED BY <2>1, <2>2
<1> QED BY <1>2, KeyKept

LEMMA KeyWritten ==
    ASSUME FlashType, KeyInv, NEW s \in Sectors, NEW n, NEW rec \in Records,
           NEW good \in BOOLEAN, TryWrite(s, n, rec, good), rec.key \in Keys,
           n \in Slots => slot[s][n] = Blank
    PROVE  KeyInv'
<1>1. /\ slot'[Other(s)] = slot[Other(s)]
      /\ \A j \in Slots : j # n => slot'[s][j] = slot[s][j]
      /\ good => n \in Slots /\ slot'[s][n] = rec
      /\ ~good /\ n \in Slots => ~Live(slot'[s][n])
  BY WriteDone
<1>2. \A t \in Sectors : t = s \/ t = Other(s)
  BY DEF Sectors, Other
<1> QED BY <1>1, <1>2, KeyKept

LEMMA KeyMarked ==
    ASSUME FlashType, KeyInv, NEW s \in Sectors, NEW n, NEW good \in BOOLEAN,
           TryMark(s, n, "INVALID", good)
    PROVE  KeyInv'
<1>1. /\ \A j \in Slots : j # n => slot'[s][j] = slot[s][j]
      /\ n \in Slots => /\ slot'[s][n].key = slot[s][n].key
                        /\ Live(slot'[s][n]) => Live(slot[s][n])
  BY MarkInvalidDone
<1>2. \A t \in Sectors : t # s => slot'[t] = slot[t]
  BY DEF TryMark, MarkSlot, FlashType, flash
<1> QED BY <1>1, <1>2, KeyKept

LEMMA KeyConstructed ==
    ASSUME FlashType, KeyInv, NEW s \in Sectors, ConstructLookupTable(s)
    PROVE  KeyInv'
<1>1. \A i \in Slots : ~Live(slot'[s][i]) \/ slot'[s][i] = slot[s][i]
  BY ConstructSlot
<1>2. \A t \in Sectors : t # s => slot'[t] = slot[t]
  BY DEF ConstructLookupTable, FlashType
<1> QED BY <1>1, <1>2, KeyKept

\* Every live record is a record of a key.
LEMMA KeyNext ==
    ASSUME NoLeftovers, StoreInv, SoleInv, KeyInv, Next
    PROVE  KeyInv'
<1> USE ConstantsAssumption
<1>0. /\ RecordFaults /\ FlashType /\ TypeOK /\ ControlInv /\ CursorInv
      /\ InUseInv /\ TailInv /\ TableInv
      /\ \A s \in Sectors : Other(s) \in Sectors /\ Other(s) # s
  BY NoLeftoverFaults, TypeFlash, OtherSector
     DEF StoreInv, TypeInv, HeadersInv, ErasedInv
<1>1. CASE slot' = slot
  BY <1>1 DEF KeyInv
<1>2. CASE RecordSetWrite
  <2> DEFINE rec == Record("NEW", key, val)
  <2>1. /\ sector \in Sectors /\ rec \in Records /\ key \in Keys
        /\ next_idx \in Slots => slot[sector][next_idx] = Blank
    BY <1>0, <1>2, RecordType
       DEF RecordSetWrite, ControlInv, BootPcs, TypeOK, RecordFlags, TailInv,
           BlankFrom, Slots, SetPcs, Writing
  <2>2. PICK good \in BOOLEAN : TryWrite(sector, next_idx, rec, good)
    BY <1>2 DEF RecordSetWrite
  <2>3. rec.key \in Keys
    BY <2>1 DEF Record
  <2> HIDE DEF rec
  <2> QED BY <1>0, <2>1, <2>2, <2>3, KeyWritten
<1>3. CASE RecordSetMarkBad \/ RecordSetMarkOld \/ RecordDeleteMark
  <2>1. sector \in Sectors
    BY <1>0, <1>3 DEF RecordSetMarkBad, RecordSetMarkOld, RecordDeleteMark,
                      ControlInv, BootPcs
  <2>2. \/ \E good \in BOOLEAN : TryMark(sector, next_idx, "INVALID", good)
        \/ \E good \in BOOLEAN : TryMark(sector, idx[key], "INVALID", good)
    BY <1>3 DEF RecordSetMarkBad, RecordSetMarkOld, RecordDeleteMark
  <2> QED BY <1>0, <2>1, <2>2, KeyMarked
<1>4. CASE RecordSetValid
  <2>1. /\ sector \in Sectors /\ pc = "set_valid" /\ key \in Keys
        /\ next_idx \in Slots
        /\ slot[sector][next_idx] = Record("NEW", key, val)
    BY <1>0, <1>4
       DEF RecordSetValid, ControlInv, BootPcs, SetPcs, Writing, CursorInv,
           TableInv
  <2>2. PICK good \in BOOLEAN : TryMark(sector, next_idx, "VALID", good)
    BY <1>4 DEF RecordSetValid
  <2>3. good
    BY <2>1, <2>2 DEF TryMark, Fault, NoLeftovers
  <2>4. /\ \A j \in Slots : j # next_idx => slot'[sector][j] = slot[sector][j]
        /\ slot'[sector][next_idx] = Promoted(slot[sector][next_idx])
    BY <1>0, <2>1, <2>2, <2>3, MarkValidDone
  <2>5. slot'[sector][next_idx].key = key
    BY <2>1, <2>4 DEF Promoted, Record
  <2>6. \A t \in Sectors : t # sector => slot'[t] = slot[t]
    BY <1>0, <2>2 DEF TryMark, MarkSlot, FlashType, flash
  <2> QED BY <2>1, <2>4, <2>5, <2>6, KeyKept
<1>5. CASE SwapCopy
  <2> DEFINE o == Other(sector)
  <2>1. /\ sector \in Sectors /\ o \in Sectors /\ pc = "swap_copy"
        /\ todo \subseteq Keys /\ todo \subseteq Entries
        /\ dst_idx \in Slots => slot[o][dst_idx] = Blank
    BY <1>0, <1>5
       DEF SwapCopy, ControlInv, BootPcs, TypeOK, TailInv, BlankFrom, Slots,
           CursorInv
  <2>2. CASE slot' = slot
    BY <2>2 DEF KeyInv
  <2>3. CASE slot' # slot
    <3>1. PICK k \in todo, good \in BOOLEAN :
              TryWrite(o, dst_idx, SwapRecord(k), good)
      BY <1>5, <2>3 DEF SwapCopy, flash
    <3>2. SwapRecord(k).key = k /\ k \in Keys
      BY <2>1 DEF SwapRecord, Record, SoleInv, SoleSwapped
    <3>3. SwapRecord(k) \in Records
      <4>1. CASE Cached
        BY <1>0, <3>2, <4>1, RecordType
           DEF SwapRecord, RecordFlags, TypeOK
      <4>2. CASE ~Cached
        <5>1. idx[k] \in Slots
          BY <1>0, <2>1, <3>2 DEF TypeOK, Entries
        <5> QED BY <1>0, <2>1, <4>2, <5>1 DEF SwapRecord, FlashType
      <4> QED BY <4>1, <4>2
    <3> HIDE DEF o
    <3> QED BY <1>0, <2>1, <3>1, <3>2, <3>3, KeyWritten
  <2> QED BY <2>2, <2>3
<1>6. CASE MoveCopy
  <2> DEFINE o == Other(sector)
             rec == slot[sector][src_idx]
  <2>1. /\ sector \in Sectors /\ o \in Sectors /\ src_idx \in Slots
        /\ rec \in Records /\ rec.key \in Keys
        /\ dst_idx \in Slots => slot[o][dst_idx] = Blank
    BY <1>0, <1>6
       DEF MoveCopy, MoveAtEnd, ControlInv, BootPcs, FlashType, TailInv,
           BlankFrom, Slots, KeyInv
  <2>2. PICK good \in BOOLEAN : TryWrite(o, dst_idx, rec, good)
    BY <1>6 DEF MoveCopy
  <2> HIDE DEF o, rec
  <2> QED BY <1>0, <2>1, <2>2, KeyWritten
<1>7. CASE MoveMark
  <2>1. Other(sector) \in Sectors
    BY <1>0, <1>7 DEF MoveMark, ControlInv, BootPcs
  <2> QED BY <1>0, <1>7, <2>1, KeyMarked DEF MoveMark
<1>8. CASE Rebuild \/ Construct
  <2>1. sector \in Sectors /\ ConstructLookupTable(sector)
    BY <1>0, <1>8 DEF Rebuild, Construct, ControlInv, BootPcs
  <2> QED BY <1>0, <2>1, KeyConstructed
<1>9. CASE SwapInit \/ SwapValid \/ MoveInit \/ MoveValid \/ FormatValid
  <2>1. \E s, f, good : TryHeader(s, f, good)
    BY <1>9 DEF SwapInit, SwapValid, MoveInit, MoveValid, FormatValid
  <2>2. slot' = slot
    BY <2>1 DEF TryHeader, SetSectorFlags, flash
  <2> QED BY <1>1, <2>2
<1>10. CASE \/ SwapErase \/ MoveErase \/ EraseSource \/ Reset1 \/ Reset2
            \/ InitErase \/ FormatErase
  <2>1. PICK s \in Sectors, good \in BOOLEAN : TryErase(s, good)
    BY <1>0, <1>10
       DEF SwapErase, MoveErase, EraseSource, Reset1, Reset2, InitErase,
           FormatErase, ControlInv, BootPcs, Sectors
  <2> QED BY <1>0, <2>1, KeyErased
<1>11. CASE \/ InitUnknown("init1", 1, "init2")
            \/ InitUnknown("init2", 2, "init_sectors")
  <2>1. \/ slot' = slot
        \/ \E s \in Sectors, good \in BOOLEAN : TryErase(s, good)
    BY <1>11 DEF InitUnknown, Sectors, flash
  <2> QED BY <1>0, <1>1, <2>1, KeyErased
<1>12. CASE \/ Boot \/ Call \/ RecordSetCheck \/ MoveEnd \/ MoveSkip \/ Load
            \/ InitSectors
  <2>1. slot' = slot
    BY <1>12
       DEF Boot, Call, RecordSet, EntrySave, StartWrite, EntryData,
           RecordDelete, Repair, Reset, Unload, RecordSetCheck, MoveEnd,
           MoveSkip, Load, InitSectors, flash
  <2> QED BY <1>1, <2>1
<1>13. ~PowerFailure
  BY <1>0
     DEF PowerFailure, Crash, CrashInWrite, CrashInHeader, CrashInErase,
         PowerOff, TypeOK, NoLeftovers
<1> QED BY <1>2, <1>3, <1>4, <1>5, <1>6, <1>7, <1>8, <1>9, <1>10, <1>11,
           <1>12, <1>13
        DEF Next, Step

\* A step that gives no sector a record, and is not in a write or a copy
\* after it.
RoomPcs == CopyPcs \union SwapPcs
               \union {"record_set", "write", "mark_bad", "set_valid",
                       "erase_src", "rebuild"}

LEMMA LimitKept ==
    ASSUME RoomInv, \A s \in Sectors : Unspoilt(s)
    PROVE  \A s \in Sectors :
                hdr'[s] = "VALID" => Cardinality(Named(slot'[s])) <= Limit
<1> SUFFICES ASSUME NEW s \in Sectors, hdr'[s] = "VALID"
             PROVE  Cardinality(Named(slot'[s])) <= Limit
  OBVIOUS
<1>1. /\ hdr[s] = "VALID"
      /\ \A k \in Keys : LiveIn(slot'[s], k) \subseteq LiveIn(slot[s], k)
  BY DEF Unspoilt
<1>2. Cardinality(Named(slot[s])) <= Limit
  BY <1>1 DEF RoomInv, LimitInv
<1>3. /\ Cardinality(Named(slot'[s])) \in Nat
      /\ Cardinality(Named(slot[s])) \in Nat
      /\ Cardinality(Named(slot'[s])) <= Cardinality(Named(slot[s]))
  BY <1>1, NamedWithin
<1> QED BY <1>2, <1>3, LimitBound

LEMMA RoomKept ==
    ASSUME RoomInv, \A s \in Sectors : Unspoilt(s), pc' \notin RoomPcs
    PROVE  RoomInv'
<1>1. \A s \in Sectors :
            hdr'[s] = "VALID" => Cardinality(Named(slot'[s])) <= Limit
  BY LimitKept
<1> QED BY <1>1
    DEF RoomInv, LimitInv, FillInv, GapInv, FreeInv, RoomPcs, CopyPcs, SwapPcs

\* The keys of a destination that is VALID now.
LEMMA LimitCopied ==
    ASSUME FlashType, TypeOK, RoomInv, NEW o \in Sectors, o = Other(sector),
           sector \in Sectors, hdr[sector] = "VALID", pc \in CopyPcs,
           Stamped(o, "VALID"), slot' = slot
    PROVE  \A s \in Sectors :
                hdr'[s] = "VALID" => Cardinality(Named(slot'[s])) <= Limit
<1>1. \A s \in Sectors : s = o \/ s = sector
  BY DEF Sectors, Other
<1>2. /\ Named(slot[o]) \subseteq Named(slot[sector])
      /\ Cardinality(Named(slot[sector])) <= Limit
      /\ Named(slot[sector]) \subseteq Keys
  BY DEF RoomInv, LimitInv, Named
<1>3. /\ Cardinality(Named(slot[o])) \in Nat
      /\ Cardinality(Named(slot[sector])) \in Nat
      /\ Cardinality(Named(slot[o])) <= Cardinality(Named(slot[sector]))
  BY <1>2, KeysWithin
<1>4. Cardinality(Named(slot[o])) <= Limit
  BY <1>2, <1>3, LimitBound
<1> QED BY <1>1, <1>2, <1>4

LEMMA RoomNext ==
    ASSUME NoLeftovers, StoreInv, StrayInv, SoleInv, KeyInv, RoomInv, Next
    PROVE  RoomInv'
<1> USE ConstantsAssumption
<1>0. /\ RecordFaults /\ FlashType /\ TypeOK /\ ControlInv /\ CursorInv
      /\ InUseInv /\ BootInv /\ BlankInv /\ TailInv /\ TableInv
      /\ \A s \in Sectors : /\ Other(s) \in Sectors
                            /\ Other(s) # s
                            /\ Other(Other(s)) = s
                            /\ \A t \in Sectors : t = s \/ t = Other(s)
      /\ MaxRecords \in Nat /\ MaxRecords - 1 \in Slots
  BY NoLeftoverFaults, TypeFlash
     DEF StoreInv, TypeInv, HeadersInv, ErasedInv, Sectors, Other, Slots
<1>1. CASE \/ \E k \in Keys, v \in Vals : RecordSet(k, v)
           \/ \E k \in Keys : EntrySave(k)
  <2>1. /\ pc = "idle"
        /\ pc' = IF next_idx >= MaxRecords THEN "swap_init" ELSE "record_set"
        /\ UNCHANGED <<hdr, slot, sector, next_idx, idx>>
    BY <1>0, <1>1
       DEF RecordSet, EntrySave, StartWrite, SwapEntry, InUseInv, flash, ram
  <2>2. Entries \subseteq Named(slot[sector])
    BY <1>0, <2>1 DEF TableInv, TablePcs, Newest, Named, Entries
  <2>3. pc' = "record_set" => next_idx \in Slots
    BY <1>0, <2>1 DEF TypeOK, Slots
  <2>4. LimitInv'
    BY <2>1, <2>2 DEF RoomInv, LimitInv, CopyPcs, SwapPcs, Entries
  <2> QED BY <2>1, <2>3, <2>4 DEF RoomInv, FillInv, GapInv, FreeInv
<1>2. CASE \/ \E k \in Keys, v \in Vals : EntryData(k, v)
           \/ \E k \in Keys : RecordDelete(k)
           \/ Boot \/ Repair \/ (\E o \in Ops : Reset(o)) \/ Unload
           \/ Load \/ InitSectors
  <2>1. UNCHANGED <<hdr, slot>>
    BY <1>2
       DEF EntryData, RecordDelete, Boot, Repair, Reset, Unload, Load,
           InitSectors, flash
  <2>2. pc' \notin RoomPcs
    BY <1>2
       DEF EntryData, RecordDelete, Boot, Repair, Reset, Unload, Load,
           InitSectors, MoveEntry, Return, Goto, CopyPcs, SwapPcs, RoomPcs
  <2> QED BY <2>1, <2>2, KeptUnspoilt, RoomKept
<1>3. CASE RecordSetCheck
  <2>1. /\ pc = "record_set" /\ pc' \in {"idle", "write"}
        /\ pc' = "write" => ~VolumeFull
        /\ UNCHANGED <<hdr, slot, sector, next_idx, idx>>
    BY <1>3 DEF RecordSetCheck, Return, Goto, flash, ram
  <2>2. pc' = "write" => Cardinality(Entries) < Limit
    <3>1. Cardinality(Entries) \in Nat
      BY KeysWithin DEF Entries
    <3> QED BY <2>1, <3>1 DEF VolumeFull, Limit
  <2>3. LimitInv'
    BY <2>1, <2>2 DEF RoomInv, LimitInv, CopyPcs, SwapPcs, Entries
  <2> QED BY <2>1, <2>3 DEF RoomInv, FillInv, GapInv, FreeInv
<1>4. CASE RecordSetWrite
  <2> DEFINE s == sector
             rec == Record("NEW", key, val)
  <2>1. /\ s \in Sectors /\ rec \in Records
        /\ next_idx \in Slots => slot[s][next_idx] = Blank
    BY <1>0, <1>4, RecordType
       DEF RecordSetWrite, ControlInv, BootPcs, TypeOK, RecordFlags, TailInv,
           BlankFrom, Slots, SetPcs
  <2>2. PICK good \in BOOLEAN : TryWrite(s, next_idx, rec, good)
    BY <1>4 DEF RecordSetWrite
  <2>3. /\ pc = "write" /\ pc' \in {"set_valid", "mark_bad"}
        /\ UNCHANGED <<sector, next_idx, idx>>
    BY <1>4 DEF RecordSetWrite, Goto, ram
  <2> HIDE DEF rec, s
  <2>4. /\ \A j \in Slots : j # next_idx => slot'[s][j] = slot[s][j]
        /\ good => next_idx \in Slots /\ slot'[s][next_idx] = rec
        /\ ~good /\ next_idx \in Slots => ~Live(slot'[s][next_idx])
        /\ slot'[Other(s)] = slot[Other(s)]
    BY <1>0, <2>1, <2>2, WriteDone
  <2>5. ~Live(rec)
    BY DEF rec, Record, Live
  <2>6. \A k \in Keys : LiveIn(slot'[s], k) = LiveIn(slot[s], k)
    BY <2>1, <2>4, <2>5, BlankNotLive, SameLive
  <2>7. \A t \in Sectors : Unspoilt(t)
    <3>1. UNCHANGED hdr
      BY <2>2, WriteKeepsHeaders
    <3> QED BY <1>0, <2>1, <2>4, <2>6, <3>1 DEF Unspoilt
  <2>8. LimitInv'
    <3>1. \A t \in Sectors :
              hdr'[t] = "VALID" => Cardinality(Named(slot'[t])) <= Limit
      BY <2>7, LimitKept
    <3>2. Cardinality(Entries) < Limit
      BY <2>3 DEF RoomInv, LimitInv
    <3> QED BY <2>3, <3>1, <3>2 DEF LimitInv, CopyPcs, SwapPcs, Entries
  <2> QED BY <2>3, <2>8 DEF RoomInv, FillInv, GapInv, FreeInv
<1>5. CASE RecordSetMarkBad \/ RecordDeleteMark \/ RecordSetMarkOld
  <2>1. sector \in Sectors /\ pc' = "idle"
    BY <1>0, <1>5 DEF RecordSetMarkBad, RecordDeleteMark, RecordSetMarkOld,
                      Return, ControlInv, BootPcs
  <2>2. \/ \E good \in BOOLEAN : TryMark(sector, next_idx, "INVALID", good)
        \/ \E good \in BOOLEAN : TryMark(sector, idx[key], "INVALID", good)
    BY <1>5 DEF RecordSetMarkBad, RecordDeleteMark, RecordSetMarkOld
  <2>3. \A t \in Sectors : Unspoilt(t)
    BY <1>0, <2>1, <2>2, MarkUnspoilt
  <2> QED BY <2>1, <2>3, RoomKept DEF RoomPcs, CopyPcs, SwapPcs
<1>6. CASE RecordSetValid
  <2> DEFINE s == sector
  <2>1. /\ s \in Sectors /\ pc = "set_valid" /\ key \in Keys
        /\ next_idx \in Slots
        /\ slot[s][next_idx] = Record("NEW", key, val)
        /\ hdr[Other(s)] = "EMPTY"
    BY <1>0, <1>6
       DEF RecordSetValid, ControlInv, BootPcs, SetPcs, Writing, CursorInv,
           TableInv, InUseInv
  <2>2. PICK good \in BOOLEAN : TryMark(s, next_idx, "VALID", good)
    BY <1>6 DEF RecordSetValid
  <2>3. good
    BY <2>1, <2>2 DEF TryMark, Fault, NoLeftovers
  <2>4. pc' \in {"idle", "mark_old"}
    BY <1>6 DEF RecordSetValid, Return, Goto
  <2>5. UNCHANGED hdr
    BY <2>2, MarkKeepsHeaders
  <2>6. /\ \A k \in Keys : idx[k] = NoIdx => LiveIn(slot[s], k) = {}
        /\ Cardinality(Entries) < Limit
    BY <2>1 DEF StrayInv, StrayPcs, SetPcs, RoomInv, LimitInv
  <2> HIDE DEF s
  <2>7. /\ \A j \in Slots : j # next_idx => slot'[s][j] = slot[s][j]
        /\ slot'[s][next_idx] = Promoted(slot[s][next_idx])
    BY <1>0, <2>1, <2>2, <2>3, MarkValidDone
  <2>8. slot'[s][next_idx].key = key
    BY <2>1, <2>7 DEF Promoted, Record
  <2>9. \A k \in Keys :
            k # key => LiveIn(slot'[s], k) \subseteq LiveIn(slot[s], k)
    BY <2>7, <2>8 DEF LiveIn
  <2>10. Named(slot'[s]) \subseteq Entries \union {key}
    BY <2>6, <2>9 DEF Named, Entries
  <2>11. Cardinality(Named(slot'[s])) <= Limit
    <3>1. IsFiniteSet(Entries) /\ Cardinality(Entries) \in Nat
      BY KeysWithin DEF Entries
    <3>2. Cardinality(Entries \union {key}) <= Cardinality(Entries) + 1
      <4>1. Cardinality(Entries \union {key}) =
                IF key \in Entries THEN Cardinality(Entries)
                                   ELSE Cardinality(Entries) + 1
        BY <3>1, FS_AddElement
      <4> QED BY <3>1, <4>1
    <3>3. Entries \union {key} \subseteq Keys
      BY <2>1 DEF Entries
    <3>4. /\ Cardinality(Named(slot'[s])) \in Nat
          /\ Cardinality(Entries \union {key}) \in Nat
          /\ Cardinality(Named(slot'[s])) <= Cardinality(Entries \union {key})
      BY <2>10, <3>3, KeysWithin
    <3> QED BY <2>6, <3>1, <3>2, <3>4, LimitBound
  <2>12. \A t \in Sectors : hdr'[t] = "VALID" => t = s
    BY <1>0, <2>1, <2>5
  <2>13. LimitInv'
    BY <2>4, <2>11, <2>12 DEF LimitInv, CopyPcs, SwapPcs
  <2> QED BY <2>4, <2>13 DEF RoomInv, FillInv, GapInv, FreeInv
<1>7. CASE SwapErase
  BY <1>0, <1>7 DEF SwapErase, InUseInv
<1>8. CASE SwapInit
  <2> DEFINE o == Other(sector)
  <2>1. /\ sector \in Sectors /\ o \in Sectors /\ pc = "swap_init"
        /\ hdr[o] = "EMPTY" /\ slot[o] = Erased
    BY <1>0, <1>8
       DEF SwapInit, InUseInv, ControlInv, BootPcs, BlankInv
  <2>2. PICK good \in BOOLEAN :
            /\ TryHeader(o, "INITIALIZING", good)
            /\ good => /\ todo' = Entries /\ dst_idx' = 0
                       /\ pc' \in {"swap_copy", "swap_valid"}
    BY <1>8 DEF SwapInit, Goto
  <2>3. good /\ Stamped(o, "INITIALIZING") /\ slot' = slot
    BY <1>0, <2>1, <2>2, HeaderDone DEF Formatted
  <2>4. UNCHANGED <<sector, idx>>
    BY <1>8 DEF SwapInit, ram
  <2>5. Named(slot[o]) = {}
    BY <2>1, ErasedNotLive DEF Named
  <2>6. \A t \in Sectors : Unspoilt(t)
    BY <1>0, <2>1, <2>3 DEF Stamped, Unspoilt
  <2>7. LimitInv'
    <3>1. \A t \in Sectors :
              hdr'[t] = "VALID" => Cardinality(Named(slot'[t])) <= Limit
      BY <2>6, LimitKept
    <3>2. Entries \subseteq Named(slot[sector])
      BY <2>1 DEF RoomInv, LimitInv, SwapPcs
    <3> QED BY <2>2, <2>3, <2>4, <2>5, <3>1, <3>2 DEF LimitInv, Entries
  <2>8. FillInv'
    <3>1. Cardinality(Entries) \in Nat
      BY KeysWithin DEF Entries
    <3>2. Entries' = Entries
      BY <2>4 DEF Entries
    <3>3. /\ dst_idx' = 0
          /\ dst_idx' + Cardinality(todo') = Cardinality(Entries')
      BY <2>2, <2>3, <3>1, <3>2
    <3> QED BY <3>3 DEF FillInv, Slots
  <2> QED BY <2>2, <2>3, <2>7, <2>8 DEF RoomInv, GapInv, FreeInv
<1>9. CASE SwapCopy
  <2> DEFINE o == Other(sector)
  <2>1. /\ sector \in Sectors /\ o \in Sectors /\ pc = "swap_copy"
        /\ hdr[o] = "INITIALIZING" /\ todo \subseteq Entries
        /\ todo \subseteq Keys
    BY <1>0, <1>9
       DEF SwapCopy, InUseInv, ControlInv, BootPcs, CopyPcs, TypeOK, CursorInv
  <2>2. sector' = sector /\ UNCHANGED hdr
    BY <1>9, WriteKeepsHeaders DEF SwapCopy, flash
  <2>3. pc' \in {"swap_copy", "swap_valid", "move_erase"}
    BY <1>9, <2>1 DEF SwapCopy, Goto, MoveEntry
  <2>4. slot'[sector] = slot[sector]
    <3>1. ASSUME NEW i, NEW rec, NEW good \in BOOLEAN,
                 TryWrite(o, i, rec, good)
          PROVE  slot'[sector] = slot[sector]
      BY <1>0, <2>1, <3>1 DEF TryWrite, ProgramSlot, FlashType, flash
    <3> QED BY <1>9, <3>1 DEF SwapCopy, flash
  <2> HIDE DEF o
  <2>5. \A t \in Sectors : Unspoilt(t)
    BY <1>0, <2>1, <2>2, <2>4 DEF Unspoilt, o
  <2>6. CASE pc' = "move_erase"
    BY <2>5, <2>6, RoomKept DEF RoomPcs, CopyPcs, SwapPcs
  <2>7. CASE pc' # "move_erase"
    <3>1. PICK k \in todo :
              /\ TryWrite(o, dst_idx, SwapRecord(k), TRUE)
              /\ SwapRecord(k).flags = "VALID"
              /\ idx' = [idx EXCEPT ![k] = dst_idx]
              /\ dst_idx' = dst_idx + 1
              /\ todo' = todo \ {k}
      BY <1>9, <2>1, <2>7 DEF SwapCopy, Goto, MoveEntry, o
    <3> DEFINE rec == SwapRecord(k)
    <3>2. rec.key = k
      BY <2>1 DEF SwapRecord, Record, SoleInv, SoleSwapped
    <3>3. dst_idx \in Slots /\ slot[o][dst_idx] = Blank
      BY <1>0, <2>1, <3>1 DEF TryWrite, TailInv, BlankFrom, Slots, o
    <3>4. rec.flags = "VALID"
      BY <3>1
    <3> HIDE DEF rec
    <3>5. /\ \A j \in Slots : j # dst_idx => slot'[o][j] = slot[o][j]
          /\ slot'[o][dst_idx] = rec
      <4>1. ProgramSlot(o, dst_idx, rec)
        BY <3>1 DEF TryWrite, rec
      <4> QED BY <1>0, <2>1, <3>3, <4>1, ProgramDone
    <3>6. Entries' = Entries
      <4>1. dst_idx # NoIdx /\ k \in Entries
        BY <2>1, <3>3 DEF Slots, NoIdx
      <4>2. \A j \in Keys : idx'[j] = IF j = k THEN dst_idx ELSE idx[j]
        BY <1>0, <2>1, <3>1 DEF TypeOK
      <4> QED BY <4>1, <4>2 DEF Entries
    <3>7. LimitInv'
      <4>1. \A t \in Sectors :
                hdr'[t] = "VALID" => Cardinality(Named(slot'[t])) <= Limit
        BY <2>5, LimitKept
      <4>2. /\ Entries \subseteq Named(slot[sector])
            /\ Named(slot[o]) \subseteq Named(slot[sector])
        BY <2>1 DEF RoomInv, LimitInv, SwapPcs, CopyPcs, o
      <4>3. Named(slot'[o]) \subseteq Named(slot[o]) \union {k}
        BY <3>2, <3>5 DEF Named, LiveIn
      <4>4. Named(slot'[o]) \subseteq Named(slot[sector])
        BY <2>1, <4>2, <4>3
      <4> QED BY <2>2, <2>3, <2>4, <2>7, <3>6, <4>1, <4>2, <4>4
          DEF LimitInv, o
    <3>8. FillInv'
      <4>1. IsFiniteSet(todo) /\ Cardinality(todo) \in Nat
        BY <2>1, KeysWithin
      <4>2. Cardinality(todo \ {k}) = Cardinality(todo) - 1
        BY <4>1, FS_RemoveElement
      <4>3. dst_idx + Cardinality(todo) = Cardinality(Entries)
        BY <2>1 DEF RoomInv, FillInv
      <4>4. dst_idx' + Cardinality(todo') = Cardinality(Entries')
        BY <3>1, <3>3, <3>6, <4>1, <4>2, <4>3 DEF Slots
      <4>5. \A i \in Slots : i < dst_idx + 1 =>
                slot'[o][i].flags = "VALID"
        <5>1. \A i \in Slots : i < dst_idx => slot[o][i].flags = "VALID"
          BY <2>1 DEF RoomInv, FillInv, o
        <5>2. \A i \in Slots : i < dst_idx + 1 => i < dst_idx \/ i = dst_idx
          BY <3>3 DEF Slots
        <5>3. \A i \in Slots : i < dst_idx => i # dst_idx
          BY <3>3 DEF Slots
        <5> QED BY <3>4, <3>5, <5>1, <5>2, <5>3
      <4> QED BY <2>2, <3>1, <4>4, <4>5 DEF FillInv, o
    <3> QED BY <2>3, <2>7, <3>7, <3>8 DEF RoomInv, GapInv, FreeInv
  <2> QED BY <2>6, <2>7
<1>10. CASE SwapValid \/ MoveValid
  <2> DEFINE o == Other(sector)
  <2>1. /\ sector \in Sectors /\ o \in Sectors
        /\ pc \in {"swap_valid", "move_valid"}
        /\ hdr[o] = "INITIALIZING" /\ hdr[sector] = "VALID"
        /\ BlankFrom(o, dst_idx)
    BY <1>0, <1>10
       DEF SwapValid, MoveValid, InUseInv, ControlInv, BootPcs, CopyPcs,
           SwapPcs, MovePcs, TailInv
  <2>2. PICK good \in BOOLEAN :
            /\ TryHeader(o, "VALID", good)
            /\ good => /\ sector' = o
                       /\ \/ pc' = "erase_src" /\ next_idx' = dst_idx
                          \/ pc' = "rebuild"
    BY <1>10 DEF SwapValid, MoveValid, Goto
  <2>3. good /\ Stamped(o, "VALID") /\ slot' = slot
    BY <1>0, <2>1, <2>2, HeaderDone DEF Formatted
  <2>4. dst_idx \in Nat /\ dst_idx < MaxRecords
    <3>1. CASE pc = "move_valid"
      BY <1>0, <3>1 DEF RoomInv, GapInv, TypeOK
    <3>2. CASE pc = "swap_valid"
      <4>1. /\ Entries \subseteq Named(slot[sector])
            /\ Cardinality(Named(slot[sector])) <= Limit
            /\ Named(slot[sector]) \subseteq Keys
        BY <2>1, <3>2 DEF RoomInv, LimitInv, SwapPcs, Named
      <4>2. /\ Cardinality(Entries) \in Nat
            /\ Cardinality(Named(slot[sector])) \in Nat
            /\ Cardinality(Entries) <= Cardinality(Named(slot[sector]))
        BY <4>1, KeysWithin
      <4>3. todo = {} /\ Cardinality(todo) = 0
        BY <1>0, <3>2, FS_EmptySet DEF CursorInv
      <4>4. dst_idx + 0 = Cardinality(Entries) /\ dst_idx \in Nat
        BY <1>0, <3>2, <4>3 DEF RoomInv, FillInv, TypeOK
      <4> QED BY <4>1, <4>2, <4>4, LimitBound
    <3> QED BY <2>1, <3>1, <3>2
  <2>5. slot[o][MaxRecords - 1] = Blank
    BY <1>0, <2>1, <2>4 DEF BlankFrom
  <2>6. \A t \in Sectors :
            hdr'[t] = "VALID" => Cardinality(Named(slot'[t])) <= Limit
    BY <1>0, <2>1, <2>3, LimitCopied DEF CopyPcs
  <2> HIDE DEF o
  <2>7. LimitInv'
    BY <2>2, <2>3, <2>6 DEF LimitInv, CopyPcs, SwapPcs
  <2>8. FreeInv'
    BY <2>2, <2>3, <2>4, <2>5 DEF FreeInv, Slots
  <2> QED BY <2>2, <2>3, <2>7, <2>8 DEF RoomInv, FillInv, GapInv
<1>11. CASE MoveInit
  <2> DEFINE o == Other(sector)
  <2>1. /\ o \in Sectors /\ pc = "move_init" /\ src_idx = 0
        /\ hdr[o] = "EMPTY" /\ slot[o] = Erased
    BY <1>0, <1>11
       DEF MoveInit, InUseInv, ControlInv, BootPcs, BlankInv, CursorInv
  <2>2. PICK good \in BOOLEAN :
            /\ TryHeader(o, "INITIALIZING", good)
            /\ good => pc' = "move_copy"
    BY <1>11 DEF MoveInit, Goto
  <2>3. good /\ Stamped(o, "INITIALIZING") /\ slot' = slot
    BY <1>0, <2>1, <2>2, HeaderDone DEF Formatted
  <2>4. UNCHANGED <<sector, src_idx>>
    BY <1>11 DEF MoveInit, ram, copy
  <2>5. Named(slot[o]) = {}
    BY <2>1, ErasedNotLive DEF Named
  <2>6. \A t \in Sectors : Unspoilt(t)
    BY <1>0, <2>1, <2>3 DEF Stamped, Unspoilt
  <2>7. LimitInv'
    <3>1. \A t \in Sectors :
              hdr'[t] = "VALID" => Cardinality(Named(slot'[t])) <= Limit
      BY <2>6, LimitKept
    <3> QED BY <2>2, <2>3, <2>4, <2>5, <3>1 DEF LimitInv, SwapPcs
  <2>8. GapInv'
    BY <2>1, <2>2, <2>3, <2>4 DEF GapInv, Passed, Slots
  <2> QED BY <2>2, <2>3, <2>7, <2>8 DEF RoomInv, FillInv, FreeInv
<1>12. CASE MoveEnd \/ MoveSkip
  <2>1. /\ pc = "move_copy" /\ UNCHANGED <<hdr, slot, sector, dst_idx>>
        /\ sector \in Sectors /\ hdr[sector] = "VALID"
        /\ \/ MoveAtEnd /\ pc' = "move_valid"
           \/ pc' = "move_copy" /\ src_idx' = src_idx + 1
    BY <1>0, <1>12
       DEF MoveEnd, MoveSkip, Goto, flash, ram, copy, ControlInv, BootPcs,
           InUseInv, MovePcs
  <2>2. LimitInv'
    BY <2>1 DEF RoomInv, LimitInv, CopyPcs, SwapPcs
  <2>3. /\ dst_idx \in Nat /\ src_idx \in Nat /\ dst_idx <= src_idx
        /\ src_idx <= MaxRecords
        /\ Passed(src_idx) => dst_idx < src_idx
    BY <1>0, <2>1 DEF TypeOK, CursorInv, RoomInv, GapInv
  <2>4. CASE pc' = "move_valid"
    <3>1. dst_idx < MaxRecords
      <4>1. CASE src_idx < MaxRecords
        BY <1>0, <2>3, <4>1
      <4>2. CASE src_idx = MaxRecords
        <5>1. PICK d \in Slots : ~Live(slot[sector][d])
          <6>1. \A k \in Keys : Sole(slot[sector], k)
            BY <2>1 DEF SoleInv, SoleInUse
          <6>2. Cardinality(Named(slot[sector])) <= Limit
            BY <2>1 DEF RoomInv, LimitInv
          <6> QED BY <2>1, <6>1, <6>2, DeadSlot
        <5>2. d < src_idx
          BY <1>0, <4>2 DEF Slots
        <5> QED BY <2>3, <4>2, <5>1, <5>2 DEF Passed
      <4> QED BY <1>0, <2>3, <4>1, <4>2
    <3> QED BY <2>1, <2>2, <2>4, <3>1 DEF RoomInv, FillInv, GapInv, FreeInv
  <2>5. CASE pc' = "move_copy" /\ src_idx' = src_idx + 1
    <3>1. dst_idx < src_idx + 1
      BY <2>3
    <3> QED BY <2>1, <2>2, <2>5, <3>1 DEF RoomInv, FillInv, GapInv, FreeInv
  <2> QED BY <2>1, <2>4, <2>5
<1>13. CASE MoveCopy
  <2> DEFINE o == Other(sector)
             rec == slot[sector][src_idx]
  <2>1. /\ sector \in Sectors /\ o \in Sectors /\ o # sector
        /\ pc = "move_copy" /\ src_idx \in Slots /\ Live(rec)
        /\ hdr[o] = "INITIALIZING"
        /\ rec \in Records /\ rec.key \in Keys
    BY <1>0, <1>13
       DEF MoveCopy, MoveAtEnd, InUseInv, ControlInv, BootPcs, CopyPcs,
           FlashType, KeyInv
  <2>2. dst_idx \in Slots => slot[o][dst_idx] = Blank
    BY <1>0, <2>1 DEF TailInv, BlankFrom, Slots
  <2>3. PICK good \in BOOLEAN :
            /\ TryWrite(o, dst_idx, rec, good)
            /\ dst_idx' = IF good THEN dst_idx + 1 ELSE dst_idx
            /\ pc' = IF good THEN "move_copy" ELSE "move_mark"
    BY <1>13 DEF MoveCopy, Goto
  <2>4. sector' = sector /\ src_idx' = src_idx + 1 /\ UNCHANGED hdr
    BY <1>13, WriteKeepsHeaders DEF MoveCopy, ram
  <2>5. rec.key \in Named(slot[sector])
    BY <2>1 DEF Named, LiveIn
  <2> HIDE DEF o, rec
  <2>6. /\ \A j \in Slots : j # dst_idx => slot'[o][j] = slot[o][j]
        /\ good => dst_idx \in Slots /\ slot'[o][dst_idx] = rec
        /\ ~good /\ dst_idx \in Slots => ~Live(slot'[o][dst_idx])
        /\ slot'[sector] = slot[sector]
    <3>1. Other(o) = sector
      BY <1>0, <2>1 DEF o
    <3> QED BY <1>0, <2>1, <2>2, <2>3, <3>1, WriteDone
  <2>7. LimitInv'
    <3>1. \A t \in Sectors : Unspoilt(t)
      BY <1>0, <2>1, <2>4, <2>6 DEF Unspoilt, o
    <3>2. \A t \in Sectors :
              hdr'[t] = "VALID" => Cardinality(Named(slot'[t])) <= Limit
      BY <3>1, LimitKept
    <3>3. Named(slot[o]) \subseteq Named(slot[sector])
      BY <2>1 DEF RoomInv, LimitInv, CopyPcs, o
    <3>4. Named(slot'[o]) \subseteq Named(slot[o]) \union {rec.key}
      BY <2>6 DEF Named, LiveIn
    <3>5. Named(slot'[o]) \subseteq Named(slot'[sector])
      BY <2>5, <2>6, <3>3, <3>4
    <3> QED BY <2>3, <2>4, <3>2, <3>5 DEF LimitInv, SwapPcs, o
  <2>8. GapInv'
    <3>1. /\ dst_idx \in Nat /\ src_idx \in Nat
          /\ Passed(src_idx) => dst_idx < src_idx
      BY <1>0, <2>1 DEF TypeOK, RoomInv, GapInv
    <3>2. ASSUME NEW d \in Slots, d < src_idx + 1,
                 ~Live(slot'[sector][d])
          PROVE  Passed(src_idx)
      <4>1. d # src_idx
        BY <2>1, <2>6, <3>2 DEF rec
      <4>2. d < src_idx
        BY <3>1, <3>2, <4>1 DEF Slots
      <4> QED BY <2>6, <3>2, <4>2 DEF Passed
    <3>3. Passed(src_idx)' => Passed(src_idx)
      BY <2>4, <3>2 DEF Passed
    <3>4. Passed(src_idx) => dst_idx + 1 < src_idx + 1
      BY <3>1
    <3> QED BY <2>3, <2>4, <3>3, <3>4 DEF GapInv
  <2> QED BY <2>3, <2>7, <2>8 DEF RoomInv, FillInv, FreeInv
<1>14. CASE MoveMark
  <2> DEFINE o == Other(sector)
  <2>1. /\ sector \in Sectors /\ o \in Sectors /\ o # sector
        /\ pc = "move_mark" /\ hdr[o] = "INITIALIZING"
    BY <1>0, <1>14
       DEF MoveMark, InUseInv, ControlInv, BootPcs, CopyPcs, MovePcs
  <2>2. PICK good \in BOOLEAN : TryMark(o, dst_idx, "INVALID", good)
    BY <1>14 DEF MoveMark
  <2>3. /\ sector' = sector /\ src_idx' = src_idx /\ pc' = "move_copy"
        /\ dst_idx' = dst_idx + 1
    BY <1>14 DEF MoveMark, Goto, ram
  <2>4. slot'[sector] = slot[sector]
    BY <1>0, <2>1, <2>2 DEF TryMark, MarkSlot, FlashType, flash
  <2> HIDE DEF o
  <2>5. \A k \in Keys : LiveIn(slot'[o], k) \subseteq LiveIn(slot[o], k)
    <3>1. /\ \A j \in Slots : j # dst_idx => slot'[o][j] = slot[o][j]
          /\ dst_idx \in Slots =>
                /\ slot'[o][dst_idx].key = slot[o][dst_idx].key
                /\ Live(slot'[o][dst_idx]) => Live(slot[o][dst_idx])
      BY <1>0, <2>1, <2>2, MarkInvalidDone
    <3> QED BY <3>1 DEF LiveIn
  <2>6. LimitInv'
    <3>1. \A t \in Sectors : Unspoilt(t)
      BY <1>0, <2>1, <2>2, MarkUnspoilt
    <3>2. \A t \in Sectors :
              hdr'[t] = "VALID" => Cardinality(Named(slot'[t])) <= Limit
      BY <3>1, LimitKept
    <3>3. Named(slot[o]) \subseteq Named(slot[sector])
      BY <2>1 DEF RoomInv, LimitInv, CopyPcs, o
    <3>4. Named(slot'[o]) \subseteq Named(slot[o])
      BY <2>5, NamedWithin
    <3>5. Named(slot'[o]) \subseteq Named(slot'[sector])
      BY <2>4, <3>3, <3>4
    <3> QED BY <2>3, <3>2, <3>5 DEF LimitInv, SwapPcs, o
  <2>7. GapInv'
    <3>1. Passed(src_idx)' => Passed(src_idx)
      BY <2>3, <2>4 DEF Passed
    <3>2. Passed(src_idx) => dst_idx + 1 < src_idx
      BY <2>1 DEF RoomInv, GapInv
    <3> QED BY <2>3, <3>1, <3>2 DEF GapInv
  <2> QED BY <2>3, <2>6, <2>7 DEF RoomInv, FillInv, FreeInv
<1>15. CASE Rebuild \/ Construct
  <2>1. /\ sector \in Sectors /\ ConstructLookupTable(sector)
        /\ sector' = sector
        /\ \/ pc = "rebuild" /\ pc' = "erase_src"
           \/ pc' = "idle"
    BY <1>0, <1>15
       DEF Rebuild, Construct, ControlInv, BootPcs, TailPcs, Goto, Return
  <2>2. UNCHANGED hdr
    BY <2>1 DEF ConstructLookupTable
  <2>3. /\ slot'[Other(sector)] = slot[Other(sector)]
        /\ \A k \in Keys : LiveIn(slot'[sector], k) = LiveIn(slot[sector], k)
    BY <1>0, <2>1, ConstructDone
  <2>4. \A t \in Sectors : Unspoilt(t)
    BY <1>0, <2>1, <2>2, <2>3 DEF Unspoilt
  <2>5. CASE pc' = "idle"
    BY <2>4, <2>5, RoomKept DEF RoomPcs, CopyPcs, SwapPcs
  <2>6. CASE pc = "rebuild" /\ pc' = "erase_src"
    <3> DEFINE used == {i \in Slots : slot[sector][i].flags # "EMPTY"}
    <3>1. next_idx' = IF used = {} THEN 0 ELSE Highest(used) + 1
      BY <2>1 DEF ConstructLookupTable
    <3>2. used \subseteq Slots /\ MaxRecords - 1 \notin used
      BY <2>6 DEF RoomInv, FreeInv, Blank
    <3> HIDE DEF used
    <3>3. used # {} => Highest(used) \in used
      BY <3>2, HighestSlot
    <3>4. next_idx' \in Slots
      <4>1. 0 \in Slots
        BY DEF Slots
      <4>2. used # {} => Highest(used) + 1 \in Slots
        <5>1. used # {} => Highest(used) \in Slots
                           /\ Highest(used) # MaxRecords - 1
          BY <3>2, <3>3
        <5> QED BY <1>0, <5>1 DEF Slots
      <4> QED BY <3>1, <4>1, <4>2
    <3>5. LimitInv'
      <4>1. \A t \in Sectors :
                hdr'[t] = "VALID" => Cardinality(Named(slot'[t])) <= Limit
        BY <2>4, LimitKept
      <4> QED BY <2>6, <4>1 DEF LimitInv, CopyPcs, SwapPcs
    <3> QED BY <2>6, <3>4, <3>5 DEF RoomInv, FillInv, GapInv, FreeInv
  <2> QED BY <2>1, <2>5, <2>6
<1>16. CASE EraseSource
  <2>1. /\ Other(sector) \in Sectors /\ pc = "erase_src"
        /\ UNCHANGED <<sector, next_idx>>
        /\ pc' \in {"construct", "idle", "record_set"}
    BY <1>0, <1>16 DEF EraseSource, ControlInv, BootPcs, TailPcs, Return,
                       Goto, ram
  <2>2. PICK good \in BOOLEAN : TryErase(Other(sector), good)
    BY <1>16 DEF EraseSource
  <2>3. \A t \in Sectors : Unspoilt(t)
    BY <1>0, <2>1, <2>2, EraseUnspoilt
  <2>4. LimitInv'
    <3>1. \A t \in Sectors :
              hdr'[t] = "VALID" => Cardinality(Named(slot'[t])) <= Limit
      BY <2>3, LimitKept
    <3> QED BY <2>1, <3>1 DEF LimitInv, CopyPcs, SwapPcs
  <2> QED BY <2>1, <2>4 DEF RoomInv, FillInv, GapInv, FreeInv
<1>17. CASE MoveErase \/ Reset1 \/ Reset2 \/ InitErase \/ FormatErase
  <2>1. PICK s \in Sectors, good \in BOOLEAN :
            /\ TryErase(s, good)
            /\ good => pc' \notin RoomPcs
    BY <1>0, <1>17
       DEF MoveErase, Reset1, Reset2, InitErase, FormatErase, Goto,
           ControlInv, BootPcs, Sectors, RoomPcs, CopyPcs, SwapPcs
  <2>2. good /\ \A t \in Sectors : Unspoilt(t)
    BY <1>0, <2>1, EraseDone, EraseUnspoilt
  <2> QED BY <2>1, <2>2, RoomKept
<1>18. CASE \/ InitUnknown("init1", 1, "init2")
            \/ InitUnknown("init2", 2, "init_sectors")
  <2>1. \/ UNCHANGED <<hdr, slot>>
        \/ \E s \in Sectors, good \in BOOLEAN : TryErase(s, good)
    BY <1>18 DEF InitUnknown, Sectors, flash
  <2>2. \A t \in Sectors : Unspoilt(t)
    BY <1>0, <2>1, EraseUnspoilt, KeptUnspoilt
  <2>3. pc' \notin RoomPcs
    BY <1>18 DEF InitUnknown, Goto, RoomPcs, CopyPcs, SwapPcs
  <2> QED BY <2>2, <2>3, RoomKept
<1>19. CASE FormatValid
  <2>1. /\ sector \in Sectors /\ hdr[sector] = "EMPTY"
        /\ slot[sector] = Erased
    BY <1>0, <1>19 DEF FormatValid, BootInv, ControlInv, BlankInv
  <2>2. PICK good \in BOOLEAN : TryHeader(sector, "VALID", good)
    BY <1>19 DEF FormatValid
  <2>3. Stamped(sector, "VALID") /\ slot' = slot
    BY <1>0, <2>1, <2>2, HeaderDone DEF Formatted
  <2>4. pc' = "construct"
    BY <1>19 DEF FormatValid, Goto
  <2>5. Named(slot[sector]) = {}
    BY <2>1, ErasedNotLive DEF Named
  <2>6. \A t \in Sectors :
            hdr'[t] = "VALID" => Cardinality(Named(slot'[t])) <= Limit
    <3>1. Cardinality(Named(slot[sector])) <= Limit
      BY <2>5, FS_EmptySet, LimitBound
    <3>2. \A t \in Sectors : t # sector => hdr'[t] = hdr[t]
      BY <1>0, <2>1, <2>3 DEF Stamped
    <3> QED BY <2>3, <3>1, <3>2 DEF RoomInv, LimitInv
  <2> QED BY <2>4, <2>6
      DEF RoomInv, LimitInv, FillInv, GapInv, FreeInv, CopyPcs, SwapPcs
<1>20. ~PowerFailure
  BY <1>0
     DEF PowerFailure, Crash, CrashInWrite, CrashInHeader, CrashInErase,
         PowerOff, TypeOK, NoLeftovers
<1> QED BY <1>1, <1>2, <1>3, <1>4, <1>5, <1>6, <1>7, <1>8, <1>9, <1>10, <1>11,
           <1>12, <1>13, <1>14, <1>15, <1>16, <1>17, <1>18, <1>19, <1>20
        DEF Next, Call, Step

\* From a load on, the counters are those of the sector in use.
StatPcs == {"idle", "mark_deleted", "erase_src"} \union SetPcs

CountInv ==
    /\ pc \in StatPcs =>
        /\ stat.inuse = Cardinality(Flagged(slot[sector], "VALID"))
        /\ stat.invalid = Cardinality(Flagged(slot[sector], "INVALID"))
    /\ pc = "mark_bad" =>
            slot[sector][next_idx].flags \notin {"VALID", "INVALID"}

LEMMA CountInit == Init => CountInv
BY DEF Init, CountInv, StatPcs, SetPcs

\* A step that changes no flags that are counted.
LEMMA CountKept ==
    ASSUME CountInv, pc \in StatPcs, sector' = sector,
           stat'.inuse = stat.inuse, stat'.invalid = stat.invalid,
           pc' = "mark_bad" =>
                slot'[sector][next_idx'].flags \notin {"VALID", "INVALID"},
           \A i \in Slots :
                \/ slot'[sector][i].flags = slot[sector][i].flags
                \/ /\ slot'[sector][i].flags \notin {"VALID", "INVALID"}
                   /\ slot[sector][i].flags \notin {"VALID", "INVALID"}
    PROVE  CountInv'
<1>1. /\ Flagged(slot'[sector], "VALID") = Flagged(slot[sector], "VALID")
      /\ Flagged(slot'[sector], "INVALID") = Flagged(slot[sector], "INVALID")
  BY DEF Flagged
<1> QED BY <1>1 DEF CountInv

\* A record write leaves the slot erased, or with the record's flags.
LEMMA WriteFlags ==
    ASSUME FlashType, NEW s \in Sectors, NEW i, NEW rec \in Records,
           NEW good \in BOOLEAN, TryWrite(s, i, rec, good),
           i \in Slots => slot[s][i] = Blank
    PROVE  /\ \A j \in Slots : j # i => slot'[s][j] = slot[s][j]
           /\ i \in Slots => slot'[s][i].flags \in {"EMPTY", rec.flags}
<1>1. CASE good
  <2>1. i \in Slots /\ ProgramSlot(s, i, rec)
    BY <1>1 DEF TryWrite
  <2> QED BY <2>1, ProgramDone
<1>2. CASE UNCHANGED flash
  BY <1>2 DEF flash, Blank
<1>3. CASE i \in Slots /\ ProgramSlot(s, i, [rec EXCEPT !.ok = FALSE])
  <2> DEFINE torn == [rec EXCEPT !.ok = FALSE]
  <2>1. torn.flags = rec.flags
    BY DEF Records
  <2>2. ProgramSlot(s, i, torn)
    BY <1>3
  <2> HIDE DEF torn
  <2>3. /\ \A j \in Slots : j # i => slot'[s][j] = slot[s][j]
        /\ slot'[s][i] = torn
    BY <1>3, <2>2, ProgramDone
  <2> QED BY <2>1, <2>3
<1> QED BY <1>1, <1>2, <1>3 DEF TryWrite, flash

\* A flag write takes a slot from one count to another.
LEMMA CountMarked ==
    ASSUME NoLeftovers, FlashType, NEW s \in Sectors, NEW i \in Slots,
           NEW f \in {"VALID", "INVALID"}, NEW good \in BOOLEAN,
           TryMark(s, i, f, good), slot[s][i].flags # "INVALID"
    PROVE  /\ good
           /\ \A g : Cardinality(Flagged(slot'[s], g)) =
                         Cardinality(Flagged(slot[s], g))
                             + (IF g = f THEN 1 ELSE 0)
                             - (IF slot[s][i].flags = g THEN 1 ELSE 0)
<1>1. good /\ MarkSlot(s, i, f)
  BY DEF TryMark, Fault, NoLeftovers
<1>2. FlagsAnd(slot[s][i].flags, f) = f
  BY DEF FlagsAnd
<1>3. /\ \A j \in Slots : j # i => slot'[s][j] = slot[s][j]
      /\ slot'[s][i].flags = f
  BY <1>1, <1>2, MarkDone
<1>4. ASSUME NEW g
      PROVE  Cardinality(Flagged(slot'[s], g)) =
                 Cardinality(Flagged(slot[s], g))
                     + (IF f = g THEN 1 ELSE 0)
                     - (IF slot[s][i].flags = g THEN 1 ELSE 0)
  <2>1. Cardinality(Flagged(slot'[s], g)) =
            Cardinality(Flagged(slot[s], g))
                + (IF slot'[s][i].flags = g THEN 1 ELSE 0)
                - (IF slot[s][i].flags = g THEN 1 ELSE 0)
    BY <1>3, Reflagged
  <2> QED BY <1>3, <2>1
<1>5. \A g : (IF g = f THEN 1 ELSE 0) = (IF f = g THEN 1 ELSE 0)
  OBVIOUS
<1> QED BY <1>1, <1>4, <1>5

\* construct_lookup_table() counts what it leaves.
LEMMA CountConstructed ==
    ASSUME FlashType, NEW s \in Sectors, ConstructLookupTable(s)
    PROVE  /\ stat'.inuse = Cardinality(Flagged(slot'[s], "VALID"))
           /\ stat'.invalid = Cardinality(Flagged(slot'[s], "INVALID"))
<1> DEFINE V == Flagged(slot[s], "VALID")
           I == Flagged(slot[s], "INVALID")
           B == {i \in Slots : slot[s][i].flags = "VALID" /\ ~slot[s][i].ok}
<1>1. /\ stat'.inuse = Cardinality(V) - Cardinality(B)
      /\ stat'.invalid = Cardinality(I) + Cardinality(B)
  BY DEF ConstructLookupTable, Flagged
<1>2. ASSUME NEW i \in Slots
      PROVE  /\ i \in B => slot'[s][i].flags = "INVALID"
             /\ i \notin B => slot'[s][i].flags = slot[s][i].flags
  BY ConstructSlot
<1>3. /\ Flagged(slot'[s], "VALID") = V \ B
      /\ Flagged(slot'[s], "INVALID") = I \union B
  BY <1>2 DEF Flagged
<1>4. V \intersect B = B /\ I \intersect B = {}
  BY DEF Flagged
<1>5. /\ IsFiniteSet(V) /\ Cardinality(V) \in Nat
      /\ IsFiniteSet(I) /\ Cardinality(I) \in Nat
  BY FlaggedFinite
<1>6. IsFiniteSet(B) /\ Cardinality(B) \in Nat
  BY <1>4, <1>5, FS_Subset, FS_CardinalityType
<1> HIDE DEF V, I, B
<1>7. Cardinality(V \ B) = Cardinality(V) - Cardinality(B)
  BY <1>4, <1>5, <1>6, FS_Difference
<1>8. Cardinality(I \union B) = Cardinality(I) + Cardinality(B) - 0
  BY <1>4, <1>5, <1>6, FS_Union, FS_EmptySet
<1>9. Cardinality(I) + Cardinality(B) - 0 = Cardinality(I) + Cardinality(B)
  BY <1>5, <1>6
<1> QED BY <1>1, <1>3, <1>7, <1>8, <1>9

LEMMA CountNext ==
    ASSUME NoLeftovers, StoreInv, SoleInv, RoomInv, CountInv, Next
    PROVE  CountInv'
<1> USE ConstantsAssumption
<1>0. /\ RecordFaults /\ FlashType /\ TypeOK /\ ControlInv /\ CursorInv
      /\ InUseInv /\ TailInv /\ TableInv
      /\ \A s \in Sectors : /\ Other(s) \in Sectors
                            /\ Other(s) # s
  BY NoLeftoverFaults, TypeFlash, OtherSector
     DEF StoreInv, TypeInv, HeadersInv, ErasedInv
<1>1. CASE pc' \notin StatPcs
  BY <1>1 DEF CountInv, StatPcs, SetPcs
<1>2. CASE \/ \E k \in Keys, v \in Vals : RecordSet(k, v) \/ EntryData(k, v)
           \/ \E k \in Keys : EntrySave(k) \/ RecordDelete(k)
           \/ RecordSetCheck
  <2>1. /\ pc \in StatPcs /\ pc' # "mark_bad"
        /\ UNCHANGED <<slot, sector, stat>>
    BY <1>2
       DEF RecordSet, EntryData, EntrySave, StartWrite, SwapEntry,
           RecordDelete, RecordSetCheck, Return, Goto, StatPcs, SetPcs,
           flash, ram
  <2> QED BY <2>1, CountKept
<1>3. CASE EraseSource
  <2>1. /\ sector \in Sectors /\ pc \in StatPcs /\ pc' # "mark_bad"
        /\ UNCHANGED <<sector, stat>>
    BY <1>0, <1>3 DEF EraseSource, Return, Goto, StatPcs, ControlInv,
                      BootPcs, ram
  <2>2. PICK good \in BOOLEAN : TryErase(Other(sector), good)
    BY <1>3 DEF EraseSource
  <2>3. EraseSector(Other(sector))
    BY <1>0, <2>1, <2>2, EraseDone
  <2>4. slot'[sector] = slot[sector]
    BY <1>0, <2>1, <2>3 DEF EraseSector, FlashType
  <2> QED BY <2>1, <2>4, CountKept
<1>4. CASE RecordSetWrite
  <2> DEFINE rec == Record("NEW", key, val)
  <2>1. /\ sector \in Sectors /\ rec \in Records /\ next_idx \in Slots
        /\ slot[sector][next_idx] = Blank
    BY <1>0, <1>4, RecordType
       DEF RecordSetWrite, ControlInv, BootPcs, TypeOK, RecordFlags, TailInv,
           BlankFrom, Slots, SetPcs, RoomInv, FreeInv
  <2>2. PICK good \in BOOLEAN : TryWrite(sector, next_idx, rec, good)
    BY <1>4 DEF RecordSetWrite
  <2>3. pc \in StatPcs /\ UNCHANGED <<sector, next_idx, stat>>
    BY <1>4 DEF RecordSetWrite, StatPcs, SetPcs, ram
  <2>4. rec.flags = "NEW" /\ Blank.flags = "EMPTY"
    BY DEF Record, Blank
  <2> HIDE DEF rec
  <2>5. /\ \A j \in Slots : j # next_idx =>
                slot'[sector][j] = slot[sector][j]
        /\ slot'[sector][next_idx].flags \in {"EMPTY", "NEW"}
    BY <1>0, <2>1, <2>2, <2>4, WriteFlags
  <2>6. slot[sector][next_idx].flags = "EMPTY"
    BY <2>1, <2>4
  <2> QED BY <2>3, <2>5, <2>6, CountKept
<1>5. CASE RecordSetMarkBad
  <2>1. /\ sector \in Sectors /\ next_idx \in Slots /\ pc = "mark_bad"
        /\ pc' = "idle" /\ sector' = sector
        /\ stat' = [inuse |-> stat.inuse, invalid |-> stat.invalid + 1,
                    error |-> stat.error + 1]
    BY <1>0, <1>5
       DEF RecordSetMarkBad, ControlInv, BootPcs, RoomInv, FreeInv, TypeOK,
           Return, Count
  <2>2. PICK good \in BOOLEAN : TryMark(sector, next_idx, "INVALID", good)
    BY <1>5 DEF RecordSetMarkBad
  <2>3. slot[sector][next_idx].flags \notin {"VALID", "INVALID"}
    BY <2>1 DEF CountInv
  <2>4. \A g : Cardinality(Flagged(slot'[sector], g)) =
                   Cardinality(Flagged(slot[sector], g))
                       + (IF g = "INVALID" THEN 1 ELSE 0)
                       - (IF slot[sector][next_idx].flags = g THEN 1 ELSE 0)
    BY <1>0, <2>1, <2>2, <2>3, CountMarked
  <2>5. /\ Cardinality(Flagged(slot'[sector], "VALID")) =
               Cardinality(Flagged(slot[sector], "VALID"))
        /\ Cardinality(Flagged(slot'[sector], "INVALID")) =
               Cardinality(Flagged(slot[sector], "INVALID")) + 1
    BY <2>3, <2>4, FlaggedFinite
  <2> QED BY <2>1, <2>5 DEF CountInv, StatPcs, SetPcs
<1>6. CASE RecordSetValid
  <2>1. /\ sector \in Sectors /\ next_idx \in Slots /\ pc = "set_valid"
        /\ slot[sector][next_idx] = Record("NEW", key, val)
        /\ sector' = sector
    BY <1>0, <1>6 DEF RecordSetValid, ControlInv, BootPcs, CursorInv, TableInv
  <2>2. PICK good \in BOOLEAN :
            /\ TryMark(sector, next_idx, "VALID", good)
            /\ Count(IF good THEN 1 ELSE 0, 0, 0)
            /\ pc' \in {"idle", "mark_old"}
    BY <1>6 DEF RecordSetValid, Return, Goto
  <2>3. slot[sector][next_idx].flags = "NEW"
    BY <2>1 DEF Record
  <2>4. /\ good
        /\ \A g : Cardinality(Flagged(slot'[sector], g)) =
                      Cardinality(Flagged(slot[sector], g))
                          + (IF g = "VALID" THEN 1 ELSE 0)
                          - (IF slot[sector][next_idx].flags = g
                             THEN 1 ELSE 0)
    BY <1>0, <2>1, <2>2, <2>3, CountMarked
  <2>5. /\ Cardinality(Flagged(slot'[sector], "VALID")) =
               Cardinality(Flagged(slot[sector], "VALID")) + 1
        /\ Cardinality(Flagged(slot'[sector], "INVALID")) =
               Cardinality(Flagged(slot[sector], "INVALID"))
    BY <2>3, <2>4, FlaggedFinite
  <2>6. stat'.inuse = stat.inuse + 1 /\ stat'.invalid = stat.invalid
    BY <1>0, <2>2, <2>4 DEF Count, TypeOK
  <2> QED BY <2>1, <2>2, <2>5, <2>6 DEF CountInv, StatPcs, SetPcs
<1>7. ASSUME NEW good \in BOOLEAN, TryMark(sector, idx[key], "INVALID", good),
             sector \in Sectors, idx[key] \in Slots,
             slot[sector][idx[key]].flags = "VALID",
             pc \in StatPcs, pc' = "idle", sector' = sector,
             \/ Count(-1, 1, 0)
             \/ good => Count(IF stat.inuse > 0 THEN -1 ELSE 0, 1, 0)
      PROVE  CountInv'
  <2>1. /\ good
        /\ \A g : Cardinality(Flagged(slot'[sector], g)) =
                      Cardinality(Flagged(slot[sector], g))
                          + (IF g = "INVALID" THEN 1 ELSE 0)
                          - (IF slot[sector][idx[key]].flags = g
                             THEN 1 ELSE 0)
    BY <1>0, <1>7, CountMarked
  <2>2. /\ Cardinality(Flagged(slot[sector], "VALID")) \in Nat
        /\ Cardinality(Flagged(slot'[sector], "VALID")) \in Nat
        /\ Cardinality(Flagged(slot[sector], "INVALID")) \in Nat
    BY FlaggedFinite
  <2>3. /\ Cardinality(Flagged(slot'[sector], "VALID")) =
               Cardinality(Flagged(slot[sector], "VALID")) - 1
        /\ Cardinality(Flagged(slot'[sector], "INVALID")) =
               Cardinality(Flagged(slot[sector], "INVALID")) + 1
    BY <1>7, <2>1, <2>2
  <2>4. stat.inuse = Cardinality(Flagged(slot[sector], "VALID"))
        /\ stat.invalid = Cardinality(Flagged(slot[sector], "INVALID"))
    BY <1>7 DEF CountInv
  <2>5. stat.inuse > 0
    BY <2>2, <2>3, <2>4
  <2>6. Count(-1, 1, 0)
    BY <1>7, <2>1, <2>5
  <2>7. stat'.inuse = stat.inuse - 1 /\ stat'.invalid = stat.invalid + 1
    BY <1>0, <2>6 DEF Count, TypeOK
  <2> QED BY <1>7, <2>3, <2>4, <2>7 DEF CountInv
<1>8. CASE RecordSetMarkOld
  <2>1. /\ sector \in Sectors /\ pc = "mark_old" /\ pc' = "idle"
        /\ sector' = sector /\ Count(-1, 1, 0)
    BY <1>0, <1>8 DEF RecordSetMarkOld, ControlInv, BootPcs, Return
  <2>2. \E good \in BOOLEAN : TryMark(sector, idx[key], "INVALID", good)
    BY <1>8 DEF RecordSetMarkOld
  <2>3. idx[key] \in LiveIn(slot[sector], key)
    BY <2>1 DEF SoleInv, SoleInUse
  <2>4. idx[key] \in Slots /\ slot[sector][idx[key]].flags = "VALID"
    BY <2>3 DEF LiveIn, Live
  <2> QED BY <1>7, <2>1, <2>2, <2>4 DEF StatPcs, SetPcs
<1>9. CASE RecordDeleteMark
  <2>1. /\ sector \in Sectors /\ key \in Keys /\ pc = "mark_deleted"
        /\ pc' = "idle" /\ sector' = sector
    BY <1>0, <1>9 DEF RecordDeleteMark, ControlInv, BootPcs, Return
  <2>2. PICK good \in BOOLEAN :
            /\ TryMark(sector, idx[key], "INVALID", good)
            /\ IF good THEN Count(IF stat.inuse > 0 THEN -1 ELSE 0, 1, 0)
                       ELSE stat' = stat
    BY <1>9 DEF RecordDeleteMark
  <2>3. CASE good
    <3>1. idx[key] \in Slots
      BY <2>2, <2>3 DEF TryMark
    <3>2. key \in Entries
      BY <2>1, <3>1 DEF Entries, Slots, NoIdx
    <3>3. slot[sector][idx[key]].flags = "VALID"
      BY <1>0, <2>1, <3>2 DEF TableInv, TablePcs, Newest, LiveIn, Live
    <3> QED BY <1>7, <2>1, <2>2, <2>3, <3>1, <3>3 DEF StatPcs
  <2>4. CASE ~good
    <3>1. slot' = slot /\ stat' = stat
      BY <2>2, <2>4 DEF TryMark, flash
    <3> QED BY <2>1, <3>1, CountKept DEF StatPcs
  <2> QED BY <2>3, <2>4
<1>10. CASE SwapValid
  <2> DEFINE o == Other(sector)
  <2>1. /\ sector \in Sectors /\ o \in Sectors /\ pc = "swap_valid"
        /\ hdr[o] = "INITIALIZING" /\ todo = {}
        /\ BlankFrom(o, dst_idx)
    BY <1>0, <1>10
       DEF SwapValid, InUseInv, ControlInv, BootPcs, CopyPcs, TailInv,
           CursorInv
  <2>2. PICK good \in BOOLEAN :
            /\ TryHeader(o, "VALID", good)
            /\ good => sector' = o
            /\ good => IF pc' = "erase_src"
                       THEN stat' = [inuse |-> Cardinality(Entries),
                                     invalid |-> 0, error |-> 0]
                       ELSE pc' = "rebuild"
    BY <1>10 DEF SwapValid, Goto
  <2>3. good /\ slot' = slot
    BY <1>0, <2>1, <2>2, HeaderDone DEF Formatted
  <2>4. CASE pc' = "erase_src"
    <3>1. dst_idx \in Nat /\ dst_idx <= MaxRecords
      BY <1>0 DEF TypeOK
    <3>2. dst_idx = Cardinality(Entries)
      <4>1. dst_idx + Cardinality(todo) = Cardinality(Entries)
        BY <2>1 DEF RoomInv, FillInv
      <4>2. Cardinality(todo) = 0
        BY <2>1, FS_EmptySet
      <4> QED BY <3>1, <4>1, <4>2
    <3>3. \A i \in Slots : i < dst_idx => slot[o][i].flags = "VALID"
      BY <2>1 DEF RoomInv, FillInv
    <3>4. \A i \in Slots : ~(i < dst_idx) => slot[o][i].flags = "EMPTY"
      BY <2>1, <3>1 DEF BlankFrom, Blank, Slots
    <3>5. Flagged(slot[o], "VALID") = 0 .. (dst_idx - 1)
      <4>1. \A i : i \in 0 .. (dst_idx - 1) <=> i \in Slots /\ i < dst_idx
        BY <3>1 DEF Slots
      <4> QED BY <3>3, <3>4, <4>1 DEF Flagged
    <3>6. Flagged(slot[o], "INVALID") = {}
      BY <3>3, <3>4 DEF Flagged
    <3>7. Cardinality(0 .. (dst_idx - 1)) = dst_idx
      <4>1. 0 \in Int /\ dst_idx - 1 \in Int
            /\ (IF 0 > dst_idx - 1 THEN 0 ELSE (dst_idx - 1) - 0 + 1) = dst_idx
        BY <3>1
      <4> QED BY <4>1, FS_Interval
    <3>8. stat'.inuse = dst_idx /\ stat'.invalid = 0
      BY <2>2, <2>3, <2>4, <3>2
    <3>9. sector' = o
      BY <2>2, <2>3
    <3> HIDE DEF o
    <3> QED BY <2>3, <2>4, <3>5, <3>6, <3>7, <3>8, <3>9, FS_EmptySet
        DEF CountInv
  <2>5. CASE pc' # "erase_src"
    BY <1>1, <2>2, <2>3, <2>5 DEF StatPcs, SetPcs
  <2> QED BY <2>4, <2>5
<1>11. CASE Rebuild \/ Construct
  <2>1. /\ sector \in Sectors /\ ConstructLookupTable(sector)
        /\ sector' = sector /\ pc' # "mark_bad"
    BY <1>0, <1>11 DEF Rebuild, Construct, ControlInv, BootPcs, Return, Goto
  <2>2. /\ stat'.inuse = Cardinality(Flagged(slot'[sector], "VALID"))
        /\ stat'.invalid = Cardinality(Flagged(slot'[sector], "INVALID"))
    BY <1>0, <2>1, CountConstructed
  <2> QED BY <2>1, <2>2 DEF CountInv
<1>12. CASE SwapErase
  BY <1>0, <1>12 DEF SwapErase, InUseInv
<1>13. CASE SwapInit \/ MoveInit \/ MoveValid
  <2>1. /\ sector \in Sectors
        /\ hdr[Other(sector)] \in {"EMPTY", "INITIALIZING"}
    BY <1>0, <1>13
       DEF SwapInit, MoveInit, MoveValid, InUseInv, ControlInv, BootPcs,
           CopyPcs
  <2>2. PICK f \in Formatted, good \in BOOLEAN :
            /\ TryHeader(Other(sector), f, good)
            /\ good => pc' \notin StatPcs
    BY <1>13 DEF SwapInit, MoveInit, MoveValid, Goto, StatPcs, SetPcs,
                 Formatted
  <2>3. good
    BY <1>0, <2>1, <2>2, HeaderDone
  <2> QED BY <1>1, <2>2, <2>3
<1>14. CASE MoveErase
  <2>1. sector \in Sectors
    BY <1>0, <1>14 DEF MoveErase, ControlInv, BootPcs
  <2>2. PICK good \in BOOLEAN :
            /\ TryErase(Other(sector), good)
            /\ good => pc' \notin StatPcs
    BY <1>14 DEF MoveErase, Goto, StatPcs, SetPcs
  <2>3. good
    BY <1>0, <2>1, <2>2, EraseDone
  <2> QED BY <1>1, <2>2, <2>3
<1>15. CASE \/ Boot \/ Repair \/ (\E o \in Ops : Reset(o)) \/ Unload
            \/ SwapCopy \/ MoveEnd \/ MoveSkip \/ MoveCopy \/ MoveMark
            \/ Reset1 \/ Reset2 \/ Load
            \/ InitUnknown("init1", 1, "init2")
            \/ InitUnknown("init2", 2, "init_sectors")
            \/ InitSectors \/ InitErase \/ FormatErase \/ FormatValid
  <2>1. pc' \notin StatPcs
    BY <1>15
       DEF Boot, Repair, Reset, Unload, SwapCopy, MoveEnd, MoveSkip,
           MoveCopy, MoveMark, MoveEntry, Reset1, Reset2, Load, InitUnknown,
           InitSectors, InitErase, FormatErase, FormatValid, Goto, StatPcs,
           SetPcs
  <2> QED BY <1>1, <2>1
<1>16. ~PowerFailure
  BY <1>0
     DEF PowerFailure, Crash, CrashInWrite, CrashInHeader, CrashInErase,
         PowerOff, TypeOK, NoLeftovers
<1> QED BY <1>2, <1>3, <1>4, <1>5, <1>6, <1>8, <1>9, <1>10, <1>11, <1>12,
           <1>13, <1>14, <1>15, <1>16
        DEF Next, Call, Step

CountedInv == SoundInv /\ KeyInv /\ RoomInv /\ CountInv

LEMMA CountedNext ==
    ASSUME NoLeftovers, CountedInv, [Next]_vars
    PROVE  CountedInv'
<1>1. SoundInv'
  BY SoundNext, NoLeftoverFaults DEF CountedInv, TableUse
<1>2. CASE UNCHANGED vars
  <2>1. KeyInv'
    BY <1>2 DEF CountedInv, KeyInv, vars, flash
  <2>2. RoomInv'
    <3>1. LimitInv' /\ FillInv'
      BY <1>2 DEF CountedInv, RoomInv, LimitInv, FillInv, Entries, vars, flash,
                  ram, copy
    <3>2. GapInv' /\ FreeInv'
      BY <1>2 DEF CountedInv, RoomInv, GapInv, FreeInv, Passed, vars, flash,
                  ram, copy
    <3> QED BY <3>1, <3>2 DEF RoomInv
  <2>3. CountInv'
    BY <1>2 DEF CountedInv, CountInv, vars, flash, ram
  <2> QED BY <1>1, <2>1, <2>2, <2>3 DEF CountedInv
<1>3. CASE Next
  <2>1. StoreInv /\ StrayInv /\ SoleInv
    BY DEF CountedInv, SoundInv
  <2>2. KeyInv'
    BY <1>3, <2>1, KeyNext DEF CountedInv
  <2>3. RoomInv'
    BY <1>3, <2>1, RoomNext DEF CountedInv
  <2>4. CountInv'
    BY <1>3, <2>1, CountNext DEF CountedInv
  <2> QED BY <1>1, <2>2, <2>3, <2>4 DEF CountedInv
<1> QED BY <1>2, <1>3

\* The status reports the records of the sector in use as they are, through
\* swaps, repairs, deletions, resets and record writes that fail: a slot is
\* counted once whatever becomes of its record, and there always is a slot for
\* a record that is counted.
THEOREM StatusCorrect == ASSUME NoLeftovers PROVE Spec => []StatusIsExact
<1>1. Init => CountedInv
  BY SoundInit, RoomInit, CountInit DEF CountedInv
<1>2. CountedInv /\ [Next]_vars => CountedInv'
  BY CountedNext
<1>3. CountedInv => StatusIsExact
  BY DEF CountedInv, CountInv, StatPcs, Flagged, StatusIsExact
<1> QED BY <1>1, <1>2, <1>3, PTL DEF Spec
=============================================================================
