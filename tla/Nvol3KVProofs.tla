--------------------------- MODULE Nvol3KVProofs ---------------------------
(***************************************************************************)
(* Proofs about Nvol3: the volume implements the atomic map of KVStore,    *)
(* and where record writes fail a step loses at most one record for each.  *)
(***************************************************************************)
EXTENDS Nvol3StoreProofs, Nvol3KV

----------------------------------------------------------------------------
(* Where only record flag writes fail, power does not fail inside a header *)
(* or between the pages of an erase, and the caller neither deletes        *)
(* records nor changes cached data in place.                               *)

AtomicUse ==
    /\ Faults \subseteq {"flag"}
    /\ Ops \subseteq {"record_set", "repair", "reset", "delete", "unload"}

\* The value of key k among the slots c of a sector.
ValueIn(c, k) == IF LiveIn(c, k) = {} THEN None
                 ELSE c[Highest(LiveIn(c, k))].val

\* The value a boot would find: sector 1 goes before sector 2.
Value(k) == IF hdr[1] = "VALID" THEN ValueIn(slot[1], k)
            ELSE IF hdr[2] = "VALID" THEN ValueIn(slot[2], k)
            ELSE None

\* The request in progress, and what its steps cannot come to.
CallsInv ==
    /\ pc # "move_mark"
    /\ pc = "mark_bad" => next_idx \notin Slots
    /\ op \notin {"entry_save", "record_delete"}
    /\ op = "record_set" => val \in Vals
    /\ op # "record_set" => key = None /\ val = None
    /\ pc = "init_erase" => sector = 1 \/ hdr[1] # "VALID"
    /\ pc \in TailPcs => ~Loading

\* The used slots of a sector are its first ones: up to next_idx in the
\* sector in use, up to dst_idx in the destination of a copy.
UsedTo(s, n) == \A i \in Slots : i < n => slot[s][i].flags # "EMPTY"

FilledInv ==
    /\ \A s \in Sectors, i, j \in Slots :
            i < j /\ slot[s][j].flags # "EMPTY" => slot[s][i].flags # "EMPTY"
    /\ pc \in {"idle", "erase_src"} \union SetPcs => UsedTo(sector, next_idx)
    /\ pc \in {"swap_copy", "swap_valid", "move_copy"} =>
            UsedTo(Other(sector), dst_idx)

\* The lookup table has the newest record of key k, or k has none; the cache
\* has its value.
Exact(k) ==
    /\ IF idx[k] = NoIdx THEN LiveIn(slot[sector], k) = {}
       ELSE Newest(slot[sector], k, idx[k])
    /\ Cached => cache[k] = ValueIn(slot[sector], k)

ExactPcs == {"idle", "record_set", "write", "mark_bad", "set_valid",
             "erase_src", "swap_init"}

ExactInv ==
    /\ pc \in ExactPcs => \A k \in Keys : Exact(k)
    /\ pc = "mark_old" => \A k \in Keys \ {key} : Exact(k)

\* In a swap, a key that has been copied has its value in the destination,
\* under the slot its entry names, and any other key nothing.
Copied(k) ==
    LET src == slot[sector]
        dst == slot[Other(sector)]
    IN  /\ IF k \in Entries \ todo
           THEN Newest(dst, k, idx[k]) /\ ValueIn(dst, k) = ValueIn(src, k)
           ELSE LiveIn(dst, k) = {}
        /\ k \in todo => Newest(src, k, idx[k])
        /\ k \notin Entries => LiveIn(src, k) = {}
        /\ Cached => cache[k] = ValueIn(src, k)

CopiedInv ==
    pc \in {"swap_copy", "swap_valid"} => \A k \in Keys : Copied(k)

\* In a move, the destination has the values of the slots read so far.
Below(c, n) == [i \in Slots |-> IF i < n THEN c[i] ELSE Blank]

MovedInv ==
    pc = "move_copy" => \A k \in Keys :
        ValueIn(slot[Other(sector)], k) =
            ValueIn(Below(slot[sector], src_idx), k)

\* When a copy is complete, both sectors have the same values.
TwinInv ==
    pc \in {"move_valid"} \union TailPcs => \A k \in Keys :
        ValueIn(slot[Other(sector)], k) = ValueIn(slot[sector], k)

\* A volume is erased when a boot finds none on it or the caller wants it; a
\* reset that has erased both sectors leaves no value.
ResetInv ==
    /\ pc = "reset1" => \E s \in Sectors : hdr[s] # "VALID"
    /\ op = "boot" /\ pc \in {"reset1", "reset2"} =>
            \A s \in Sectors : hdr[s] # "VALID"
    /\ op = "reset" /\ pc \in BootPcs \ {"reset1", "reset2"} =>
            \A k \in Keys : Value(k) = None

CopyInv == /\ StoreInv /\ CallsInv /\ FilledInv /\ ExactInv
           /\ CopiedInv /\ MovedInv /\ TwinInv

AtomicInv == CopyInv /\ ResetInv

----------------------------------------------------------------------------
(* Values and what FLASH operations do to them.                            *)

LEMMA NewestOf ==
    ASSUME NEW c, NEW k, LiveIn(c, k) # {}
    PROVE  Newest(c, k, Highest(LiveIn(c, k)))
<1>1. LiveIn(c, k) \subseteq Slots
  BY DEF LiveIn
<1> QED BY <1>1, HighestSlot DEF Newest

LEMMA ValueNewest ==
    ASSUME NEW c, NEW k, NEW i, Newest(c, k, i)
    PROVE  ValueIn(c, k) = c[i].val
<1>1. LiveIn(c, k) # {}
  BY DEF Newest
<1> DEFINE h == Highest(LiveIn(c, k))
<1>2. Newest(c, k, h)
  BY <1>1, NewestOf
<1>3. ValueIn(c, k) = c[h].val
  BY <1>1 DEF ValueIn
<1> HIDE DEF h
<1>4. h \in Slots /\ i \in Slots /\ h <= i /\ i <= h
  BY <1>2 DEF Newest, LiveIn
<1>5. h = i
  BY <1>4 DEF Slots
<1> QED BY <1>3, <1>5

\* Two sectors with the same live records of a key have the same value of it.
Alike(c, d, k) ==
    /\ LiveIn(c, k) = LiveIn(d, k)
    /\ ValueIn(c, k) = ValueIn(d, k)
    /\ \A i \in Slots : Newest(c, k, i) <=> Newest(d, k, i)

LEMMA AlikeIn ==
    ASSUME NEW c, NEW d, NEW k, LiveIn(c, k) = LiveIn(d, k),
           \A i \in LiveIn(c, k) : c[i].val = d[i].val
    PROVE  Alike(c, d, k)
<1>1. ValueIn(c, k) = ValueIn(d, k)
  <2>1. CASE LiveIn(c, k) = {}
    BY <2>1 DEF ValueIn
  <2>2. CASE LiveIn(c, k) # {}
    <3>1. Highest(LiveIn(c, k)) \in LiveIn(c, k)
      BY <2>2, NewestOf DEF Newest
    <3> QED BY <2>2, <3>1 DEF ValueIn
  <2> QED BY <2>1, <2>2
<1>2. \A i \in Slots : Newest(c, k, i) <=> Newest(d, k, i)
  BY DEF Newest
<1> QED BY <1>1, <1>2 DEF Alike

\* A sector in which no live record comes or goes.
LEMMA Quiet ==
    ASSUME NEW s, NEW k,
           \A i \in Slots : \/ slot'[s][i] = slot[s][i]
                            \/ ~Live(slot[s][i]) /\ ~Live(slot'[s][i])
    PROVE  Alike(slot'[s], slot[s], k)
<1>1. LiveIn(slot'[s], k) = LiveIn(slot[s], k)
  BY SameLive
<1>2. ASSUME NEW i \in LiveIn(slot'[s], k)
      PROVE  slot'[s][i].val = slot[s][i].val
  BY DEF LiveIn
<1> QED BY <1>1, <1>2, AlikeIn

\* A record that becomes live behind all others is the newest of its key.
LEMMA Appended ==
    ASSUME NEW s, NEW n \in Slots, NEW k, Live(slot'[s][n]),
           slot'[s][n].key = k, ~Live(slot[s][n]),
           \A i \in Slots : i # n => slot'[s][i] = slot[s][i],
           \A i \in Slots : Live(slot[s][i]) => i <= n
    PROVE  /\ Newest(slot'[s], k, n)
           /\ ValueIn(slot'[s], k) = slot'[s][n].val
           /\ \A j : j # k => Alike(slot'[s], slot[s], j)
<1>1. Newest(slot'[s], k, n)
  <2>1. n \in LiveIn(slot'[s], k)
    BY DEF LiveIn
  <2>2. \A i \in LiveIn(slot'[s], k) : i <= n
    BY DEF LiveIn, Slots
  <2> QED BY <2>1, <2>2 DEF Newest
<1>2. ValueIn(slot'[s], k) = slot'[s][n].val
  BY <1>1, ValueNewest
<1>3. ASSUME NEW j, j # k PROVE Alike(slot'[s], slot[s], j)
  <2>1. LiveIn(slot'[s], j) = LiveIn(slot[s], j)
    BY <1>3 DEF LiveIn
  <2>2. \A i \in LiveIn(slot'[s], j) : slot'[s][i].val = slot[s][i].val
    BY <1>3 DEF LiveIn
  <2> QED BY <2>1, <2>2, AlikeIn
<1> QED BY <1>1, <1>2, <1>3

\* A record that is marked and is not the newest of its key is not missed.
LEMMA Retired ==
    ASSUME NEW s, NEW i \in Slots, NEW n \in Slots, i < n, NEW k,
           Newest(slot[s], k, n), slot[s][i].key = k, slot'[s][i].key = k,
           Live(slot'[s][i]) => Live(slot[s][i]),
           \A j \in Slots : j # i => slot'[s][j] = slot[s][j]
    PROVE  /\ Newest(slot'[s], k, n)
           /\ ValueIn(slot'[s], k) = ValueIn(slot[s], k)
           /\ \A j : j # k => Alike(slot'[s], slot[s], j)
<1>1. n # i /\ slot'[s][n] = slot[s][n]
  BY DEF Slots
<1>2. Newest(slot'[s], k, n)
  <2>1. n \in LiveIn(slot'[s], k)
    BY <1>1 DEF LiveIn, Newest
  <2>2. ASSUME NEW j \in LiveIn(slot'[s], k) PROVE j \in LiveIn(slot[s], k)
    BY <2>2 DEF LiveIn
  <2> QED BY <2>1, <2>2 DEF Newest
<1>3. ValueIn(slot'[s], k) = ValueIn(slot[s], k)
  <2>1. ValueIn(slot'[s], k) = slot'[s][n].val
    BY <1>2, ValueNewest
  <2>2. ValueIn(slot[s], k) = slot[s][n].val
    BY ValueNewest
  <2> QED BY <1>1, <2>1, <2>2
<1>4. ASSUME NEW j, j # k PROVE Alike(slot'[s], slot[s], j)
  <2>1. LiveIn(slot'[s], j) = LiveIn(slot[s], j)
    BY <1>4 DEF LiveIn
  <2>2. \A m \in LiveIn(slot'[s], j) : slot'[s][m].val = slot[s][m].val
    BY <1>4 DEF LiveIn
  <2> QED BY <2>1, <2>2, AlikeIn
<1> QED BY <1>2, <1>3, <1>4

\* An erased sector has no value.
LEMMA ErasedValue ==
    ASSUME NEW k
    PROVE  LiveIn(Erased, k) = {} /\ ValueIn(Erased, k) = None
<1>1. LiveIn(Erased, k) = {}
  BY BlankNotLive DEF LiveIn, Erased
<1> QED BY <1>1 DEF ValueIn

\* A move that has come to the end of the used slots has read them all.
LEMMA BelowAll ==
    ASSUME NEW c, NEW n, NEW k, \A i \in Slots : i < n \/ ~Live(c[i])
    PROVE  ValueIn(Below(c, n), k) = ValueIn(c, k)
<1> DEFINE b == Below(c, n)
<1>1. \A i \in Slots : b[i] = IF i < n THEN c[i] ELSE Blank
  BY DEF Below
<1> HIDE DEF b
<1>2. LiveIn(b, k) = LiveIn(c, k)
  BY <1>1, BlankNotLive DEF LiveIn
<1>3. \A i \in LiveIn(b, k) : b[i].val = c[i].val
  BY <1>1, BlankNotLive DEF LiveIn
<1> QED BY <1>2, <1>3, AlikeIn DEF Alike, b

\* Reading slot n: nothing comes of a record that is not live, and one that is
\* live is the newest of its key so far.
LEMMA BelowNext ==
    ASSUME NEW c, NEW n \in Slots, NEW k
    PROVE  /\ ~Live(c[n]) \/ c[n].key # k =>
                    ValueIn(Below(c, n + 1), k) = ValueIn(Below(c, n), k)
           /\ Live(c[n]) /\ c[n].key = k =>
                    ValueIn(Below(c, n + 1), k) = c[n].val
<1> DEFINE b == Below(c, n)
           d == Below(c, n + 1)
<1>1. /\ \A i \in Slots : b[i] = IF i < n THEN c[i] ELSE Blank
      /\ \A i \in Slots : d[i] = IF i < n + 1 THEN c[i] ELSE Blank
  BY DEF Below
<1>2. \A i \in Slots : i < n + 1 <=> (i < n \/ i = n)
  BY DEF Slots
<1> HIDE DEF b, d
<1>3. ASSUME ~Live(c[n]) \/ c[n].key # k PROVE ValueIn(d, k) = ValueIn(b, k)
  <2>1. LiveIn(d, k) = LiveIn(b, k)
    <3>1. ASSUME NEW i \in Slots
          PROVE  i \in LiveIn(d, k) <=> i \in LiveIn(b, k)
      <4>1. CASE i = n
        BY <1>1, <1>2, <1>3, <4>1, BlankNotLive DEF LiveIn, Slots
      <4>2. CASE i # n
        BY <1>1, <1>2, <4>2 DEF LiveIn
      <4> QED BY <4>1, <4>2
    <3> QED BY <3>1 DEF LiveIn
  <2>2. ASSUME NEW i \in LiveIn(d, k) PROVE d[i].val = b[i].val
    <3>1. i \in Slots /\ Live(b[i]) /\ Live(d[i])
      BY <2>1 DEF LiveIn
    <3> QED BY <1>1, <3>1, BlankNotLive
  <2> QED BY <2>1, <2>2, AlikeIn DEF Alike
<1>4. ASSUME Live(c[n]), c[n].key = k PROVE ValueIn(d, k) = c[n].val
  <2>1. n < n + 1 /\ d[n] = c[n]
    BY <1>1 DEF Slots
  <2>2. \A i \in LiveIn(d, k) : i <= n
    BY <1>1, <1>2, BlankNotLive DEF LiveIn, Slots
  <2>3. Newest(d, k, n)
    BY <1>4, <2>1, <2>2 DEF Newest, LiveIn
  <2> QED BY <2>1, <2>3, ValueNewest
<1> QED BY <1>3, <1>4 DEF b, d

\* Before anything is read.
LEMMA BelowNone ==
    ASSUME NEW c, NEW k
    PROVE  ValueIn(Below(c, 0), k) = None
<1>1. LiveIn(Below(c, 0), k) = {}
  BY BlankNotLive DEF LiveIn, Below, Slots
<1> QED BY <1>1 DEF ValueIn

----------------------------------------------------------------------------
(* The request in progress.                                                *)

\* A record write fails at the end of the sector only, and then does nothing.
LEMMA WriteSure ==
    ASSUME AtomicUse, NEW s, NEW i, NEW rec, NEW good \in BOOLEAN,
           TryWrite(s, i, rec, good)
    PROVE  \/ good /\ i \in Slots /\ ProgramSlot(s, i, rec)
           \/ ~good /\ i \notin Slots /\ UNCHANGED flash
BY DEF AtomicUse, TryWrite, Fault

LEMMA UseFaults == AtomicUse => RecordFaults
BY DEF AtomicUse, RecordFaults

LEMMA CallsInit == Init => CallsInv
BY DEF Init, CallsInv, TailPcs, Loading

\* In a copy the record being read lies behind the slot being written.
LEMMA MoveSure ==
    ASSUME AtomicUse, TypeInv, MoveCopy
    PROVE  /\ src_idx \in Slots /\ dst_idx \in Slots
           /\ Live(slot[sector][src_idx])
           /\ ProgramSlot(Other(sector), dst_idx, slot[sector][src_idx])
           /\ pc = "move_copy" /\ pc' = "move_copy"
           /\ dst_idx' = dst_idx + 1 /\ src_idx' = src_idx + 1
           /\ sector' = sector
<1>1. /\ src_idx \in Slots /\ Live(slot[sector][src_idx])
      /\ pc = "move_copy"
      /\ src_idx' = src_idx + 1
      /\ sector' = sector
  BY DEF MoveCopy, MoveAtEnd, Live, ram
<1>2. dst_idx \in Slots
  BY <1>1, ConstantsAssumption DEF TypeInv, TypeOK, CursorInv, Slots
<1>3. PICK good \in BOOLEAN :
          /\ TryWrite(Other(sector), dst_idx, slot[sector][src_idx], good)
          /\ dst_idx' = IF good THEN dst_idx + 1 ELSE dst_idx
          /\ pc' = IF good THEN "move_copy" ELSE "move_mark"
  BY DEF MoveCopy, Goto
<1>4. good /\ ProgramSlot(Other(sector), dst_idx, slot[sector][src_idx])
  BY <1>2, <1>3, WriteSure
<1> QED BY <1>1, <1>2, <1>3, <1>4

LEMMA CallsNext ==
    ASSUME AtomicUse, TypeInv, HeadersInv, CallsInv, Next
    PROVE  CallsInv'
<1> USE DEF SwapPcs, MovePcs, SetPcs, TailPcs, BootPcs, CopyPcs, Writing,
            Loading, flash, ram, request, copy, env
<1>0. ControlInv /\ TypeOK /\ InUseInv
  BY DEF TypeInv, HeadersInv
<1>1. CASE Boot \/ PowerFailure
  BY <1>0, <1>1
     DEF CallsInv, Boot, PowerFailure, Crash, CrashInWrite, CrashInHeader,
         CrashInErase, PowerOff, ControlInv
<1>2. CASE Call
  <2>1. ~(\E k \in Keys, v \in Vals : EntryData(k, v))
    BY DEF EntryData, AtomicUse
  <2>2. ~(\E k \in Keys : EntrySave(k) \/ RecordDelete(k))
    BY DEF EntrySave, RecordDelete, StartWrite, AtomicUse
  <2> QED
    BY <1>0, <1>2, <2>1, <2>2
       DEF CallsInv, Call, RecordSet, Repair, Reset, Unload, StartWrite,
           SwapEntry, MoveEntry, ControlInv
<1>3. CASE Step
  <2>1. pc' = "mark_bad" => next_idx' \notin Slots
    <3>1. ~RecordSetWrite => pc' # "mark_bad"
      BY <1>3
         DEF Step, RecordSetCheck, RecordSetMarkBad, RecordSetValid,
             RecordSetMarkOld, RecordDeleteMark, SwapErase, SwapInit,
             SwapCopy, SwapValid, MoveErase, MoveInit, MoveEnd, MoveSkip,
             MoveCopy, MoveMark, MoveValid, Rebuild, EraseSource, Reset1,
             Reset2, Load, InitUnknown, InitSectors, InitErase, FormatErase,
             FormatValid, Construct, Goto, Return, MoveFailed, MoveEntry
    <3>2. CASE RecordSetWrite
      BY <3>2, WriteSure DEF RecordSetWrite, Goto
    <3> QED BY <3>1, <3>2
  <2>2. pc' # "move_mark"
    <3>1. CASE MoveCopy
      BY <3>1, MoveSure
    <3>2. CASE ~MoveCopy
      BY <1>3, <3>2
         DEF Step, RecordSetCheck, RecordSetWrite, RecordSetMarkBad,
             RecordSetValid, RecordSetMarkOld, RecordDeleteMark, SwapErase,
             SwapInit, SwapCopy, SwapValid, MoveErase, MoveInit, MoveEnd,
             MoveSkip, MoveMark, MoveValid, Rebuild, EraseSource, Reset1,
             Reset2, Load, InitUnknown, InitSectors, InitErase, FormatErase,
             FormatValid, Construct, Goto, Return, MoveFailed, MoveEntry,
             CallsInv
    <3> QED BY <3>1, <3>2
  <2>3. pc' = "init_erase" => sector' = 1 \/ hdr'[1] # "VALID"
    <3>1. ~InitSectors => pc' # "init_erase"
      BY <1>3
         DEF Step, RecordSetCheck, RecordSetWrite, RecordSetMarkBad,
             RecordSetValid, RecordSetMarkOld, RecordDeleteMark, SwapErase,
             SwapInit, SwapCopy, SwapValid, MoveErase, MoveInit, MoveEnd,
             MoveSkip, MoveCopy, MoveMark, MoveValid, Rebuild, EraseSource,
             Reset1, Reset2, Load, InitUnknown, InitErase, FormatErase,
             FormatValid, Construct, Goto, Return, MoveFailed, MoveEntry
    <3>2. CASE InitSectors
      <4> DEFINE plan == Plan(hdr[1], hdr[2])
      <4>1. sector' = plan.sector /\ hdr' = hdr
        BY <3>2 DEF InitSectors
      <4>2. hdr[1] = "VALID" => plan = [sector |-> 1, act |-> "erase_other"]
        BY DEF Plan
      <4> HIDE DEF plan
      <4> QED BY <4>1, <4>2
    <3> QED BY <3>1, <3>2
  <2>4. pc' \in TailPcs => ~Loading
    BY <1>0, <1>3
       DEF Step, RecordSetCheck, RecordSetWrite, RecordSetMarkBad,
           RecordSetValid, RecordSetMarkOld, RecordDeleteMark, SwapErase,
           SwapInit, SwapCopy, SwapValid, MoveErase, MoveInit, MoveEnd,
           MoveSkip, MoveCopy, MoveMark, MoveValid, Rebuild, EraseSource,
           Reset1, Reset2, Load, InitUnknown, InitSectors, InitErase,
           FormatErase, FormatValid, Construct, Goto, Return, MoveFailed,
           MoveEntry, CallsInv, InUseInv, ControlInv
  <2>5. \/ UNCHANGED request
        \/ op' = "none" /\ key' = None /\ val' = None
        \/ op' = "none" /\ UNCHANGED <<key, val>> /\ op = "delete"
    BY <1>3
       DEF Step, RecordSetCheck, RecordSetWrite, RecordSetMarkBad,
           RecordSetValid, RecordSetMarkOld, RecordDeleteMark, SwapErase,
           SwapInit, SwapCopy, SwapValid, MoveErase, MoveInit, MoveEnd,
           MoveSkip, MoveCopy, MoveMark, MoveValid, Rebuild, EraseSource,
           Reset1, Reset2, Load, InitUnknown, InitSectors, InitErase,
           FormatErase, FormatValid, Construct, Goto, Return, MoveFailed,
           MoveEntry
  <2> QED BY <2>1, <2>2, <2>3, <2>4, <2>5 DEF CallsInv
<1> QED BY <1>1, <1>2, <1>3 DEF Next

----------------------------------------------------------------------------
(* The steps of a copy, none of which fails.                               *)

LEMMA SwapInitSure ==
    ASSUME RecordFaults, TypeInv, HeadersInv, SwapInit
    PROVE  /\ pc = "swap_init"
           /\ pc' = IF Entries = {} THEN "swap_valid" ELSE "swap_copy"
           /\ Stamped(Other(sector), "INITIALIZING")
           /\ todo' = Entries /\ dst_idx' = 0
           /\ UNCHANGED <<slot, ram, request, ret>>
<1>1. /\ FlashType
      /\ Other(sector) \in Sectors
      /\ hdr[Other(sector)] = "EMPTY"
  BY TypeFlash, OtherSector
     DEF HeadersInv, InUseInv, SwapInit, TypeInv, ControlInv, BootPcs
<1>2. PICK good \in BOOLEAN :
          /\ TryHeader(Other(sector), "INITIALIZING", good)
          /\ IF good
             THEN /\ todo' = Entries
                  /\ dst_idx' = 0
                  /\ Goto(IF Entries = {} THEN "swap_valid" ELSE "swap_copy")
             ELSE UNCHANGED copy /\ Return("FAIL")
  BY DEF SwapInit
<1>3. good /\ Stamped(Other(sector), "INITIALIZING") /\ slot' = slot
  BY <1>1, <1>2, HeaderDone DEF Formatted
<1> QED BY <1>2, <1>3 DEF SwapInit, Goto

\* An entry is copied, or, if the destination is full, the swap turns into a
\* move.
LEMMA SwapCopySure ==
    ASSUME AtomicUse, TypeInv, HeadersInv, SwapCopy
    PROVE  /\ pc = "swap_copy"
           /\ UNCHANGED <<hdr, ver, sector, next_idx, cache, request, ret>>
           /\ \/ \E k \in todo :
                   /\ dst_idx \in Slots
                   /\ ProgramSlot(Other(sector), dst_idx, SwapRecord(k))
                   /\ SwapRecord(k).flags = "VALID"
                   /\ idx' = [idx EXCEPT ![k] = dst_idx]
                   /\ dst_idx' = dst_idx + 1
                   /\ todo' = todo \ {k}
                   /\ pc' = IF todo = {k} THEN "swap_valid" ELSE "swap_copy"
              \/ UNCHANGED slot /\ pc' = "move_erase"
<1>1. MoveEntry(sector) = "move_erase"
  BY DEF HeadersInv, InUseInv, SwapCopy, CopyPcs, MoveEntry
<1>2. PICK k \in todo :
        \/ /\ SwapRecord(k).flags = "VALID"
           /\ \E good \in BOOLEAN :
               /\ TryWrite(Other(sector), dst_idx, SwapRecord(k), good)
               /\ IF good
                  THEN /\ idx' = [idx EXCEPT ![k] = dst_idx]
                       /\ dst_idx' = dst_idx + 1
                       /\ todo' = todo \ {k}
                       /\ Goto(IF todo = {k} THEN "swap_valid"
                                          ELSE "swap_copy")
                  ELSE Goto("move_erase")
        \/ Goto("move_erase") /\ UNCHANGED flash
  BY <1>1 DEF SwapCopy
<1>3. pc = "swap_copy" /\ UNCHANGED <<sector, next_idx, cache>>
  BY DEF SwapCopy
<1>4. CASE Goto("move_erase") /\ UNCHANGED flash
  BY <1>3, <1>4 DEF Goto, flash
<1>5. CASE /\ SwapRecord(k).flags = "VALID"
           /\ \E good \in BOOLEAN :
               /\ TryWrite(Other(sector), dst_idx, SwapRecord(k), good)
               /\ IF good
                  THEN /\ idx' = [idx EXCEPT ![k] = dst_idx]
                       /\ dst_idx' = dst_idx + 1
                       /\ todo' = todo \ {k}
                       /\ Goto(IF todo = {k} THEN "swap_valid"
                                          ELSE "swap_copy")
                  ELSE Goto("move_erase")
  <2>1. PICK good \in BOOLEAN :
               /\ TryWrite(Other(sector), dst_idx, SwapRecord(k), good)
               /\ IF good
                  THEN /\ idx' = [idx EXCEPT ![k] = dst_idx]
                       /\ dst_idx' = dst_idx + 1
                       /\ todo' = todo \ {k}
                       /\ Goto(IF todo = {k} THEN "swap_valid"
                                          ELSE "swap_copy")
                  ELSE Goto("move_erase")
    BY <1>5
  <2>2. CASE good
    <3>1. dst_idx \in Slots
          /\ ProgramSlot(Other(sector), dst_idx, SwapRecord(k))
      BY <2>1, <2>2, WriteSure
    <3> QED BY <1>3, <1>5, <2>1, <2>2, <3>1 DEF Goto, ProgramSlot
  <2>3. CASE ~good
    <3>1. UNCHANGED flash
      BY <2>1, <2>3, WriteSure
    <3> QED BY <1>3, <2>1, <2>3, <3>1 DEF Goto, flash
  <2> QED BY <2>2, <2>3
<1> QED BY <1>2, <1>4, <1>5

LEMMA SwapValidSure ==
    ASSUME RecordFaults, TypeInv, HeadersInv, SwapValid
    PROVE  /\ pc = "swap_valid"
           /\ pc' = IF Cached THEN "erase_src" ELSE "rebuild"
           /\ Stamped(Other(sector), "VALID")
           /\ sector' = Other(sector)
           /\ Cached => next_idx' = dst_idx
           /\ UNCHANGED <<slot, idx, cache, request, ret>>
<1>1. /\ FlashType
      /\ Other(sector) \in Sectors
      /\ hdr[Other(sector)] = "INITIALIZING"
  BY TypeFlash, OtherSector
     DEF HeadersInv, InUseInv, SwapValid, TypeInv, ControlInv, BootPcs, CopyPcs
<1>2. PICK good \in BOOLEAN :
          /\ TryHeader(Other(sector), "VALID", good)
          /\ good => /\ sector' = Other(sector)
                     /\ Cached => next_idx' = dst_idx
                     /\ Goto(IF Cached THEN "erase_src" ELSE "rebuild")
  BY DEF SwapValid
<1>3. good /\ Stamped(Other(sector), "VALID") /\ slot' = slot
  BY <1>1, <1>2, HeaderDone DEF Formatted
<1> QED BY <1>2, <1>3 DEF SwapValid, Goto

LEMMA MoveEraseSure ==
    ASSUME RecordFaults, TypeInv, HeadersInv, MoveErase
    PROVE  /\ pc = "move_erase" /\ pc' = "move_init"
           /\ Other(sector) \in Sectors
           /\ EraseSector(Other(sector))
           /\ UNCHANGED <<ram, request, ret, copy>>
<1>1. FlashType /\ Other(sector) \in Sectors
  BY TypeFlash, OtherSector
     DEF MoveErase, TypeInv, ControlInv, BootPcs
<1>2. PICK good \in BOOLEAN :
          /\ TryErase(Other(sector), good)
          /\ IF good THEN Goto("move_init") ELSE MoveFailed
  BY DEF MoveErase
<1>3. good /\ EraseSector(Other(sector))
  BY <1>1, <1>2, EraseDone
<1> QED BY <1>1, <1>2, <1>3 DEF MoveErase, Goto

LEMMA MoveInitSure ==
    ASSUME RecordFaults, TypeInv, HeadersInv, MoveInit
    PROVE  /\ pc = "move_init" /\ pc' = "move_copy"
           /\ Stamped(Other(sector), "INITIALIZING")
           /\ UNCHANGED <<slot, ram, request, ret, copy>>
<1>1. /\ FlashType
      /\ Other(sector) \in Sectors
      /\ hdr[Other(sector)] = "EMPTY"
  BY TypeFlash, OtherSector
     DEF HeadersInv, InUseInv, MoveInit, TypeInv, ControlInv, BootPcs
<1>2. PICK good \in BOOLEAN :
          /\ TryHeader(Other(sector), "INITIALIZING", good)
          /\ IF good THEN Goto("move_copy") ELSE MoveFailed
  BY DEF MoveInit
<1>3. good /\ Stamped(Other(sector), "INITIALIZING") /\ slot' = slot
  BY <1>1, <1>2, HeaderDone DEF Formatted
<1> QED BY <1>2, <1>3 DEF MoveInit, Goto

LEMMA MoveValidSure ==
    ASSUME RecordFaults, TypeInv, HeadersInv, MoveValid
    PROVE  /\ pc = "move_valid" /\ pc' = "rebuild"
           /\ Stamped(Other(sector), "VALID")
           /\ sector' = Other(sector)
           /\ UNCHANGED <<slot, request, ret>>
<1>1. /\ FlashType
      /\ Other(sector) \in Sectors
      /\ hdr[Other(sector)] = "INITIALIZING"
  BY TypeFlash, OtherSector
     DEF HeadersInv, InUseInv, MoveValid, TypeInv, ControlInv, BootPcs, CopyPcs
<1>2. PICK good \in BOOLEAN :
          /\ TryHeader(Other(sector), "VALID", good)
          /\ sector' = IF good THEN Other(sector) ELSE sector
          /\ IF good THEN Goto("rebuild") ELSE MoveFailed
  BY DEF MoveValid
<1>3. good /\ Stamped(Other(sector), "VALID") /\ slot' = slot
  BY <1>1, <1>2, HeaderDone DEF Formatted
<1> QED BY <1>2, <1>3 DEF MoveValid, Goto

LEMMA EraseSourceSure ==
    ASSUME AtomicUse, TypeInv, HeadersInv, CallsInv, EraseSource
    PROVE  /\ pc = "erase_src"
           /\ Other(sector) \in Sectors
           /\ EraseSector(Other(sector))
           /\ UNCHANGED <<ram, copy>>
           /\ \/ op = "record_set" /\ pc' = "record_set"
                                   /\ UNCHANGED <<request, ret>>
              \/ op = "repair" /\ Return("EOK")
<1>1. /\ FlashType /\ RecordFaults /\ Other(sector) \in Sectors
      /\ op \in {"record_set", "repair"}
  BY TypeFlash, UseFaults, OtherSector
     DEF EraseSource, TypeInv, ControlInv, BootPcs, CallsInv, TailPcs, Writing
<1>2. PICK good \in BOOLEAN :
          /\ TryErase(Other(sector), good)
          /\ CASE Loading -> Goto("construct")
               [] op = "repair" -> Return(IF good THEN "EOK" ELSE "FAIL")
               [] OTHER -> IF good THEN Goto("record_set") ELSE Return("FAIL")
  BY DEF EraseSource
<1>3. good /\ EraseSector(Other(sector))
  BY <1>1, <1>2, EraseDone
<1>4. \/ op = "record_set" /\ Goto("record_set")
      \/ op = "repair" /\ Return("EOK")
  BY <1>1, <1>2, <1>3 DEF Loading
<1> QED BY <1>1, <1>3, <1>4 DEF EraseSource, Goto

----------------------------------------------------------------------------
(* Which steps lead where, and which of them change a record slot.         *)

UsePcs == {"idle", "erase_src"} \union SetPcs

LEMMA StepTo ==
    ASSUME AtomicUse, TypeInv, HeadersInv, CallsInv, Next
    PROVE  /\ pc' \in UsePcs =>
                 \/ \E k \in Keys, v \in Vals : RecordSet(k, v)
                 \/ RecordSetCheck \/ RecordSetWrite \/ RecordSetMarkBad
                 \/ RecordSetValid \/ RecordSetMarkOld \/ SwapValid
                 \/ Rebuild \/ EraseSource \/ Construct
           /\ pc' \in {"swap_copy", "swap_valid"} => SwapInit \/ SwapCopy
           /\ pc' = "move_copy" => MoveInit \/ MoveSkip \/ MoveCopy
           /\ pc' = "move_valid" => MoveEnd
           /\ pc' = "rebuild" => SwapValid \/ MoveValid
           /\ pc' = "swap_init" => \E k \in Keys, v \in Vals : RecordSet(k, v)
<1> USE DEF SwapPcs, MovePcs, SetPcs, TailPcs, BootPcs, CopyPcs, UsePcs
<1>0. InUseInv
  BY DEF HeadersInv
<1>1. CASE Boot \/ PowerFailure
  BY <1>1
     DEF Boot, PowerFailure, Crash, CrashInWrite, CrashInHeader, CrashInErase,
         PowerOff
<1>2. CASE Call
  <2>1. ~(\E k \in Keys, v \in Vals : EntryData(k, v))
    BY DEF EntryData, AtomicUse
  <2>2. ~(\E k \in Keys : EntrySave(k) \/ RecordDelete(k))
    BY DEF EntrySave, RecordDelete, StartWrite, AtomicUse
  <2>3. CASE \E k \in Keys, v \in Vals : RecordSet(k, v)
    <3>1. pc' \in {"swap_init", "swap_erase", "record_set"}
      BY <2>3 DEF RecordSet, StartWrite, SwapEntry
    <3> QED BY <2>3, <3>1
  <2>4. CASE Repair \/ (\E o \in Ops : Reset(o)) \/ Unload
    BY <2>4 DEF Repair, Reset, Unload, MoveEntry
  <2> QED BY <1>2, <2>1, <2>2, <2>3, <2>4 DEF Call
<1>3. CASE Step
  <2>1. MoveErase => pc' = "move_init"
    BY MoveEraseSure, UseFaults
  <2>2. MoveInit => pc' = "move_copy"
    BY MoveInitSure, UseFaults
  <2>3. MoveValid => pc' = "rebuild"
    BY MoveValidSure, UseFaults
  <2>4. SwapInit => pc' \in {"swap_copy", "swap_valid"}
    BY SwapInitSure, UseFaults
  <2>5. SwapValid => pc' \in {"erase_src", "rebuild"}
    BY SwapValidSure, UseFaults
  <2>6. ~RecordDeleteMark /\ ~SwapErase /\ ~MoveMark
    BY <1>0 DEF RecordDeleteMark, SwapErase, MoveMark, CallsInv, InUseInv,
                TypeInv, ControlInv
  <2>7. SwapCopy => pc' \in {"swap_copy", "swap_valid", "move_erase"}
    BY SwapCopySure
  <2>8. MoveCopy => pc' = "move_copy"
    BY MoveSure
  <2>9. EraseSource => pc' \in {"record_set", "idle"}
    BY EraseSourceSure DEF Return
  <2> QED
    BY <1>0, <1>3, <2>1, <2>2, <2>3, <2>4, <2>5, <2>6, <2>7, <2>8, <2>9
       DEF Step, RecordSetCheck, RecordSetWrite, RecordSetMarkBad,
           RecordSetValid, RecordSetMarkOld, MoveEnd, MoveSkip, Rebuild,
           Reset1, Reset2, Load, InitUnknown, InitSectors, InitErase,
           FormatErase, FormatValid, Construct, Goto, Return, MoveEntry
<1> QED BY <1>1, <1>2, <1>3 DEF Next

----------------------------------------------------------------------------
(* The used slots of a sector are its first ones.                          *)

SameUse(s) == \A i \in Slots :
    slot'[s][i].flags = "EMPTY" <=> slot[s][i].flags = "EMPTY"

MoreUse(s, n) ==
    /\ n \in Slots
    /\ UsedTo(s, n)
    /\ slot'[s][n].flags # "EMPTY"
    /\ \A i \in Slots : i # n => slot'[s][i] = slot[s][i]

Grown(s) == SameUse(s) \/ slot'[s] = Erased \/ \E n \in Slots : MoreUse(s, n)

Dense(s) == \A i, j \in Slots :
    i < j /\ slot[s][j].flags # "EMPTY" => slot[s][i].flags # "EMPTY"

LEMMA GrownDense ==
    ASSUME NEW s, Dense(s), Grown(s),
           NEW i \in Slots, NEW j \in Slots, i < j, slot'[s][j].flags # "EMPTY"
    PROVE  slot'[s][i].flags # "EMPTY"
<1>1. CASE SameUse(s)
  BY <1>1 DEF SameUse, Dense
<1>2. CASE slot'[s] = Erased
  BY <1>2 DEF Erased, Blank
<1>3. ASSUME NEW n \in Slots, MoreUse(s, n) PROVE slot'[s][i].flags # "EMPTY"
  BY <1>3 DEF MoreUse, UsedTo, Dense, Slots
<1> QED BY <1>1, <1>2, <1>3 DEF Grown

LEMMA UsedKept ==
    ASSUME NEW s, NEW n, UsedTo(s, n),
           SameUse(s) \/ (\E m \in Slots : MoreUse(s, m))
    PROVE  \A i \in Slots : i < n => slot'[s][i].flags # "EMPTY"
BY DEF SameUse, MoreUse, UsedTo

LEMMA UsedNext ==
    ASSUME NEW s, NEW n, MoreUse(s, n)
    PROVE  \A i \in Slots : i < n + 1 => slot'[s][i].flags # "EMPTY"
<1>1. \A i \in Slots : i < n + 1 => i < n \/ i = n
  BY DEF MoreUse, Slots
<1> QED BY <1>1 DEF MoreUse, UsedTo

LEMMA ConstructUsed ==
    ASSUME FlashType, NEW s \in Sectors, Dense(s), ConstructLookupTable(s)
    PROVE  /\ SameUse(s)
           /\ \A i \in Slots : i < next_idx' => slot'[s][i].flags # "EMPTY"
<1>1. SameUse(s)
  <2> DEFINE bad(i) == slot[s][i].flags = "VALID" /\ ~slot[s][i].ok
  <2>1. \A i \in Slots : slot'[s][i] = IF bad(i)
                             THEN [slot[s][i] EXCEPT !.flags = "INVALID"]
                             ELSE slot[s][i]
    BY DEF FlashType, ConstructLookupTable
  <2>2. ASSUME NEW i \in Slots, bad(i)
        PROVE  slot'[s][i].flags # "EMPTY" /\ slot[s][i].flags # "EMPTY"
    <3>1. slot[s][i] \in Records
      BY DEF FlashType
    <3>2. slot'[s][i] = [slot[s][i] EXCEPT !.flags = "INVALID"]
      BY <2>1, <2>2
    <3> QED BY <2>2, <3>1, <3>2 DEF Records
  <2>3. \A i \in Slots : ~bad(i) => slot'[s][i] = slot[s][i]
    BY <2>1
  <2> HIDE DEF bad
  <2> QED BY <2>2, <2>3 DEF SameUse
<1>2. ASSUME NEW i \in Slots, i < next_idx' PROVE slot[s][i].flags # "EMPTY"
  <2> DEFINE used == {j \in Slots : slot[s][j].flags # "EMPTY"}
  <2>1. next_idx' = IF used = {} THEN 0 ELSE Highest(used) + 1
    BY DEF ConstructLookupTable
  <2>2. used \subseteq Slots
    OBVIOUS
  <2>3. used # {} => Highest(used) \in used /\ Highest(used) \in Slots
    <3> HIDE DEF used
    <3> QED BY <2>2, HighestSlot
  <2> DEFINE h == Highest(used)
  <2>4. h \in used /\ h \in Slots /\ i <= h
    <3> HIDE DEF used
    <3> QED BY <1>2, <2>1, <2>3 DEF Slots
  <2>5. slot[s][h].flags # "EMPTY"
    <3> HIDE DEF h
    <3> QED BY <2>4
  <2> HIDE DEF h, used
  <2>6. i = h \/ i < h
    BY <2>4 DEF Slots
  <2> QED BY <2>4, <2>5, <2>6 DEF Dense
<1> QED BY <1>1, <1>2 DEF SameUse

----------------------------------------------------------------------------
(* The steps that program or mark a record.                                *)

\* Slot n of sector s changes to r and nothing else on FLASH.
SlotSet(s, n, r) ==
    /\ UNCHANGED <<hdr, ver>>
    /\ slot'[Other(s)] = slot[Other(s)]
    /\ \A i \in Slots : i # n => slot'[s][i] = slot[s][i]
    /\ slot'[s][n] = r

LEMMA ProgramSet ==
    ASSUME FlashType, NEW s \in Sectors, NEW n \in Slots, NEW r,
           slot[s][n] = Blank, ProgramSlot(s, n, r)
    PROVE  SlotSet(s, n, r)
<1>1. UNCHANGED <<hdr, ver>>
  BY DEF ProgramSlot
<1> QED BY <1>1, ProgramDone DEF SlotSet

LEMMA WriteStep ==
    ASSUME AtomicUse, StoreInv, RecordSetWrite
    PROVE  /\ pc = "write" /\ sector \in Sectors
           /\ UNCHANGED <<ram, request, ret>>
           /\ \/ /\ next_idx \in Slots /\ slot[sector][next_idx] = Blank
                 /\ SlotSet(sector, next_idx, Record("NEW", key, val))
                 /\ pc' = "set_valid"
              \/ UNCHANGED flash /\ next_idx \notin Slots /\ pc' = "mark_bad"
<1>1. /\ pc = "write" /\ sector \in Sectors
      /\ UNCHANGED <<ram, request, ret>>
      /\ next_idx \in Slots => slot[sector][next_idx] = Blank
      /\ FlashType
  BY TypeFlash
     DEF RecordSetWrite, Goto, StoreInv, TypeInv, ControlInv, BootPcs,
         ErasedInv, TailInv, BlankFrom, Slots, TypeOK
<1>2. PICK good \in BOOLEAN :
            /\ TryWrite(sector, next_idx, Record("NEW", key, val), good)
            /\ pc' = IF good THEN "set_valid" ELSE "mark_bad"
  BY DEF RecordSetWrite, Goto
<1>3. CASE /\ good /\ next_idx \in Slots
           /\ ProgramSlot(sector, next_idx, Record("NEW", key, val))
  BY <1>1, <1>2, <1>3, ProgramSet
<1>4. CASE ~good /\ next_idx \notin Slots /\ UNCHANGED flash
  BY <1>1, <1>2, <1>4
<1> QED BY <1>2, <1>3, <1>4, WriteSure

LEMMA MarkBadStep ==
    ASSUME CallsInv, RecordSetMarkBad
    PROVE  /\ pc = "mark_bad" /\ next_idx \notin Slots
           /\ UNCHANGED flash
           /\ next_idx' = next_idx + 1
           /\ UNCHANGED <<sector, idx, cache>>
           /\ Return("FAIL")
BY DEF CallsInv, RecordSetMarkBad, TryMark

LEMMA SetValidStep ==
    ASSUME AtomicUse, StoreInv, RecordSetValid
    PROVE  /\ pc = "set_valid" /\ key \in Keys
           /\ sector \in Sectors /\ next_idx \in Slots
           /\ slot[sector][next_idx] = Record("NEW", key, val)
           /\ BlankFrom(sector, next_idx + 1)
           /\ sector' = sector /\ next_idx' = next_idx + 1
           /\ \/ /\ SlotSet(sector, next_idx, Record("VALID", key, val))
                 /\ \/ /\ idx[key] = NoIdx
                       /\ InsertLookupTable(key, val, next_idx)
                       /\ Return("EOK")
                    \/ /\ idx[key] # NoIdx
                       /\ UNCHANGED <<idx, cache, request, ret>>
                       /\ pc' = "mark_old"
              \/ UNCHANGED <<flash, idx, cache>> /\ Return("FAIL")
<1>1. /\ pc = "set_valid" /\ key \in Keys
      /\ sector \in Sectors /\ next_idx \in Slots
      /\ slot[sector][next_idx] = Record("NEW", key, val)
      /\ BlankFrom(sector, next_idx + 1)
      /\ sector' = sector /\ next_idx' = next_idx + 1
      /\ FlashType
  BY TypeFlash
     DEF RecordSetValid, StoreInv, TypeInv, ControlInv, BootPcs, SetPcs,
         Writing, CursorInv, ErasedInv, TailInv, TableInv
<1>2. PICK good \in BOOLEAN :
        /\ TryMark(sector, next_idx, "VALID", good)
        /\ IF good /\ idx[key] = NoIdx
           THEN InsertLookupTable(key, val, next_idx)
           ELSE UNCHANGED <<idx, cache>>
        /\ IF good /\ idx[key] # NoIdx
           THEN Goto("mark_old")
           ELSE Return(IF good THEN "EOK" ELSE "FAIL")
  BY DEF RecordSetValid
<1>3. CASE good
  <2>1. SlotSet(sector, next_idx, Record("VALID", key, val))
    <3>1. Other(sector) \in Sectors /\ Other(sector) # sector
      BY <1>1, OtherSector
    <3>2. slot'[Other(sector)] = slot[Other(sector)] /\ UNCHANGED <<hdr, ver>>
      BY <1>1, <1>2, <1>3, <3>1 DEF TryMark, MarkSlot, FlashType
    <3>3. slot'[sector][next_idx] = Promoted(slot[sector][next_idx])
          /\ \A j \in Slots : j # next_idx => slot'[sector][j] = slot[sector][j]
      BY <1>1, <1>2, <1>3, MarkValidDone
    <3>4. slot'[sector][next_idx] = Record("VALID", key, val)
      BY <1>1, <3>3, PromotedRecord
    <3> QED BY <3>2, <3>3, <3>4 DEF SlotSet
  <2> QED BY <1>1, <1>2, <1>3, <2>1 DEF Goto
<1>4. CASE ~good
  BY <1>1, <1>2, <1>4 DEF TryMark
<1> QED BY <1>3, <1>4

\* The mark on the record that was replaced may fail.
LEMMA MarkOldStep ==
    ASSUME AtomicUse, StoreInv, RecordSetMarkOld
    PROVE  /\ pc = "mark_old" /\ key \in Keys /\ sector \in Sectors
           /\ next_idx - 1 \in Slots /\ idx[key] \in Slots
           /\ idx[key] < next_idx - 1
           /\ slot[sector][idx[key]].key = key
           /\ slot[sector][next_idx - 1] = Record("VALID", key, val)
           /\ BlankFrom(sector, next_idx)
           /\ UNCHANGED <<hdr, ver, sector, next_idx>>
           /\ InsertLookupTable(key, val, next_idx - 1)
           /\ Return("EOK")
           /\ slot'[Other(sector)] = slot[Other(sector)]
           /\ \A j \in Slots : j # idx[key] => slot'[sector][j] = slot[sector][j]
           /\ slot'[sector][idx[key]].key = key
           /\ Live(slot'[sector][idx[key]]) => Live(slot[sector][idx[key]])
           /\ slot'[sector][idx[key]].flags = "EMPTY" =>
                    slot[sector][idx[key]].flags = "EMPTY"
<1> DEFINE i == idx[key]
           s == sector
<1>1. /\ pc = "mark_old" /\ key \in Keys /\ s \in Sectors
      /\ next_idx - 1 \in Slots /\ i \in Slots
      /\ i < next_idx - 1
      /\ slot[s][i].key = key
      /\ slot[s][next_idx - 1] = Record("VALID", key, val)
      /\ BlankFrom(s, next_idx)
      /\ UNCHANGED <<sector, next_idx>>
      /\ InsertLookupTable(key, val, next_idx - 1)
      /\ Return("EOK")
      /\ FlashType
      /\ slot[s][next_idx - 1].flags # "EMPTY"
  BY TypeFlash
     DEF RecordSetMarkOld, StoreInv, TypeInv, TypeOK, ControlInv, BootPcs,
         SetPcs, Writing, CursorInv, ErasedInv, TailInv, TableInv, Entries,
         NoIdx, Slots, Record
<1>2. PICK good \in BOOLEAN : TryMark(s, i, "INVALID", good)
  BY DEF RecordSetMarkOld
<1>3. /\ \A j \in Slots : j # i => slot'[s][j] = slot[s][j]
      /\ slot'[s][i].key = slot[s][i].key
      /\ Live(slot'[s][i]) => Live(slot[s][i])
      /\ slot'[s][i].flags = "EMPTY" => slot[s][i].flags = "EMPTY"
  BY <1>1, <1>2, MarkInvalidDone
<1>4. UNCHANGED <<hdr, ver>>
  BY <1>2, MarkKeepsHeaders
<1>5. slot'[Other(s)] = slot[Other(s)]
  <2>1. Other(s) \in Sectors /\ Other(s) # s
    BY <1>1, OtherSector
  <2> QED BY <1>1, <1>2, <2>1 DEF TryMark, MarkSlot, FlashType, flash
<1> QED BY <1>1, <1>3, <1>4, <1>5

LEMMA CopyStep ==
    ASSUME AtomicUse, StoreInv, SwapCopy, pc' # "move_erase"
    PROVE  /\ pc = "swap_copy" /\ sector \in Sectors /\ Other(sector) \in Sectors
           /\ UNCHANGED <<sector, next_idx, cache, request, ret>>
           /\ \E k \in todo :
                /\ k \in Entries /\ dst_idx \in Slots
                /\ slot[Other(sector)][dst_idx] = Blank
                /\ BlankFrom(Other(sector), dst_idx)
                /\ SlotSet(Other(sector), dst_idx, SwapRecord(k))
                /\ SwapRecord(k).flags = "VALID"
                /\ idx' = [idx EXCEPT ![k] = dst_idx]
                /\ dst_idx' = dst_idx + 1
                /\ todo' = todo \ {k}
                /\ pc' = IF todo = {k} THEN "swap_valid" ELSE "swap_copy"
<1>1. /\ pc = "swap_copy" /\ sector \in Sectors /\ Other(sector) \in Sectors
      /\ FlashType /\ todo \subseteq Entries
      /\ BlankFrom(Other(sector), dst_idx)
      /\ dst_idx \in Slots => slot[Other(sector)][dst_idx] = Blank
      /\ TypeInv /\ HeadersInv
  BY TypeFlash, OtherSector
     DEF SwapCopy, StoreInv, TypeInv, ControlInv, BootPcs, CursorInv,
         ErasedInv, TailInv, BlankFrom, Slots, TypeOK
<1>2. UNCHANGED <<sector, next_idx, cache, request, ret>>
  BY <1>1, SwapCopySure
<1>3. PICK k \in todo :
                   /\ dst_idx \in Slots
                   /\ ProgramSlot(Other(sector), dst_idx, SwapRecord(k))
                   /\ SwapRecord(k).flags = "VALID"
                   /\ idx' = [idx EXCEPT ![k] = dst_idx]
                   /\ dst_idx' = dst_idx + 1
                   /\ todo' = todo \ {k}
                   /\ pc' = IF todo = {k} THEN "swap_valid" ELSE "swap_copy"
  BY <1>1, SwapCopySure
<1>4. SlotSet(Other(sector), dst_idx, SwapRecord(k))
  BY <1>1, <1>3, ProgramSet
<1> QED BY <1>1, <1>2, <1>3, <1>4

LEMMA MoveStep ==
    ASSUME AtomicUse, StoreInv, MoveCopy
    PROVE  /\ pc = "move_copy" /\ pc' = "move_copy"
           /\ sector \in Sectors /\ Other(sector) \in Sectors
           /\ src_idx \in Slots /\ dst_idx \in Slots
           /\ Live(slot[sector][src_idx])
           /\ slot[Other(sector)][dst_idx] = Blank
           /\ BlankFrom(Other(sector), dst_idx)
           /\ SlotSet(Other(sector), dst_idx, slot[sector][src_idx])
           /\ dst_idx' = dst_idx + 1 /\ src_idx' = src_idx + 1
           /\ sector' = sector
<1>1. TypeInv
  BY DEF StoreInv
<1>2. /\ src_idx \in Slots /\ dst_idx \in Slots
      /\ Live(slot[sector][src_idx])
      /\ ProgramSlot(Other(sector), dst_idx, slot[sector][src_idx])
      /\ pc = "move_copy" /\ pc' = "move_copy"
      /\ dst_idx' = dst_idx + 1 /\ src_idx' = src_idx + 1
      /\ sector' = sector
  BY <1>1, MoveSure
<1>3. /\ sector \in Sectors /\ Other(sector) \in Sectors
      /\ FlashType
      /\ BlankFrom(Other(sector), dst_idx)
      /\ slot[Other(sector)][dst_idx] = Blank
  BY <1>2, TypeFlash, OtherSector
     DEF StoreInv, TypeInv, ControlInv, BootPcs,
         ErasedInv, TailInv, BlankFrom, Slots, TypeOK
<1> QED BY <1>2, <1>3, ProgramSet

\* A write cut off leaves a record that is not live in an erased slot.
LEMMA TornStep ==
    ASSUME StoreInv, CrashInWrite
    PROVE  \E s \in Sectors, n \in Slots, r \in Records :
              /\ slot[s][n] = Blank
              /\ SlotSet(s, n, r)
              /\ ~Live(r)
              /\ r.flags # "EMPTY"
              /\ \/ pc = "write" /\ s = sector /\ n = next_idx
                 \/ /\ pc \in {"swap_copy", "move_copy"}
                    /\ s = Other(sector) /\ n = dst_idx
<1>1. FlashType /\ TypeOK /\ ControlInv /\ TailInv /\ CursorInv
  BY TypeFlash DEF StoreInv, TypeInv, ErasedInv
<1>2. ASSUME NEW rec \in Records
      PROVE  /\ Torn(rec) \in Records
             /\ ~Live(Torn(rec))
             /\ Torn(rec).flags = rec.flags
  BY DEF Torn, Live, Records
<1>3. CASE /\ pc = "write" /\ next_idx \in Slots
           /\ ProgramSlot(sector, next_idx, Torn(Record("NEW", key, val)))
  <2> DEFINE rec == Record("NEW", key, val)
  <2>1. /\ sector \in Sectors /\ rec \in Records /\ rec.flags # "EMPTY"
        /\ slot[sector][next_idx] = Blank
    <3>1. key \in Keys /\ val \in Vals \union {None}
      BY <1>1, <1>3 DEF TypeOK, ControlInv, SetPcs
    <3>2. rec \in Records
      BY <3>1, RecordType DEF RecordFlags
    <3>3. rec.flags # "EMPTY"
      BY DEF Record
    <3> HIDE DEF rec
    <3>4. sector \in Sectors /\ slot[sector][next_idx] = Blank
      BY <1>1, <1>3 DEF ControlInv, BootPcs, TailInv, BlankFrom, Slots
    <3> QED BY <3>2, <3>3, <3>4
  <2>2. ProgramSlot(sector, next_idx, Torn(rec))
    BY <1>3
  <2> HIDE DEF rec
  <2>3. SlotSet(sector, next_idx, Torn(rec))
    BY <1>1, <1>3, <2>1, <2>2, ProgramSet
  <2> QED BY <1>2, <1>3, <2>1, <2>3
<1>4. ASSUME NEW rec \in Records, rec.flags # "EMPTY",
             pc \in {"swap_copy", "move_copy"}, dst_idx \in Slots,
             ProgramSlot(Other(sector), dst_idx, Torn(rec))
      PROVE  /\ Other(sector) \in Sectors
             /\ slot[Other(sector)][dst_idx] = Blank
             /\ SlotSet(Other(sector), dst_idx, Torn(rec))
  <2>1. Other(sector) \in Sectors /\ slot[Other(sector)][dst_idx] = Blank
    BY <1>1, <1>4, OtherSector
       DEF ControlInv, BootPcs, TailInv, BlankFrom, Slots
  <2> QED BY <1>1, <1>4, <2>1, ProgramSet
<1>5. CASE /\ pc = "swap_copy" /\ dst_idx \in Slots
           /\ \E k \in todo :
                /\ SwapRecord(k).flags = "VALID"
                /\ ProgramSlot(Other(sector), dst_idx, Torn(SwapRecord(k)))
  <2>1. PICK k \in todo :
                /\ SwapRecord(k).flags = "VALID"
                /\ ProgramSlot(Other(sector), dst_idx, Torn(SwapRecord(k)))
    BY <1>5
  <2>2. SwapRecord(k) \in Records
    <3>1. k \in Keys /\ idx[k] \in Slots /\ sector \in Sectors
      BY <1>1, <1>5 DEF CursorInv, Entries, TypeOK, ControlInv, BootPcs, NoIdx
    <3>2. cache[k] \in Vals \union {None}
      BY <1>1, <3>1 DEF TypeOK
    <3>3. Record("VALID", k, cache[k]) \in Records
      BY <3>1, <3>2, RecordType DEF RecordFlags
    <3>4. slot[sector][idx[k]] \in Records
      BY <1>1, <3>1 DEF FlashType
    <3> QED BY <3>3, <3>4 DEF SwapRecord
  <2> DEFINE rec == SwapRecord(k)
  <2>3. rec \in Records /\ rec.flags = "VALID" /\ rec.flags # "EMPTY"
        /\ ProgramSlot(Other(sector), dst_idx, Torn(rec))
    BY <2>1, <2>2
  <2> HIDE DEF rec
  <2>4. /\ Other(sector) \in Sectors
        /\ slot[Other(sector)][dst_idx] = Blank
        /\ SlotSet(Other(sector), dst_idx, Torn(rec))
    BY <1>4, <1>5, <2>3
  <2> QED BY <1>2, <1>5, <2>3, <2>4
<1>6. CASE /\ pc = "move_copy" /\ src_idx \in Slots /\ dst_idx \in Slots
           /\ Live(slot[sector][src_idx])
           /\ ProgramSlot(Other(sector), dst_idx, Torn(slot[sector][src_idx]))
  <2> DEFINE rec == slot[sector][src_idx]
  <2>1. rec \in Records /\ rec.flags # "EMPTY"
        /\ ProgramSlot(Other(sector), dst_idx, Torn(rec))
    BY <1>1, <1>6 DEF FlashType, ControlInv, BootPcs, Live
  <2> HIDE DEF rec
  <2>2. /\ Other(sector) \in Sectors
        /\ slot[Other(sector)][dst_idx] = Blank
        /\ SlotSet(Other(sector), dst_idx, Torn(rec))
    BY <1>4, <1>6, <2>1
  <2> QED BY <1>2, <1>6, <2>1, <2>2
<1> QED BY <1>3, <1>5, <1>6 DEF CrashInWrite

----------------------------------------------------------------------------
(* What a step does to the slots of a sector.                              *)

\* It may change the slots in these steps only.
LEMMA StillStep ==
    ASSUME AtomicUse, TypeInv, HeadersInv, CallsInv, Next
    PROVE  \/ UNCHANGED slot
           \/ RecordSetWrite \/ RecordSetValid \/ RecordSetMarkOld
           \/ SwapCopy \/ MoveCopy \/ CrashInWrite
           \/ MoveErase \/ EraseSource \/ Reset1 \/ Reset2
           \/ InitUnknown("init1", 1, "init2")
           \/ InitUnknown("init2", 2, "init_sectors")
           \/ InitErase \/ FormatErase \/ Rebuild \/ Construct
<1>0. InUseInv /\ ControlInv
  BY DEF HeadersInv, TypeInv
<1>1. CASE Boot \/ PowerFailure
  BY <1>1 DEF Boot, PowerFailure, Crash, CrashInHeader, CrashInErase, flash
<1>2. CASE Call
  BY <1>2
     DEF Call, RecordSet, EntryData, EntrySave, RecordDelete, StartWrite,
         Repair, Reset, Unload, flash
<1>3. CASE Step
  <2>1. ~RecordDeleteMark /\ ~SwapErase /\ ~MoveMark
    BY <1>0 DEF RecordDeleteMark, SwapErase, MoveMark, CallsInv, InUseInv,
                ControlInv
  <2>2. RecordSetMarkBad => UNCHANGED slot
    BY MarkBadStep DEF flash
  <2>3. MoveInit \/ SwapInit \/ MoveValid \/ SwapValid => UNCHANGED slot
    BY MoveInitSure, SwapInitSure, MoveValidSure, SwapValidSure, UseFaults
  <2>4. FormatValid => UNCHANGED slot
    BY DEF FormatValid, TryHeader, SetSectorFlags, flash
  <2> QED
    BY <1>3, <2>1, <2>2, <2>3, <2>4
       DEF Step, RecordSetCheck, MoveEnd, MoveSkip, Load, InitSectors, flash
<1> QED BY <1>1, <1>2, <1>3 DEF Next

LEMMA SlotUse ==
    ASSUME NEW s \in Sectors, NEW n \in Slots, NEW r, SlotSet(s, n, r),
           r.flags # "EMPTY", UsedTo(s, n)
    PROVE  MoreUse(s, n) /\ SameUse(Other(s))
BY DEF SlotSet, MoreUse, SameUse

LEMMA EraseGrown ==
    ASSUME FlashType, NEW s \in Sectors,
           EraseSector(s) \/ UNCHANGED slot
    PROVE  Grown(s) /\ Grown(Other(s))
<1>1. Other(s) \in Sectors /\ Other(s) # s
  BY OtherSector
<1> QED BY <1>1 DEF FlashType, EraseSector, Grown, SameUse

LEMMA GrownNext ==
    ASSUME AtomicUse, StoreInv, CallsInv, FilledInv, Next
    PROVE  \A s \in Sectors : Grown(s)
<1>0. /\ FlashType /\ TypeInv /\ HeadersInv /\ ControlInv
      /\ FilledInv
      /\ \A s \in Sectors : Dense(s)
      /\ \A s \in Sectors : Other(s) \in Sectors /\ Other(Other(s)) = s
      /\ RecordFaults
      /\ 1 \in Sectors /\ 2 \in Sectors
  BY TypeFlash, OtherSector, UseFaults
     DEF StoreInv, TypeInv, FilledInv, Dense, Sectors
<1> SUFFICES \E s \in Sectors : Grown(s) /\ Grown(Other(s))
  BY <1>0 DEF Sectors, Other
<1>1. CASE UNCHANGED slot
  BY <1>0, <1>1 DEF Grown, SameUse
<1>2. ASSUME NEW s \in Sectors, NEW n \in Slots, NEW r,
             SlotSet(s, n, r), r.flags # "EMPTY", UsedTo(s, n)
      PROVE  Grown(s) /\ Grown(Other(s))
  BY <1>2, SlotUse DEF Grown
<1>3. CASE RecordSetWrite
  <2>1. UsedTo(sector, next_idx)
    BY <1>3, WriteStep DEF FilledInv, SetPcs
  <2>2. Record("NEW", key, val).flags # "EMPTY"
    BY DEF Record
  <2>3. UNCHANGED flash => UNCHANGED slot
    BY DEF flash
  <2> QED BY <1>1, <1>2, <1>3, <2>1, <2>2, <2>3, WriteStep
<1>4. CASE RecordSetValid
  <2> DEFINE r == Record("VALID", key, val)
  <2>1. UsedTo(sector, next_idx)
    BY <1>4, SetValidStep DEF FilledInv, SetPcs
  <2>2. r.flags # "EMPTY"
    BY DEF Record
  <2>3. /\ sector \in Sectors /\ next_idx \in Slots
        /\ SlotSet(sector, next_idx, r) \/ UNCHANGED slot
    BY <1>4, SetValidStep DEF flash
  <2> HIDE DEF r
  <2> QED BY <1>1, <1>2, <2>1, <2>2, <2>3
<1>5. CASE RecordSetMarkOld
  <2> DEFINE s == sector
             i == idx[key]
  <2>1. /\ pc = "mark_old" /\ s \in Sectors /\ i \in Slots
        /\ i < next_idx - 1 /\ next_idx - 1 \in Slots
        /\ slot'[Other(s)] = slot[Other(s)]
        /\ \A j \in Slots : j # i => slot'[s][j] = slot[s][j]
        /\ slot'[s][i].flags = "EMPTY" => slot[s][i].flags = "EMPTY"
    BY <1>5, MarkOldStep
  <2>2. i < next_idx
    BY <1>0, <2>1 DEF Slots, TypeInv, TypeOK
  <2>3. slot[s][i].flags # "EMPTY"
    BY <2>1, <2>2 DEF FilledInv, SetPcs, UsedTo
  <2> HIDE DEF s, i
  <2>4. SameUse(s) /\ SameUse(Other(s))
    BY <2>1, <2>3 DEF SameUse
  <2> QED BY <2>1, <2>4 DEF Grown
<1>6. CASE SwapCopy
  <2>1. CASE pc' = "move_erase"
    BY <1>0, <1>1, <1>6, <2>1, SwapCopySure
  <2>2. CASE pc' # "move_erase"
    <3>1. PICK k \in todo : /\ dst_idx \in Slots
                            /\ SlotSet(Other(sector), dst_idx, SwapRecord(k))
                            /\ SwapRecord(k).flags = "VALID"
      BY <1>6, <2>2, CopyStep
    <3>2. /\ Other(sector) \in Sectors /\ pc = "swap_copy"
          /\ UsedTo(Other(sector), dst_idx)
      BY <1>6, <2>2, CopyStep DEF FilledInv
    <3>3. SwapRecord(k).flags # "EMPTY"
      BY <3>1
    <3> QED BY <1>2, <3>1, <3>2, <3>3
  <2> QED BY <2>1, <2>2
<1>7. CASE MoveCopy
  <2>1. /\ Other(sector) \in Sectors /\ dst_idx \in Slots
        /\ pc = "move_copy"
        /\ SlotSet(Other(sector), dst_idx, slot[sector][src_idx])
        /\ slot[sector][src_idx].flags # "EMPTY"
    BY <1>7, MoveStep DEF Live
  <2>2. UsedTo(Other(sector), dst_idx)
    BY <2>1 DEF FilledInv
  <2> QED BY <1>2, <2>1, <2>2
<1>8. CASE CrashInWrite
  <2>1. PICK s \in Sectors, n \in Slots, r \in Records :
              /\ SlotSet(s, n, r)
              /\ r.flags # "EMPTY"
              /\ \/ pc = "write" /\ s = sector /\ n = next_idx
                 \/ /\ pc \in {"swap_copy", "move_copy"}
                    /\ s = Other(sector) /\ n = dst_idx
    BY <1>8, TornStep
  <2>2. UsedTo(s, n)
    BY <2>1 DEF FilledInv, SetPcs
  <2> QED BY <1>2, <2>1, <2>2
<1>9. ASSUME NEW s \in Sectors, NEW good \in BOOLEAN, TryErase(s, good)
      PROVE  Grown(s) /\ Grown(Other(s))
  BY <1>0, <1>9, EraseDone, EraseGrown
<1>10. CASE MoveErase
  BY <1>0, <1>10, MoveEraseSure, UseFaults, EraseGrown
<1>11. CASE EraseSource
  BY <1>0, <1>11, EraseSourceSure, EraseGrown
<1>12. CASE Reset1 \/ Reset2
  BY <1>0, <1>9, <1>12 DEF Reset1, Reset2
<1>13. CASE \/ InitUnknown("init1", 1, "init2")
            \/ InitUnknown("init2", 2, "init_sectors")
  <2>1. \E s \in Sectors, good \in BOOLEAN : TryErase(s, good) \/ UNCHANGED slot
    BY <1>0, <1>13 DEF InitUnknown, flash
  <2> QED BY <1>1, <1>9, <2>1
<1>14. CASE InitErase \/ FormatErase
  <2>1. sector \in Sectors /\ Other(sector) \in Sectors
    BY <1>0, <1>14 DEF InitErase, FormatErase, ControlInv
  <2> QED BY <1>9, <1>14, <2>1 DEF InitErase, FormatErase
<1>15. CASE Rebuild \/ Construct
  <2>1. sector \in Sectors /\ ConstructLookupTable(sector)
    BY <1>0, <1>15 DEF Rebuild, Construct, ControlInv, BootPcs, TailPcs
  <2>2. SameUse(sector)
    BY <1>0, <2>1, ConstructUsed
  <2>3. slot'[Other(sector)] = slot[Other(sector)]
    BY <1>0, <2>1, ConstructDone
  <2> QED BY <2>1, <2>2, <2>3 DEF Grown, SameUse
<1> QED BY <1>0, <1>1, <1>3, <1>4, <1>5, <1>6, <1>7, <1>8, <1>10, <1>11, <1>12,
           <1>13, <1>14, <1>15, StillStep

LEMMA FilledInit == Init => FilledInv
BY DEF Init, FilledInv, SetPcs, Erased, Blank, Sectors

LEMMA FilledNext ==
    ASSUME AtomicUse, StoreInv, CallsInv, FilledInv, Next
    PROVE  FilledInv'
<1>0. /\ FlashType /\ TypeInv /\ TypeOK
      /\ HeadersInv /\ ControlInv /\ CursorInv
      /\ \A s \in Sectors : Dense(s)
      /\ \A s \in Sectors : Other(s) \in Sectors /\ Other(Other(s)) = s
  BY TypeFlash, OtherSector DEF StoreInv, TypeInv, FilledInv, Dense, Sectors
<1>1. \A s \in Sectors, i, j \in Slots :
          i < j /\ slot'[s][j].flags # "EMPTY" => slot'[s][i].flags # "EMPTY"
  <2>1. \A s \in Sectors : Grown(s)
    BY GrownNext
  <2> QED BY <1>0, <2>1, GrownDense
<1> DEFINE Goal == \A i \in Slots : i < next_idx' =>
                        slot'[sector'][i].flags # "EMPTY"
           Copied2 == \A i \in Slots : i < dst_idx' =>
                        slot'[Other(sector')][i].flags # "EMPTY"
<1>2. pc' \in UsePcs => Goal
  <2>1. CASE (\E k \in Keys, v \in Vals : RecordSet(k, v)) \/ RecordSetCheck
    <3>1. /\ pc \in UsePcs
          /\ UNCHANGED <<slot, sector, next_idx>>
      BY <2>1
         DEF RecordSet, StartWrite, RecordSetCheck, UsePcs, SetPcs, flash, ram
    <3> QED BY <3>1 DEF FilledInv, UsePcs, UsedTo
  <2>2. CASE RecordSetWrite
    <3>1. UsedTo(sector, next_idx)
      BY <2>2, WriteStep DEF FilledInv, SetPcs
    <3>2. sector' = sector /\ next_idx' = next_idx
      BY <2>2, WriteStep DEF ram
    <3>3. \A j \in Slots : j # next_idx => slot'[sector][j] = slot[sector][j]
      BY <2>2, WriteStep DEF SlotSet, flash
    <3>4. \A i \in Slots : i < next_idx => i # next_idx
      BY <1>0 DEF Slots, TypeOK
    <3> QED BY <3>1, <3>2, <3>3, <3>4 DEF UsedTo
  <2>3. CASE RecordSetMarkBad
    <3>1. /\ UsedTo(sector, next_idx) /\ next_idx \notin Slots
          /\ slot' = slot /\ sector' = sector /\ next_idx' = next_idx + 1
      BY <2>3, MarkBadStep DEF FilledInv, SetPcs, flash
    <3>2. \A i \in Slots : i < next_idx
      BY <1>0, <3>1, ConstantsAssumption DEF Slots, TypeOK
    <3> QED BY <3>1, <3>2 DEF UsedTo
  <2>4. CASE RecordSetValid
    <3>1. /\ UsedTo(sector, next_idx) /\ next_idx \in Slots
          /\ slot[sector][next_idx].flags # "EMPTY"
          /\ sector' = sector /\ next_idx' = next_idx + 1
      BY <2>4, SetValidStep DEF FilledInv, SetPcs, Record
    <3>2. Record("VALID", key, val).flags # "EMPTY"
      BY DEF Record
    <3>3. /\ \A j \in Slots : j # next_idx => slot'[sector][j] = slot[sector][j]
          /\ slot'[sector][next_idx].flags # "EMPTY"
      <4>1. CASE SlotSet(sector, next_idx, Record("VALID", key, val))
        BY <3>2, <4>1 DEF SlotSet
      <4>2. CASE UNCHANGED flash
        BY <3>1, <4>2 DEF flash
      <4> QED BY <2>4, <4>1, <4>2, SetValidStep
    <3>4. MoreUse(sector, next_idx)
      BY <3>1, <3>3 DEF MoreUse
    <3> QED BY <3>1, <3>4, UsedNext
  <2>5. CASE RecordSetMarkOld
    <3>1. /\ UsedTo(sector, next_idx)
          /\ sector' = sector /\ next_idx' = next_idx
          /\ idx[key] \in Slots
          /\ \A j \in Slots : j # idx[key] => slot'[sector][j] = slot[sector][j]
          /\ slot'[sector][idx[key]].flags = "EMPTY" =>
                   slot[sector][idx[key]].flags = "EMPTY"
      BY <2>5, MarkOldStep DEF FilledInv, SetPcs
    <3> QED BY <3>1 DEF UsedTo
  <2>6. CASE SwapValid /\ pc' # "rebuild"
    <3>1. /\ UsedTo(Other(sector), dst_idx)
          /\ slot' = slot /\ sector' = Other(sector) /\ next_idx' = dst_idx
      BY <1>0, <2>6, SwapValidSure, UseFaults DEF FilledInv
    <3> QED BY <3>1 DEF UsedTo
  <2>7. CASE Rebuild \/ Construct
    <3>1. sector \in Sectors /\ ConstructLookupTable(sector) /\ sector' = sector
      BY <1>0, <2>7 DEF Rebuild, Construct, ControlInv, BootPcs, TailPcs
    <3> QED BY <1>0, <3>1, ConstructUsed
  <2>8. CASE EraseSource
    <3>1. /\ pc = "erase_src" /\ sector \in Sectors /\ Other(sector) # sector
          /\ Other(sector) \in Sectors
          /\ EraseSector(Other(sector))
          /\ UNCHANGED <<sector, next_idx>>
      BY <1>0, <2>8, EraseSourceSure, OtherSector
         DEF ControlInv, BootPcs, ram
    <3>2. slot'[sector] = slot[sector]
      BY <1>0, <3>1 DEF EraseSector, FlashType
    <3> QED BY <3>1, <3>2 DEF FilledInv, UsedTo
  <2>9. pc' = "rebuild" => pc' \notin UsePcs
    BY DEF UsePcs, SetPcs
  <2> HIDE DEF Goal
  <2> QED BY <1>0, <2>1, <2>2, <2>3, <2>4, <2>5, <2>6, <2>7, <2>8, <2>9, StepTo
<1>3. pc' \in {"swap_copy", "swap_valid"} => Copied2
  <2>1. CASE SwapInit
    <3>1. dst_idx' = 0
      BY <1>0, <2>1, SwapInitSure, UseFaults
    <3> QED BY <3>1 DEF Slots
  <2>2. CASE SwapCopy /\ pc' # "move_erase"
    <3>1. PICK k \in todo :
                /\ dst_idx \in Slots
                /\ SlotSet(Other(sector), dst_idx, SwapRecord(k))
                /\ SwapRecord(k).flags = "VALID"
                /\ dst_idx' = dst_idx + 1
      BY <2>2, CopyStep
    <3>2. /\ UsedTo(Other(sector), dst_idx) /\ sector' = sector
          /\ Other(sector) \in Sectors
      BY <2>2, CopyStep DEF FilledInv
    <3>3. MoreUse(Other(sector), dst_idx)
      BY <3>1, <3>2, SlotUse
    <3> QED BY <3>1, <3>2, <3>3, UsedNext
  <2> HIDE DEF Copied2
  <2> QED BY <1>0, <2>1, <2>2, StepTo
<1>4. pc' = "move_copy" => Copied2
  <2>1. CASE MoveInit
    <3>1. dst_idx' = 0
      BY <1>0, <2>1, MoveInitSure, UseFaults DEF CursorInv, copy
    <3> QED BY <3>1 DEF Slots
  <2>2. CASE MoveSkip
    <3>1. UsedTo(Other(sector), dst_idx)
          /\ UNCHANGED <<slot, sector, dst_idx>>
      BY <2>2 DEF MoveSkip, flash, ram, FilledInv
    <3> QED BY <3>1 DEF UsedTo
  <2>3. CASE MoveCopy
    <3>1. /\ pc = "move_copy" /\ sector' = sector
          /\ Other(sector) \in Sectors /\ dst_idx \in Slots
          /\ SlotSet(Other(sector), dst_idx, slot[sector][src_idx])
          /\ slot[sector][src_idx].flags # "EMPTY"
          /\ dst_idx' = dst_idx + 1
      BY <2>3, MoveStep DEF Live
    <3>2. MoreUse(Other(sector), dst_idx)
      BY <3>1, SlotUse DEF FilledInv
    <3> QED BY <3>1, <3>2, UsedNext
  <2> HIDE DEF Copied2
  <2> QED BY <1>0, <2>1, <2>2, <2>3, StepTo
<1> QED BY <1>1, <1>2, <1>3, <1>4 DEF FilledInv, UsedTo, UsePcs

----------------------------------------------------------------------------
(* The lookup table and the cache are exact.                               *)

LEMMA ExactKept ==
    ASSUME NEW k \in Keys, Exact(k), idx[k] \in Slots \union {NoIdx},
           Alike(slot'[sector'], slot[sector], k),
           idx'[k] = idx[k], cache'[k] = cache[k]
    PROVE  Exact(k)'
BY DEF Exact, Alike, NoIdx, Slots

LEMMA ExactNew ==
    ASSUME NEW k \in Keys, NEW n \in Slots, Newest(slot'[sector'], k, n),
           idx'[k] = n, Cached => cache'[k] = slot'[sector'][n].val
    PROVE  Exact(k)'
<1>1. ValueIn(slot'[sector'], k) = slot'[sector'][n].val
  BY ValueNewest
<1>2. n # NoIdx
  BY DEF Slots, NoIdx
<1> QED BY <1>1, <1>2 DEF Exact

LEMMA SameAlike == ASSUME NEW c, NEW k PROVE Alike(c, c, k)
BY DEF Alike

LEMMA ConstructExact ==
    ASSUME FlashType, NEW s \in Sectors, ConstructLookupTable(s),
           sector' = s, NEW k \in Keys
    PROVE  Alike(slot'[s], slot[s], k) /\ Exact(k)'
<1>1. \A i \in Slots : \/ slot'[s][i] = slot[s][i]
                       \/ ~Live(slot[s][i]) /\ ~Live(slot'[s][i])
  <2> SUFFICES ASSUME NEW i \in Slots
               PROVE  \/ slot'[s][i] = slot[s][i]
                      \/ ~Live(slot[s][i]) /\ ~Live(slot'[s][i])
    OBVIOUS
  <2> DEFINE bad == slot[s][i].flags = "VALID" /\ ~slot[s][i].ok
  <2>1. slot'[s][i] = IF bad THEN [slot[s][i] EXCEPT !.flags = "INVALID"]
                             ELSE slot[s][i]
    BY DEF FlashType, ConstructLookupTable
  <2>2. slot[s][i] \in Records
    BY DEF FlashType
  <2> QED BY <2>1, <2>2 DEF Live, Records
<1>2. Alike(slot'[s], slot[s], k)
  BY <1>1, Quiet
<1> DEFINE live == LiveSlots(s, k)
<1>3. live = LiveIn(slot[s], k)
  BY DEF LiveSlots, LiveIn
<1>4. /\ idx'[k] = IF live = {} THEN NoIdx ELSE Highest(live)
      /\ Cached => cache'[k] = IF live = {} THEN None
                               ELSE slot[s][Highest(live)].val
  BY DEF ConstructLookupTable
<1> HIDE DEF live
<1>5. CASE live = {}
  <2>1. LiveIn(slot'[s], k) = {} /\ ValueIn(slot'[s], k) = None
    BY <1>2, <1>3, <1>5 DEF Alike, ValueIn
  <2> QED BY <1>2, <1>4, <1>5, <2>1 DEF Exact
<1>6. CASE live # {}
  <2> DEFINE h == Highest(live)
  <2>1. Newest(slot[s], k, h) /\ h \in Slots
    <3>1. Newest(slot[s], k, Highest(LiveIn(slot[s], k)))
      BY <1>3, <1>6, NewestOf
    <3>2. Newest(slot[s], k, h)
      BY <1>3, <3>1
    <3> QED BY <3>2 DEF Newest, LiveIn
  <2>2. idx'[k] = h /\ (Cached => cache'[k] = slot[s][h].val)
    BY <1>4, <1>6
  <2> HIDE DEF h
  <2>3. Newest(slot'[s], k, h)
    BY <1>2, <2>1 DEF Alike
  <2>4. Live(slot'[s][h])
    BY <2>3 DEF Newest, LiveIn
  <2>5. slot'[s][h].val = slot[s][h].val
    BY <1>1, <2>1, <2>4
  <2> QED BY <1>2, <2>1, <2>2, <2>3, <2>5, ExactNew
<1> QED BY <1>5, <1>6

LEMMA ExactInit == Init => ExactInv
BY DEF Init, ExactInv, ExactPcs

\* The newest record of a key at the end of the used slots.
LEMMA LastLive ==
    ASSUME NEW s, NEW n \in Slots, BlankFrom(s, n + 1)
    PROVE  \A i \in Slots : Live(slot[s][i]) => i <= n
BY BlankNotLive DEF BlankFrom, Slots

LEMMA ExactNext ==
    ASSUME AtomicUse, StoreInv, CallsInv, ExactInv, CopiedInv, Next
    PROVE  ExactInv'
<1>0. /\ FlashType /\ TypeInv /\ TypeOK
      /\ HeadersInv /\ ControlInv /\ CursorInv
      /\ \A k \in Keys : idx[k] \in Slots \union {NoIdx}
      /\ \A s \in Sectors : Other(s) \in Sectors /\ Other(Other(s)) = s
  BY TypeFlash, OtherSector DEF StoreInv, TypeInv, TypeOK
<1> DEFINE Goal == /\ pc' \in ExactPcs => \A k \in Keys : Exact(k)'
                   /\ pc' = "mark_old" => \A k \in Keys \ {key'} : Exact(k)'
<1> SUFFICES Goal
  BY DEF ExactInv
<1>1. ASSUME pc \in ExactPcs, UNCHANGED <<idx, cache>>,
             \A k \in Keys : Alike(slot'[sector'], slot[sector], k)
      PROVE  Goal
  <2>1. \A k \in Keys : Exact(k)
    BY <1>1 DEF ExactInv
  <2> QED BY <1>0, <1>1, <2>1, ExactKept
<1>2. ASSUME pc \in ExactPcs, UNCHANGED <<slot, sector, idx, cache>>
      PROVE  Goal
  BY <1>1, <1>2, SameAlike
<1>3. CASE (\E k \in Keys, v \in Vals : RecordSet(k, v)) \/ RecordSetCheck
  <2>1. pc \in ExactPcs /\ UNCHANGED <<slot, sector, idx, cache>>
    BY <1>3
       DEF RecordSet, StartWrite, RecordSetCheck, ExactPcs, flash, ram
  <2> QED BY <1>2, <2>1
<1>4. CASE RecordSetWrite
  <2>1. /\ pc \in ExactPcs /\ UNCHANGED <<sector, idx, cache>>
        /\ \/ /\ slot[sector][next_idx] = Blank
              /\ SlotSet(sector, next_idx, Record("NEW", key, val))
           \/ UNCHANGED flash
    BY <1>4, WriteStep DEF ram, ExactPcs
  <2>2. ~Live(Record("NEW", key, val))
    BY DEF Live, Record
  <2>3. \A i \in Slots : \/ slot'[sector][i] = slot[sector][i]
                         \/ ~Live(slot[sector][i]) /\ ~Live(slot'[sector][i])
    BY <2>1, <2>2, BlankNotLive DEF SlotSet, flash
  <2>4. \A k \in Keys : Alike(slot'[sector], slot[sector], k)
    BY <2>3, Quiet
  <2> QED BY <1>1, <2>1, <2>4
<1>5. CASE RecordSetMarkBad
  BY <1>2, <1>5, MarkBadStep DEF flash, ExactPcs
<1>6. CASE RecordSetValid
  <2> DEFINE s == sector
             n == next_idx
             r == Record("VALID", key, val)
  <2>1. /\ pc = "set_valid" /\ pc \in ExactPcs /\ key \in Keys
        /\ s \in Sectors /\ n \in Slots /\ sector' = s
        /\ slot[s][n] = Record("NEW", key, val)
        /\ BlankFrom(s, n + 1)
    BY <1>6, SetValidStep DEF ExactPcs
  <2>2. CASE UNCHANGED <<flash, idx, cache>>
    BY <1>2, <2>1, <2>2 DEF flash
  <2>3. CASE /\ SlotSet(s, n, r)
             /\ \/ /\ idx[key] = NoIdx
                   /\ InsertLookupTable(key, val, n)
                   /\ Return("EOK")
                \/ /\ idx[key] # NoIdx
                   /\ UNCHANGED <<idx, cache, request, ret>>
                   /\ pc' = "mark_old"
    <3>1. /\ Live(r) /\ r.key = key /\ r.val = val
          /\ ~Live(slot[s][n])
      BY <2>1 DEF Live, Record
    <3>2. \A i \in Slots : Live(slot[s][i]) => i <= n
      BY <2>1, LastLive
    <3>3. slot'[s][n] = r /\ \A i \in Slots : i # n => slot'[s][i] = slot[s][i]
      BY <2>3 DEF SlotSet
    <3> HIDE DEF r, s, n
    <3>4. /\ Newest(slot'[s], key, n)
          /\ \A j : j # key => Alike(slot'[s], slot[s], j)
      BY <2>1, <3>1, <3>2, <3>3, Appended
    <3>5. \A k \in Keys : Exact(k)
      BY <2>1 DEF ExactInv
    <3>6. ASSUME NEW k \in Keys, k # key PROVE Exact(k)'
      <4>1. idx'[k] = idx[k] /\ cache'[k] = cache[k]
        BY <1>0, <2>1, <2>3, <3>6 DEF InsertLookupTable, TypeOK
      <4> QED BY <1>0, <2>1, <3>4, <3>5, <3>6, <4>1, ExactKept DEF s
    <3>7. CASE idx[key] = NoIdx
      <4>1. /\ idx'[key] = n /\ (Cached => cache'[key] = val)
            /\ pc' = "idle"
        BY <1>0, <2>1, <2>3, <3>7 DEF InsertLookupTable, TypeOK, Return
      <4>2. ASSUME NEW k \in Keys, k = key PROVE Exact(k)'
        BY <2>1, <3>1, <3>3, <3>4, <4>1, <4>2, ExactNew DEF s
      <4> QED BY <3>6, <4>1, <4>2
    <3>8. CASE idx[key] # NoIdx
      <4>1. pc' = "mark_old" /\ key' = key
        BY <2>3, <3>8 DEF request
      <4> QED BY <3>6, <4>1 DEF ExactPcs
    <3> QED BY <3>7, <3>8
  <2> QED BY <1>6, <2>2, <2>3, SetValidStep
<1>7. CASE RecordSetMarkOld
  <2> DEFINE s == sector
             i == idx[key]
             n == next_idx - 1
  <2>1. /\ pc = "mark_old" /\ key \in Keys
        /\ n \in Slots /\ i \in Slots /\ i < n
        /\ slot[s][i].key = key
        /\ slot[s][n] = Record("VALID", key, val)
        /\ BlankFrom(s, next_idx) /\ next_idx = n + 1
        /\ sector' = s
        /\ InsertLookupTable(key, val, n)
        /\ Return("EOK")
        /\ \A j \in Slots : j # i => slot'[s][j] = slot[s][j]
        /\ slot'[s][i].key = key
        /\ Live(slot'[s][i]) => Live(slot[s][i])
    BY <1>0, <1>7, MarkOldStep DEF TypeOK
  <2>2. Live(slot[s][n]) /\ slot[s][n].key = key /\ slot[s][n].val = val
    BY <2>1 DEF Live, Record
  <2>3. Newest(slot[s], key, n)
    <3>1. \A j \in Slots : Live(slot[s][j]) => j <= n
      <4> HIDE DEF n, s
      <4> QED BY <2>1, LastLive
    <3> QED BY <2>1, <2>2, <3>1 DEF Newest, LiveIn
  <2>4. slot'[s][n].val = val
    BY <2>1, <2>2 DEF Slots
  <2> HIDE DEF s, i, n
  <2>5. /\ Newest(slot'[s], key, n)
        /\ \A j : j # key => Alike(slot'[s], slot[s], j)
    BY <2>1, <2>3, Retired
  <2>6. /\ idx'[key] = n /\ (Cached => cache'[key] = val)
        /\ pc' = "idle"
        /\ \A k \in Keys : k # key => idx'[k] = idx[k] /\ cache'[k] = cache[k]
    BY <1>0, <2>1 DEF InsertLookupTable, TypeOK, Return
  <2>7. ASSUME NEW k \in Keys, k = key PROVE Exact(k)'
    BY <2>1, <2>4, <2>5, <2>6, <2>7, ExactNew DEF s
  <2>8. ASSUME NEW k \in Keys, k # key PROVE Exact(k)'
    <3>1. Exact(k)
      BY <2>1, <2>8 DEF ExactInv
    <3> QED BY <1>0, <2>1, <2>5, <2>6, <2>8, <3>1, ExactKept DEF s
  <2> QED BY <2>6, <2>7, <2>8
<1>8. CASE SwapValid
  <2>1. /\ pc = "swap_valid" /\ todo = {}
        /\ pc' = IF Cached THEN "erase_src" ELSE "rebuild"
        /\ sector' = Other(sector)
        /\ UNCHANGED <<slot, idx, cache>>
    BY <1>0, <1>8, SwapValidSure, UseFaults DEF CursorInv
  <2>2. ASSUME NEW k \in Keys, Cached PROVE Exact(k)'
    <3>1. Copied(k)
      BY <2>1 DEF CopiedInv
    <3>2. CASE k \in Entries
      BY <2>1, <2>2, <3>1, <3>2 DEF Copied, Exact, Entries
    <3>3. CASE k \notin Entries
      <4>1. LiveIn(slot[sector], k) = {} /\ LiveIn(slot[Other(sector)], k) = {}
        BY <2>1, <3>1, <3>3 DEF Copied
      <4>2. cache[k] = None /\ ValueIn(slot[Other(sector)], k) = None
        BY <2>2, <3>1, <4>1 DEF Copied, ValueIn
      <4> QED BY <2>1, <3>3, <4>1, <4>2 DEF Exact, Entries
    <3> QED BY <3>2, <3>3
  <2> QED BY <2>1, <2>2 DEF ExactPcs
<1>9. CASE Rebuild \/ Construct
  <2>1. sector \in Sectors /\ ConstructLookupTable(sector) /\ sector' = sector
        /\ pc' # "mark_old"
    BY <1>0, <1>9
       DEF Rebuild, Construct, ControlInv, BootPcs, TailPcs, Goto, Return
  <2> QED BY <1>0, <2>1, ConstructExact
<1>10. CASE EraseSource
  <2>1. /\ pc = "erase_src" /\ sector \in Sectors /\ Other(sector) # sector
        /\ Other(sector) \in Sectors
        /\ EraseSector(Other(sector))
        /\ UNCHANGED <<sector, idx, cache>>
    BY <1>0, <1>10, EraseSourceSure, OtherSector
       DEF ControlInv, BootPcs, ram
  <2>2. slot'[sector] = slot[sector]
    BY <1>0, <2>1 DEF EraseSector, FlashType
  <2> QED BY <1>1, <2>1, <2>2, SameAlike DEF ExactPcs
<1> HIDE DEF Goal
<1>11. pc' \notin ExactPcs \union {"mark_old"} => Goal
  BY DEF Goal
<1>12. pc' \in ExactPcs \union {"mark_old"} => Goal
  <2>1. pc' \in ExactPcs \union {"mark_old"} =>
            pc' \in UsePcs \/ pc' = "swap_init"
    BY DEF ExactPcs, UsePcs, SetPcs
  <2> QED BY <1>0, <1>3, <1>4, <1>5, <1>6, <1>7, <1>8, <1>9, <1>10, <2>1, StepTo
<1> QED BY <1>11, <1>12

----------------------------------------------------------------------------
(* A swap copies the value of every key; so does a move.                   *)

LEMMA CopiedInit == Init => CopiedInv /\ MovedInv /\ TwinInv
BY DEF Init, CopiedInv, MovedInv, TwinInv, TailPcs

LEMMA CopiedNext ==
    ASSUME AtomicUse, StoreInv, CallsInv, ExactInv, CopiedInv, Next
    PROVE  CopiedInv'
<1>0. /\ FlashType /\ TypeInv /\ TypeOK
      /\ HeadersInv /\ ControlInv /\ CursorInv
      /\ \A s \in Sectors : Other(s) \in Sectors /\ Other(Other(s)) = s
  BY TypeFlash, OtherSector DEF StoreInv, TypeInv, TypeOK
<1> SUFFICES ASSUME pc' \in {"swap_copy", "swap_valid"}, NEW k \in Keys
             PROVE  Copied(k)'
  BY DEF CopiedInv
<1>1. CASE SwapInit
  <2>1. /\ pc = "swap_init" /\ todo' = Entries
        /\ UNCHANGED <<slot, sector, idx, cache>>
    BY <1>0, <1>1, SwapInitSure, UseFaults DEF ram
  <2>2. slot[Other(sector)] = Erased
    BY <1>0, <2>1
       DEF HeadersInv, InUseInv, StoreInv, ErasedInv, BlankInv, ControlInv,
           BootPcs
  <2>3. LiveIn(slot[Other(sector)], k) = {}
    BY <2>2, ErasedValue
  <2>4. Exact(k)
    BY <2>1 DEF ExactInv, ExactPcs
  <2>5. Entries' = Entries
    BY <2>1 DEF Entries
  <2> QED BY <2>1, <2>3, <2>4, <2>5 DEF Copied, Exact, Entries
<1>2. CASE SwapCopy
  <2> DEFINE s == sector
             o == Other(sector)
             n == dst_idx
  <2>1. /\ pc = "swap_copy" /\ s \in Sectors /\ o \in Sectors
        /\ sector' = s /\ cache' = cache
    BY <1>2, CopyStep
  <2>2. PICK e \in todo :
                /\ e \in Entries /\ n \in Slots
                /\ slot[o][n] = Blank
                /\ BlankFrom(o, n)
                /\ SlotSet(o, n, SwapRecord(e))
                /\ SwapRecord(e).flags = "VALID"
                /\ idx' = [idx EXCEPT ![e] = n]
                /\ todo' = todo \ {e}
    BY <1>2, CopyStep
  <2> DEFINE r == SwapRecord(e)
  <2>3. Copied(e) /\ Copied(k) /\ e \in Keys
    BY <1>0, <2>1, <2>2 DEF CopiedInv, TypeOK
  <2>4. Newest(slot[s], e, idx[e])
    BY <2>2, <2>3 DEF Copied
  <2>5. ValueIn(slot[s], e) = slot[s][idx[e]].val
    BY <2>4, ValueNewest
  <2>6. /\ Live(r) /\ r.key = e
        /\ r.val = ValueIn(slot[s], e)
    <3>1. CASE Cached
      BY <2>3, <3>1 DEF SwapRecord, Record, Live, Copied
    <3>2. CASE ~Cached
      BY <2>4, <2>5, <3>2 DEF SwapRecord, Newest, LiveIn
    <3> QED BY <3>1, <3>2
  <2>7. /\ slot'[o][n] = r
        /\ \A i \in Slots : i # n => slot'[o][i] = slot[o][i]
        /\ slot'[s] = slot[s]
    BY <1>0, <2>1, <2>2 DEF SlotSet
  <2>8. ~Live(slot[o][n])
    BY <2>2, BlankNotLive
  <2>9. \A i \in Slots : Live(slot[o][i]) => i <= n
    BY <2>2, BlankNotLive DEF BlankFrom, Slots
  <2>10. /\ idx'[e] = n
         /\ \A j \in Keys : j # e => idx'[j] = idx[j]
    BY <1>0, <2>2, <2>3 DEF TypeOK
  <2>11. n # NoIdx
    BY <2>2 DEF Slots, NoIdx
  <2>12. e \in Entries /\ e \in Keys /\ e \in todo /\ n \in Slots
         /\ todo' = todo \ {e}
    BY <2>2, <2>3
  <2> HIDE DEF r
  <2>13. /\ Newest(slot'[o], e, n)
         /\ ValueIn(slot'[o], e) = slot'[o][n].val
         /\ \A j : j # e => Alike(slot'[o], slot[o], j)
    <3> HIDE DEF o, n
    <3> QED BY <2>6, <2>7, <2>8, <2>9, <2>12, Appended
  <2>14. \A j \in Keys : idx'[j] # NoIdx <=> idx[j] # NoIdx
    BY <2>10, <2>11, <2>12 DEF Entries
  <2> HIDE DEF o, s, n
  <2>15. /\ sector' = s /\ Other(s) = o /\ sector = s
    BY <2>1 DEF o, s
  <2>16. CASE k = e
    <3>1. ValueIn(slot'[o], k) = ValueIn(slot'[s], k)
      BY <2>6, <2>7, <2>13, <2>16
    <3>2. /\ k \in Entries' /\ k \notin todo'
          /\ idx'[k] = n
      BY <2>10, <2>11, <2>12, <2>16 DEF Entries
    <3>3. Cached => cache'[k] = ValueIn(slot'[s], k)
      BY <2>1, <2>3, <2>7, <2>15 DEF Copied
    <3> QED BY <2>13, <2>15, <2>16, <3>1, <3>2, <3>3 DEF Copied
  <2>17. CASE k # e
    <3>1. Alike(slot'[o], slot[o], k) /\ slot'[s] = slot[s]
      BY <2>7, <2>13, <2>17
    <3>2. /\ k \in Entries' <=> k \in Entries
          /\ k \in todo' <=> k \in todo
          /\ idx'[k] = idx[k] /\ cache'[k] = cache[k]
          /\ k \in Entries => idx[k] \in Slots
      BY <1>0, <2>1, <2>10, <2>12, <2>14, <2>17 DEF Entries, TypeOK
    <3>3. IF k \in Entries' \ todo'
          THEN Newest(slot'[o], k, idx'[k])
               /\ ValueIn(slot'[o], k) = ValueIn(slot'[s], k)
          ELSE LiveIn(slot'[o], k) = {}
      BY <2>3, <2>15, <3>1, <3>2 DEF Copied, Alike
    <3>4. /\ k \in todo' => Newest(slot'[s], k, idx'[k])
          /\ k \notin Entries' => LiveIn(slot'[s], k) = {}
          /\ Cached => cache'[k] = ValueIn(slot'[s], k)
      BY <2>3, <2>15, <3>1, <3>2 DEF Copied
    <3> QED BY <2>15, <3>3, <3>4 DEF Copied
  <2> QED BY <2>16, <2>17
<1> QED BY <1>0, <1>1, <1>2, StepTo

LEMMA MovedNext ==
    ASSUME AtomicUse, StoreInv, CallsInv, MovedInv, Next
    PROVE  MovedInv'
<1>0. /\ FlashType /\ TypeInv /\ TypeOK
      /\ HeadersInv /\ ControlInv /\ CursorInv
      /\ \A s \in Sectors : Other(s) \in Sectors /\ Other(Other(s)) = s
  BY TypeFlash, OtherSector DEF StoreInv, TypeInv, TypeOK
<1> SUFFICES ASSUME pc' = "move_copy", NEW k \in Keys
             PROVE  ValueIn(slot'[Other(sector')], k) =
                        ValueIn(Below(slot'[sector'], src_idx'), k)
  BY DEF MovedInv
<1>1. CASE MoveInit
  <2>1. /\ pc = "move_init" /\ src_idx = 0
        /\ UNCHANGED <<slot, sector, src_idx>>
    BY <1>0, <1>1, MoveInitSure, UseFaults DEF ram, copy, CursorInv
  <2>2. slot[Other(sector)] = Erased
    BY <1>0, <2>1
       DEF HeadersInv, InUseInv, StoreInv, ErasedInv, BlankInv, ControlInv,
           BootPcs
  <2> QED BY <2>1, <2>2, ErasedValue, BelowNone
<1>2. CASE MoveSkip
  <2>1. /\ pc = "move_copy" /\ src_idx \in Slots
        /\ ~Live(slot[sector][src_idx])
        /\ src_idx' = src_idx + 1
        /\ UNCHANGED <<slot, sector>>
    BY <1>2 DEF MoveSkip, MoveAtEnd, flash, ram
  <2>2. ValueIn(Below(slot[sector], src_idx + 1), k) =
            ValueIn(Below(slot[sector], src_idx), k)
    BY <2>1, BelowNext
  <2> QED BY <2>1, <2>2 DEF MovedInv
<1>3. CASE MoveCopy
  <2> DEFINE s == sector
             o == Other(sector)
             n == dst_idx
             m == src_idx
             r == slot[sector][src_idx]
  <2>1. /\ pc = "move_copy" /\ s \in Sectors /\ o \in Sectors
        /\ m \in Slots /\ n \in Slots
        /\ Live(r)
        /\ slot[o][n] = Blank
        /\ BlankFrom(o, n)
        /\ SlotSet(o, n, r)
        /\ src_idx' = m + 1
        /\ sector' = s
        /\ Other(o) = s
    BY <1>0, <1>3, MoveStep
  <2>2. /\ slot'[o][n] = r
        /\ \A i \in Slots : i # n => slot'[o][i] = slot[o][i]
        /\ slot'[s] = slot[s]
    BY <2>1 DEF SlotSet
  <2>3. ~Live(slot[o][n])
    BY <2>1, BlankNotLive
  <2>4. \A i \in Slots : Live(slot[o][i]) => i <= n
    BY <2>1, BlankNotLive DEF BlankFrom, Slots
  <2>5. ValueIn(slot[o], k) = ValueIn(Below(slot[s], m), k)
    BY <2>1 DEF MovedInv
  <2>6. /\ r.key # k => ValueIn(Below(slot[s], m + 1), k) =
                            ValueIn(Below(slot[s], m), k)
        /\ r.key = k => ValueIn(Below(slot[s], m + 1), k) = r.val
    BY <2>1, BelowNext
  <2> HIDE DEF r, s, o, n, m
  <2>7. CASE r.key = k
    <3>1. ValueIn(slot'[o], k) = slot'[o][n].val
      BY <2>1, <2>2, <2>3, <2>4, <2>7, Appended
    <3> QED BY <2>1, <2>2, <2>6, <2>7, <3>1 DEF o, s
  <2>8. CASE r.key # k
    <3> DEFINE j == r.key
    <3>1. j # k /\ Live(slot'[o][n]) /\ slot'[o][n].key = j
      BY <2>1, <2>2, <2>8
    <3> HIDE DEF j
    <3>2. Alike(slot'[o], slot[o], k)
      BY <2>1, <2>2, <2>3, <2>4, <3>1, Appended
    <3> QED BY <2>1, <2>2, <2>5, <2>6, <2>8, <3>2 DEF Alike, o, s
  <2> QED BY <2>7, <2>8
<1> QED BY <1>0, <1>1, <1>2, <1>3, StepTo

LEMMA TwinNext ==
    ASSUME AtomicUse, StoreInv, CallsInv, FilledInv, CopiedInv, MovedInv,
           TwinInv, Next
    PROVE  TwinInv'
<1>0. /\ FlashType /\ TypeInv /\ TypeOK
      /\ HeadersInv /\ ControlInv /\ CursorInv
      /\ \A s \in Sectors : Other(s) \in Sectors /\ Other(Other(s)) = s
  BY TypeFlash, OtherSector DEF StoreInv, TypeInv, TypeOK
<1> SUFFICES ASSUME pc' \in {"move_valid"} \union TailPcs, NEW k \in Keys
             PROVE  ValueIn(slot'[Other(sector')], k) =
                        ValueIn(slot'[sector'], k)
  BY DEF TwinInv
<1>1. CASE MoveEnd
  <2>1. /\ pc = "move_copy" /\ MoveAtEnd /\ sector \in Sectors
        /\ UNCHANGED <<slot, sector>>
    BY <1>0, <1>1 DEF MoveEnd, flash, ram, ControlInv, BootPcs
  <2>2. ASSUME NEW i \in Slots PROVE i < src_idx \/ ~Live(slot[sector][i])
    <3>1. CASE src_idx \notin Slots
      BY <1>0, <3>1, ConstantsAssumption DEF Slots, TypeOK
    <3>2. CASE src_idx \in Slots
      <4>1. slot[sector][src_idx].flags = "EMPTY"
        BY <2>1, <3>2 DEF MoveAtEnd
      <4>2. i < src_idx \/ i = src_idx \/ src_idx < i
        BY <3>2 DEF Slots
      <4>3. src_idx < i => slot[sector][i].flags = "EMPTY"
        BY <2>1, <3>2, <4>1 DEF FilledInv
      <4> QED BY <4>1, <4>2, <4>3 DEF Live
    <3> QED BY <3>1, <3>2
  <2>3. ValueIn(Below(slot[sector], src_idx), k) = ValueIn(slot[sector], k)
    BY <2>2, BelowAll
  <2> QED BY <2>1, <2>3 DEF MovedInv
<1>2. CASE MoveValid
  <2>1. /\ pc = "move_valid" /\ slot' = slot /\ sector' = Other(sector)
        /\ sector \in Sectors
    BY <1>0, <1>2, MoveValidSure, UseFaults DEF ControlInv, BootPcs
  <2> QED BY <1>0, <2>1 DEF TwinInv
<1>3. CASE SwapValid
  <2>1. /\ pc = "swap_valid" /\ slot' = slot /\ sector' = Other(sector)
        /\ sector \in Sectors /\ todo = {}
    BY <1>0, <1>3, SwapValidSure, UseFaults DEF ControlInv, BootPcs, CursorInv
  <2>2. Copied(k)
    BY <2>1 DEF CopiedInv
  <2>3. ValueIn(slot[Other(sector)], k) = ValueIn(slot[sector], k)
    BY <2>1, <2>2 DEF Copied, ValueIn
  <2> QED BY <1>0, <2>1, <2>3
<1>4. CASE Rebuild
  <2>1. /\ pc = "rebuild" /\ sector \in Sectors /\ sector' = sector
        /\ ConstructLookupTable(sector)
    BY <1>0, <1>4 DEF Rebuild, ControlInv, BootPcs
  <2>2. Alike(slot'[sector], slot[sector], k)
    BY <1>0, <2>1, ConstructExact
  <2>3. slot'[Other(sector)] = slot[Other(sector)]
    BY <1>0, <2>1, ConstructDone
  <2> QED BY <2>1, <2>2, <2>3 DEF TwinInv, TailPcs, Alike
<1>5. \/ MoveEnd \/ MoveValid \/ SwapValid \/ Rebuild
  <2>1. CASE pc' = "erase_src"
    <3>1. pc' \in UsePcs
      BY <2>1 DEF UsePcs
    <3>2. RecordSetCheck \/ RecordSetWrite \/ RecordSetMarkBad \/ RecordSetValid
          \/ RecordSetMarkOld \/ Construct
          \/ (\E j \in Keys, v \in Vals : RecordSet(j, v)) => pc' # "erase_src"
      BY DEF RecordSetCheck, RecordSetWrite, RecordSetMarkBad, RecordSetValid,
             RecordSetMarkOld, Construct, Goto, Return, RecordSet, StartWrite,
             SwapEntry
    <3>3. EraseSource => pc' # "erase_src"
      BY <1>0, EraseSourceSure DEF Return
    <3> QED BY <1>0, <2>1, <3>1, <3>2, <3>3, StepTo
  <2>2. CASE pc' # "erase_src"
    BY <1>0, <2>2, StepTo DEF TailPcs
  <2> QED BY <2>1, <2>2
<1> QED BY <1>1, <1>2, <1>3, <1>4, <1>5

----------------------------------------------------------------------------
(* What a step does to the values.                                         *)

\* While the volume is in use they are those of the sector in use.
UsedPcs == {"idle"} \union SetPcs \union SwapPcs \union MovePcs \union TailPcs

UsedInv ==
    pc \in UsedPcs => \A k \in Keys : Value(k) = ValueIn(slot[sector], k)

LEMMA UsedValue ==
    ASSUME TypeInv, HeadersInv, TwinInv
    PROVE  UsedInv
<1> SUFFICES ASSUME pc \in UsedPcs, NEW k \in Keys
             PROVE  Value(k) = ValueIn(slot[sector], k)
  BY DEF UsedInv
<1>1. sector \in Sectors /\ hdr[sector] = "VALID"
  BY DEF UsedPcs, SetPcs, SwapPcs, MovePcs, TailPcs, BootPcs, TypeInv,
         ControlInv, HeadersInv, InUseInv
<1>2. \/ hdr[Other(sector)] # "VALID"
      \/ ValueIn(slot[Other(sector)], k) = ValueIn(slot[sector], k)
  BY DEF UsedPcs, SetPcs, SwapPcs, MovePcs, TailPcs, CopyPcs, HeadersInv,
         InUseInv, TwinInv
<1>3. sector = 1 \/ (sector = 2 /\ Other(sector) = 1)
  BY <1>1 DEF Sectors, Other
<1> QED BY <1>1, <1>2, <1>3 DEF Value

LEMMA ValueSame ==
    ASSUME NEW k,
           \A s \in Sectors :
               /\ hdr'[s] = "VALID" <=> hdr[s] = "VALID"
               /\ hdr[s] = "VALID" =>
                      ValueIn(slot'[s], k) = ValueIn(slot[s], k)
    PROVE  Value(k)' = Value(k)
<1>1. 1 \in Sectors /\ 2 \in Sectors
  BY DEF Sectors
<1> QED BY <1>1 DEF Value

\* The sector that a boot would use keeps its records and its header.
LEMMA ValueKept ==
    ASSUME NEW k, NEW s \in Sectors,
           hdr[s] = "VALID", hdr'[s] = "VALID", slot'[s] = slot[s],
           s = 1 \/ (hdr[1] # "VALID" /\ hdr'[1] # "VALID")
    PROVE  Value(k)' = Value(k)
BY DEF Value, Sectors

SameValues == \A k \in Keys : Value(k)' = Value(k)
NewValue   == \A k \in Keys : Value(k)' = IF k = key THEN val ELSE Value(k)
NoValues   == \A k \in Keys : Value(k)' = None

ValueStep ==
    \/ SameValues
    \/ pc = "set_valid" /\ key \in Keys /\ NewValue
    \/ pc \in {"reset1", "reset2"} /\ op \in {"reset", "delete"} /\ NoValues

\* In the sector in use, or from it to its copy.
LEMMA UsedStep ==
    ASSUME AtomicUse, StoreInv, CallsInv, CopiedInv, TwinInv, UsedInv, UsedInv',
           \/ RecordSetWrite \/ RecordSetValid \/ RecordSetMarkOld
           \/ SwapInit \/ SwapCopy \/ SwapValid
           \/ MoveErase \/ MoveInit \/ MoveCopy \/ MoveValid
           \/ Rebuild \/ EraseSource
    PROVE  ValueStep
<1>0. /\ FlashType /\ TypeInv /\ TypeOK
      /\ HeadersInv /\ ControlInv /\ CursorInv
      /\ \A s \in Sectors : /\ Other(s) \in Sectors /\ Other(s) # s
                            /\ Other(Other(s)) = s
  BY TypeFlash, OtherSector DEF StoreInv, TypeInv, TypeOK
<1> USE DEF UsedPcs, SetPcs, SwapPcs, MovePcs, TailPcs
<1>1. ASSUME pc \in UsedPcs, pc' \in UsedPcs,
             \A k \in Keys : ValueIn(slot'[sector'], k) = ValueIn(slot[sector], k)
      PROVE  ValueStep
  BY <1>1 DEF UsedInv, ValueStep, SameValues
<1>2. CASE RecordSetWrite
  <2>1. /\ pc = "write" /\ pc' \in UsedPcs /\ sector' = sector
        /\ \/ /\ slot[sector][next_idx] = Blank
              /\ SlotSet(sector, next_idx, Record("NEW", key, val))
           \/ UNCHANGED flash
    BY <1>2, WriteStep DEF ram
  <2>2. ~Live(Record("NEW", key, val))
    BY DEF Live, Record
  <2>3. \A i \in Slots : \/ slot'[sector][i] = slot[sector][i]
                         \/ ~Live(slot[sector][i]) /\ ~Live(slot'[sector][i])
    BY <2>1, <2>2, BlankNotLive DEF SlotSet, flash
  <2>4. \A k \in Keys : ValueIn(slot'[sector], k) = ValueIn(slot[sector], k)
    BY <2>3, Quiet DEF Alike
  <2> QED BY <1>1, <2>1, <2>4
<1>3. CASE RecordSetValid
  <2> DEFINE s == sector
             n == next_idx
             r == Record("VALID", key, val)
  <2>1. /\ pc = "set_valid" /\ key \in Keys
        /\ s \in Sectors /\ n \in Slots /\ sector' = s
        /\ slot[s][n] = Record("NEW", key, val)
        /\ BlankFrom(s, n + 1)
        /\ pc' \in UsedPcs
    BY <1>3, SetValidStep DEF Return
  <2>2. CASE UNCHANGED flash
    BY <1>1, <2>1, <2>2 DEF flash
  <2>3. CASE SlotSet(s, n, r)
    <3>1. /\ Live(r) /\ r.key = key /\ r.val = val
          /\ ~Live(slot[s][n])
      BY <2>1 DEF Live, Record
    <3>2. \A i \in Slots : Live(slot[s][i]) => i <= n
      BY <2>1, LastLive
    <3>3. slot'[s][n] = r /\ \A i \in Slots : i # n => slot'[s][i] = slot[s][i]
      BY <2>3 DEF SlotSet
    <3> HIDE DEF r, s, n
    <3>4. /\ ValueIn(slot'[s], key) = slot'[s][n].val
          /\ \A j : j # key => Alike(slot'[s], slot[s], j)
      BY <2>1, <3>1, <3>2, <3>3, Appended
    <3>5. \A k \in Keys : ValueIn(slot'[s], k) =
              IF k = key THEN val ELSE ValueIn(slot[s], k)
      BY <3>1, <3>3, <3>4 DEF Alike
    <3>6. NewValue
      BY <2>1, <3>5 DEF NewValue, UsedInv, s
    <3> QED BY <2>1, <3>6 DEF ValueStep
  <2> QED BY <1>3, <2>2, <2>3, SetValidStep
<1>4. CASE RecordSetMarkOld
  <2> DEFINE s == sector
             i == idx[key]
             n == next_idx - 1
  <2>1. /\ pc = "mark_old" /\ key \in Keys
        /\ n \in Slots /\ i \in Slots /\ i < n
        /\ slot[s][i].key = key
        /\ slot[s][n] = Record("VALID", key, val)
        /\ BlankFrom(s, next_idx) /\ next_idx = n + 1
        /\ sector' = s
        /\ pc' = "idle"
        /\ \A j \in Slots : j # i => slot'[s][j] = slot[s][j]
        /\ slot'[s][i].key = key
        /\ Live(slot'[s][i]) => Live(slot[s][i])
    BY <1>0, <1>4, MarkOldStep DEF TypeOK, Return
  <2>2. Live(slot[s][n]) /\ slot[s][n].key = key
    BY <2>1 DEF Live, Record
  <2>3. Newest(slot[s], key, n)
    <3>1. \A j \in Slots : Live(slot[s][j]) => j <= n
      <4> HIDE DEF n, s
      <4> QED BY <2>1, LastLive
    <3> QED BY <2>1, <2>2, <3>1 DEF Newest, LiveIn
  <2> HIDE DEF s, i, n
  <2>4. /\ ValueIn(slot'[s], key) = ValueIn(slot[s], key)
        /\ \A j : j # key => Alike(slot'[s], slot[s], j)
    BY <2>1, <2>3, Retired
  <2>5. \A k \in Keys : ValueIn(slot'[s], k) = ValueIn(slot[s], k)
    BY <2>4 DEF Alike
  <2> QED BY <1>1, <2>1, <2>5 DEF s
<1>5. CASE SwapInit
  <2>1. /\ pc = "swap_init" /\ pc' \in UsedPcs
        /\ slot' = slot /\ sector' = sector
    BY <1>0, <1>5, SwapInitSure, UseFaults DEF ram
  <2> QED BY <1>1, <2>1
<1>6. CASE SwapCopy
  <2>1. /\ pc = "swap_copy" /\ sector' = sector
        /\ pc' \in {"swap_copy", "swap_valid", "move_erase"}
    BY <1>0, <1>6, SwapCopySure
  <2>2. slot'[sector] = slot[sector]
    <3>1. CASE pc' = "move_erase"
      BY <1>0, <1>6, <3>1, SwapCopySure
    <3>2. CASE pc' # "move_erase"
      BY <1>0, <1>6, <3>2, CopyStep DEF SlotSet
    <3> QED BY <3>1, <3>2
  <2> QED BY <1>1, <2>1, <2>2
<1>7. CASE SwapValid
  <2>1. /\ pc = "swap_valid" /\ slot' = slot /\ sector' = Other(sector)
        /\ sector \in Sectors /\ todo = {}
        /\ pc' \in UsedPcs
    BY <1>0, <1>7, SwapValidSure, UseFaults DEF ControlInv, BootPcs, CursorInv
  <2>2. \A k \in Keys : ValueIn(slot[Other(sector)], k) = ValueIn(slot[sector], k)
    <3>1. ASSUME NEW k \in Keys
          PROVE  ValueIn(slot[Other(sector)], k) = ValueIn(slot[sector], k)
      <4>1. Copied(k)
        BY <2>1 DEF CopiedInv
      <4> QED BY <2>1, <4>1 DEF Copied, ValueIn
    <3> QED BY <3>1
  <2> QED BY <1>1, <2>1, <2>2
<1>8. CASE MoveErase \/ EraseSource
  <2>1. /\ pc \in UsedPcs /\ sector \in Sectors /\ sector' = sector
        /\ EraseSector(Other(sector))
        /\ pc' \in UsedPcs
    BY <1>0, <1>8, MoveEraseSure, UseFaults, EraseSourceSure
       DEF ram, Return, ControlInv, BootPcs
  <2>2. slot'[sector] = slot[sector]
    BY <1>0, <2>1 DEF EraseSector, FlashType
  <2> QED BY <1>1, <2>1, <2>2
<1>9. CASE MoveInit
  <2>1. /\ pc = "move_init" /\ pc' = "move_copy"
        /\ slot' = slot /\ sector' = sector
    BY <1>0, <1>9, MoveInitSure, UseFaults DEF ram
  <2> QED BY <1>1, <2>1
<1>10. CASE MoveCopy
  <2>1. /\ pc = "move_copy" /\ pc' = "move_copy" /\ sector' = sector
        /\ slot'[sector] = slot[sector]
    BY <1>0, <1>10, MoveStep DEF SlotSet
  <2> QED BY <1>1, <2>1
<1>11. CASE MoveValid
  <2>1. /\ pc = "move_valid" /\ pc' = "rebuild"
        /\ slot' = slot /\ sector' = Other(sector)
    BY <1>0, <1>11, MoveValidSure, UseFaults
  <2>2. \A k \in Keys : ValueIn(slot[Other(sector)], k) = ValueIn(slot[sector], k)
    BY <2>1 DEF TwinInv
  <2> QED BY <1>1, <2>1, <2>2
<1>12. CASE Rebuild
  <2>1. /\ pc = "rebuild" /\ pc' = "erase_src"
        /\ sector \in Sectors /\ sector' = sector
        /\ ConstructLookupTable(sector)
    BY <1>0, <1>12 DEF Rebuild, ControlInv, BootPcs, Goto
  <2>2. \A k \in Keys : Alike(slot'[sector], slot[sector], k)
    BY <1>0, <2>1, ConstructExact
  <2> QED BY <1>1, <2>1, <2>2 DEF Alike
<1> QED BY <1>2, <1>3, <1>4, <1>5, <1>6, <1>7, <1>8, <1>9, <1>10, <1>11, <1>12

\* While the volume is erased, loaded or formatted.
LEMMA BootStep ==
    ASSUME AtomicUse, StoreInv, CallsInv, ResetInv,
           \/ Reset1 \/ Reset2
           \/ InitUnknown("init1", 1, "init2")
           \/ InitUnknown("init2", 2, "init_sectors")
           \/ InitErase \/ FormatErase \/ FormatValid \/ Construct
    PROVE  /\ ValueStep
           /\ Reset2 => NoValues
<1>0. /\ FlashType /\ TypeInv /\ TypeOK
      /\ HeadersInv /\ ControlInv /\ CursorInv
      /\ RecordFaults /\ BlankInv
      /\ VolumeInv /\ InUseInv /\ BootInv
      /\ \A s \in Sectors : /\ Other(s) \in Sectors /\ Other(s) # s
                            /\ Other(Other(s)) = s
      /\ 1 \in Sectors /\ 2 \in Sectors /\ Other(1) = 2 /\ Other(2) = 1
      /\ \A s \in Sectors : s = 1 \/ s = 2
  BY TypeFlash, OtherSector, UseFaults
     DEF StoreInv, TypeInv, TypeOK, HeadersInv, ErasedInv, Sectors, Other
<1> USE DEF ValueStep
<1>1. ASSUME \A s \in Sectors : hdr'[s] # "VALID" PROVE NoValues
  BY <1>0, <1>1 DEF NoValues, Value
<1>2. ASSUME \A s \in Sectors : hdr[s] # "VALID", NoValues PROVE SameValues
  BY <1>0, <1>2 DEF NoValues, SameValues, Value
<1>3. ASSUME NEW s \in Sectors, EraseSector(s)
      PROVE  /\ hdr'[s] = "EMPTY" /\ hdr'[Other(s)] = hdr[Other(s)]
             /\ slot'[Other(s)] = slot[Other(s)]
  BY <1>0, <1>3 DEF EraseSector, FlashType
<1>4. ASSUME NEW s \in Sectors, NEW good \in BOOLEAN, TryErase(s, good)
      PROVE  /\ hdr'[s] = "EMPTY" /\ hdr'[Other(s)] = hdr[Other(s)]
             /\ slot'[Other(s)] = slot[Other(s)]
  BY <1>0, <1>3, <1>4, EraseDone
<1>5. ASSUME NEW s \in Sectors, hdr[s] # "VALID", hdr'[s] # "VALID",
             hdr'[Other(s)] = hdr[Other(s)],
             slot'[Other(s)] = slot[Other(s)]
      PROVE  SameValues
  <2>1. \A t \in Sectors : /\ hdr'[t] = "VALID" <=> hdr[t] = "VALID"
                           /\ hdr[t] = "VALID" => slot'[t] = slot[t]
    BY <1>0, <1>5
  <2> QED BY <2>1, ValueSame DEF SameValues
<1>6. CASE Reset1
  <2>1. /\ pc = "reset1" /\ op \in {"boot", "reset", "delete"}
        /\ hdr'[1] = "EMPTY" /\ hdr'[2] = hdr[2] /\ slot'[2] = slot[2]
    BY <1>0, <1>4, <1>6 DEF Reset1, ControlInv, Loading
  <2>2. ASSUME hdr[1] # "VALID" PROVE SameValues
    <3> DEFINE s == 1
    <3>1. /\ s \in Sectors /\ hdr[s] # "VALID" /\ hdr'[s] # "VALID"
          /\ hdr'[Other(s)] = hdr[Other(s)] /\ slot'[Other(s)] = slot[Other(s)]
      BY <1>0, <2>1, <2>2
    <3> HIDE DEF s
    <3> QED BY <1>5, <3>1
  <2>3. ASSUME hdr[1] = "VALID" PROVE op # "boot" /\ NoValues
    <3>1. op # "boot" /\ hdr[2] # "VALID"
      BY <1>0, <2>1, <2>3 DEF ResetInv
    <3>2. \A s \in Sectors : hdr'[s] # "VALID"
      BY <1>0, <2>1, <3>1
    <3> QED BY <1>1, <3>1, <3>2
  <2>4. ~Reset2
    BY <2>1 DEF Reset2
  <2> QED BY <2>1, <2>2, <2>3, <2>4
<1>7. CASE Reset2
  <2>1. /\ pc = "reset2" /\ op \in {"boot", "reset", "delete"}
        /\ hdr'[2] = "EMPTY" /\ hdr'[1] = "EMPTY"
    BY <1>0, <1>4, <1>7 DEF Reset2, ControlInv, Loading, BootInv
  <2>2. NoValues
    BY <1>0, <1>1, <2>1
  <2>3. op = "boot" => SameValues
    BY <1>2, <2>1, <2>2 DEF ResetInv
  <2> QED BY <2>1, <2>2, <2>3
<1>8. CASE InitUnknown("init1", 1, "init2") \/ InitUnknown("init2", 2, "init_sectors")
  <2>1. PICK s \in Sectors :
            \/ hdr[s] = "UNKNOWN" /\ \E good \in BOOLEAN : TryErase(s, good)
            \/ UNCHANGED flash
    BY <1>0, <1>8 DEF InitUnknown
  <2>2. ASSUME hdr[s] = "UNKNOWN", NEW good \in BOOLEAN, TryErase(s, good)
        PROVE  SameValues
    BY <1>4, <1>5, <2>2
  <2>3. ASSUME UNCHANGED flash PROVE SameValues
    BY <2>3, ValueSame DEF flash, SameValues
  <2>4. ~Reset2
    BY <1>8 DEF InitUnknown, Reset2
  <2> QED BY <2>1, <2>2, <2>3, <2>4
<1>9. CASE InitErase
  <2>1. /\ pc = "init_erase" /\ sector \in Sectors /\ hdr[sector] = "VALID"
        /\ sector = 1 \/ hdr[1] # "VALID"
    BY <1>0, <1>9 DEF InitErase, ControlInv, InUseInv, CallsInv
  <2>2. /\ hdr'[Other(sector)] = "EMPTY" /\ hdr'[sector] = hdr[sector]
        /\ slot'[sector] = slot[sector]
    <3>1. Other(sector) \in Sectors /\ Other(Other(sector)) = sector
      BY <1>0, <2>1
    <3> QED BY <1>4, <1>9, <3>1 DEF InitErase
  <2>3. sector = 1 \/ hdr'[1] # "VALID"
    BY <1>0, <2>1, <2>2
  <2> QED BY <2>1, <2>2, <2>3, ValueKept DEF SameValues, Reset2
<1>10. CASE FormatErase \/ FormatValid
  <2>1. /\ pc \in {"format_erase", "format_valid"} /\ sector = 1
        /\ \A s \in Sectors : hdr[s] = "EMPTY"
    BY <1>0, <1>10 DEF FormatErase, FormatValid, BootInv
  <2>2. CASE FormatErase
    <3>1. hdr'[1] = "EMPTY" /\ hdr'[2] = "EMPTY"
      BY <1>0, <1>4, <2>1, <2>2 DEF FormatErase
    <3>2. \A s \in Sectors : hdr'[s] # "VALID" /\ hdr[s] # "VALID"
      BY <1>0, <2>1, <3>1
    <3> QED BY <1>1, <1>2, <2>1, <3>2 DEF Reset2
  <2>3. CASE FormatValid
    <3>1. slot' = slot /\ hdr'[2] = "EMPTY"
      BY <1>0, <2>1, <2>3, HeaderDone DEF FormatValid, Formatted, Stamped
    <3>2. slot[1] = Erased
      BY <1>0, <2>1 DEF BlankInv
    <3>3. NoValues
      BY <3>1, <3>2, ErasedValue DEF NoValues, Value
    <3> QED BY <1>0, <1>2, <2>1, <3>3 DEF Reset2
  <2> QED BY <1>10, <2>2, <2>3
<1>11. CASE Construct
  <2>1. /\ pc = "construct" /\ sector \in Sectors /\ sector' = sector
        /\ ConstructLookupTable(sector)
    BY <1>0, <1>11 DEF Construct, ControlInv
  <2>2. \A k \in Keys : ValueIn(slot'[sector], k) = ValueIn(slot[sector], k)
    BY <1>0, <2>1, ConstructExact DEF Alike
  <2>3. slot'[Other(sector)] = slot[Other(sector)]
    BY <1>0, <2>1, ConstructDone
  <2>4. hdr' = hdr
    BY <2>1 DEF ConstructLookupTable
  <2>5. \A s \in Sectors : s = sector \/ s = Other(sector)
    BY <2>1 DEF Sectors, Other
  <2> QED BY <2>1, <2>2, <2>3, <2>4, <2>5, ValueSame DEF SameValues, Reset2
<1> QED BY <1>6, <1>7, <1>8, <1>9, <1>10, <1>11

\* A power failure changes no value, but for one of a volume being erased.
LEMMA FailureStep ==
    ASSUME AtomicUse, StoreInv, CallsInv, TwinInv, ResetInv, UsedInv,
           PowerFailure
    PROVE  \/ SameValues
           \/ /\ pc \in {"reset1", "reset2"} /\ op \in {"reset", "delete"}
              /\ NoValues
<1>0. /\ FlashType /\ TypeInv /\ TypeOK
      /\ HeadersInv /\ ControlInv /\ CursorInv
      /\ VolumeInv /\ InUseInv /\ BootInv
      /\ \A s \in Sectors : /\ Other(s) \in Sectors /\ Other(s) # s
                            /\ Other(Other(s)) = s
      /\ 1 \in Sectors /\ 2 \in Sectors /\ Other(1) = 2 /\ Other(2) = 1
      /\ \A s \in Sectors : s = 1 \/ s = 2
      /\ "torn_header" \notin Faults /\ "torn_erase" \notin Faults
  BY TypeFlash, OtherSector
     DEF AtomicUse, StoreInv, TypeInv, TypeOK, HeadersInv, Sectors, Other
<1>1. CASE Crash
  BY <1>1, ValueSame DEF Crash, flash, SameValues
<1>2. CASE CrashInWrite
  <2>1. PICK s \in Sectors, n \in Slots, r \in Records :
              slot[s][n] = Blank /\ SlotSet(s, n, r) /\ ~Live(r)
    BY <1>2, TornStep
  <2>2. \A k \in Keys : ValueIn(slot'[s], k) = ValueIn(slot[s], k)
    <3>1. \A i \in Slots : \/ slot'[s][i] = slot[s][i]
                           \/ ~Live(slot[s][i]) /\ ~Live(slot'[s][i])
      BY <2>1, BlankNotLive DEF SlotSet
    <3> QED BY <3>1, Quiet DEF Alike
  <2>3. slot'[Other(s)] = slot[Other(s)] /\ hdr' = hdr
    BY <2>1 DEF SlotSet
  <2>4. \A t \in Sectors : t = s \/ t = Other(s)
    BY <2>1 DEF Sectors, Other
  <2> QED BY <2>2, <2>3, <2>4, ValueSame DEF SameValues
<1>3. ASSUME NEW s \in Sectors, hdr' = [hdr EXCEPT ![s] = "UNKNOWN"], slot' = slot
      PROVE  /\ hdr'[s] = "UNKNOWN" /\ hdr'[Other(s)] = hdr[Other(s)]
             /\ hdr[s] # "VALID" => SameValues
  <2>1. hdr'[s] = "UNKNOWN" /\ hdr'[Other(s)] = hdr[Other(s)]
    BY <1>0, <1>3 DEF FlashType
  <2>2. \A t \in Sectors : t = s \/ t = Other(s)
    BY <1>3 DEF Sectors, Other
  <2>3. ASSUME hdr[s] # "VALID" PROVE SameValues
    <3>1. \A t \in Sectors : hdr'[t] = "VALID" <=> hdr[t] = "VALID"
      BY <2>1, <2>2, <2>3
    <3> QED BY <1>3, <3>1, ValueSame DEF SameValues
  <2> QED BY <2>1, <2>3
<1>4. CASE CrashInHeader
  <2>1. PICK h \in HeaderWrites : hdr' = [hdr EXCEPT ![h[1]] = "UNKNOWN"]
    BY <1>0, <1>4 DEF CrashInHeader
  <2>2. slot' = slot
    BY <1>4 DEF CrashInHeader
  <2>3. h[1] \in Sectors /\ hdr[h[1]] # "VALID"
    <3>1. CASE pc \in {"swap_init", "move_init", "swap_valid", "move_valid"}
      <4>1. h[1] = Other(sector) /\ sector \in Sectors
        BY <1>0, <2>1, <3>1 DEF HeaderWrites, ControlInv, BootPcs
      <4> QED BY <1>0, <3>1, <4>1 DEF InUseInv, CopyPcs
    <3>2. CASE pc = "format_valid"
      <4>1. h[1] = sector
        BY <2>1, <3>2 DEF HeaderWrites
      <4> QED BY <1>0, <3>2, <4>1 DEF BootInv
    <3> QED BY <2>1, <3>1, <3>2 DEF HeaderWrites
  <2> QED BY <1>3, <2>1, <2>2, <2>3
<1>5. CASE CrashInErase
  <2>1. PICK s \in Erasures : hdr' = [hdr EXCEPT ![s] = "UNKNOWN"]
    BY <1>0, <1>5 DEF CrashInErase
  <2>2. slot' = slot
    BY <1>5 DEF CrashInErase
  <2>3. CASE pc = "erase_src"
    <3>1. /\ s = Other(sector) /\ sector \in Sectors /\ hdr[sector] = "VALID"
      BY <1>0, <2>1, <2>3 DEF Erasures, ControlInv, BootPcs, InUseInv, TailPcs
    <3>2. hdr'[s] = "UNKNOWN" /\ hdr'[sector] = "VALID"
      <4>1. s \in Sectors /\ Other(s) = sector
        BY <1>0, <3>1
      <4> QED BY <1>3, <2>1, <2>2, <3>1, <4>1
    <3>3. ASSUME NEW k \in Keys PROVE Value(k)' = ValueIn(slot[sector], k)
      <4>1. sector = 1 \/ (sector = 2 /\ hdr'[1] = "UNKNOWN")
        BY <1>0, <3>1, <3>2
      <4> QED BY <2>2, <3>2, <4>1 DEF Value
    <3>4. \A k \in Keys : Value(k) = ValueIn(slot[sector], k)
      BY <2>3 DEF UsedInv, UsedPcs, TailPcs
    <3> QED BY <3>3, <3>4 DEF SameValues
  <2>4. CASE pc = "init_erase"
    <3>1. /\ s = Other(sector) /\ sector \in Sectors /\ hdr[sector] = "VALID"
          /\ sector = 1 \/ hdr[1] # "VALID"
      BY <1>0, <2>1, <2>4 DEF Erasures, ControlInv, InUseInv, CallsInv
    <3>2. hdr'[s] = "UNKNOWN" /\ hdr'[sector] = "VALID"
      <4>1. s \in Sectors /\ Other(s) = sector
        BY <1>0, <3>1
      <4> QED BY <1>3, <2>1, <2>2, <3>1, <4>1
    <3>3. sector = 1 \/ (hdr[1] # "VALID" /\ hdr'[1] # "VALID")
      BY <1>0, <3>1, <3>2
    <3> QED BY <2>2, <3>1, <3>2, <3>3, ValueKept DEF SameValues
  <2>5. CASE pc = "reset1"
    <3>1. s = 1 /\ op \in {"boot", "reset", "delete"}
      BY <1>0, <2>1, <2>5 DEF Erasures, ControlInv, Loading
    <3>2. CASE hdr[1] # "VALID"
      BY <1>0, <1>3, <2>1, <2>2, <3>1, <3>2
    <3>3. CASE hdr[1] = "VALID"
      <4>1. op # "boot" /\ hdr[2] # "VALID"
        BY <1>0, <2>5, <3>1, <3>3 DEF ResetInv
      <4>2. hdr'[1] # "VALID" /\ hdr'[2] # "VALID"
        <5>1. /\ hdr' = [hdr EXCEPT ![1] = "UNKNOWN"]
              /\ hdr \in [Sectors -> SectorFlags]
          BY <1>0, <2>1, <3>1 DEF FlashType
        <5> QED BY <4>1, <5>1 DEF Sectors
      <4> QED BY <2>5, <3>1, <4>1, <4>2 DEF NoValues, Value
    <3> QED BY <3>2, <3>3
  <2>6. CASE pc \notin {"erase_src", "init_erase", "reset1", "reset2"}
    <3>1. s \in Sectors /\ hdr[s] # "VALID"
      <4>1. CASE pc = "move_erase"
        <5>1. s = Other(sector) /\ sector \in Sectors
          BY <1>0, <2>1, <4>1 DEF Erasures, ControlInv, BootPcs
        <5> QED BY <1>0, <4>1, <5>1 DEF InUseInv
      <4>2. CASE pc = "format_erase"
        BY <1>0, <2>1, <4>2 DEF Erasures, BootInv
      <4>3. CASE pc \in {"init1", "init2"}
        BY <1>0, <2>1, <4>3 DEF Erasures
      <4>4. pc # "swap_erase"
        BY <1>0 DEF InUseInv
      <4> QED BY <2>1, <2>6, <4>1, <4>2, <4>3, <4>4 DEF Erasures
    <3> QED BY <1>3, <2>1, <2>2, <3>1
  <2>7. CASE pc = "reset2"
    <3>1. /\ s = 2 /\ hdr[1] = "EMPTY"
          /\ op \in {"boot", "reset", "delete"}
      BY <1>0, <2>1, <2>7 DEF Erasures, BootInv, ControlInv, Loading
    <3>2. CASE hdr[2] # "VALID"
      BY <1>0, <1>3, <2>1, <2>2, <3>1, <3>2
    <3>3. CASE hdr[2] = "VALID"
      <4>1. op # "boot"
        BY <1>0, <2>7, <3>3 DEF ResetInv
      <4>2. hdr'[1] # "VALID" /\ hdr'[2] # "VALID"
        BY <1>0, <1>3, <2>1, <2>2, <3>1
      <4> QED BY <2>7, <3>1, <4>1, <4>2 DEF NoValues, Value
    <3> QED BY <3>2, <3>3
  <2> QED BY <2>3, <2>4, <2>5, <2>6, <2>7
<1> QED BY <1>1, <1>2, <1>4, <1>5 DEF PowerFailure

LEMMA ResetInit == Init => ResetInv
BY DEF Init, ResetInv

\* Every other step leaves FLASH alone, as far as values go.
LEMMA ValueNext ==
    ASSUME AtomicUse, StoreInv, CallsInv, CopiedInv, TwinInv, ResetInv,
           UsedInv, UsedInv', Next
    PROVE  ValueStep /\ (Reset2 => NoValues)
<1>0. TypeInv /\ HeadersInv /\ ControlInv /\ InUseInv
  BY DEF StoreInv, TypeInv, HeadersInv
<1>1. CASE UNCHANGED <<hdr, slot>> /\ ~Reset2
  BY <1>1, ValueSame DEF ValueStep, SameValues
<1>2. CASE PowerFailure
  <2>1. ~Reset2
    BY <1>2
       DEF Reset2, PowerFailure, Crash, CrashInWrite, CrashInHeader,
           CrashInErase, PowerOff, Goto
  <2> QED BY <1>2, <2>1, FailureStep DEF ValueStep
<1>3. CASE Boot
  BY <1>1, <1>3 DEF Boot, Reset2, flash
<1>4. CASE Call
  <2>1. ~Reset2
    BY <1>4
       DEF Reset2, Call, RecordSet, EntryData, EntrySave, RecordDelete,
           StartWrite, Repair, Reset, Unload
  <2> QED BY <1>1, <1>4, <2>1
       DEF Call, RecordSet, EntryData, EntrySave, RecordDelete, StartWrite,
           Repair, Reset, Unload, flash
<1>5. CASE Step
  <2>1. \/ RecordSetWrite \/ RecordSetValid \/ RecordSetMarkOld
        \/ SwapInit \/ SwapCopy \/ SwapValid
        \/ MoveErase \/ MoveInit \/ MoveCopy \/ MoveValid
        \/ Rebuild \/ EraseSource
        => ValueStep /\ ~Reset2
    <3>1. \/ RecordSetWrite \/ RecordSetValid \/ RecordSetMarkOld
          \/ SwapInit \/ SwapCopy \/ SwapValid
          \/ MoveErase \/ MoveInit \/ MoveCopy \/ MoveValid
          \/ Rebuild \/ EraseSource
          => ~Reset2
      BY DEF RecordSetWrite, RecordSetValid, RecordSetMarkOld, SwapInit,
             SwapCopy, SwapValid, MoveErase, MoveInit, MoveCopy, MoveValid,
             Rebuild, EraseSource, Reset2
    <3> QED BY <3>1, UsedStep
  <2>2. \/ Reset1 \/ Reset2
        \/ InitUnknown("init1", 1, "init2")
        \/ InitUnknown("init2", 2, "init_sectors")
        \/ InitErase \/ FormatErase \/ FormatValid \/ Construct
        => ValueStep /\ (Reset2 => NoValues)
    BY BootStep
  <2>3. ~RecordDeleteMark /\ ~SwapErase /\ ~MoveMark
    BY <1>0 DEF RecordDeleteMark, SwapErase, MoveMark, CallsInv, InUseInv,
                ControlInv
  <2>4. CASE RecordSetMarkBad
    BY <1>1, <2>4, MarkBadStep DEF flash, Reset2
  <2>5. CASE RecordSetCheck \/ MoveEnd \/ MoveSkip \/ Load \/ InitSectors
    BY <1>1, <2>5
       DEF RecordSetCheck, MoveEnd, MoveSkip, Load, InitSectors, flash, Reset2
  <2> QED BY <1>5, <2>1, <2>2, <2>3, <2>4, <2>5 DEF Step
<1> QED BY <1>2, <1>3, <1>4, <1>5 DEF Next

LEMMA ResetNext ==
    ASSUME AtomicUse, StoreInv, CallsInv, ResetInv, Next,
           ValueStep, Reset2 => NoValues
    PROVE  ResetInv'
<1>0. /\ FlashType /\ TypeInv /\ TypeOK /\ HeadersInv /\ ControlInv
      /\ VolumeInv /\ InUseInv /\ BootInv /\ RecordFaults
      /\ 1 \in Sectors /\ 2 \in Sectors /\ Other(1) = 2 /\ Other(2) = 1
      /\ \A s \in Sectors : s = 1 \/ s = 2
  BY TypeFlash, UseFaults
     DEF StoreInv, TypeInv, HeadersInv, Sectors, Other
<1> USE DEF BootPcs
<1>1. pc' = "reset1" => (\E o \in Ops : Reset(o)) \/ Boot
  BY <1>0
     DEF Next, Call, Step, PowerFailure, Crash, CrashInWrite, CrashInHeader,
         CrashInErase, PowerOff, RecordSet, EntryData, EntrySave,
         RecordDelete, StartWrite, SwapEntry, Repair, MoveEntry, Unload,
         RecordSetCheck, RecordSetWrite, RecordSetMarkBad, RecordSetValid,
         RecordSetMarkOld, RecordDeleteMark, SwapErase, SwapInit, SwapCopy,
         SwapValid, MoveErase, MoveInit, MoveEnd, MoveSkip, MoveCopy,
         MoveMark, MoveValid, Rebuild, EraseSource, Reset1, Reset2, Load,
         InitUnknown, InitSectors, InitErase, FormatErase, FormatValid,
         Construct, Goto, Return, MoveFailed
<1>2. pc' = "reset2" => Reset1
  BY <1>0
     DEF Next, Call, Step, PowerFailure, Crash, CrashInWrite, CrashInHeader,
         CrashInErase, PowerOff, RecordSet, EntryData, EntrySave,
         RecordDelete, StartWrite, SwapEntry, Repair, MoveEntry, Unload,
         RecordSetCheck, RecordSetWrite, RecordSetMarkBad, RecordSetValid,
         RecordSetMarkOld, RecordDeleteMark, SwapErase, SwapInit, SwapCopy,
         SwapValid, MoveErase, MoveInit, MoveEnd, MoveSkip, MoveCopy,
         MoveMark, MoveValid, Rebuild, EraseSource, Reset1, Reset2, Load,
         InitUnknown, InitSectors, InitErase, FormatErase, FormatValid,
         Construct, Goto, Return, MoveFailed, Boot, Reset
<1>3. op' = "reset" /\ pc' \in BootPcs \ {"reset1", "reset2"} =>
          \/ Reset2
          \/ op = "reset" /\ pc \in BootPcs \ {"reset1", "reset2"}
  BY <1>0
     DEF Next, Call, Step, PowerFailure, Crash, CrashInWrite, CrashInHeader,
         CrashInErase, PowerOff, RecordSet, EntryData, EntrySave,
         RecordDelete, StartWrite, SwapEntry, Repair, MoveEntry, Unload,
         RecordSetCheck, RecordSetWrite, RecordSetMarkBad, RecordSetValid,
         RecordSetMarkOld, RecordDeleteMark, SwapErase, SwapInit, SwapCopy,
         SwapValid, MoveErase, MoveInit, MoveEnd, MoveSkip, MoveCopy,
         MoveMark, MoveValid, Rebuild, EraseSource, Reset1, Load,
         InitUnknown, InitSectors, InitErase, FormatErase, FormatValid,
         Construct, Goto, Return, MoveFailed, Boot, Reset, CallsInv, InUseInv,
         Loading, request, MovePcs, TailPcs
<1>4. CASE \E o \in Ops : Reset(o)
  <2>1. /\ pc = "idle" /\ pc' = "reset1" /\ hdr' = hdr
        /\ op' \in {"reset", "delete"}
    BY <1>4 DEF Reset, flash
  <2>2. \E s \in Sectors : hdr[s] # "VALID"
    <3>1. sector \in Sectors /\ hdr[Other(sector)] = "EMPTY"
      BY <1>0, <2>1 DEF ControlInv, InUseInv
    <3>2. Other(sector) \in Sectors
      BY <1>0, <3>1
    <3> QED BY <3>1, <3>2
  <2> QED BY <2>1, <2>2 DEF ResetInv
<1>5. CASE Boot
  <2>1. /\ pc' \in {"load", "reset1"} /\ op' = "boot" /\ hdr' = hdr
        /\ pc' = "reset1" => ~Validate
    BY <1>5 DEF Boot, flash
  <2>2. pc' = "reset1" => \A s \in Sectors : hdr[s] # "VALID"
    BY <1>0, <2>1, BootChoice
  <2> QED BY <1>0, <2>1, <2>2 DEF ResetInv
<1>6. CASE Reset1
  <2>1. /\ pc = "reset1" /\ pc' = "reset2" /\ op' = op
        /\ hdr'[1] = "EMPTY" /\ hdr'[2] = hdr[2]
    BY <1>0, <1>6, EraseDone DEF Reset1, Goto, request, Stamped
  <2> QED BY <1>0, <2>1 DEF ResetInv
<1>7. CASE pc' \notin {"reset1", "reset2"}
  <2>1. \A k \in Keys : op' = "reset" /\ pc' \in BootPcs \ {"reset1", "reset2"}
                            => Value(k)' = None
    BY <1>3 DEF ResetInv, ValueStep, SameValues, NoValues
  <2> QED BY <1>7, <2>1 DEF ResetInv
<1> QED BY <1>1, <1>2, <1>4, <1>5, <1>6, <1>7

----------------------------------------------------------------------------
(* The invariant.                                                          *)

LEMMA CopyInit == Init => CopyInv /\ ResetInv
BY StoreInit, CallsInit, FilledInit, ExactInit, CopiedInit, ResetInit
   DEF CopyInv

LEMMA CopyNext ==
    ASSUME AtomicUse, CopyInv, [Next]_vars
    PROVE  CopyInv'
<1>1. StoreInv'
  BY UseFaults, StoreNext DEF CopyInv
<1>2. CASE Next
  <2>1. CallsInv'
    BY <1>2, CallsNext DEF CopyInv, StoreInv
  <2>2. FilledInv'
    BY <1>2, FilledNext DEF CopyInv
  <2>3. ExactInv'
    BY <1>2, ExactNext DEF CopyInv
  <2>4. CopiedInv'
    BY <1>2, CopiedNext DEF CopyInv
  <2>5. MovedInv'
    BY <1>2, MovedNext DEF CopyInv
  <2>6. TwinInv'
    BY <1>2, TwinNext DEF CopyInv
  <2> QED BY <1>1, <2>1, <2>2, <2>3, <2>4, <2>5, <2>6 DEF CopyInv
<1>3. CASE UNCHANGED vars
  <2> USE DEF CopyInv, vars, flash, ram, request, copy, env
  <2>1. CallsInv'
    BY <1>3 DEF CallsInv, Loading
  <2>2. FilledInv'
    BY <1>3 DEF FilledInv, UsedTo
  <2>3. ExactInv'
    BY <1>3 DEF ExactInv, Exact
  <2>4. CopiedInv'
    BY <1>3 DEF CopiedInv, Copied, Entries
  <2>5. MovedInv' /\ TwinInv'
    BY <1>3 DEF MovedInv, TwinInv
  <2> QED BY <1>1, <2>1, <2>2, <2>3, <2>4, <2>5
<1> QED BY <1>2, <1>3

LEMMA ResetStep ==
    ASSUME AtomicUse, CopyInv, ResetInv, UsedInv, UsedInv', [Next]_vars
    PROVE  ResetInv' /\ [ValueStep]_vars
<1>1. CASE Next
  BY <1>1, ValueNext, ResetNext DEF CopyInv
<1>2. CASE UNCHANGED vars
  BY <1>2 DEF ResetInv, Value, vars, flash, request
<1> QED BY <1>1, <1>2

\* What a boot would find.
StoredSame == \A k \in Keys : Stored(k) = Value(k)

LEMMA StoredValue ==
    ASSUME TypeInv, HeadersInv
    PROVE  StoredSame
<1> SUFFICES ASSUME NEW k \in Keys PROVE Stored(k) = Value(k)
  BY DEF StoredSame
<1>1. /\ VolumeInv
      /\ hdr[1] \in {"EMPTY", "UNKNOWN", "INITIALIZING", "VALID"}
      /\ hdr[2] \in {"EMPTY", "UNKNOWN", "INITIALIZING", "VALID"}
  BY TypeFlash
     DEF HeadersInv, VolumeInv, FlashType, SectorFlags, Sectors
<1>2. Validate <=> hdr[1] = "VALID" \/ hdr[2] = "VALID"
  BY <1>1, BootChoice DEF Sectors
<1> DEFINE plan == Plan(hdr[1], hdr[2])
           found == LiveSlots(plan.sector, k)
                        \intersect Visible(plan.sector, plan.act)
<1>3. Stored(k) = IF Validate /\ found # {}
                  THEN slot[plan.sector][Highest(found)].val ELSE None
  BY DEF Stored
<1>4. ASSUME NEW s, plan.sector = s, plan.act # "repair", Validate
      PROVE  Stored(k) = ValueIn(slot[s], k)
  <2>1. found = LiveIn(slot[s], k)
    <3> HIDE DEF plan
    <3> QED BY <1>4 DEF LiveSlots, LiveIn, Visible
  <2> HIDE DEF plan, found
  <2> QED BY <1>3, <1>4, <2>1 DEF ValueIn
<1>5. CASE hdr[1] = "VALID"
  <2>1. plan = [sector |-> 1, act |-> "erase_other"]
    BY <1>5 DEF Plan
  <2> HIDE DEF plan, found
  <2>2. plan.sector = 1 /\ plan.act # "repair" /\ Validate
    BY <1>2, <1>5, <2>1
  <2> QED BY <1>4, <1>5, <2>2 DEF Value
<1>6. CASE hdr[1] # "VALID" /\ hdr[2] = "VALID"
  <2>1. \/ plan = [sector |-> 2, act |-> "none"]
        \/ plan = [sector |-> 2, act |-> "erase_other"]
    <3>1. CASE hdr[1] \in {"EMPTY", "UNKNOWN"}
      BY <1>6, <3>1 DEF Plan
    <3>2. CASE hdr[1] = "INITIALIZING"
      BY <1>6, <3>2 DEF Plan
    <3> QED BY <1>1, <1>6, <3>1, <3>2
  <2> HIDE DEF plan, found
  <2>2. plan.sector = 2 /\ plan.act # "repair" /\ Validate
    BY <1>2, <1>6, <2>1
  <2> QED BY <1>4, <1>6, <2>2 DEF Value
<1>7. CASE hdr[1] # "VALID" /\ hdr[2] # "VALID"
  <2> HIDE DEF plan, found
  <2> QED BY <1>2, <1>3, <1>7 DEF Value
<1> QED BY <1>5, <1>6, <1>7

\* What a read returns between operations.
AnswerInv == pc = "idle" => \A k \in Keys : RecordGet(k) = Value(k)

LEMMA AnswerValue ==
    ASSUME ExactInv, UsedInv
    PROVE  AnswerInv
<1> SUFFICES ASSUME pc = "idle", NEW k \in Keys
             PROVE  RecordGet(k) = ValueIn(slot[sector], k)
  BY DEF AnswerInv, UsedInv, UsedPcs
<1>1. Exact(k)
  BY DEF ExactInv, ExactPcs
<1>2. CASE idx[k] = NoIdx
  BY <1>1, <1>2 DEF RecordGet, Exact, ValueIn
<1>3. CASE idx[k] # NoIdx
  <2>1. Newest(slot[sector], k, idx[k])
    BY <1>1, <1>3 DEF Exact
  <2>2. ValueIn(slot[sector], k) = slot[sector][idx[k]].val
    BY <2>1, ValueNewest
  <2>3. slot[sector][idx[k]].flags = "VALID"
    BY <2>1 DEF Newest, LiveIn, Live
  <2> QED BY <1>1, <1>3, <2>2, <2>3 DEF RecordGet, Exact
<1> QED BY <1>2, <1>3

\* The invariant holds, and the values change as they should.
LEMMA AtomicCorrect ==
    ASSUME AtomicUse
    PROVE  Spec => /\ [](AtomicInv /\ UsedInv /\ StoredSame /\ AnswerInv)
                   /\ [][ValueStep]_vars
<1>1. Init => CopyInv /\ ResetInv
  BY CopyInit
<1>2. CopyInv /\ [Next]_vars => CopyInv'
  BY CopyNext
<1>3. CopyInv => UsedInv /\ StoredSame
  BY UsedValue, StoredValue DEF CopyInv, StoreInv
<1>4. CopyInv /\ UsedInv => AnswerInv
  BY AnswerValue DEF CopyInv
<1>5. CopyInv /\ ResetInv /\ UsedInv /\ UsedInv' /\ [Next]_vars =>
          ResetInv' /\ [ValueStep]_vars
  BY ResetStep
<1>6. CopyInv /\ ResetInv => AtomicInv
  BY DEF AtomicInv
<1> QED BY <1>1, <1>2, <1>3, <1>4, <1>5, <1>6, PTL DEF Spec

\* No step of a write, swap, repair, load, erase or power failure changes what
\* a boot would find, except for the effect of the operation in progress.
THEOREM AtomicUpdates == ASSUME AtomicUse PROVE Spec => UpdatesAreAtomic
<1> DEFINE Atomic == \A k \in Keys : Stored(k)' # Stored(k) =>
          \/ (Writing \/ op = "record_delete") /\ k = key /\ Stored(k)' = val
          \/ op \in {"reset", "delete"} /\ Stored(k)' = None
          \/ Cached /\ Writing /\ Stored(k)' = cache[k]
<1>1. AtomicInv /\ StoredSame /\ StoredSame' /\ [ValueStep]_vars => [Atomic]_vars
  <2> SUFFICES ASSUME AtomicInv, StoredSame, StoredSame', ValueStep PROVE Atomic
    OBVIOUS
  <2>1. pc = "set_valid" => Writing
    BY DEF AtomicInv, CopyInv, StoreInv, TypeInv, ControlInv, SetPcs
  <2>2. \A k \in Keys : Stored(k) = Value(k) /\ Stored(k)' = Value(k)'
    BY DEF StoredSame
  <2> QED BY <2>1, <2>2 DEF ValueStep, SameValues, NewValue, NoValues
<1>2. Spec => [][Atomic]_vars
  BY <1>1, AtomicCorrect, PTL
<1> QED BY <1>2 DEF UpdatesAreAtomic

----------------------------------------------------------------------------
(* The volume implements KVStore.                                          *)

\* What a step is for the caller: the start of an operation, maintenance, a
\* step inside an operation, a return from one, or a power failure.
LEMMA StepKinds ==
    ASSUME AtomicInv, AtomicUse, Next
    PROVE  \/ PowerFailure
           \/ \E k \in Keys, v \in Vals : RecordSet(k, v)
           \/ \E o \in Ops : Reset(o)
           \/ Boot \/ Repair \/ Unload
           \/ pc # "idle" /\ pc' # "idle" /\ UNCHANGED <<request, ret>>
           \/ /\ pc # "idle" /\ (Return("EOK") \/ Return("FAIL"))
              /\ Loading \/ op = "delete" => pc = "construct"
           \/ Reset2 /\ op = "delete"
<1>0. TypeInv /\ HeadersInv /\ ControlInv /\ InUseInv
  BY DEF AtomicInv, CopyInv, StoreInv, TypeInv, HeadersInv
<1>1. CASE Call
  <2>1. ~(\E k \in Keys, v \in Vals : EntryData(k, v))
    BY DEF EntryData, AtomicUse
  <2>2. ~(\E k \in Keys : EntrySave(k) \/ RecordDelete(k))
    BY DEF EntrySave, RecordDelete, StartWrite, AtomicUse
  <2> QED BY <1>1, <2>1, <2>2 DEF Call
<1>2. CASE Step
  <2>1. ~RecordDeleteMark /\ ~SwapErase /\ ~MoveMark
    BY <1>0 DEF RecordDeleteMark, SwapErase, MoveMark, AtomicInv, CopyInv,
                CallsInv, InUseInv, ControlInv
  <2>2. CASE RecordSetCheck \/ RecordSetWrite \/ RecordSetMarkBad
             \/ RecordSetValid \/ RecordSetMarkOld
    <3>1. pc \in SetPcs
      BY <2>2 DEF RecordSetCheck, RecordSetWrite, RecordSetMarkBad,
                  RecordSetValid, RecordSetMarkOld, SetPcs
    <3>2. op \notin {"boot", "reset", "delete"}
      BY <1>0, <3>1 DEF ControlInv, Writing
    <3> QED
      BY <2>2, <3>2
         DEF RecordSetCheck, RecordSetWrite, RecordSetMarkBad,
             RecordSetValid, RecordSetMarkOld, Goto, Return, Loading
  <2>3. CASE SwapInit \/ SwapCopy \/ SwapValid
    <3>1. pc \in SwapPcs
      BY <2>3 DEF SwapInit, SwapCopy, SwapValid, SwapPcs
    <3>2. op \notin {"boot", "reset", "delete"}
      BY <1>0, <3>1 DEF ControlInv, Writing
    <3> QED
      BY <2>3, <3>2
         DEF SwapInit, SwapCopy, SwapValid, MoveEntry, Goto, Return, Loading
  <2>4. CASE MoveErase \/ MoveInit \/ MoveEnd \/ MoveSkip \/ MoveCopy
             \/ MoveValid
    <3>1. pc \in MovePcs
      BY <2>4 DEF MoveErase, MoveInit, MoveEnd, MoveSkip, MoveCopy,
                  MoveValid, MovePcs
    <3>2. op # "delete"
      BY <1>0, <3>1 DEF ControlInv, Writing, Loading
    <3> QED
      BY <2>4, <3>2
         DEF MoveErase, MoveInit, MoveEnd, MoveSkip, MoveCopy, MoveValid,
             MoveFailed, Goto, Return, Loading
  <2>5. CASE Rebuild \/ EraseSource
    <3>1. pc \in TailPcs
      BY <2>5 DEF Rebuild, EraseSource, TailPcs
    <3>2. op # "delete"
      BY <1>0, <3>1 DEF ControlInv, Writing, Loading
    <3> QED
      BY <2>5, <3>2 DEF Rebuild, EraseSource, Goto, Return, Loading
  <2>6. CASE Reset1 \/ Reset2 \/ Load
             \/ InitUnknown("init1", 1, "init2")
             \/ InitUnknown("init2", 2, "init_sectors")
             \/ InitSectors \/ InitErase \/ FormatErase \/ FormatValid
             \/ Construct
    BY <2>6
       DEF Reset1, Reset2, Load, InitUnknown, InitSectors, InitErase,
           FormatErase, FormatValid, Construct, MoveEntry, Goto, Return
  <2> QED BY <1>2, <2>1, <2>2, <2>3, <2>4, <2>5, <2>6 DEF Step
<1> QED BY <1>1, <1>2 DEF Next

\* The map, and the request, of KVStore.
Store == [k \in Keys |-> Stored(k)]
Request == IF op \in {"none", "boot", "repair"}
           THEN [op |-> "none", key |-> None, val |-> None]
           ELSE [op |-> op, key |-> key, val |-> val]
Answer == [k \in Keys |-> IF pc = "idle" THEN RecordGet(k) ELSE None]
Empty  == [k \in Keys |-> None]

\* The operation in progress on the map.
Changed == IF op \in {"reset", "delete"} THEN Empty
           ELSE [Store EXCEPT ![key] = val]

LEMMA StoreSteps ==
    ASSUME StoredSame, StoredSame'
    PROVE  /\ SameValues => Store' = Store
           /\ NewValue /\ key \in Keys => Store' = [Store EXCEPT ![key] = val]
           /\ NoValues => Store' = Empty
<1>1. /\ \A k \in Keys : Stored(k) = Value(k)
      /\ \A k \in Keys : Stored(k)' = Value(k)'
  BY DEF StoredSame
<1>2. Store' = [k \in Keys |-> Stored(k)']
  BY DEF Store
<1>3. ASSUME SameValues PROVE Store' = Store
  <2>1. \A k \in Keys : Stored(k)' = Stored(k)
    BY <1>1, <1>3 DEF SameValues
  <2> QED BY <1>2, <2>1 DEF Store
<1>4. ASSUME NewValue, key \in Keys
      PROVE  Store' = [Store EXCEPT ![key] = val]
  <2>1. \A k \in Keys : Stored(k)' = IF k = key THEN val ELSE Stored(k)
    BY <1>1, <1>4 DEF NewValue
  <2> QED BY <1>2, <1>4, <2>1 DEF Store
<1>5. ASSUME NoValues PROVE Store' = Empty
  <2>1. \A k \in Keys : Stored(k)' = None
    BY <1>1, <1>5 DEF NoValues
  <2> QED BY <1>2, <2>1 DEF Empty
<1> QED BY <1>3, <1>4, <1>5

\* A loaded volume answers with the map.
LEMMA AnswerSteps ==
    ASSUME StoredSame', AnswerInv'
    PROVE  Answer' = IF pc' = "idle" THEN Store' ELSE Empty
<1>1. /\ Store' = [k \in Keys |-> Stored(k)']
      /\ Answer' = [k \in Keys |-> IF pc' = "idle" THEN RecordGet(k)'
                                   ELSE None]
  BY DEF Store, Answer
<1>2. CASE pc' = "idle"
  <2>1. \A k \in Keys : RecordGet(k)' = Stored(k)'
    BY <1>2 DEF StoredSame, AnswerInv
  <2> QED BY <1>1, <1>2, <2>1
<1>3. CASE pc' # "idle"
  BY <1>1, <1>3 DEF Empty
<1> QED BY <1>2, <1>3

\* KVStore's next-state relation, in the volume's terms.
NoRequest == [op |-> "none", key |-> None, val |-> None]
ActStart  == /\ pc = "idle" /\ pc' # "idle"
             /\ Request' \in KV!Requests
             /\ Store' = Store /\ ret' = ret
ActCommit == /\ Request # NoRequest /\ Request' = Request
             /\ Store' = Changed
             /\ pc # "idle" /\ pc' # "idle" /\ ret' = ret
ActFinish == /\ Request # NoRequest /\ Request' = NoRequest
             /\ Store' \in {Store, Changed}
             /\ ret' \in {"EOK", "FAIL"}
             /\ ret' = "EOK" => Store' = Changed
             /\ pc' = "idle" <=> op # "delete"
ActMaintain == /\ Request = NoRequest /\ Request' = NoRequest
               /\ ret' \in {ret, "EOK", "FAIL"}
               /\ Store' = Store
ActFailure == /\ Store' = Store \/ (Request # NoRequest /\ Store' = Changed)
              /\ Request' = NoRequest
              /\ pc' # "idle" /\ ret' = "none"

LEMMA KVSteps ==
    ASSUME Answer' = IF pc' = "idle" THEN Store' ELSE Empty,
           ActStart \/ ActCommit \/ ActFinish \/ ActMaintain \/ ActFailure
    PROVE  KV!Next
<1>1. KV!Answers
  BY DEF KV!Answers, KV!Nothing, Answer, Store, Empty
<1>2. CASE ActStart
  <2>1. \E r \in KV!Requests : KV!Start(r)
    BY <1>2 DEF ActStart, KV!Start, Request, Store
  <2> QED BY <1>1, <2>1 DEF KV!Next
<1>3. CASE ActCommit
  <2>1. KV!Commit
    BY <1>3 DEF ActCommit, Changed, KV!Commit, KV!Effect, KV!Nothing,
                KV!NoReq, Request, NoRequest, Store, Empty
  <2> QED BY <1>1, <2>1 DEF KV!Next
<1>4. CASE ActFinish
  <2>1. KV!Finish
    BY <1>4 DEF ActFinish, Changed, KV!Finish, KV!Effect, KV!Nothing,
                KV!NoReq, Request, NoRequest, Store, Empty
  <2> QED BY <1>1, <2>1 DEF KV!Next
<1>5. CASE ActMaintain
  <2>1. KV!Maintain
    BY <1>5 DEF ActMaintain, KV!Maintain, KV!NoReq, Request, NoRequest, Store
  <2> QED BY <1>1, <2>1 DEF KV!Next
<1>6. CASE ActFailure
  <2>1. KV!PowerFailure
    BY <1>6 DEF ActFailure, Changed, KV!PowerFailure, KV!Effect, KV!Nothing,
                KV!NoReq, Request, NoRequest, Store, Empty
  <2> QED BY <1>1, <2>1 DEF KV!Next
<1> QED BY <1>2, <1>3, <1>4, <1>5, <1>6

\* Every step of the volume is a step of the map, or changes nothing of it.
LEMMA KVNext ==
    ASSUME AtomicUse, AtomicInv, UsedInv, UsedInv',
           StoredSame, StoredSame', AnswerInv', StoredInv', SetEntry, Next
    PROVE  KV!Next \/ (Store' = Store /\ Request' = Request
                       /\ pc # "idle" /\ pc' # "idle" /\ ret' = ret)
<1>0. /\ TypeOK /\ ControlInv /\ CallsInv /\ ResetInv
  BY DEF AtomicInv, CopyInv, StoreInv, TypeInv
<1>1. /\ op = "none" \/ op = "boot" \/ op = "repair" \/ op = "record_set"
         \/ op = "reset" \/ op = "delete"
      /\ op = "record_set" => key \in Keys /\ val \in Vals
      /\ op # "record_set" => key = None /\ val = None
      /\ pc = "off" \/ pc = "idle" => op = "none"
  BY <1>0 DEF TypeOK, OpNames, ControlInv, CallsInv, Writing
<1>2. /\ SameValues => Store' = Store
      /\ NewValue /\ key \in Keys => Store' = [Store EXCEPT ![key] = val]
      /\ NoValues => Store' = Empty
  BY StoreSteps
<1>3. ValueStep /\ (Reset2 => NoValues)
  BY ValueNext DEF AtomicInv, CopyInv
<1>4. Answer' = IF pc' = "idle" THEN Store' ELSE Empty
  BY AnswerSteps
<1>5. SUFFICES \/ ActStart \/ ActCommit \/ ActFinish \/ ActMaintain
               \/ ActFailure
               \/ (Store' = Store /\ Request' = Request
                       /\ pc # "idle" /\ pc' # "idle" /\ ret' = ret)
  BY <1>4, KVSteps
<1>6. /\ pc = "idle" => Store' = Store
      /\ op \notin {"reset", "delete", "record_set"} => Store' = Store
      /\ Store' = Store \/ Store' = Changed
  <2>1. CASE SameValues
    BY <1>2, <2>1
  <2>2. CASE pc = "set_valid" /\ key \in Keys /\ NewValue
    <3>1. op = "record_set"
      BY <1>0, <1>1, <2>2 DEF ControlInv, SetPcs, Writing
    <3> QED BY <1>2, <2>2, <3>1 DEF Changed
  <2>3. CASE pc \in {"reset1", "reset2"} /\ op \in {"reset", "delete"} /\ NoValues
    BY <1>2, <2>3 DEF Changed
  <2> QED BY <1>3, <2>1, <2>2, <2>3 DEF ValueStep
<1>7. CASE PowerFailure
  <2>1. pc' = "off" /\ op' = "none" /\ ret' = "none"
    BY <1>7 DEF PowerFailure, Crash, CrashInWrite, CrashInHeader,
                CrashInErase, PowerOff
  <2>2. Request' = NoRequest
    BY <2>1 DEF Request, NoRequest
  <2>3. \/ SameValues
        \/ op \in {"reset", "delete"} /\ NoValues
    BY <1>7, FailureStep DEF AtomicInv, CopyInv
  <2>4. CASE SameValues
    BY <1>2, <2>1, <2>2, <2>4 DEF ActFailure
  <2>5. CASE op \in {"reset", "delete"} /\ NoValues
    <3>1. Store' = Changed
      BY <1>2, <2>5 DEF Changed
    <3>2. Request # NoRequest
      BY <2>5 DEF Request, NoRequest
    <3> QED BY <2>1, <2>2, <3>1, <3>2 DEF ActFailure
  <2> QED BY <2>3, <2>4, <2>5
<1>8. CASE \E k \in Keys, v \in Vals : RecordSet(k, v)
  <2> PICK k \in Keys, v \in Vals : RecordSet(k, v)
    BY <1>8
  <2>1. /\ pc = "idle" /\ pc' # "idle" /\ ret' = ret
        /\ op' = "record_set" /\ key' = k /\ val' = v
    BY DEF RecordSet, StartWrite, SwapEntry
  <2>2. Request' = [op |-> "record_set", key |-> k, val |-> v]
    BY <2>1 DEF Request
  <2>3. Request' \in KV!Requests
    BY <2>2 DEF KV!Requests
  <2> QED BY <1>6, <2>1, <2>3 DEF ActStart
<1>9. CASE \E o \in Ops : Reset(o)
  <2> PICK o \in Ops : Reset(o)
    BY <1>9
  <2>1. /\ pc = "idle" /\ pc' # "idle" /\ ret' = ret
        /\ o \in {"reset", "delete"} /\ op' = o /\ key' = key /\ val' = val
    BY DEF Reset
  <2>2. key = None /\ val = None
    BY <1>1, <2>1
  <2>3. Request' = [op |-> o, key |-> None, val |-> None]
    BY <2>1, <2>2 DEF Request
  <2>4. Request' \in KV!Requests
    BY <2>1, <2>3 DEF KV!Requests
  <2> QED BY <1>6, <2>1, <2>4 DEF ActStart
<1>10. CASE Boot \/ Repair \/ Unload
  <2>1. /\ pc \in {"off", "idle"} /\ ret' = ret
        /\ op' \in {"boot", "repair", "none"}
    BY <1>1, <1>10 DEF Boot, Repair, Unload, request
  <2>2. op = "none"
    BY <1>1, <2>1
  <2>3. Request = NoRequest /\ Request' = NoRequest
    BY <2>1, <2>2 DEF Request, NoRequest
  <2> QED BY <1>6, <2>1, <2>2, <2>3 DEF ActMaintain
<1>11. CASE pc # "idle" /\ pc' # "idle" /\ UNCHANGED <<request, ret>>
  <2>1. Request' = Request /\ ret' = ret
    BY <1>11 DEF Request, request
  <2>2. CASE Store' = Store
    BY <1>11, <2>1, <2>2
  <2>3. CASE Store' # Store
    <3>1. op \in {"reset", "delete", "record_set"}
      BY <1>6, <2>3
    <3>2. Request # NoRequest
      BY <3>1 DEF Request, NoRequest
    <3> QED BY <1>6, <1>11, <2>1, <2>3, <3>2 DEF ActCommit
  <2> QED BY <2>2, <2>3
<1>12. CASE /\ pc # "idle" /\ (Return("EOK") \/ Return("FAIL"))
            /\ Loading \/ op = "delete" => pc = "construct"
  <2>1. /\ pc' = "idle" /\ op' = "none" /\ ret' \in {"EOK", "FAIL"}
    BY <1>12 DEF Return
  <2>2. Request' = NoRequest
    BY <2>1 DEF Request, NoRequest
  <2>3. CASE op \in {"none", "boot", "repair"}
    <3>1. Request = NoRequest
      BY <2>3 DEF Request, NoRequest
    <3> QED BY <1>6, <2>1, <2>2, <2>3, <3>1 DEF ActMaintain
  <2>4. CASE op = "record_set"
    <3>1. Request # NoRequest
      BY <2>4 DEF Request, NoRequest
    <3>2. ASSUME ret' = "EOK" PROVE Store' = Changed
      <4> PICK k \in Keys : k = key
        BY <1>1, <2>4
      <4>1. Stored(k)' = val
        BY <2>1, <2>4, <3>2 DEF SetEntry, StoredInv, Entries, Writing
      <4>2. CASE Store' = Store
        <5>1. Store' = [j \in Keys |-> Stored(j)']
          BY DEF Store
        <5>2. Store[k] = val
          BY <4>1, <4>2, <5>1
        <5>3. [Store EXCEPT ![k] = val] = Store
          BY <5>2 DEF Store
        <5> QED BY <2>4, <4>2, <5>3 DEF Changed
      <4>3. CASE Store' = Changed
        BY <4>3
      <4> QED BY <1>6, <4>2, <4>3
    <3> QED BY <1>6, <2>1, <2>2, <2>4, <3>1, <3>2 DEF ActFinish
  <2>5. CASE op = "reset"
    <3>1. Request # NoRequest
      BY <2>5 DEF Request, NoRequest
    <3>2. pc = "construct" /\ SameValues
      BY <1>3, <1>12, <2>5 DEF Loading, ValueStep
    <3>3. \A k \in Keys : Value(k) = None
      BY <1>0, <2>5, <3>2 DEF ResetInv, BootPcs
    <3>4. Store' = Changed
      BY <1>2, <2>5, <3>2, <3>3 DEF Changed, Store, Empty, StoredSame
    <3> QED BY <2>1, <2>2, <2>5, <3>1, <3>4 DEF ActFinish
  <2>6. op # "delete"
    BY <1>0, <1>12 DEF ControlInv, BootPcs, Loading
  <2> QED BY <1>1, <2>3, <2>4, <2>5, <2>6
<1>13. CASE Reset2 /\ op = "delete"
  <2>1. pc' = "off" /\ op' = "none" /\ ret' = "EOK"
    BY <1>13 DEF Reset2
  <2>2. Request # NoRequest /\ Request' = NoRequest
    BY <1>13, <2>1 DEF Request, NoRequest
  <2>3. Store' = Changed
    BY <1>2, <1>3, <1>13 DEF Changed
  <2> QED BY <1>13, <2>1, <2>2, <2>3 DEF ActFinish
<1> QED BY <1>7, <1>8, <1>9, <1>10, <1>11, <1>12, <1>13, StepKinds

LEMMA KVInit == Init => KV!Init
<1> SUFFICES ASSUME Init PROVE KV!Init
  OBVIOUS
<1>1. \A k \in Keys : Stored(k) = None
  BY DEF Init, Stored, Validate, Known, Sectors
<1>2. pc = "off" /\ op = "none" /\ ret = "none"
  BY DEF Init
<1> QED BY <1>1, <1>2 DEF KV!Init, KV!Nothing, KV!NoReq

LEMMA KVSame == UNCHANGED vars => UNCHANGED KV!vars
<1> SUFFICES ASSUME UNCHANGED vars PROVE UNCHANGED KV!vars
  OBVIOUS
<1>1. /\ UNCHANGED <<hdr, ver, slot, sector, idx, cache, pc, op, key, val>>
      /\ UNCHANGED ret
  BY DEF vars, flash, ram, request
<1>2. \A k \in Keys : Stored(k)' = Stored(k) /\ RecordGet(k)' = RecordGet(k)
  BY <1>1 DEF Stored, LiveSlots, Visible, Validate, Known, RecordGet
<1> QED BY <1>1, <1>2 DEF KV!vars

LEMMA KVStutter ==
    ASSUME Store' = Store, Request' = Request, pc # "idle", pc' # "idle",
           ret' = ret
    PROVE  UNCHANGED KV!vars
<1>1. Answer' = Empty /\ Answer = Empty
  BY DEF Answer, Empty
<1> QED BY <1>1 DEF KV!vars, Store, Request, Answer

\* The volume implements the atomic map of KVStore: each step, of an operation
\* or of a power failure inside one, is a step of the map or none, for any
\* number of keys, slots, power failures and failed flag writes.
THEOREM ImplementsKV == ASSUME AtomicUse PROVE Spec => ImplementsKVStore
<1> DEFINE Inv == AtomicInv /\ UsedInv /\ StoredSame /\ AnswerInv /\ StoredInv
<1>1. Init => KV!Init
  BY KVInit
<1>2. Inv /\ Inv' /\ [Next]_vars => [KV!Next]_(KV!vars)
  <2> SUFFICES ASSUME Inv, Inv', [Next]_vars PROVE [KV!Next]_(KV!vars)
    OBVIOUS
  <2>1. CASE Next
    <3>1. SetEntry
      BY <2>1, SetNext DEF AtomicInv, CopyInv, StoreInv
    <3>2. \/ KV!Next
          \/ /\ Store' = Store /\ Request' = Request
             /\ pc # "idle" /\ pc' # "idle" /\ ret' = ret
      BY <2>1, <3>1, KVNext
    <3> QED BY <3>2, KVStutter
  <2>2. CASE UNCHANGED vars
    BY <2>2, KVSame
  <2> QED BY <2>1, <2>2
<1>3. AtomicInv => StoredInv
  BY StoredEntries DEF AtomicInv, CopyInv, StoreInv
<1>4. Spec => []Inv
  BY <1>3, AtomicCorrect, PTL
<1> QED BY <1>1, <1>2, <1>4, PTL DEF Spec, ImplementsKVStore, KV!Spec

----------------------------------------------------------------------------
(* Where record writes fail and power fails anywhere outside the gaps of   *)
(* a header or of an erase, and the caller deletes records only where      *)
(* power does not fail: what a step loses.                                 *)

LossUse ==
    /\ Faults \subseteq {"write"}
    /\ "record_delete" \in Ops => MaxCrashes = 0

\* The used slots of a sector are its first ones.
PackedPcs == UsePcs \union {"mark_deleted"}
DestPcs   == {"swap_copy", "swap_valid", "move_copy", "move_mark"}

PackedInv ==
    /\ \A s \in Sectors : Dense(s)
    /\ pc \in PackedPcs => UsedTo(sector, next_idx)
    /\ pc \in DestPcs => UsedTo(Other(sector), dst_idx)

\* Live records and entries have data.
ValuesInv ==
    /\ \A s \in Sectors, i \in Slots :
            Live(slot[s][i]) => slot[s][i].val \in Vals
    /\ Writing => val \in Vals
    /\ Cached => \A k \in Entries : cache[k] \in Vals

\* In a swap, every key of the source is still to be copied, from the slot
\* its entry names, or is in the destination.
EntryLive(k) == Live(slot[sector][idx[k]]) /\ slot[sector][idx[k]].key = k

SwapKept ==
    /\ pc = "swap_init" => \A k \in Keys :
            IF k \in Entries THEN EntryLive(k)
            ELSE LiveIn(slot[sector], k) = {}
    /\ pc \in {"swap_copy", "swap_valid"} => \A k \in Keys :
            IF k \in todo THEN EntryLive(k)
            ELSE LiveIn(slot[sector], k) # {} =>
                    LiveIn(slot[Other(sector)], k) # {}

\* The keys with a live record among the slots c and none among d.
Missing(c, d) == {k \in Keys : LiveIn(c, k) # {} /\ LiveIn(d, k) = {}}
Few(c, d, n) == Cardinality(Missing(c, d)) <= n

\* In a move, the destination misses at most one key of those read so far for
\* each write that failed; so it does when the move is complete.
MoveKept ==
    /\ pc \in {"move_copy", "move_mark"} =>
            Few(Below(slot[sector], src_idx), slot[Other(sector)], faults)
    /\ pc = "move_mark" => ~Live(slot[Other(sector)][dst_idx])
    /\ pc = "move_valid" => Few(slot[sector], slot[Other(sector)], faults)
    /\ pc \in TailPcs => Few(slot[Other(sector)], slot[sector], faults)

\* A load erases the sector that a boot would not choose; a boot erases a
\* volume with no VALID sector.
BootKept ==
    /\ pc = "init_erase" => sector = 1 \/ hdr[1] # "VALID"
    /\ pc \in {"reset1", "reset2"} /\ op = "boot" =>
            \A s \in Sectors : hdr[s] # "VALID"

LossInv == PackedInv /\ ValuesInv /\ SwapKept /\ MoveKept /\ BootKept

LEMMA LossFaults ==
    ASSUME LossUse
    PROVE  /\ RecordFaults /\ TableUse
           /\ "flag" \notin Faults /\ "erase_src" \notin Faults
           /\ "torn_header" \notin Faults /\ "torn_erase" \notin Faults
BY DEF LossUse, RecordFaults, TableUse, NoLeftovers

\* One slot of sector s is programmed or marked: a record that is not live
\* before, one that has another live record of its key, or one being deleted.
Touch(s, n) ==
    /\ n \in Slots
    /\ slot'[Other(s)] = slot[Other(s)]
    /\ \A i \in Slots : i # n => slot'[s][i] = slot[s][i]
    /\ slot'[s][n].flags # "EMPTY"
    /\ UsedTo(s, n) \/ slot[s][n].flags # "EMPTY"
    /\ Live(slot'[s][n]) => slot'[s][n].val \in Vals
    /\ \/ ~Live(slot[s][n])
       \/ op = "record_delete"
       \/ \E i \in Slots : /\ i # n /\ Live(slot[s][i])
                           /\ slot[s][i].key = slot[s][n].key

Touched(s, n) == hdr' = hdr /\ (slot' = slot \/ Touch(s, n))

LEMMA WriteLoss ==
    ASSUME FlashType, NEW s \in Sectors, NEW n, NEW rec \in Records,
           rec.flags # "EMPTY", NEW good \in BOOLEAN,
           TryWrite(s, n, rec, good), n \in Slots => slot[s][n] = Blank
    PROVE  /\ hdr' = hdr
           /\ \/ ~good /\ slot' = slot
              \/ /\ n \in Slots
                 /\ \E r \in Records :
                        /\ SlotSet(s, n, r) /\ r.flags # "EMPTY"
                        /\ IF good THEN r = rec ELSE ~Live(r)
<1>1. hdr' = hdr
  BY WriteKeepsHeaders
<1>2. CASE good /\ n \in Slots /\ ProgramSlot(s, n, rec)
  <2>1. SlotSet(s, n, rec)
    BY <1>2, ProgramSet
  <2> QED BY <1>1, <1>2, <2>1
<1>3. CASE ~good /\ UNCHANGED flash
  BY <1>1, <1>3 DEF flash
<1>4. CASE ~good /\ n \in Slots /\ ProgramSlot(s, n, [rec EXCEPT !.ok = FALSE])
  <2> DEFINE r == [rec EXCEPT !.ok = FALSE]
  <2>1. r \in Records /\ r.flags # "EMPTY" /\ ~Live(r)
    BY DEF Records, Live
  <2>2. ProgramSlot(s, n, r)
    BY <1>4
  <2> HIDE DEF r
  <2>3. SlotSet(s, n, r)
    BY <1>4, <2>2, ProgramSet
  <2> QED BY <1>1, <1>4, <2>1, <2>3
<1> QED BY <1>2, <1>3, <1>4 DEF TryWrite, flash

LEMMA MarkLoss ==
    ASSUME LossUse, FlashType, NEW s \in Sectors, NEW n,
           NEW good \in BOOLEAN, TryMark(s, n, "INVALID", good)
    PROVE  /\ hdr' = hdr
           /\ n \notin Slots => ~good /\ slot' = slot
           /\ n \in Slots =>
                /\ good
                /\ slot'[Other(s)] = slot[Other(s)]
                /\ \A j \in Slots : j # n => slot'[s][j] = slot[s][j]
                /\ slot'[s][n].flags # "EMPTY"
                /\ ~Live(slot'[s][n])
<1>1. hdr' = hdr
  BY MarkKeepsHeaders
<1>2. CASE n \notin Slots
  BY <1>1, <1>2 DEF TryMark, flash
<1>3. CASE n \in Slots
  <2>1. good /\ MarkSlot(s, n, "INVALID")
    BY <1>3, LossFaults DEF TryMark, Fault
  <2>2. /\ \A j \in Slots : j # n => slot'[s][j] = slot[s][j]
        /\ slot'[s][n].flags = "INVALID"
    BY <1>3, <2>1, MarkDone DEF FlagsAnd
  <2>3. slot'[Other(s)] = slot[Other(s)]
    <3>1. Other(s) \in Sectors /\ Other(s) # s
      BY OtherSector
    <3> QED BY <2>1, <3>1 DEF MarkSlot, FlashType
  <2> QED BY <1>1, <1>3, <2>1, <2>2, <2>3 DEF Live
<1> QED BY <1>2, <1>3

\* A record of the sector in use.
LEMMA WriteTouch ==
    ASSUME StoreInv, PackedInv, RecordSetWrite
    PROVE  /\ pc = "write" /\ sector \in Sectors
           /\ Touched(sector, next_idx)
           /\ UNCHANGED <<ram, request, ret, copy>>
           /\ pc' \in {"set_valid", "mark_bad"}
           /\ pc' = "set_valid" => next_idx \in Slots
<1>1. /\ pc = "write" /\ sector \in Sectors
      /\ UNCHANGED <<ram, request, ret, copy>>
      /\ next_idx \in Slots => slot[sector][next_idx] = Blank
      /\ FlashType
      /\ UsedTo(sector, next_idx)
      /\ key \in Keys /\ val \in Vals \union {None}
  BY TypeFlash
     DEF RecordSetWrite, Goto, StoreInv, TypeInv, ControlInv, BootPcs,
         ErasedInv, TailInv, BlankFrom, Slots, TypeOK, PackedInv, PackedPcs,
         UsePcs, SetPcs, Writing
<1> DEFINE rec == Record("NEW", key, val)
<1>2. PICK good \in BOOLEAN :
            /\ TryWrite(sector, next_idx, rec, good)
            /\ pc' = IF good THEN "set_valid" ELSE "mark_bad"
  BY DEF RecordSetWrite, Goto
<1>3. rec \in Records /\ rec.flags = "NEW"
  BY <1>1, RecordType DEF RecordFlags, Record
<1>4. rec.flags # "EMPTY" /\ ~Live(rec)
  BY <1>3 DEF Live
<1> HIDE DEF rec
<1>5. /\ hdr' = hdr
      /\ \/ ~good /\ slot' = slot
         \/ /\ next_idx \in Slots
            /\ \E r \in Records : /\ SlotSet(sector, next_idx, r)
                                  /\ r.flags # "EMPTY"
                                  /\ IF good THEN r = rec ELSE ~Live(r)
  BY <1>1, <1>2, <1>3, <1>4, WriteLoss
<1>6. Touched(sector, next_idx)
  <2>1. next_idx \in Slots => ~Live(slot[sector][next_idx])
    BY <1>1, BlankNotLive
  <2> QED BY <1>1, <1>4, <1>5, <2>1 DEF Touched, Touch, SlotSet
<1> QED BY <1>1, <1>2, <1>5, <1>6

LEMMA MarkBadTouch ==
    ASSUME LossUse, StoreInv, PackedInv, RecordSetMarkBad
    PROVE  /\ pc = "mark_bad" /\ sector \in Sectors
           /\ hdr' = hdr
           /\ IF next_idx \in Slots THEN Touch(sector, next_idx)
                                    ELSE slot' = slot
           /\ next_idx' = next_idx + 1
           /\ UNCHANGED <<sector, idx, cache, copy>>
           /\ Return("FAIL")
<1>1. /\ pc = "mark_bad" /\ sector \in Sectors
      /\ next_idx' = next_idx + 1
      /\ UNCHANGED <<sector, idx, cache, copy>>
      /\ Return("FAIL")
      /\ next_idx \in Slots => ~Live(slot[sector][next_idx])
      /\ FlashType
      /\ UsedTo(sector, next_idx)
  BY TypeFlash
     DEF RecordSetMarkBad, StoreInv, TypeInv, ControlInv, BootPcs, TableInv,
         PackedInv, PackedPcs, UsePcs, SetPcs
<1>2. PICK good \in BOOLEAN : TryMark(sector, next_idx, "INVALID", good)
  BY DEF RecordSetMarkBad
<1> QED BY <1>1, <1>2, MarkLoss DEF Touch

LEMMA SetValidTouch ==
    ASSUME LossUse, StoreInv, PackedInv, ValuesInv, RecordSetValid
    PROVE  /\ pc = "set_valid" /\ sector \in Sectors /\ key \in Keys
           /\ val \in Vals
           /\ hdr' = hdr
           /\ Touch(sector, next_idx)
           /\ UsedTo(sector, next_idx)
           /\ next_idx' = next_idx + 1
           /\ UNCHANGED <<sector, copy>>
           /\ \/ UNCHANGED <<idx, cache, request>> /\ pc' = "mark_old"
              \/ InsertLookupTable(key, val, next_idx) /\ Return("EOK")
<1>1. /\ pc = "set_valid" /\ key \in Keys
      /\ sector \in Sectors /\ next_idx \in Slots
      /\ slot[sector][next_idx] = Record("NEW", key, val)
      /\ next_idx' = next_idx + 1
      /\ UNCHANGED <<sector, copy>>
      /\ FlashType
      /\ UsedTo(sector, next_idx)
      /\ val \in Vals
  BY TypeFlash
     DEF RecordSetValid, StoreInv, TypeInv, ControlInv, BootPcs, SetPcs,
         Writing, CursorInv, TableInv, PackedInv, PackedPcs, UsePcs, ValuesInv
<1>2. PICK good \in BOOLEAN :
        /\ TryMark(sector, next_idx, "VALID", good)
        /\ IF good /\ idx[key] = NoIdx
           THEN InsertLookupTable(key, val, next_idx)
           ELSE UNCHANGED <<idx, cache>>
        /\ IF good /\ idx[key] # NoIdx
           THEN Goto("mark_old")
           ELSE Return(IF good THEN "EOK" ELSE "FAIL")
  BY DEF RecordSetValid
<1>3. good
  BY <1>1, <1>2, LossFaults DEF TryMark, Fault
<1>4. \/ UNCHANGED <<idx, cache, request>> /\ pc' = "mark_old"
      \/ InsertLookupTable(key, val, next_idx) /\ Return("EOK")
  BY <1>2, <1>3 DEF Goto
<1>5. hdr' = hdr
  BY <1>2, MarkKeepsHeaders
<1>6. slot'[Other(sector)] = slot[Other(sector)]
  <2>1. Other(sector) \in Sectors /\ Other(sector) # sector
    BY <1>1, OtherSector
  <2> QED BY <1>1, <1>2, <1>3, <2>1 DEF TryMark, MarkSlot, FlashType
<1>7. /\ slot'[sector][next_idx] = Record("VALID", key, val)
      /\ \A j \in Slots : j # next_idx => slot'[sector][j] = slot[sector][j]
  <2>1. /\ slot'[sector][next_idx] = Promoted(slot[sector][next_idx])
        /\ \A j \in Slots : j # next_idx => slot'[sector][j] = slot[sector][j]
    BY <1>1, <1>2, <1>3, MarkValidDone
  <2> QED BY <1>1, <2>1, PromotedRecord
<1>8. /\ ~Live(slot[sector][next_idx])
      /\ slot'[sector][next_idx].flags # "EMPTY"
      /\ slot'[sector][next_idx].val \in Vals
  BY <1>1, <1>7 DEF Record, Live
<1> QED BY <1>1, <1>4, <1>5, <1>6, <1>7, <1>8 DEF Touch


LEMMA MarkOldTouch ==
    ASSUME LossUse, StoreInv, RecordSetMarkOld
    PROVE  /\ pc = "mark_old" /\ sector \in Sectors /\ key \in Keys
           /\ hdr' = hdr
           /\ Touch(sector, idx[key])
           /\ UNCHANGED <<sector, next_idx, copy>>
           /\ InsertLookupTable(key, val, next_idx - 1)
           /\ Return("EOK")
<1> DEFINE i == idx[key]
           s == sector
           j == next_idx - 1
<1>1. /\ pc = "mark_old" /\ key \in Keys /\ s \in Sectors
      /\ j \in Slots /\ i \in Slots /\ i # j
      /\ slot[s][i].key = key
      /\ slot[s][j] = Record("VALID", key, val)
      /\ UNCHANGED <<sector, next_idx, copy>>
      /\ InsertLookupTable(key, val, next_idx - 1)
      /\ Return("EOK")
      /\ FlashType
  BY TypeFlash
     DEF RecordSetMarkOld, StoreInv, TypeInv, TypeOK, ControlInv, BootPcs,
         SetPcs, Writing, CursorInv, TableInv, Entries, NoIdx, Slots
<1>2. PICK good \in BOOLEAN : TryMark(s, i, "INVALID", good)
  BY DEF RecordSetMarkOld
<1>3. Live(slot[s][j]) /\ slot[s][j].key = slot[s][i].key
  BY <1>1 DEF Live, Record
<1>4. slot[s][i].flags # "EMPTY"
  <2>1. i < next_idx /\ BlankFrom(s, next_idx) /\ idx[key] # NoIdx
    BY <1>1 DEF StoreInv, TypeInv, TypeOK, ErasedInv, TailInv, TableInv, Slots,
                NoIdx
  <2>2. slot[s][i] # Blank
    BY <1>1, ConstantsAssumption DEF Blank
  <2> QED BY <1>1, <2>2 DEF StoreInv, ErasedInv, BlankInv
<1> HIDE DEF i, s, j
<1>5. /\ hdr' = hdr /\ Touch(s, i)
  BY <1>1, <1>2, <1>3, <1>4, MarkLoss DEF Touch
<1> QED BY <1>1, <1>5 DEF i, s, j

LEMMA DeleteTouch ==
    ASSUME LossUse, StoreInv, RecordDeleteMark
    PROVE  /\ pc = "mark_deleted" /\ op = "record_delete"
           /\ sector \in Sectors
           /\ Touched(sector, idx[key])
           /\ UNCHANGED <<sector, next_idx, copy>>
           /\ \/ /\ idx' = [idx EXCEPT ![key] = NoIdx]
                 /\ cache' = [cache EXCEPT ![key] = None]
              \/ UNCHANGED <<idx, cache>>
           /\ pc' = "idle" /\ op' = "none"
<1>1. /\ pc = "mark_deleted" /\ op = "record_delete"
      /\ sector \in Sectors /\ key \in Keys
      /\ UNCHANGED <<sector, next_idx, copy>>
      /\ FlashType
      /\ idx[key] \in Slots => Live(slot[sector][idx[key]])
  BY TypeFlash
     DEF RecordDeleteMark, StoreInv, TypeInv, TypeOK, ControlInv, BootPcs,
         TableInv, TablePcs, Entries, NoIdx, Slots, Newest, LiveIn
<1>2. PICK good \in BOOLEAN :
        /\ TryMark(sector, idx[key], "INVALID", good)
        /\ IF good THEN /\ idx' = [idx EXCEPT ![key] = NoIdx]
                        /\ cache' = [cache EXCEPT ![key] = None]
                   ELSE UNCHANGED <<idx, cache>>
        /\ pc' = "idle" /\ op' = "none"
  BY DEF RecordDeleteMark, Return
<1>3. Touched(sector, idx[key])
  <2>1. CASE idx[key] \notin Slots
    BY <1>1, <1>2, <2>1, MarkLoss DEF Touched
  <2>2. CASE idx[key] \in Slots
    <3>1. slot[sector][idx[key]].flags # "EMPTY"
      BY <1>1, <2>2 DEF Live
    <3> QED BY <1>1, <1>2, <2>2, <3>1, MarkLoss DEF Touched, Touch
  <2> QED BY <2>1, <2>2
<1> QED BY <1>1, <1>2, <1>3

\* A record of the destination.
LEMMA SwapRecordType ==
    ASSUME TypeInv, pc = "swap_copy", NEW k \in todo
    PROVE  SwapRecord(k) \in Records /\ k \in Keys /\ k \in Entries
<1>1. k \in Keys /\ k \in Entries /\ idx[k] \in Slots /\ sector \in Sectors
      /\ FlashType /\ cache[k] \in Vals \union {None}
  BY TypeFlash
     DEF TypeInv, CursorInv, Entries, TypeOK, ControlInv, BootPcs, NoIdx
<1>2. Record("VALID", k, cache[k]) \in Records
  BY <1>1, RecordType DEF RecordFlags
<1> QED BY <1>1, <1>2 DEF SwapRecord, FlashType

LEMMA CopyTouch ==
    ASSUME StoreInv, PackedInv, ValuesInv, SwapKept, SwapCopy
    PROVE  /\ pc = "swap_copy" /\ sector \in Sectors
           /\ Other(sector) \in Sectors
           /\ Touched(Other(sector), dst_idx)
           /\ UNCHANGED <<sector, next_idx, cache, request>>
           /\ \/ pc' \in {"move_erase", "move_init"} /\ idx' = idx
              \/ /\ pc' \in {"swap_copy", "swap_valid"}
                 /\ \E k \in todo :
                    /\ dst_idx \in Slots /\ k \in Entries /\ k \in Keys
                    /\ Touch(Other(sector), dst_idx)
                    /\ ~Live(slot[Other(sector)][dst_idx])
                    /\ Live(slot'[Other(sector)][dst_idx])
                    /\ slot'[Other(sector)][dst_idx].key = k
                    /\ idx' = [idx EXCEPT ![k] = dst_idx]
                    /\ dst_idx' = dst_idx + 1
                    /\ todo' = todo \ {k}
<1> DEFINE d == Other(sector)
           n == dst_idx
<1>1. /\ pc = "swap_copy" /\ sector \in Sectors /\ d \in Sectors
      /\ FlashType /\ TypeInv
      /\ n \in Slots => slot[d][n] = Blank
      /\ UsedTo(d, n)
      /\ UNCHANGED <<sector, next_idx, cache>>
  BY TypeFlash, OtherSector
     DEF SwapCopy, StoreInv, TypeInv, ControlInv, BootPcs,
         ErasedInv, TailInv, BlankFrom, Slots, TypeOK, PackedInv, DestPcs
<1>2. request' = request
  BY DEF SwapCopy, Goto
<1>3. PICK k \in todo :
        \/ /\ SwapRecord(k).flags = "VALID"
           /\ \E good \in BOOLEAN :
               /\ TryWrite(d, n, SwapRecord(k), good)
               /\ IF good
                  THEN /\ idx' = [idx EXCEPT ![k] = n]
                       /\ dst_idx' = n + 1
                       /\ todo' = todo \ {k}
                       /\ pc' \in {"swap_valid", "swap_copy"}
                  ELSE idx' = idx /\ pc' = MoveEntry(sector)
        \/ /\ pc' = MoveEntry(sector)
           /\ UNCHANGED <<flash, idx>>
  BY DEF SwapCopy, Goto
<1>4. MoveEntry(sector) \in {"move_erase", "move_init"}
  BY DEF MoveEntry
<1> DEFINE r == SwapRecord(k)
<1>5. r \in Records /\ k \in Keys /\ k \in Entries
  BY <1>1, SwapRecordType
<1>6. Live(r) /\ r.key = k /\ r.val \in Vals
  <2>1. CASE Cached
    BY <1>5, <2>1 DEF SwapRecord, Record, Live, ValuesInv
  <2>2. CASE ~Cached
    <3>1. EntryLive(k)
      BY <1>1, <1>5 DEF SwapKept
    <3>2. idx[k] \in Slots
      BY <1>1, <1>5 DEF TypeInv, TypeOK, Entries, NoIdx
    <3> QED BY <1>1, <2>2, <3>1, <3>2 DEF SwapRecord, EntryLive, ValuesInv
  <2> QED BY <2>1, <2>2
<1> HIDE DEF r
<1>7. n \in Slots => ~Live(slot[d][n])
  BY <1>1, BlankNotLive
<1>8. CASE pc' = MoveEntry(sector) /\ UNCHANGED <<flash, idx>>
  BY <1>1, <1>2, <1>4, <1>8 DEF Touched, flash
<1>9. ASSUME r.flags = "VALID", NEW good \in BOOLEAN, TryWrite(d, n, r, good),
             IF good
             THEN /\ idx' = [idx EXCEPT ![k] = n]
                  /\ dst_idx' = n + 1
                  /\ todo' = todo \ {k}
                  /\ pc' \in {"swap_valid", "swap_copy"}
             ELSE idx' = idx /\ pc' = MoveEntry(sector)
      PROVE  /\ Touched(d, n)
             /\ \/ pc' \in {"move_erase", "move_init"} /\ idx' = idx
                \/ /\ pc' \in {"swap_copy", "swap_valid"}
                   /\ n \in Slots /\ Touch(d, n) /\ ~Live(slot[d][n])
                   /\ Live(slot'[d][n]) /\ slot'[d][n].key = k
                   /\ idx' = [idx EXCEPT ![k] = n]
                   /\ dst_idx' = n + 1
                   /\ todo' = todo \ {k}
  <2>1. r.flags # "EMPTY"
    BY <1>9
  <2>2. /\ hdr' = hdr
        /\ \/ ~good /\ slot' = slot
           \/ /\ n \in Slots
              /\ \E q \in Records : /\ SlotSet(d, n, q) /\ q.flags # "EMPTY"
                                    /\ IF good THEN q = r ELSE ~Live(q)
    BY <1>1, <1>5, <1>9, <2>1, WriteLoss
  <2>3. CASE ~good /\ slot' = slot
    BY <1>4, <1>9, <2>2, <2>3 DEF Touched
  <2>4. ASSUME n \in Slots, NEW q \in Records, SlotSet(d, n, q),
               q.flags # "EMPTY", IF good THEN q = r ELSE ~Live(q)
        PROVE  /\ Touch(d, n)
               /\ good => Live(slot'[d][n]) /\ slot'[d][n].key = k
    <3> HIDE DEF d, n
    <3> QED BY <1>1, <1>6, <1>7, <2>4 DEF Touch, SlotSet
  <2> HIDE DEF d, n
  <2> QED BY <1>4, <1>7, <1>9, <2>2, <2>3, <2>4 DEF Touched
<1> QED BY <1>1, <1>2, <1>3, <1>5, <1>8, <1>9 DEF r

LEMMA MoveTouch ==
    ASSUME LossUse, StoreInv, PackedInv, ValuesInv, MoveCopy
    PROVE  /\ pc = "move_copy" /\ sector \in Sectors
           /\ Other(sector) \in Sectors
           /\ src_idx \in Slots /\ dst_idx \in Slots
           /\ Live(slot[sector][src_idx])
           /\ src_idx' = src_idx + 1
           /\ UNCHANGED <<sector, next_idx, idx, cache, request>>
           /\ hdr' = hdr
           /\ ~Live(slot[Other(sector)][dst_idx])
           /\ \/ /\ Touch(Other(sector), dst_idx)
                 /\ slot'[Other(sector)][dst_idx] = slot[sector][src_idx]
                 /\ dst_idx' = dst_idx + 1 /\ pc' = "move_copy"
                 /\ faults' = faults
              \/ /\ Touched(Other(sector), dst_idx)
                 /\ ~Live(slot'[Other(sector)][dst_idx])
                 /\ dst_idx' = dst_idx /\ pc' = "move_mark"
                 /\ faults' = faults + 1
<1> DEFINE d == Other(sector)
           n == dst_idx
           r == slot[sector][src_idx]
<1>1. /\ pc = "move_copy" /\ sector \in Sectors /\ d \in Sectors
      /\ FlashType
      /\ src_idx \in Slots /\ n \in Slots
      /\ Live(r) /\ r \in Records
      /\ src_idx' = src_idx + 1
      /\ UNCHANGED <<sector, next_idx, idx, cache>>
      /\ UsedTo(d, n)
      /\ slot[d][n] = Blank
      /\ r.val \in Vals
  <2>1. /\ pc = "move_copy" /\ ~MoveAtEnd /\ Live(r) /\ src_idx' = src_idx + 1
        /\ UNCHANGED <<sector, next_idx, idx, cache>>
    BY DEF MoveCopy, ram
  <2>2. src_idx \in Slots /\ sector \in Sectors /\ d \in Sectors /\ FlashType
    BY <2>1, TypeFlash, OtherSector
       DEF MoveAtEnd, StoreInv, TypeInv, ControlInv, BootPcs
  <2>3. n \in Slots
    BY <2>1, <2>2, ConstantsAssumption
       DEF StoreInv, TypeInv, TypeOK, CursorInv, Slots
  <2>4. UsedTo(d, n) /\ BlankFrom(d, n)
    BY <2>1 DEF PackedInv, DestPcs, StoreInv, ErasedInv, TailInv
  <2>5. slot[d][n] = Blank
    BY <2>3, <2>4 DEF BlankFrom, Slots
  <2>6. r.val \in Vals /\ r \in Records
    BY <2>1, <2>2 DEF ValuesInv, FlashType
  <2> QED BY <2>1, <2>2, <2>3, <2>4, <2>5, <2>6
<1>2. PICK good \in BOOLEAN :
        /\ TryWrite(d, n, r, good)
        /\ dst_idx' = IF good THEN n + 1 ELSE n
        /\ pc' = IF good THEN "move_copy" ELSE "move_mark"
        /\ request' = request
  BY DEF MoveCopy, Goto
<1>3. faults' = IF good THEN faults ELSE faults + 1
  BY <1>1, <1>2 DEF TryWrite, Fault
<1> HIDE DEF d, n, r
<1>4. ~Live(slot[d][n]) /\ r.flags # "EMPTY"
  BY <1>1, BlankNotLive DEF Live
<1>5. /\ hdr' = hdr
      /\ \/ ~good /\ slot' = slot
         \/ \E q \in Records : /\ SlotSet(d, n, q) /\ q.flags # "EMPTY"
                               /\ IF good THEN q = r ELSE ~Live(q)
  BY <1>1, <1>2, <1>4, WriteLoss
<1>6. IF good THEN Touch(d, n) /\ slot'[d][n] = r
      ELSE Touched(d, n) /\ ~Live(slot'[d][n])
  BY <1>1, <1>4, <1>5 DEF Touched, Touch, SlotSet
<1> QED BY <1>1, <1>2, <1>3, <1>4, <1>5, <1>6 DEF d, n, r

LEMMA MoveMarkTouch ==
    ASSUME LossUse, StoreInv, PackedInv, MoveKept, MoveMark
    PROVE  /\ pc = "move_mark" /\ sector \in Sectors
           /\ Other(sector) \in Sectors
           /\ Touch(Other(sector), dst_idx)
           /\ ~Live(slot[Other(sector)][dst_idx])
           /\ ~Live(slot'[Other(sector)][dst_idx])
           /\ UNCHANGED <<hdr, sector, next_idx, idx, cache, request, src_idx>>
           /\ dst_idx' = dst_idx + 1 /\ pc' = "move_copy"
           /\ faults' = faults
<1>1. /\ pc = "move_mark" /\ sector \in Sectors /\ Other(sector) \in Sectors
      /\ UNCHANGED <<sector, next_idx, idx, cache, request, src_idx>>
      /\ dst_idx' = dst_idx + 1 /\ pc' = "move_copy"
      /\ FlashType
      /\ dst_idx \in Slots
      /\ UsedTo(Other(sector), dst_idx)
      /\ ~Live(slot[Other(sector)][dst_idx])
  BY TypeFlash, OtherSector, ConstantsAssumption
     DEF MoveMark, Goto, ram, StoreInv, TypeInv, TypeOK, ControlInv, BootPcs,
         CursorInv, Slots, PackedInv, DestPcs, MoveKept
<1>2. PICK good \in BOOLEAN : TryMark(Other(sector), dst_idx, "INVALID", good)
  BY DEF MoveMark
<1>3. faults' = faults
  BY <1>1, <1>2, MarkLoss DEF TryMark
<1> QED BY <1>1, <1>2, <1>3, MarkLoss DEF Touch

LEMMA TornTouch ==
    ASSUME StoreInv, PackedInv, CrashInWrite
    PROVE  /\ hdr' = hdr
           /\ \E s \in Sectors, n \in Slots :
                 Touch(s, n) /\ ~Live(slot[s][n]) /\ ~Live(slot'[s][n])
<1>1. PICK s \in Sectors, n \in Slots, r \in Records :
              /\ slot[s][n] = Blank
              /\ SlotSet(s, n, r)
              /\ ~Live(r)
              /\ r.flags # "EMPTY"
              /\ \/ pc = "write" /\ s = sector /\ n = next_idx
                 \/ /\ pc \in {"swap_copy", "move_copy"}
                    /\ s = Other(sector) /\ n = dst_idx
  BY TornStep
<1>2. UsedTo(s, n)
  BY <1>1 DEF PackedInv, PackedPcs, UsePcs, SetPcs, DestPcs
<1> QED BY <1>1, <1>2, BlankNotLive DEF SlotSet, Touch


LEMMA EraseSourceLoss ==
    ASSUME LossUse, StoreInv, EraseSource
    PROVE  /\ pc = "erase_src" /\ sector \in Sectors
           /\ Other(sector) \in Sectors
           /\ EraseSector(Other(sector))
           /\ UNCHANGED <<ram, copy>>
           /\ pc' \in {"construct", "idle", "record_set"}
           /\ request' = request \/ (op' = "none" /\ val' = None)
<1>1. pc = "erase_src" /\ sector \in Sectors /\ Other(sector) \in Sectors
      /\ FlashType /\ UNCHANGED <<ram, copy>>
  BY TypeFlash, OtherSector
     DEF EraseSource, StoreInv, TypeInv, ControlInv, BootPcs
<1>2. PICK good \in BOOLEAN :
          /\ TryErase(Other(sector), good)
          /\ CASE Loading -> Goto("construct")
               [] op = "repair" -> Return(IF good THEN "EOK" ELSE "FAIL")
               [] OTHER -> IF good THEN Goto("record_set") ELSE Return("FAIL")
  BY DEF EraseSource
<1>3. EraseSector(Other(sector))
  BY <1>1, <1>2, EraseDone, LossFaults
<1>4. CASE Loading
  <2>1. Goto("construct")
    BY <1>2, <1>4 DEF Loading
  <2> QED BY <1>1, <1>3, <2>1 DEF Goto
<1>5. CASE ~Loading /\ op = "repair"
  <2>1. Return("EOK") \/ Return("FAIL")
    BY <1>2, <1>5 DEF Loading
  <2> QED BY <1>1, <1>3, <2>1 DEF Return
<1>6. CASE ~Loading /\ op # "repair"
  <2>1. Goto("record_set") \/ Return("FAIL")
    BY <1>2, <1>6 DEF Loading
  <2> QED BY <1>1, <1>3, <2>1 DEF Return, Goto
<1> QED BY <1>4, <1>5, <1>6

----------------------------------------------------------------------------
(* Which steps lead where.                                                 *)

LEMMA LossTo ==
    ASSUME LossUse, StoreInv, Next
    PROVE  /\ pc' \in PackedPcs =>
                 \/ \E k \in Keys, v \in Vals : RecordSet(k, v) \/ EntryData(k, v)
                 \/ \E k \in Keys : EntrySave(k) \/ RecordDelete(k)
                 \/ RecordSetCheck \/ RecordSetWrite \/ RecordSetMarkBad
                 \/ RecordSetValid \/ RecordSetMarkOld \/ RecordDeleteMark
                 \/ SwapValid \/ Rebuild \/ EraseSource \/ Construct
           /\ pc' \in {"swap_copy", "swap_valid"} => SwapInit \/ SwapCopy
           /\ pc' \in {"move_copy", "move_mark"} =>
                 MoveInit \/ MoveSkip \/ MoveCopy \/ MoveMark
           /\ pc' = "move_valid" => MoveEnd
           /\ pc' \in TailPcs => SwapValid \/ MoveValid \/ Rebuild
           /\ pc' = "swap_init" =>
                 \/ \E k \in Keys, v \in Vals : RecordSet(k, v)
                 \/ \E k \in Keys : EntrySave(k)
           /\ pc' = "init_erase" => InitSectors
           /\ pc' \in {"reset1", "reset2"} =>
                 Boot \/ Reset1 \/ \E o \in Ops : Reset(o)
<1> USE DEF SwapPcs, MovePcs, SetPcs, TailPcs, BootPcs, CopyPcs, UsePcs,
            PackedPcs
<1>0. InUseInv /\ TypeInv /\ HeadersInv /\ RecordFaults
  BY LossFaults DEF StoreInv, HeadersInv
<1>1. CASE Boot \/ PowerFailure
  BY <1>1
     DEF Boot, PowerFailure, Crash, CrashInWrite, CrashInHeader, CrashInErase,
         PowerOff
<1>2. CASE Call
  <2>1. CASE \E k \in Keys, v \in Vals : RecordSet(k, v)
    <3>1. pc' \in {"swap_init", "swap_erase", "record_set"}
      BY <2>1 DEF RecordSet, StartWrite, SwapEntry
    <3> QED BY <2>1, <3>1
  <2>2. CASE \E k \in Keys : EntrySave(k)
    <3>1. pc' \in {"swap_init", "swap_erase", "record_set"}
      BY <2>2 DEF EntrySave, StartWrite, SwapEntry
    <3> QED BY <2>2, <3>1
  <2>3. CASE \E k \in Keys, v \in Vals : EntryData(k, v)
    <3>1. pc' = "idle"
      BY <2>3 DEF EntryData
    <3> QED BY <2>3, <3>1
  <2>4. CASE \E k \in Keys : RecordDelete(k)
    <3>1. pc' = "mark_deleted"
      BY <2>4 DEF RecordDelete
    <3> QED BY <2>4, <3>1
  <2>5. CASE Repair \/ (\E o \in Ops : Reset(o)) \/ Unload
    BY <2>5 DEF Repair, Reset, Unload, MoveEntry
  <2> QED BY <1>2, <2>1, <2>2, <2>3, <2>4, <2>5 DEF Call
<1>3. CASE Step
  <2>1. MoveErase => pc' = "move_init"
    BY <1>0, MoveEraseSure
  <2>2. MoveInit => pc' = "move_copy"
    BY <1>0, MoveInitSure
  <2>3. MoveValid => pc' = "rebuild"
    BY <1>0, MoveValidSure
  <2>4. SwapInit => pc' \in {"swap_copy", "swap_valid"}
    BY <1>0, SwapInitSure
  <2>5. SwapValid => pc' \in {"erase_src", "rebuild"}
    BY <1>0, SwapValidSure
  <2>6. ~SwapErase
    BY <1>0 DEF SwapErase, InUseInv
  <2>7. SwapCopy => pc' \in {"swap_copy", "swap_valid", "move_erase", "move_init"}
    BY DEF SwapCopy, Goto, MoveEntry
  <2>8. MoveCopy => pc' \in {"move_copy", "move_mark"}
    BY DEF MoveCopy, Goto
  <2>9. EraseSource => pc' \in {"construct", "idle", "record_set"}
    BY EraseSourceLoss
  <2>10. MoveMark => pc' = "move_copy"
    BY DEF MoveMark, Goto
  <2> QED
    BY <1>0, <1>3, <2>1, <2>2, <2>3, <2>4, <2>5, <2>6, <2>7, <2>8, <2>9, <2>10
       DEF Step, RecordSetCheck, RecordSetWrite, RecordSetMarkBad,
           RecordSetValid, RecordSetMarkOld, RecordDeleteMark, MoveEnd,
           MoveSkip, Rebuild,
           Reset1, Reset2, Load, InitUnknown, InitSectors, InitErase,
           FormatErase, FormatValid, Construct, Goto, Return, MoveEntry
<1> QED BY <1>1, <1>2, <1>3 DEF Next

\* What a step does to the slots: it programs or marks one, erases a sector,
\* or marks the records of the sector in use whose checksum is bad.
SlotStep ==
    \/ slot' = slot
    \/ \E s \in Sectors : EraseSector(s)
    \/ sector \in Sectors /\ ConstructLookupTable(sector)
    \/ hdr' = hdr /\ \E s \in Sectors, n \in Slots : Touch(s, n)

LEMMA SlotNext ==
    ASSUME LossUse, StoreInv, PackedInv, ValuesInv, SwapKept, MoveKept, Next
    PROVE  SlotStep
<1>0. /\ RecordFaults /\ FlashType /\ TypeInv /\ HeadersInv /\ InUseInv
      /\ ControlInv /\ 1 \in Sectors /\ 2 \in Sectors
      /\ \A s \in Sectors : Other(s) \in Sectors
  BY LossFaults, TypeFlash, OtherSector
     DEF StoreInv, TypeInv, HeadersInv, Sectors
<1>1. ASSUME NEW s \in Sectors, NEW n, Touched(s, n) PROVE SlotStep
  BY <1>1 DEF Touched, Touch, SlotStep
<1>2. ASSUME NEW s \in Sectors, NEW good \in BOOLEAN, TryErase(s, good)
      PROVE  SlotStep
  BY <1>0, <1>2, EraseDone DEF SlotStep
<1>3. ASSUME NEW s, NEW f, NEW good \in BOOLEAN, TryHeader(s, f, good)
      PROVE  SlotStep
  BY <1>3 DEF TryHeader, SetSectorFlags, SlotStep, flash
<1>4. CASE Boot \/ Crash \/ CrashInHeader \/ CrashInErase
  BY <1>4 DEF Boot, Crash, CrashInHeader, CrashInErase, SlotStep, flash
<1>5. CASE CrashInWrite
  BY <1>5, TornTouch DEF SlotStep
<1>6. CASE Call
  BY <1>6
     DEF Call, RecordSet, EntryData, EntrySave, RecordDelete, StartWrite,
         Repair, Reset, Unload, SlotStep, flash
<1>7. CASE \/ RecordSetCheck \/ MoveEnd \/ MoveSkip \/ Load \/ InitSectors
  BY <1>7
     DEF RecordSetCheck, MoveEnd, MoveSkip, Load, InitSectors, SlotStep, flash
<1>8. CASE RecordSetWrite
  BY <1>1, <1>8, WriteTouch
<1>9. CASE RecordSetMarkBad
  <2>1. sector \in Sectors /\ Touched(sector, next_idx)
    BY <1>9, MarkBadTouch DEF Touched
  <2> QED BY <1>1, <2>1
<1>10. CASE RecordSetValid
  <2>1. sector \in Sectors /\ Touched(sector, next_idx)
    BY <1>10, SetValidTouch DEF Touched
  <2> QED BY <1>1, <2>1
<1>11. CASE RecordSetMarkOld
  <2>1. sector \in Sectors /\ Touched(sector, idx[key])
    BY <1>11, MarkOldTouch DEF Touched
  <2> QED BY <1>1, <2>1
<1>12. CASE RecordDeleteMark
  BY <1>1, <1>12, DeleteTouch
<1>13. CASE SwapCopy
  <2>1. Other(sector) \in Sectors /\ Touched(Other(sector), dst_idx)
    BY <1>13, CopyTouch
  <2> QED BY <1>1, <2>1
<1>14. CASE MoveCopy
  <2>1. Other(sector) \in Sectors /\ Touched(Other(sector), dst_idx)
    BY <1>14, MoveTouch DEF Touched
  <2> QED BY <1>1, <2>1
<1>15. CASE MoveMark
  <2>1. Other(sector) \in Sectors /\ Touched(Other(sector), dst_idx)
    BY <1>15, MoveMarkTouch DEF Touched
  <2> QED BY <1>1, <2>1
<1>16. CASE SwapErase \/ MoveErase \/ EraseSource \/ InitErase \/ FormatErase
  <2>1. sector \in Sectors /\ Other(sector) \in Sectors
    BY <1>0, <1>16
       DEF SwapErase, MoveErase, EraseSource, InitErase, FormatErase,
           ControlInv, BootPcs
  <2>2. \E s \in Sectors, good \in BOOLEAN : TryErase(s, good)
    BY <1>16, <2>1
       DEF SwapErase, MoveErase, EraseSource, InitErase, FormatErase
  <2> QED BY <1>2, <2>2
<1>17. CASE Reset1 \/ Reset2
  BY <1>0, <1>2, <1>17 DEF Reset1, Reset2
<1>18. CASE \/ InitUnknown("init1", 1, "init2")
            \/ InitUnknown("init2", 2, "init_sectors")
  <2>1. UNCHANGED flash \/ \E s \in Sectors, good \in BOOLEAN : TryErase(s, good)
    BY <1>0, <1>18 DEF InitUnknown
  <2> QED BY <1>2, <2>1 DEF SlotStep, flash
<1>19. CASE SwapInit \/ SwapValid \/ MoveInit \/ MoveValid \/ FormatValid
  BY <1>3, <1>19 DEF SwapInit, SwapValid, MoveInit, MoveValid, FormatValid
<1>20. CASE Rebuild \/ Construct
  BY <1>0, <1>20
     DEF Rebuild, Construct, SlotStep, ControlInv, BootPcs
<1> QED BY <1>4, <1>5, <1>6, <1>7, <1>8, <1>9, <1>10, <1>11, <1>12, <1>13,
           <1>14, <1>15, <1>16, <1>17, <1>18, <1>19, <1>20
    DEF Next, Step, PowerFailure


----------------------------------------------------------------------------
(* The used slots of a sector are its first ones.                          *)

LEMMA TouchUse ==
    ASSUME NEW s, NEW n, Touch(s, n)
    PROVE  SameUse(s) \/ MoreUse(s, n)
BY DEF Touch, SameUse, MoreUse

LEMMA TouchedUsed ==
    ASSUME NEW s, NEW n, NEW m, slot' = slot \/ Touch(s, n), UsedTo(s, m)
    PROVE  \A i \in Slots : i < m => slot'[s][i].flags # "EMPTY"
BY DEF Touch, UsedTo

LEMMA TouchedNext ==
    ASSUME NEW s, NEW n, Touch(s, n), UsedTo(s, n)
    PROVE  \A i \in Slots : i < n + 1 => slot'[s][i].flags # "EMPTY"
<1>1. \A i \in Slots : i < n + 1 => i < n \/ i = n
  BY DEF Touch, Slots
<1> QED BY <1>1 DEF Touch, UsedTo

LEMMA SlotGrown ==
    ASSUME FlashType, SlotStep, \A s \in Sectors : Dense(s)
    PROVE  \A s \in Sectors : Grown(s)
<1>0. \A s \in Sectors : Other(s) \in Sectors /\ Other(Other(s)) = s
  BY OtherSector
<1> SUFFICES \E s \in Sectors : Grown(s) /\ Grown(Other(s))
  BY DEF Sectors, Other
<1>1. CASE slot' = slot
  BY <1>0, <1>1 DEF Grown, SameUse, Sectors
<1>2. ASSUME NEW s \in Sectors, EraseSector(s) PROVE Grown(s) /\ Grown(Other(s))
  BY <1>2, EraseGrown
<1>3. CASE sector \in Sectors /\ ConstructLookupTable(sector)
  <2>1. SameUse(sector)
    BY <1>3, ConstructUsed
  <2>2. slot'[Other(sector)] = slot[Other(sector)]
    BY <1>3, ConstructDone
  <2> QED BY <1>3, <2>1, <2>2 DEF Grown, SameUse
<1>4. ASSUME NEW s \in Sectors, NEW n \in Slots, Touch(s, n)
      PROVE  Grown(s) /\ Grown(Other(s))
  <2>1. SameUse(s) \/ MoreUse(s, n)
    BY <1>4, TouchUse
  <2>2. SameUse(Other(s))
    BY <1>4 DEF Touch, SameUse
  <2> QED BY <2>1, <2>2 DEF Grown
<1> QED BY <1>1, <1>2, <1>3, <1>4 DEF SlotStep

LEMMA PackedInit == Init => PackedInv
BY DEF Init, PackedInv, PackedPcs, UsePcs, SetPcs, DestPcs, Dense, Erased,
       Blank, Sectors

LEMMA PackedNext ==
    ASSUME LossUse, StoreInv, LossInv, Next
    PROVE  PackedInv'
<1>0. /\ FlashType /\ TypeInv /\ TypeOK /\ RecordFaults
      /\ HeadersInv /\ ControlInv /\ CursorInv
      /\ PackedInv /\ ValuesInv /\ SwapKept /\ MoveKept
      /\ \A s \in Sectors : Other(s) \in Sectors /\ Other(Other(s)) = s
                            /\ Other(s) # s
  BY TypeFlash, OtherSector, LossFaults DEF StoreInv, TypeInv, LossInv
<1>1. \A s \in Sectors, i, j \in Slots :
          i < j /\ slot'[s][j].flags # "EMPTY" => slot'[s][i].flags # "EMPTY"
  <2>1. \A s \in Sectors : Grown(s)
    BY <1>0, SlotNext, SlotGrown DEF PackedInv
  <2> QED BY <1>0, <2>1, GrownDense DEF PackedInv
<1> DEFINE Goal == \A i \in Slots : i < next_idx' =>
                        slot'[sector'][i].flags # "EMPTY"
           Copied2 == \A i \in Slots : i < dst_idx' =>
                        slot'[Other(sector')][i].flags # "EMPTY"
<1>2. pc' \in PackedPcs => Goal
  <2>1. CASE \/ \E k \in Keys, v \in Vals : RecordSet(k, v) \/ EntryData(k, v)
             \/ \E k \in Keys : EntrySave(k) \/ RecordDelete(k)
             \/ RecordSetCheck
    <3>1. /\ pc \in UsePcs
          /\ UNCHANGED <<slot, sector, next_idx>>
      BY <2>1
         DEF RecordSet, EntryData, EntrySave, RecordDelete, StartWrite,
             RecordSetCheck, UsePcs, SetPcs, flash, ram
    <3> QED BY <1>0, <3>1 DEF PackedInv, PackedPcs, UsedTo
  <2>2. CASE RecordSetWrite
    <3>1. /\ UsedTo(sector, next_idx)
          /\ sector' = sector /\ next_idx' = next_idx
          /\ slot' = slot \/ Touch(sector, next_idx)
      BY <1>0, <2>2, WriteTouch
         DEF PackedInv, PackedPcs, UsePcs, SetPcs, ram, Touched
    <3> QED BY <3>1, TouchedUsed
  <2>3. CASE RecordSetMarkBad
    <3>1. /\ UsedTo(sector, next_idx)
          /\ sector' = sector /\ next_idx' = next_idx + 1
          /\ IF next_idx \in Slots THEN Touch(sector, next_idx)
                                   ELSE slot' = slot
      BY <1>0, <2>3, MarkBadTouch DEF PackedInv, PackedPcs, UsePcs, SetPcs
    <3>2. CASE next_idx \in Slots
      BY <3>1, <3>2, TouchedNext
    <3>3. CASE next_idx \notin Slots
      <4>1. \A i \in Slots : i < next_idx
        BY <1>0, <3>3, ConstantsAssumption DEF Slots, TypeOK
      <4> QED BY <3>1, <3>3, <4>1 DEF UsedTo
    <3> QED BY <3>2, <3>3
  <2>4. CASE RecordSetValid
    <3>1. /\ UsedTo(sector, next_idx) /\ Touch(sector, next_idx)
          /\ sector' = sector /\ next_idx' = next_idx + 1
      BY <1>0, <2>4, SetValidTouch
    <3> QED BY <3>1, TouchedNext
  <2>5. CASE RecordSetMarkOld
    <3>1. /\ UsedTo(sector, next_idx) /\ Touch(sector, idx[key])
          /\ sector' = sector /\ next_idx' = next_idx
      BY <1>0, <2>5, MarkOldTouch DEF PackedInv, PackedPcs, UsePcs, SetPcs
    <3> QED BY <3>1, TouchedUsed
  <2>6. CASE RecordDeleteMark
    <3>1. /\ UsedTo(sector, next_idx)
          /\ slot' = slot \/ Touch(sector, idx[key])
          /\ sector' = sector /\ next_idx' = next_idx
      BY <1>0, <2>6, DeleteTouch DEF PackedInv, PackedPcs, Touched
    <3> QED BY <3>1, TouchedUsed
  <2>7. CASE SwapValid /\ pc' # "rebuild"
    <3>1. /\ UsedTo(Other(sector), dst_idx)
          /\ slot' = slot /\ sector' = Other(sector) /\ next_idx' = dst_idx
      BY <1>0, <2>7, SwapValidSure DEF PackedInv, DestPcs
    <3> QED BY <3>1 DEF UsedTo
  <2>8. CASE Rebuild \/ Construct
    <3>1. sector \in Sectors /\ ConstructLookupTable(sector) /\ sector' = sector
      BY <1>0, <2>8 DEF Rebuild, Construct, ControlInv, BootPcs, TailPcs
    <3> QED BY <1>0, <3>1, ConstructUsed DEF PackedInv
  <2>9. CASE EraseSource
    <3>1. /\ pc = "erase_src" /\ sector \in Sectors
          /\ EraseSector(Other(sector))
          /\ UNCHANGED <<sector, next_idx>>
      BY <2>9, EraseSourceLoss DEF ram
    <3>2. slot'[sector] = slot[sector]
      BY <1>0, <3>1 DEF EraseSector, FlashType
    <3> QED BY <1>0, <3>1, <3>2 DEF PackedInv, PackedPcs, UsePcs, UsedTo
  <2>10. pc' = "rebuild" => pc' \notin PackedPcs
    BY DEF PackedPcs, UsePcs, SetPcs
  <2> HIDE DEF Goal
  <2> QED BY <2>1, <2>2, <2>3, <2>4, <2>5, <2>6, <2>7, <2>8, <2>9, <2>10, LossTo
<1>3. pc' \in {"swap_copy", "swap_valid"} => Copied2
  <2>1. CASE SwapInit
    <3>1. dst_idx' = 0
      BY <1>0, <2>1, SwapInitSure
    <3> QED BY <3>1 DEF Slots
  <2>2. CASE SwapCopy /\ pc' \in {"swap_copy", "swap_valid"}
    <3>1. /\ Touch(Other(sector), dst_idx)
          /\ dst_idx' = dst_idx + 1 /\ sector' = sector
          /\ UsedTo(Other(sector), dst_idx)
      BY <1>0, <2>2, CopyTouch DEF PackedInv, DestPcs
    <3> QED BY <3>1, TouchedNext
  <2> HIDE DEF Copied2
  <2> QED BY <2>1, <2>2, LossTo
<1>4. pc' \in {"move_copy", "move_mark"} => Copied2
  <2>1. CASE MoveInit
    <3>1. dst_idx' = 0
      BY <1>0, <2>1, MoveInitSure DEF CursorInv, copy
    <3> QED BY <3>1 DEF Slots
  <2>2. CASE MoveSkip
    <3>1. UsedTo(Other(sector), dst_idx)
          /\ UNCHANGED <<slot, sector, dst_idx>>
      BY <1>0, <2>2 DEF MoveSkip, flash, ram, PackedInv, DestPcs
    <3> QED BY <3>1 DEF UsedTo
  <2>3. CASE MoveCopy
    <3>1. /\ UsedTo(Other(sector), dst_idx) /\ sector' = sector
          /\ \/ Touch(Other(sector), dst_idx) /\ dst_idx' = dst_idx + 1
             \/ /\ slot' = slot \/ Touch(Other(sector), dst_idx)
                /\ dst_idx' = dst_idx
      BY <1>0, <2>3, MoveTouch DEF PackedInv, DestPcs, Touched
    <3> QED BY <3>1, TouchedUsed, TouchedNext
  <2>4. CASE MoveMark
    <3>1. /\ UsedTo(Other(sector), dst_idx) /\ sector' = sector
          /\ Touch(Other(sector), dst_idx) /\ dst_idx' = dst_idx + 1
      BY <1>0, <2>4, MoveMarkTouch DEF PackedInv, DestPcs
    <3> QED BY <3>1, TouchedNext
  <2> HIDE DEF Copied2
  <2> QED BY <2>1, <2>2, <2>3, <2>4, LossTo
<1> QED BY <1>1, <1>2, <1>3, <1>4 DEF PackedInv, Dense, UsedTo, DestPcs

----------------------------------------------------------------------------
(* Live records have data.                                                 *)

LEMMA SlotValues ==
    ASSUME FlashType, ValuesInv, SlotStep
    PROVE  \A s \in Sectors, i \in Slots :
                Live(slot'[s][i]) => slot'[s][i].val \in Vals
<1>0. \A s, t \in Sectors : t = s \/ t = Other(s)
  BY DEF Sectors, Other
<1> SUFFICES ASSUME NEW t \in Sectors, NEW i \in Slots, Live(slot'[t][i])
             PROVE  slot'[t][i] = slot[t][i] \/ slot'[t][i].val \in Vals
  BY DEF ValuesInv
<1>1. ASSUME NEW s \in Sectors, EraseSector(s) PROVE slot'[t][i] = slot[t][i]
  <2>1. CASE t = s
    BY <1>1, <2>1, BlankNotLive DEF EraseSector, FlashType, Erased
  <2>2. CASE t # s
    BY <1>1, <2>2 DEF EraseSector, FlashType
  <2> QED BY <2>1, <2>2
<1>2. CASE sector \in Sectors /\ ConstructLookupTable(sector)
  <2>1. CASE t = sector
    BY <1>2, <2>1, ConstructSlot
  <2>2. CASE t = Other(sector)
    BY <1>2, <2>2, ConstructDone
  <2> QED BY <1>0, <1>2, <2>1, <2>2
<1>3. ASSUME NEW s \in Sectors, NEW n \in Slots, Touch(s, n)
      PROVE  slot'[t][i] = slot[t][i] \/ slot'[t][i].val \in Vals
  BY <1>0, <1>3 DEF Touch
<1> QED BY <1>1, <1>2, <1>3 DEF SlotStep

LEMMA ValuesInit == Init => ValuesInv
BY DEF Init, ValuesInv, Erased, Blank, Live, Writing, Entries, Sectors


\* The request changes when a call starts or ends.
LEMMA RequestNext ==
    ASSUME Next
    PROVE  \/ op' = op /\ val' = val
           \/ op' \notin {"record_set", "entry_save"}
           \/ \E k \in Keys, v \in Vals : RecordSet(k, v)
           \/ \E k \in Keys : EntrySave(k)
<1>1. CASE Boot \/ PowerFailure
  BY <1>1
     DEF Boot, PowerFailure, Crash, CrashInWrite, CrashInHeader, CrashInErase,
         PowerOff
<1>2. CASE Call
  BY <1>2 DEF Call, EntryData, RecordDelete, Repair, Reset, Unload, request
<1>3. CASE Step
  BY <1>3
     DEF Step, RecordSetCheck, RecordSetWrite, RecordSetMarkBad,
         RecordSetValid, RecordSetMarkOld, RecordDeleteMark, SwapErase,
         SwapInit, SwapCopy, SwapValid, MoveErase, MoveInit, MoveEnd,
         MoveSkip, MoveCopy, MoveMark, MoveValid, MoveFailed, Rebuild,
         EraseSource, Reset1, Reset2, Load, InitUnknown, InitSectors,
         InitErase, FormatErase, FormatValid, Construct, Goto, Return, request
<1> QED BY <1>1, <1>2, <1>3 DEF Next

\* The dict and its data change in these steps.
LEMMA CacheNext ==
    ASSUME Next
    PROVE  \/ UNCHANGED <<idx, cache>>
           \/ \E k \in Keys, v \in Vals : EntryData(k, v)
           \/ RecordSetValid \/ RecordSetMarkOld \/ RecordDeleteMark
           \/ SwapCopy \/ Rebuild \/ Construct
           \/ Unloaded
<1>1. CASE Boot \/ PowerFailure
  BY <1>1
     DEF Boot, PowerFailure, Crash, CrashInWrite, CrashInHeader, CrashInErase,
         PowerOff, ram
<1>2. CASE Call
  BY <1>2 DEF Call, RecordSet, EntrySave, StartWrite, RecordDelete, Repair,
              Reset, Unload, ram
<1>3. CASE Step
  BY <1>3
     DEF Step, RecordSetCheck, RecordSetWrite, RecordSetMarkBad,
         SwapErase, SwapInit, SwapValid, MoveErase, MoveInit, MoveEnd,
         MoveSkip, MoveCopy, MoveMark, MoveValid, EraseSource, Reset1, Reset2,
         Load, InitUnknown, InitSectors, InitErase, FormatErase, FormatValid,
         ram
<1> QED BY <1>1, <1>2, <1>3 DEF Next

LEMMA ValuesNext ==
    ASSUME LossUse, StoreInv, LossInv, Next
    PROVE  ValuesInv'
<1>0. /\ FlashType /\ TypeInv /\ TypeOK /\ ControlInv
      /\ PackedInv /\ ValuesInv /\ SwapKept /\ MoveKept
  BY TypeFlash DEF StoreInv, TypeInv, LossInv
<1>1. \A s \in Sectors, i \in Slots : Live(slot'[s][i]) => slot'[s][i].val \in Vals
  BY <1>0, SlotNext, SlotValues
<1>2. op' \in {"record_set", "entry_save"} => val' \in Vals
  <2>1. CASE op' = op /\ val' = val
    BY <1>0, <2>1 DEF ValuesInv, Writing
  <2>2. CASE \E k \in Keys, v \in Vals : RecordSet(k, v)
    BY <2>2 DEF RecordSet, StartWrite
  <2>3. CASE \E k \in Keys : EntrySave(k)
    BY <1>0, <2>3 DEF EntrySave, StartWrite, ValuesInv, Entries
  <2> QED BY <2>1, <2>2, <2>3, RequestNext
<1>3. ASSUME Cached, NEW k \in Keys, idx'[k] # NoIdx PROVE cache'[k] \in Vals
  <2>0. idx[k] # NoIdx => cache[k] \in Vals
    BY <1>0, <1>3 DEF ValuesInv, Entries
  <2>1. CASE UNCHANGED <<idx, cache>>
    BY <1>3, <2>0, <2>1
  <2>2. ASSUME NEW e \in Keys, NEW v \in Vals, EntryData(e, v)
        PROVE  cache'[k] \in Vals
    <3>1. idx' = idx /\ cache' = [cache EXCEPT ![e] = v]
      BY <2>2 DEF EntryData
    <3> QED BY <1>0, <1>3, <2>0, <2>2, <3>1 DEF TypeOK
  <2>3. ASSUME val \in Vals, NEW i, InsertLookupTable(key, val, i)
        PROVE  cache'[k] \in Vals
    <3>1. /\ idx' = [idx EXCEPT ![key] = i]
          /\ cache' = [cache EXCEPT ![key] = val]
      BY <1>3, <2>3 DEF InsertLookupTable
    <3> QED BY <1>0, <1>3, <2>0, <2>3, <3>1 DEF TypeOK
  <2>4. CASE RecordSetValid
    <3>1. /\ val \in Vals
          /\ UNCHANGED <<idx, cache>> \/ InsertLookupTable(key, val, next_idx)
      BY <1>0, <2>4, SetValidTouch
    <3> QED BY <2>1, <2>3, <3>1
  <2>5. CASE RecordSetMarkOld
    <3>1. val \in Vals /\ InsertLookupTable(key, val, next_idx - 1)
      BY <1>0, <2>5 DEF RecordSetMarkOld, ControlInv, SetPcs, ValuesInv
    <3> QED BY <2>3, <3>1
  <2>6. CASE RecordDeleteMark
    <3>1. \/ UNCHANGED <<idx, cache>>
          \/ /\ idx' = [idx EXCEPT ![key] = NoIdx]
             /\ cache' = [cache EXCEPT ![key] = None]
      BY <2>6, DeleteTouch
    <3> QED BY <1>0, <1>3, <2>0, <3>1 DEF TypeOK
  <2>7. CASE SwapCopy
    <3>1. /\ cache' = cache
          /\ \/ idx' = idx
             \/ \E e \in todo : e \in Entries /\ idx' = [idx EXCEPT ![e] = dst_idx]
      BY <1>0, <2>7, CopyTouch
    <3> QED BY <1>0, <1>3, <2>0, <3>1 DEF TypeOK, Entries
  <2>8. CASE Rebuild \/ Construct
    <3>1. sector \in Sectors /\ ConstructLookupTable(sector)
      BY <1>0, <2>8 DEF Rebuild, Construct, ControlInv, BootPcs
    <3> DEFINE live == LiveSlots(sector, k)
               h == Highest(live)
    <3>2. live # {} /\ cache'[k] = slot[sector][h].val
      BY <1>3, <3>1 DEF ConstructLookupTable
    <3>3. live \subseteq Slots /\ \A i \in live : Live(slot[sector][i])
      BY DEF LiveSlots
    <3> HIDE DEF live
    <3>4. h \in live
      BY <3>2, <3>3, HighestSlot
    <3> HIDE DEF h
    <3> QED BY <1>0, <3>1, <3>2, <3>3, <3>4 DEF ValuesInv
  <2>9. CASE Unloaded
    BY <1>3, <2>9 DEF Unloaded
  <2>10. CASE \E e \in Keys, v \in Vals : EntryData(e, v)
    BY <2>2, <2>10
  <2> QED BY <2>1, <2>4, <2>5, <2>6, <2>7, <2>8, <2>9, <2>10, CacheNext
<1> QED BY <1>1, <1>2, <1>3 DEF ValuesInv, Writing, Entries

----------------------------------------------------------------------------
(* A swap loses nothing.                                                   *)

LEMMA SwapKeptNext ==
    ASSUME LossUse, SoundInv, LossInv, Next
    PROVE  SwapKept'
<1>0. /\ FlashType /\ TypeInv /\ TypeOK /\ RecordFaults /\ HeadersInv
      /\ InUseInv /\ ControlInv /\ CursorInv /\ ErasedInv /\ TableInv
      /\ StoreInv /\ StrayInv
      /\ PackedInv /\ ValuesInv /\ SwapKept
      /\ \A s \in Sectors : /\ Other(s) \in Sectors
                            /\ Other(s) # s
                            /\ Other(Other(s)) = s
  BY TypeFlash, OtherSector, LossFaults
     DEF SoundInv, StoreInv, TypeInv, HeadersInv, LossInv
<1>1. ASSUME pc' = "swap_init", NEW k \in Keys
      PROVE  IF k \in Entries' THEN EntryLive(k)'
             ELSE LiveIn(slot'[sector'], k) = {}
  <2>1. pc = "idle" /\ UNCHANGED <<slot, sector, idx>>
    BY <1>1, LossTo, <1>0 DEF RecordSet, EntrySave, StartWrite, flash, ram
  <2>2. k \in Entries => EntryLive(k)
    BY <1>0, <2>1 DEF TableInv, TablePcs, Newest, LiveIn, EntryLive
  <2>3. k \notin Entries => LiveIn(slot[sector], k) = {}
    BY <1>0, <1>1, <2>1 DEF StrayInv, StrayPcs, Entries
  <2> QED BY <2>1, <2>2, <2>3 DEF Entries, EntryLive
<1>2. ASSUME pc' \in {"swap_copy", "swap_valid"}, NEW k \in Keys
      PROVE  IF k \in todo' THEN EntryLive(k)'
             ELSE LiveIn(slot'[sector'], k) # {} =>
                    LiveIn(slot'[Other(sector')], k) # {}
  <2>1. CASE SwapInit
    <3>1. /\ pc = "swap_init" /\ todo' = Entries
          /\ UNCHANGED <<slot, sector, idx>>
      BY <1>0, <2>1, SwapInitSure DEF ram
    <3> QED BY <1>0, <3>1 DEF SwapKept, EntryLive
  <2>2. CASE SwapCopy
    <3> DEFINE d == Other(sector)
               n == dst_idx
    <3>1. PICK e \in todo :
            /\ n \in Slots /\ e \in Keys
            /\ Touch(d, n) /\ ~Live(slot[d][n])
            /\ Live(slot'[d][n]) /\ slot'[d][n].key = e
            /\ idx' = [idx EXCEPT ![e] = n]
            /\ todo' = todo \ {e}
      BY <1>0, <1>2, <2>2, CopyTouch
    <3>2. /\ pc = "swap_copy" /\ sector \in Sectors /\ d \in Sectors
          /\ sector' = sector
      BY <1>0, <2>2, CopyTouch
    <3>3. /\ slot'[sector] = slot[sector]
          /\ \A i \in Slots : i # n => slot'[d][i] = slot[d][i]
      <4>1. Other(d) = sector
        BY <1>0, <3>2
      <4> QED BY <3>1, <4>1 DEF Touch
    <3>4. IF k \in todo THEN EntryLive(k)
          ELSE LiveIn(slot[sector], k) # {} => LiveIn(slot[d], k) # {}
      BY <1>0, <3>2 DEF SwapKept
    <3> HIDE DEF d
    <3>5. LiveIn(slot[d], k) \subseteq LiveIn(slot'[d], k)
      BY <3>1, <3>3 DEF LiveIn
    <3>6. k = e => LiveIn(slot'[d], k) # {}
      BY <3>1 DEF LiveIn
    <3>7. k # e => idx'[k] = idx[k]
      BY <1>0, <3>1 DEF TypeOK
    <3>8. Other(sector') = d
      BY <3>2 DEF d
    <3> QED BY <3>1, <3>2, <3>3, <3>4, <3>5, <3>6, <3>7, <3>8 DEF EntryLive
  <2> QED BY <1>0, <1>2, <2>1, <2>2, LossTo
<1> QED BY <1>1, <1>2 DEF SwapKept


----------------------------------------------------------------------------
(* A move loses at most one key for each write that fails.                 *)

LEMMA MissingFinite ==
    ASSUME NEW c, NEW d
    PROVE  /\ IsFiniteSet(Missing(c, d))
           /\ Cardinality(Missing(c, d)) \in Nat
<1>1. Missing(c, d) \subseteq Keys
  BY DEF Missing
<1>2. IsFiniteSet(Missing(c, d))
  BY <1>1, ConstantsAssumption, FS_Subset
<1> QED BY <1>2, FS_CardinalityType

LEMMA FewIn ==
    ASSUME NEW c, NEW d, NEW n \in Nat, NEW e, NEW f, NEW m \in Nat, n <= m,
           Missing(e, f) \subseteq Missing(c, d), Few(c, d, n)
    PROVE  Few(e, f, m)
<1>1. Cardinality(Missing(e, f)) <= Cardinality(Missing(c, d))
  BY MissingFinite, FS_Subset
<1>2. /\ Cardinality(Missing(e, f)) \in Nat
      /\ Cardinality(Missing(c, d)) \in Nat
  BY MissingFinite
<1> QED BY <1>1, <1>2 DEF Few

LEMMA FewMore ==
    ASSUME NEW c, NEW d, NEW n \in Nat, NEW e, NEW f, NEW k,
           Missing(e, f) \subseteq Missing(c, d) \union {k}, Few(c, d, n)
    PROVE  Few(e, f, n + 1)
<1> DEFINE C == Missing(c, d)
           D == C \union {k}
<1>1. IsFiniteSet(C) /\ Cardinality(C) \in Nat
  BY MissingFinite
<1>2. /\ IsFiniteSet(D)
      /\ Cardinality(D) \in {Cardinality(C), Cardinality(C) + 1}
  <2> HIDE DEF C
  <2> QED BY <1>1, FS_AddElement
<1>3. Cardinality(Missing(e, f)) <= Cardinality(D)
  <2> HIDE DEF D
  <2> QED BY <1>2, FS_Subset DEF D
<1>4. Cardinality(Missing(e, f)) \in Nat
  BY MissingFinite
<1> HIDE DEF D
<1> QED BY <1>1, <1>2, <1>3, <1>4 DEF Few

LEMMA FewNone ==
    ASSUME NEW c, NEW d, NEW n \in Nat, Missing(c, d) = {}
    PROVE  Few(c, d, n)
BY FS_EmptySet DEF Few

\* What a move has read.
LEMMA BelowLive ==
    ASSUME NEW c, NEW n \in Slots, NEW k, ~Live(c[n]) \/ c[n].key # k
    PROVE  LiveIn(Below(c, n + 1), k) = LiveIn(Below(c, n), k)
<1>1. \A i \in Slots : i < n + 1 <=> (i < n \/ i = n)
  BY DEF Slots
<1>2. ~(n < n)
  BY DEF Slots
<1>3. /\ \A i \in Slots : Below(c, n)[i] = IF i < n THEN c[i] ELSE Blank
      /\ \A i \in Slots : Below(c, n + 1)[i] = IF i < n + 1 THEN c[i] ELSE Blank
  BY DEF Below
<1>4. ASSUME NEW i \in Slots
      PROVE  i \in LiveIn(Below(c, n + 1), k) <=> i \in LiveIn(Below(c, n), k)
  <2>1. CASE i = n
    BY <1>1, <1>2, <1>3, <2>1, BlankNotLive DEF LiveIn
  <2>2. CASE i # n
    BY <1>1, <1>3, <2>2 DEF LiveIn
  <2> QED BY <2>1, <2>2
<1> QED BY <1>4 DEF LiveIn

LEMMA BelowWhole ==
    ASSUME NEW c, NEW n, NEW k, \A i \in Slots : i < n \/ ~Live(c[i])
    PROVE  LiveIn(Below(c, n), k) = LiveIn(c, k)
<1>1. \A i \in Slots : Below(c, n)[i] = IF i < n THEN c[i] ELSE Blank
  BY DEF Below
<1> QED BY <1>1, BlankNotLive DEF LiveIn

\* A slot that was not live and is not read by others changes.
LEMMA TouchLive ==
    ASSUME NEW s, NEW n, Touch(s, n), ~Live(slot[s][n]), NEW k
    PROVE  /\ LiveIn(slot[s], k) \subseteq LiveIn(slot'[s], k)
           /\ Live(slot'[s][n]) /\ slot'[s][n].key = k =>
                    LiveIn(slot'[s], k) # {}
BY DEF Touch, LiveIn

LEMMA MoveKeptNext ==
    ASSUME LossUse, StoreInv, LossInv, Next
    PROVE  MoveKept'
<1>0. /\ FlashType /\ TypeInv /\ TypeOK /\ RecordFaults /\ HeadersInv
      /\ InUseInv /\ ControlInv /\ CursorInv
      /\ PackedInv /\ ValuesInv /\ SwapKept /\ MoveKept
      /\ faults \in Nat /\ faults' \in Nat
      /\ \A s \in Sectors : /\ Other(s) \in Sectors
                            /\ Other(s) # s
                            /\ Other(Other(s)) = s
  <2>1. TypeInv'
    BY TypeNext DEF StoreInv
  <2>2. faults \in Nat /\ faults' \in Nat
    BY <2>1, ConstantsAssumption DEF StoreInv, TypeInv, TypeOK
  <2> QED BY <2>2, TypeFlash, OtherSector, LossFaults
             DEF StoreInv, TypeInv, HeadersInv, LossInv
<1>1. ASSUME pc' \in {"move_copy", "move_mark"}
      PROVE  /\ Few(Below(slot'[sector'], src_idx'), slot'[Other(sector')], faults')
             /\ pc' = "move_mark" => ~Live(slot'[Other(sector')][dst_idx'])
  <2>1. CASE MoveInit
    <3>1. src_idx' = 0 /\ pc' = "move_copy"
      BY <1>0, <2>1, MoveInitSure DEF CursorInv, copy
    <3>2. \A c, d : Missing(Below(c, 0), d) = {}
      <4>1. \A c, k : LiveIn(Below(c, 0), k) = {}
        BY BlankNotLive DEF LiveIn, Below, Slots
      <4> QED BY <4>1 DEF Missing
    <3> QED BY <1>0, <3>1, <3>2, FewNone
  <2>2. CASE MoveSkip
    <3>1. /\ pc = "move_copy" /\ pc' = "move_copy" /\ src_idx \in Slots
          /\ ~Live(slot[sector][src_idx])
          /\ src_idx' = src_idx + 1
          /\ UNCHANGED <<slot, sector, faults>>
      BY <2>2 DEF MoveSkip, MoveAtEnd, flash, ram, env
    <3>2. \A k : LiveIn(Below(slot[sector], src_idx + 1), k) =
                    LiveIn(Below(slot[sector], src_idx), k)
      BY <3>1, BelowLive
    <3>3. Missing(Below(slot[sector], src_idx + 1), slot[Other(sector)]) =
              Missing(Below(slot[sector], src_idx), slot[Other(sector)])
      BY <3>2 DEF Missing
    <3> QED BY <1>0, <3>1, <3>3 DEF MoveKept, Few
  <2>3. CASE MoveCopy
    <3> DEFINE d == Other(sector)
               n == dst_idx
               m == src_idx
               r == slot[sector][src_idx]
               b == Below(slot[sector], m)
               e == Below(slot[sector], m + 1)
    <3>1. /\ pc = "move_copy" /\ sector \in Sectors /\ d \in Sectors
          /\ m \in Slots /\ n \in Slots /\ Live(r)
          /\ src_idx' = m + 1 /\ sector' = sector
          /\ ~Live(slot[d][n])
          /\ \/ /\ Touch(d, n) /\ slot'[d][n] = r
                /\ pc' = "move_copy" /\ faults' = faults
             \/ /\ Touched(d, n) /\ ~Live(slot'[d][n])
                /\ dst_idx' = n /\ faults' = faults + 1
      BY <1>0, <2>3, MoveTouch
    <3>2. slot'[sector] = slot[sector]
      <4>1. Other(d) = sector
        BY <1>0, <3>1
      <4> QED BY <3>1, <4>1 DEF Touched, Touch
    <3>3. Few(b, slot[d], faults)
      BY <1>0, <3>1 DEF MoveKept
    <3>4. \A k : r.key # k => LiveIn(e, k) = LiveIn(b, k)
      BY <3>1, BelowLive
    <3>5. Other(sector') = d /\ e = Below(slot'[sector'], src_idx')
      BY <3>1, <3>2
    <3> HIDE DEF d, n, m, b, e, r
    <3>6. CASE /\ Touch(d, n) /\ slot'[d][n] = r
               /\ pc' = "move_copy" /\ faults' = faults
      <4>1. \A k : /\ LiveIn(slot[d], k) # {} => LiveIn(slot'[d], k) # {}
                   /\ r.key = k => LiveIn(slot'[d], k) # {}
        BY <3>1, <3>6, TouchLive
      <4>2. Missing(e, slot'[d]) \subseteq Missing(b, slot[d])
        BY <3>4, <4>1 DEF Missing
      <4>3. Few(e, slot'[d], faults)
        BY <1>0, <3>3, <4>2, FewIn
      <4> QED BY <3>5, <3>6, <4>3
    <3>7. CASE /\ Touched(d, n) /\ ~Live(slot'[d][n])
               /\ dst_idx' = n /\ faults' = faults + 1
      <4>1. \A k : LiveIn(slot[d], k) # {} => LiveIn(slot'[d], k) # {}
        BY <3>1, <3>7, TouchLive DEF Touched
      <4>2. Missing(e, slot'[d]) \subseteq Missing(b, slot[d]) \union {r.key}
        BY <3>4, <4>1 DEF Missing
      <4>3. Few(e, slot'[d], faults + 1)
        BY <1>0, <3>3, <4>2, FewMore
      <4> QED BY <3>5, <3>7, <4>3
    <3> QED BY <3>1, <3>6, <3>7
  <2>4. CASE MoveMark
    <3> DEFINE d == Other(sector)
    <3>1. /\ pc = "move_mark" /\ sector \in Sectors /\ d \in Sectors
          /\ Touch(d, dst_idx) /\ ~Live(slot[d][dst_idx])
          /\ UNCHANGED <<sector, src_idx, faults>> /\ pc' = "move_copy"
      BY <1>0, <2>4, MoveMarkTouch
    <3>2. slot'[sector] = slot[sector]
      <4>1. Other(d) = sector
        BY <1>0, <3>1
      <4> QED BY <3>1, <4>1 DEF Touch
    <3> HIDE DEF d
    <3>3. \A k : LiveIn(slot[d], k) # {} => LiveIn(slot'[d], k) # {}
      BY <3>1, TouchLive
    <3>4. Missing(Below(slot[sector], src_idx), slot'[d]) \subseteq
              Missing(Below(slot[sector], src_idx), slot[d])
      BY <3>3 DEF Missing
    <3>5. Few(Below(slot[sector], src_idx), slot'[d], faults)
      BY <1>0, <3>1, <3>4, FewIn DEF MoveKept, d
    <3> QED BY <3>1, <3>2, <3>5 DEF d
  <2> QED BY <1>1, <2>1, <2>2, <2>3, <2>4, LossTo
<1>2. ASSUME pc' = "move_valid"
      PROVE  Few(slot'[sector'], slot'[Other(sector')], faults')
  <2>1. /\ pc = "move_copy" /\ MoveAtEnd /\ sector \in Sectors
        /\ UNCHANGED <<slot, sector, faults>>
    BY <1>0, <1>2, LossTo DEF MoveEnd, flash, ram, env, ControlInv, BootPcs
  <2>2. ASSUME NEW i \in Slots PROVE i < src_idx \/ ~Live(slot[sector][i])
    <3>1. CASE src_idx \notin Slots
      BY <1>0, <3>1, ConstantsAssumption DEF Slots, TypeOK
    <3>2. CASE src_idx \in Slots
      <4>1. slot[sector][src_idx].flags = "EMPTY"
        BY <2>1, <3>2 DEF MoveAtEnd
      <4>2. i < src_idx \/ i = src_idx \/ src_idx < i
        BY <3>2 DEF Slots
      <4>3. src_idx < i => slot[sector][i].flags = "EMPTY"
        BY <1>0, <2>1, <3>2, <4>1 DEF PackedInv, Dense
      <4> QED BY <4>1, <4>2, <4>3 DEF Live
    <3> QED BY <3>1, <3>2
  <2>3. \A k : LiveIn(Below(slot[sector], src_idx), k) = LiveIn(slot[sector], k)
    BY <2>2, BelowWhole
  <2>4. Missing(Below(slot[sector], src_idx), slot[Other(sector)]) =
            Missing(slot[sector], slot[Other(sector)])
    BY <2>3 DEF Missing
  <2> QED BY <1>0, <2>1, <2>4 DEF MoveKept, Few
<1>3. ASSUME pc' \in TailPcs
      PROVE  Few(slot'[Other(sector')], slot'[sector'], faults')
  <2>1. CASE SwapValid
    <3>1. /\ pc = "swap_valid" /\ sector \in Sectors
          /\ slot' = slot /\ sector' = Other(sector)
      BY <1>0, <2>1, SwapValidSure DEF ControlInv, BootPcs
    <3>2. Missing(slot[sector], slot[Other(sector)]) = {}
      BY <1>0, <3>1 DEF SwapKept, Missing, CursorInv
    <3>3. Other(Other(sector)) = sector
      BY <1>0, <3>1
    <3> QED BY <1>0, <3>1, <3>2, <3>3, FewNone
  <2>2. CASE MoveValid
    <3>1. /\ pc = "move_valid" /\ sector \in Sectors
          /\ slot' = slot /\ sector' = Other(sector)
      BY <1>0, <2>2, MoveValidSure DEF ControlInv, BootPcs
    <3>2. faults' = faults
      BY <1>0, <2>2 DEF MoveValid, TryHeader, Fault, RecordFaults
    <3>3. Other(Other(sector)) = sector
      BY <1>0, <3>1
    <3> QED BY <1>0, <3>1, <3>2, <3>3 DEF MoveKept
  <2>3. CASE Rebuild
    <3>1. /\ pc = "rebuild" /\ sector \in Sectors /\ sector' = sector
          /\ ConstructLookupTable(sector) /\ faults' = faults
      BY <1>0, <2>3 DEF Rebuild, ControlInv, BootPcs, env
    <3>2. /\ slot'[Other(sector)] = slot[Other(sector)]
          /\ \A k \in Keys : LiveIn(slot'[sector], k) = LiveIn(slot[sector], k)
      BY <1>0, <3>1, ConstructDone
    <3>3. Missing(slot'[Other(sector)], slot'[sector]) =
              Missing(slot[Other(sector)], slot[sector])
      BY <3>2 DEF Missing
    <3> QED BY <1>0, <3>1, <3>3 DEF MoveKept, TailPcs, Few
  <2> QED BY <1>3, <2>1, <2>2, <2>3, LossTo
<1> QED BY <1>1, <1>2, <1>3 DEF MoveKept


LEMMA BootKeptNext ==
    ASSUME LossUse, StoreInv, BootKept, Next
    PROVE  BootKept'
<1>0. /\ FlashType /\ RecordFaults /\ VolumeInv /\ TypeInv
  BY TypeFlash, LossFaults DEF StoreInv, HeadersInv
<1>1. ASSUME pc' = "init_erase" PROVE sector' = 1 \/ hdr'[1] # "VALID"
  <2> DEFINE plan == Plan(hdr[1], hdr[2])
  <2>1. sector' = plan.sector /\ hdr' = hdr
    BY <1>1, LossTo DEF InitSectors, flash
  <2>2. hdr[1] = "VALID" => plan = [sector |-> 1, act |-> "erase_other"]
    BY DEF Plan
  <2> HIDE DEF plan
  <2> QED BY <2>1, <2>2
<1>2. ASSUME pc' \in {"reset1", "reset2"}, op' = "boot"
      PROVE  \A s \in Sectors : hdr'[s] # "VALID"
  <2>1. CASE Boot
    <3>1. ~Validate /\ hdr' = hdr
      BY <1>2, <2>1 DEF Boot, flash
    <3> QED BY <1>0, <3>1, BootChoice
  <2>2. CASE Reset1
    <3>1. pc = "reset1" /\ op = "boot"
      BY <1>2, <2>2 DEF Reset1, Goto, request
    <3>2. EraseSector(1)
      BY <1>0, <2>2, EraseDone DEF Reset1, Sectors
    <3> QED BY <1>0, <3>1, <3>2 DEF BootKept, EraseSector, FlashType
  <2>3. ~\E o \in Ops : Reset(o)
    BY <1>2 DEF Reset
  <2> QED BY <1>2, <2>1, <2>2, <2>3, LossTo
<1> QED BY <1>1, <1>2 DEF BootKept

LEMMA LossInit == Init => LossInv
<1>1. Init => SwapKept /\ MoveKept /\ BootKept
  BY DEF Init, SwapKept, MoveKept, BootKept, TailPcs
<1> QED BY <1>1, PackedInit, ValuesInit DEF LossInv

LEMMA LossNext ==
    ASSUME LossUse, SoundInv, LossInv, [Next]_vars
    PROVE  LossInv'
<1>1. CASE Next
  BY <1>1, PackedNext, ValuesNext, SwapKeptNext, MoveKeptNext, BootKeptNext
     DEF SoundInv, LossInv
<1>2. CASE UNCHANGED vars
  <2>1. PackedInv' /\ ValuesInv'
    BY <1>2
       DEF LossInv, PackedInv, ValuesInv, Dense, UsedTo, Writing, Entries, vars,
           flash, ram, request, copy
  <2>2. SwapKept' /\ MoveKept' /\ BootKept'
    BY <1>2
       DEF LossInv, SwapKept, EntryLive, Entries, MoveKept, BootKept, vars,
           flash, ram, request, copy, env
  <2> QED BY <2>1, <2>2 DEF LossInv
<1> QED BY <1>1, <1>2

----------------------------------------------------------------------------
(* The keys that a step loses.                                             *)

Gone == {k \in Keys : Value(k) # None /\ Value(k)' = None}
FewGone == Cardinality(Gone) <= faults

LEMMA HasValue ==
    ASSUME NEW c, \A i \in Slots : Live(c[i]) => c[i].val \in Vals, NEW k
    PROVE  ValueIn(c, k) = None <=> LiveIn(c, k) = {}
<1>1. CASE LiveIn(c, k) = {}
  BY <1>1 DEF ValueIn
<1>2. CASE LiveIn(c, k) # {}
  <2> DEFINE h == Highest(LiveIn(c, k))
  <2>1. h \in LiveIn(c, k)
    BY <1>2, NewestOf DEF Newest
  <2>2. ValueIn(c, k) = c[h].val
    BY <1>2 DEF ValueIn
  <2> HIDE DEF h
  <2>3. c[h].val \in Vals
    BY <2>1 DEF LiveIn
  <2> QED BY <1>2, <2>2, <2>3, ConstantsAssumption
<1> QED BY <1>1, <1>2

\* The sector that a boot uses before the step, and after it.
LEMMA BootedKept ==
    ASSUME ValuesInv, ValuesInv', faults \in Nat,
           NEW s \in Sectors, hdr[s] = "VALID", s = 1 \/ hdr[1] # "VALID",
           NEW t \in Sectors, hdr'[t] = "VALID", t = 1 \/ hdr'[1] # "VALID",
           Few(slot[s], slot'[t], faults)
    PROVE  FewGone
<1>1. ASSUME NEW k \in Keys
      PROVE  Value(k) = ValueIn(slot[s], k) /\ Value(k)' = ValueIn(slot'[t], k)
  BY DEF Value, Sectors
<1>2. \A k : ValueIn(slot[s], k) = None <=> LiveIn(slot[s], k) = {}
  BY HasValue DEF ValuesInv
<1>3. \A k : ValueIn(slot'[t], k) = None <=> LiveIn(slot'[t], k) = {}
  <2>1. \A i \in Slots : Live(slot'[t][i]) => slot'[t][i].val \in Vals
    BY DEF ValuesInv
  <2> QED BY <2>1, HasValue
<1>4. Gone = Missing(slot[s], slot'[t])
  BY <1>1, <1>2, <1>3 DEF Gone, Missing
<1> QED BY <1>4 DEF Few, FewGone

LEMMA NoneBooted ==
    ASSUME faults \in Nat, \A s \in Sectors : hdr[s] # "VALID"
    PROVE  FewGone
<1>1. \A k : Value(k) = None
  BY DEF Value, Sectors
<1>2. Gone = {}
  BY <1>1 DEF Gone
<1> QED BY <1>2, FS_EmptySet DEF FewGone

NamesKept(s) == \A k \in Keys :
    LiveIn(slot[s], k) # {} => LiveIn(slot'[s], k) # {}

LEMMA StillBooted ==
    ASSUME ValuesInv, ValuesInv', faults \in Nat,
           NEW s \in Sectors, hdr[s] = "VALID", s = 1 \/ hdr[1] # "VALID",
           hdr'[s] = "VALID", s = 1 \/ hdr'[1] # "VALID", NamesKept(s)
    PROVE  FewGone
<1>1. Missing(slot[s], slot'[s]) = {}
  BY DEF NamesKept, Missing
<1>2. Few(slot[s], slot'[s], faults)
  BY <1>1, FewNone
<1> QED BY <1>2, BootedKept

LEMMA SameBooted ==
    ASSUME ValuesInv, ValuesInv', faults \in Nat,
           \A s \in Sectors : /\ hdr'[s] = "VALID" <=> hdr[s] = "VALID"
                              /\ hdr[s] = "VALID" => NamesKept(s)
    PROVE  FewGone
<1>1. CASE \A s \in Sectors : hdr[s] # "VALID"
  BY <1>1, NoneBooted
<1>2. CASE \E s \in Sectors : hdr[s] = "VALID"
  <2>1. PICK s \in Sectors : hdr[s] = "VALID" /\ (s = 1 \/ hdr[1] # "VALID")
    BY <1>2 DEF Sectors
  <2>2. hdr'[s] = "VALID" /\ (s = 1 \/ hdr'[1] # "VALID") /\ NamesKept(s)
    BY <2>1 DEF Sectors
  <2> QED BY <2>1, <2>2, StillBooted
<1> QED BY <1>1, <1>2

\* A step that leaves the headers alone loses a record only to a deletion.
LEMMA SameHeaders ==
    ASSUME FlashType, ValuesInv, ValuesInv', faults \in Nat, hdr' = hdr,
           SlotStep, op # "record_delete"
    PROVE  FewGone
<1>0. /\ \A s, t \in Sectors : t = s \/ t = Other(s)
  BY DEF Sectors, Other
<1> SUFFICES ASSUME NEW t \in Sectors, hdr[t] = "VALID" PROVE NamesKept(t)
  BY SameBooted
<1>1. CASE slot' = slot
  BY <1>1 DEF NamesKept
<1>2. ASSUME NEW s \in Sectors, EraseSector(s) PROVE NamesKept(t)
  <2>1. hdr[s] = "EMPTY"
    BY <1>2 DEF EraseSector, FlashType
  <2>2. slot'[t] = slot[t]
    BY <1>2, <2>1 DEF EraseSector, FlashType
  <2> QED BY <2>2 DEF NamesKept
<1>3. CASE sector \in Sectors /\ ConstructLookupTable(sector)
  BY <1>0, <1>3, ConstructDone DEF NamesKept
<1>4. ASSUME NEW s \in Sectors, NEW n \in Slots, Touch(s, n)
      PROVE  NamesKept(t)
  <2>1. CASE t = Other(s)
    BY <1>4, <2>1 DEF Touch, NamesKept
  <2>2. CASE t = s
    <3> SUFFICES ASSUME NEW k \in Keys, NEW i \in LiveIn(slot[s], k)
                 PROVE  LiveIn(slot'[s], k) # {}
      BY <2>2 DEF NamesKept
    <3>1. CASE i # n
      BY <1>4, <3>1 DEF Touch, LiveIn
    <3>2. CASE i = n
      <4>1. Live(slot[s][n]) /\ slot[s][n].key = k
        BY <3>2 DEF LiveIn
      <4>2. PICK j \in Slots : j # n /\ Live(slot[s][j]) /\ slot[s][j].key = k
        BY <1>4, <4>1 DEF Touch
      <4>3. j \in LiveIn(slot'[s], k)
        BY <1>4, <4>2 DEF Touch, LiveIn
      <4> QED BY <4>3
    <3> QED BY <3>1, <3>2
  <2> QED BY <1>0, <2>1, <2>2
<1> QED BY <1>1, <1>2, <1>3, <1>4 DEF SlotStep

\* The header of a sector that is not VALID changes, to one that is not.
LEMMA OtherHeader ==
    ASSUME FlashType, ValuesInv, ValuesInv', faults \in Nat,
           NEW s \in Sectors, hdr[s] # "VALID", hdr'[s] # "VALID",
           hdr'[Other(s)] = hdr[Other(s)], slot'[Other(s)] = slot[Other(s)]
    PROVE  FewGone
<1>1. \A t \in Sectors : t = s \/ t = Other(s)
  BY DEF Sectors, Other
<1> QED BY <1>1, SameBooted DEF NamesKept

\* One of two VALID sectors remains, the one in use.
LEMMA TailErased ==
    ASSUME ValuesInv, ValuesInv', faults \in Nat,
           sector \in Sectors, hdr[sector] = "VALID",
           hdr[Other(sector)] = "VALID",
           hdr'[sector] = "VALID", hdr'[Other(sector)] # "VALID",
           slot'[sector] = slot[sector],
           sector = 1 \/ Few(slot[Other(sector)], slot[sector], faults)
    PROVE  FewGone
<1>1. CASE sector = 1
  BY <1>1, StillBooted DEF NamesKept
<1>2. CASE sector = 2
  <2>1. Other(sector) = 1 /\ 1 \in Sectors
    BY <1>2 DEF Other, Sectors
  <2>2. sector # 1
    BY <1>2
  <2>3. Few(slot[1], slot'[sector], faults)
    BY <2>1, <2>2
  <2> QED BY <1>2, <2>1, <2>3, BootedKept
<1> QED BY <1>1, <1>2 DEF Sectors

\* The destination of a copy becomes VALID beside the source.
LEMMA CopyBooted ==
    ASSUME ValuesInv, ValuesInv', faults \in Nat,
           sector \in Sectors, hdr[sector] = "VALID",
           hdr[Other(sector)] # "VALID",
           hdr'[sector] = "VALID", hdr'[Other(sector)] = "VALID",
           slot' = slot, Few(slot[sector], slot[Other(sector)], faults)
    PROVE  FewGone
<1>1. CASE sector = 1
  BY <1>1, StillBooted DEF NamesKept
<1>2. CASE sector = 2
  <2>1. Other(sector) = 1 /\ 1 \in Sectors
    BY <1>2 DEF Other, Sectors
  <2>2. Few(slot[sector], slot'[1], faults)
    BY <2>1
  <2> QED BY <1>2, <2>1, <2>2, BootedKept
<1> QED BY <1>1, <1>2 DEF Sectors

\* The sector being erased is no longer VALID, and the other one stays.
LEMMA ErasureGone ==
    ASSUME StoreInv, LossInv, ValuesInv', faults \in Nat,
           op \notin {"record_delete", "reset", "delete"},
           NEW s \in Erasures, s \in Sectors, hdr'[s] # "VALID",
           hdr'[Other(s)] = hdr[Other(s)], slot'[Other(s)] = slot[Other(s)]
    PROVE  FewGone
<1>0. /\ FlashType /\ ControlInv /\ InUseInv /\ BootInv
      /\ ValuesInv /\ MoveKept /\ BootKept
      /\ Other(s) \in Sectors /\ Other(Other(s)) = s
  BY TypeFlash, OtherSector DEF StoreInv, TypeInv, HeadersInv, LossInv
<1>1. CASE hdr[s] # "VALID"
  BY <1>0, <1>1, OtherHeader
<1>2. CASE hdr[s] = "VALID" /\ pc \in {"erase_src", "init_erase"}
  <2>1. /\ s = Other(sector) /\ sector \in Sectors /\ hdr[sector] = "VALID"
    BY <1>0, <1>2 DEF Erasures, ControlInv, BootPcs, InUseInv, TailPcs
  <2>2. Other(s) = sector
    BY <2>1, OtherSector
  <2>3. sector = 1 \/ Few(slot[Other(sector)], slot[sector], faults)
    <3>1. CASE pc = "erase_src"
      BY <1>0, <3>1 DEF MoveKept, TailPcs
    <3>2. CASE pc = "init_erase"
      <4>1. sector = 2 => Other(sector) = 1
        BY DEF Other
      <4> QED BY <1>0, <1>2, <2>1, <3>2, <4>1 DEF BootKept, Sectors
    <3> QED BY <1>2, <3>1, <3>2
  <2> QED BY <1>0, <1>2, <2>1, <2>2, <2>3, TailErased
<1>3. CASE hdr[s] = "VALID" /\ pc \notin {"erase_src", "init_erase"}
  <2>1. pc \notin {"swap_erase", "move_erase"}
    <3>1. pc = "move_erase" => hdr[Other(sector)] = "INITIALIZING"
      BY <1>0 DEF InUseInv
    <3>2. pc = "move_erase" => s = Other(sector)
      BY DEF Erasures
    <3> QED BY <1>0, <1>3, <3>1, <3>2 DEF InUseInv
  <2>2. pc # "format_erase"
    BY <1>0, <1>3 DEF BootInv
  <2>3. pc \notin {"reset1", "reset2"}
    BY <1>0, <1>3 DEF ControlInv, Loading, BootKept
  <2> QED BY <1>3, <2>1, <2>2, <2>3 DEF Erasures
<1> QED BY <1>1, <1>2, <1>3

\* A header changes, in a step that leaves the records alone.
LEMMA HeaderSet ==
    ASSUME FlashType, NEW s \in Sectors, NEW f,
           hdr' = [hdr EXCEPT ![s] = f], slot' = slot
    PROVE  /\ hdr'[s] = f
           /\ hdr'[Other(s)] = hdr[Other(s)]
           /\ slot'[Other(s)] = slot[Other(s)]
BY OtherSector DEF FlashType

LEMMA FailureGone ==
    ASSUME LossUse, StoreInv, LossInv, ValuesInv', faults \in Nat,
           op \notin {"record_delete", "reset", "delete"}, PowerFailure
    PROVE  FewGone
<1>0. /\ FlashType /\ ControlInv /\ InUseInv /\ BootInv /\ ValuesInv
      /\ "torn_header" \notin Faults /\ "torn_erase" \notin Faults
  BY TypeFlash, LossFaults DEF StoreInv, TypeInv, HeadersInv, LossInv
<1>1. CASE Crash \/ CrashInWrite
  <2>1. hdr' = hdr
    BY <1>1, TornTouch DEF Crash, flash, LossInv
  <2>2. SlotStep
    BY <1>1, TornTouch DEF Crash, flash, SlotStep, LossInv
  <2> QED BY <1>0, <2>1, <2>2, SameHeaders
<1>2. CASE CrashInHeader
  <2>1. PICK h \in HeaderWrites : hdr' = [hdr EXCEPT ![h[1]] = "UNKNOWN"]
    BY <1>0, <1>2 DEF CrashInHeader
  <2>2. slot' = slot
    BY <1>2 DEF CrashInHeader
  <2> DEFINE s == h[1]
  <2>3. s \in Sectors /\ hdr[s] # "VALID"
    <3>1. CASE pc \in {"swap_init", "move_init", "swap_valid", "move_valid"}
      <4>1. s = Other(sector) /\ sector \in Sectors
        BY <1>0, <2>1, <3>1 DEF HeaderWrites, ControlInv, BootPcs
      <4> QED BY <1>0, <3>1, <4>1, OtherSector DEF InUseInv, CopyPcs
    <3>2. CASE pc = "format_valid"
      BY <1>0, <2>1, <3>2 DEF HeaderWrites, BootInv, Sectors
    <3> QED BY <2>1, <3>1, <3>2 DEF HeaderWrites
  <2> HIDE DEF s
  <2>4. hdr' = [hdr EXCEPT ![s] = "UNKNOWN"]
    BY <2>1 DEF s
  <2>5. /\ hdr'[s] = "UNKNOWN" /\ hdr'[Other(s)] = hdr[Other(s)]
        /\ slot'[Other(s)] = slot[Other(s)]
    BY <1>0, <2>2, <2>3, <2>4, HeaderSet
  <2> QED BY <1>0, <2>3, <2>5, OtherHeader
<1>3. CASE CrashInErase
  <2>1. PICK s \in Erasures : hdr' = [hdr EXCEPT ![s] = "UNKNOWN"]
    BY <1>0, <1>3 DEF CrashInErase
  <2>2. slot' = slot
    BY <1>3 DEF CrashInErase
  <2>3. s \in Sectors
    <3>1. CASE pc \in {"swap_erase", "move_erase", "erase_src", "init_erase"}
      <4>1. s = Other(sector) /\ sector \in Sectors
        BY <1>0, <2>1, <3>1 DEF Erasures, ControlInv, BootPcs
      <4> QED BY <4>1, OtherSector
    <3>2. CASE pc = "format_erase"
      BY <1>0, <2>1, <3>2 DEF Erasures, BootInv, Sectors
    <3> QED BY <2>1, <3>1, <3>2 DEF Erasures, Sectors
  <2> QED BY <1>0, <2>1, <2>2, <2>3, HeaderSet, ErasureGone
<1> QED BY <1>1, <1>2, <1>3 DEF PowerFailure

LEMMA GoneNext ==
    ASSUME LossUse, StoreInv, LossInv, ValuesInv', Next,
           op \notin {"record_delete", "reset", "delete"}
    PROVE  FewGone
<1>0. /\ FlashType /\ TypeInv /\ ControlInv /\ InUseInv /\ BootInv
      /\ HeadersInv /\ RecordFaults
      /\ PackedInv /\ ValuesInv /\ SwapKept /\ MoveKept /\ CursorInv
      /\ faults \in Nat
      /\ \A s \in Sectors : /\ Other(s) \in Sectors /\ Other(s) # s
                            /\ Other(Other(s)) = s
      /\ 1 \in Sectors /\ 2 \in Sectors
  BY TypeFlash, OtherSector, LossFaults, ConstantsAssumption
     DEF StoreInv, TypeInv, TypeOK, HeadersInv, LossInv, Sectors
<1>1. ASSUME hdr' = hdr PROVE FewGone
  BY <1>0, <1>1, SlotNext, SameHeaders
<1>2. ASSUME NEW s \in Sectors, s \in Erasures, EraseSector(s) PROVE FewGone
  <2>1. /\ hdr'[s] = "EMPTY" /\ hdr'[Other(s)] = hdr[Other(s)]
        /\ slot'[Other(s)] = slot[Other(s)]
    BY <1>0, <1>2 DEF EraseSector, FlashType
  <2> QED BY <1>0, <1>2, <2>1, ErasureGone
<1>3. ASSUME NEW s \in Sectors, s \in Erasures, NEW good \in BOOLEAN,
             TryErase(s, good)
      PROVE  FewGone
  BY <1>0, <1>2, <1>3, EraseDone
<1>4. CASE PowerFailure
  BY <1>0, <1>4, FailureGone
<1>5. CASE Boot \/ Call
  BY <1>1, <1>5
     DEF Boot, Call, RecordSet, EntryData, EntrySave, RecordDelete, StartWrite,
         Repair, Reset, Unload, flash
<1>6. CASE RecordSetCheck \/ MoveEnd \/ MoveSkip \/ Load \/ InitSectors
  BY <1>1, <1>6
     DEF RecordSetCheck, MoveEnd, MoveSkip, Load, InitSectors, flash
<1>7. CASE \/ RecordSetWrite \/ RecordSetMarkBad \/ RecordSetValid
           \/ RecordSetMarkOld \/ RecordDeleteMark
  BY <1>0, <1>1, <1>7, WriteTouch, MarkBadTouch, SetValidTouch, MarkOldTouch,
     DeleteTouch DEF Touched
<1>8. CASE SwapCopy
  BY <1>0, <1>1, <1>8, CopyTouch DEF Touched
<1>9. CASE MoveCopy \/ MoveMark
  BY <1>0, <1>1, <1>9, MoveTouch, MoveMarkTouch
<1>10. CASE Rebuild \/ Construct
  BY <1>1, <1>10 DEF Rebuild, Construct, ConstructLookupTable
<1>11. CASE SwapErase \/ MoveErase \/ EraseSource \/ InitErase
  <2>1. /\ pc \in {"swap_erase", "move_erase", "erase_src", "init_erase"}
        /\ sector \in Sectors
    BY <1>0, <1>11
       DEF SwapErase, MoveErase, EraseSource, InitErase, ControlInv, BootPcs
  <2>2. Other(sector) \in Erasures
    BY <2>1 DEF Erasures
  <2>3. \E good \in BOOLEAN : TryErase(Other(sector), good)
    BY <1>11 DEF SwapErase, MoveErase, EraseSource, InitErase
  <2> QED BY <1>0, <1>3, <2>1, <2>2, <2>3
<1>12. CASE Reset1 \/ Reset2 \/ FormatErase
  BY <1>0, <1>3, <1>12 DEF Reset1, Reset2, FormatErase, Erasures, BootInv
<1>13. CASE \/ InitUnknown("init1", 1, "init2")
            \/ InitUnknown("init2", 2, "init_sectors")
  BY <1>0, <1>1, <1>3, <1>13 DEF InitUnknown, Erasures, flash
<1>14. CASE SwapInit \/ MoveInit
  <2>1. /\ slot' = slot /\ Stamped(Other(sector), "INITIALIZING")
        /\ sector \in Sectors /\ hdr[Other(sector)] = "EMPTY"
    BY <1>0, <1>14, SwapInitSure, MoveInitSure DEF ControlInv, BootPcs, InUseInv
  <2> DEFINE s == Other(sector)
  <2>2. /\ s \in Sectors /\ hdr[s] # "VALID" /\ hdr'[s] # "VALID"
        /\ hdr'[Other(s)] = hdr[Other(s)] /\ slot'[Other(s)] = slot[Other(s)]
    BY <1>0, <2>1 DEF Stamped
  <2> HIDE DEF s
  <2> QED BY <1>0, <2>2, OtherHeader
<1>15. CASE SwapValid \/ MoveValid
  <2>1. /\ slot' = slot /\ Stamped(Other(sector), "VALID")
        /\ sector \in Sectors /\ hdr[sector] = "VALID"
        /\ hdr[Other(sector)] = "INITIALIZING"
    BY <1>0, <1>15, SwapValidSure, MoveValidSure
       DEF ControlInv, BootPcs, InUseInv, CopyPcs, SwapPcs, MovePcs
  <2>2. hdr'[Other(sector)] = "VALID" /\ hdr'[sector] = hdr[sector]
    BY <1>0, <2>1 DEF Stamped
  <2>3. Few(slot[sector], slot[Other(sector)], faults)
    <3>1. CASE pc = "move_valid"
      BY <1>0, <3>1 DEF MoveKept
    <3>2. CASE pc = "swap_valid"
      <4>1. \A k \in Keys : LiveIn(slot[sector], k) # {} =>
                                LiveIn(slot[Other(sector)], k) # {}
        BY <1>0, <3>2 DEF SwapKept, CursorInv
      <4>2. Missing(slot[sector], slot[Other(sector)]) = {}
        BY <4>1 DEF Missing
      <4> QED BY <1>0, <4>2, FewNone
    <3> QED BY <1>15, <3>1, <3>2 DEF SwapValid, MoveValid
  <2> QED BY <1>0, <2>1, <2>2, <2>3, CopyBooted
<1>16. CASE FormatValid
  <2>1. \A s \in Sectors : hdr[s] # "VALID"
    BY <1>0, <1>16 DEF FormatValid, BootInv
  <2> QED BY <1>0, <2>1, NoneBooted
<1> QED BY <1>4, <1>5, <1>6, <1>7, <1>8, <1>9, <1>10, <1>11, <1>12, <1>13,
           <1>14, <1>15, <1>16
    DEF Next, Step

\* Where record writes are the FLASH operations that fail, and power fails
\* anywhere outside the gaps of a header or an erase, a step loses at most as
\* many records as writes have failed: a swap loses none, a move at most one
\* for each record that it could not write, and whichever of the two sectors
\* a boot finds next, it finds the others.  The caller may delete records
\* only if power does not fail: of a key whose previous record a power failure
\* left VALID, that record outlives the deletion until the next swap.
THEOREM OneLossPerFault == ASSUME LossUse PROVE Spec => OneRecordPerFault
<1> DEFINE FewLost ==
              op \notin {"record_delete", "reset", "delete"} =>
                Cardinality({k \in Keys : Stored(k) # None /\ Stored(k)' = None})
                    <= faults
           Inv == SoundInv /\ LossInv /\ StoredSame
<1>1. Init => SoundInv /\ LossInv
  BY SoundInit, LossInit
<1>2. SoundInv /\ LossInv /\ [Next]_vars => SoundInv' /\ LossInv'
  BY SoundNext, LossNext, LossFaults
<1>3. SoundInv => StoredSame
  BY StoredValue DEF SoundInv, StoreInv
<1>4. Inv /\ Inv' /\ [Next]_vars => [FewLost]_vars
  <2> SUFFICES ASSUME Inv, Inv', Next,
                      op \notin {"record_delete", "reset", "delete"}
               PROVE  FewLost
    OBVIOUS
  <2>1. FewGone
    <3>1. ValuesInv'
      BY DEF LossInv
    <3> QED BY <3>1, GoneNext DEF SoundInv
  <2>2. {k \in Keys : Stored(k) # None /\ Stored(k)' = None} = Gone
    BY DEF StoredSame, Gone
  <2> QED BY <2>1, <2>2 DEF FewGone
<1>5. Spec => []Inv
  <2> HIDE DEF FewLost
  <2> QED BY <1>1, <1>2, <1>3, PTL DEF Spec
<1>6. Spec => [][FewLost]_vars
  <2> HIDE DEF FewLost, Inv
  <2> QED BY <1>4, <1>5, PTL DEF Spec
<1> QED BY <1>6, PTL DEF OneRecordPerFault

=============================================================================
