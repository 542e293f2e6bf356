---------------------------- MODULE Nlog3Proofs ----------------------------
(***************************************************************************)
(* Proofs about Nlog3, for every number and size of sectors and every      *)
(* number of failures and power failures: types, and the FLASH discipline. *)
(***************************************************************************)
EXTENDS Nlog3, TLAPS

----------------------------------------------------------------------------
(* Operators.                                                              *)

LEMMA NextSector ==
    ASSUME NEW s \in Sectors
    PROVE  SectorNext(s) \in Sectors \ {s}
<1>1. SectorCount \in Nat /\ 3 <= SectorCount
  BY ConstantsAssumption
<1>2. CASE s + 1 < SectorCount
  BY <1>1, <1>2 DEF Sectors, SectorNext
<1>3. CASE s + 1 = SectorCount
  BY <1>1, <1>3 DEF Sectors, SectorNext
<1> QED BY <1>1, <1>2, <1>3 DEF Sectors

LEMMA NextSequence ==
    ASSUME NEW q \in Sequence
    PROVE  (q + 1) % SeqMod \in Sequence
BY ConstantsAssumption DEF Sequence

\* A product grows with its first factor.
LEMMA ProductGrows ==
    ASSUME NEW m \in Nat, NEW n \in Nat, NEW k \in Nat, m <= n
    PROVE  m * k <= n * k
<1>1. n * k = m * k + (n - m) * k
  OBVIOUS
<1>2. (n - m) * k \in Nat
  OBVIOUS
<1>3. m * k \in Nat
  OBVIOUS
<1> QED BY <1>1, <1>2, <1>3

\* An offset is that of a unit or NoOffset, and names a sector.
LEMMA OffsetType ==
    ASSUME NEW s \in Sectors, NEW a \in Units
    PROVE  Offset(s, a) \in 0 .. NoOffset
<1>1. SectorCount \in Nat /\ Room \in Nat /\ s \in Nat /\ a \in Nat
  BY ConstantsAssumption DEF Sectors, Units
<1>2. s + 1 <= SectorCount /\ a < Room
  BY <1>1 DEF Sectors, Units
<1>3. (s + 1) * Room <= SectorCount * Room
  BY <1>1, <1>2, ProductGrows
<1>4. (s + 1) * Room = s * Room + Room /\ s * Room \in Nat
  BY <1>1
<1>5. SectorCount * Room \in Nat
  BY <1>1
<1> QED BY <1>1, <1>2, <1>3, <1>4, <1>5 DEF Offset, NoOffset

LEMMA OffsetSector ==
    ASSUME NEW o \in 0 .. NoOffset, o # NoOffset
    PROVE  o \div Room \in Sectors
<1>1. SectorCount \in Nat /\ Room \in Nat /\ 0 < Room
  BY ConstantsAssumption
<1>2. SectorCount * Room \in Nat
  BY <1>1
<1>3. o \in Nat /\ o < SectorCount * Room
  BY <1>2 DEF NoOffset
<1> DEFINE s == o \div Room
<1>4. s \in Nat /\ s * Room <= o /\ s * Room \in Nat
  BY <1>1, <1>3
<1> HIDE DEF s
<1>5. ASSUME SectorCount <= s PROVE FALSE
  <2>1. SectorCount * Room <= s * Room
    BY <1>1, <1>4, <1>5, ProductGrows
  <2> QED BY <1>2, <1>3, <1>4, <2>1
<1>6. s \in Sectors
  BY <1>1, <1>4, <1>5 DEF Sectors
<1> QED BY <1>6 DEF s

----------------------------------------------------------------------------
(* What the FLASH operations do to the types.                              *)

FlashType ==
    /\ hdr \in [Sectors -> Headers]
    /\ cell \in [Sectors -> [Units -> Cells]]
    /\ faults \in 0 .. MaxFaults

LEMMA BlankType == Erased \in [Units -> Cells] /\ Unit("BODY") \in Cells
<1>1. NoOffset \in Nat /\ MaxId \in Nat /\ Room \in Nat /\ SeqMod \in Nat \ {0}
  BY ConstantsAssumption DEF NoOffset
<1> QED BY <1>1 DEF Erased, Blank, Unit, Cells, CellStates, Ids, Sequence

LEMMA NoHeaderType == NoHeader \in Headers
BY ConstantsAssumption DEF NoHeader, Headers, SectorStates, Sequence

LEMMA FaultType ==
    ASSUME FlashType, NEW f, Fault(f)
    PROVE  faults' \in 0 .. MaxFaults
BY ConstantsAssumption DEF FlashType, Fault

LEMMA CutEraseType ==
    ASSUME FlashType, NEW s \in Sectors, CutErase(s)
    PROVE  hdr' \in [Sectors -> Headers] /\ cell' = cell
<1>1. [hdr[s] EXCEPT !.state = "PENDING"] \in Headers
  BY DEF FlashType, Headers, SectorStates
<1> QED BY <1>1 DEF FlashType, CutErase

LEMMA TryEraseType ==
    ASSUME FlashType, NEW s \in Sectors, NEW good, TryErase(s, good)
    PROVE  FlashType'
<1>1. CASE EraseSector(s) /\ UNCHANGED faults
  BY <1>1, BlankType, NoHeaderType DEF FlashType, EraseSector
<1>2. CASE Fault("erase") /\ UNCHANGED flash
  BY <1>2, FaultType DEF FlashType, flash
<1>3. CASE Fault("erase") /\ CutErase(s)
  BY <1>3, FaultType, CutEraseType DEF FlashType
<1> QED BY <1>1, <1>2, <1>3 DEF TryErase

LEMMA HeaderWithType ==
    ASSUME FlashType, NEW s \in Sectors, NEW st \in SectorStates
    PROVE  HeaderWith(s, st) \in Headers
BY DEF FlashType, HeaderWith, Headers

LEMMA PendingHeaderType ==
    ASSUME NEW q \in Sequence
    PROVE  PendingHeader(q) \in Headers
BY DEF PendingHeader, Headers, SectorStates

LEMMA CutHeaderType ==
    ASSUME FlashType, NEW s \in Sectors, NEW h \in Headers, CutHeader(s, h)
    PROVE  hdr' \in [Sectors -> Headers] /\ cell' = cell
<1>1. CASE SetHeader(s, [state |-> "PENDING", seq |-> h.seq, ok |-> FALSE])
  <2>1. [state |-> "PENDING", seq |-> h.seq, ok |-> FALSE] \in Headers
    BY DEF Headers, SectorStates
  <2> QED BY <1>1, <2>1 DEF FlashType, SetHeader
<1>2. CASE SetHeader(s, HeaderWith(s, "VALID"))
  <2>1. HeaderWith(s, "VALID") \in Headers
    BY HeaderWithType DEF SectorStates
  <2> QED BY <1>2, <2>1 DEF FlashType, SetHeader
<1> QED BY <1>1, <1>2 DEF CutHeader

LEMMA TryHeaderType ==
    ASSUME FlashType, NEW s \in Sectors, NEW h \in Headers, NEW good,
           TryHeader(s, h, good)
    PROVE  FlashType' /\ cell' = cell
<1>1. CASE SetHeader(s, h) /\ UNCHANGED faults
  BY <1>1 DEF FlashType, SetHeader
<1>2. CASE Fault("write") /\ UNCHANGED flash
  BY <1>2, FaultType DEF FlashType, flash
<1>3. CASE Fault("write") /\ CutHeader(s, h)
  BY <1>3, FaultType, CutHeaderType DEF FlashType
<1> QED BY <1>1, <1>2, <1>3 DEF TryHeader

LEMMA TryCellsType ==
    ASSUME FlashType, current_sector \in Sectors, NEW good,
           NEW cells \in [Units -> Cells], NEW cut \in [Units -> Cells],
           TryCells(cells, cut, good)
    PROVE  FlashType' /\ hdr' = hdr
<1>1. CASE SetCells(current_sector, cells) /\ UNCHANGED faults
  BY <1>1 DEF FlashType, SetCells
<1>2. CASE Fault("write") /\ UNCHANGED flash
  BY <1>2, FaultType DEF FlashType, flash
<1>3. CASE Fault("write") /\ SetCells(current_sector, cut)
  BY <1>3, FaultType DEF FlashType, SetCells
<1> QED BY <1>1, <1>2, <1>3 DEF TryCells

LEMMA StateAtType ==
    ASSUME FlashType, NEW s \in Sectors, NEW a \in Units, NEW st \in CellStates
    PROVE  StateAt(s, a, st) \in [Units -> Cells]
<1>1. cell[s] \in [Units -> Cells]
  BY DEF FlashType
<1>2. cell[s][a] \in Cells
  BY <1>1
<1>3. [cell[s][a] EXCEPT !.state = st] \in Cells
  BY <1>2 DEF Cells
<1> QED BY <1>1, <1>3 DEF StateAt

LEMMA ProgrammedType ==
    ASSUME FlashType, NEW s \in Sectors, NEW a \in Nat, NEW rec \in Cells
    PROVE  Programmed(s, a, rec) \in [Units -> Cells]
BY BlankType DEF FlashType, Programmed

\* The id after the newest record, as syslog_start() reads it.
LEMMA NextIdType ==
    ASSUME FlashType', last_record_offset' \in 0 .. NoOffset
    PROVE  SyslogNextId' \in 0 .. (MaxId + 1)
<1> DEFINE s == last_record_offset' \div Room
           a == last_record_offset' % Room
<1>1. MaxId \in Nat
  BY ConstantsAssumption
<1>2. CASE IteratorInit' = NoIt
  BY <1>1, <1>2 DEF SyslogNextId
<1>3. CASE IteratorInit' # NoIt
  <2>1. /\ last_record_offset' # NoOffset
        /\ a \in Units
        /\ IteratorInit'.rec = cell'[s][a]
    BY <1>3 DEF IteratorInit, IteratorSetOffset, IsRecord, At
  <2>2. s \in Sectors
    BY <2>1, OffsetSector
  <2>3. cell'[s][a].id \in 0 .. MaxId
    BY <2>1, <2>2 DEF FlashType, Cells, Ids
  <2> QED BY <1>1, <1>3, <2>1, <2>3 DEF SyslogNextId
<1> QED BY <1>2, <1>3

----------------------------------------------------------------------------
(* TypeInv is inductive.                                                   *)

PlogType ==
    /\ current_sector \in Sectors
    /\ current_sequence \in Sequence
    /\ staged_sector \in Sectors \union {NoSector}
    /\ write_addr \in 0 .. Room
    /\ last_record_offset \in 0 .. NoOffset
    /\ last_record_sequence \in Sequence
    /\ current_closed \in BOOLEAN
    /\ next_id \in 0 .. (MaxId + 1)

CallType ==
    /\ pc \in PcNames
    /\ op \in {"none", "init", "reset", "append"}
    /\ size \in Sizes \union {0}
    /\ then \in {"none", "done", "record", "sector_erase"}
    /\ i \in Sectors
    /\ ret \in {"none", "EOK", "FAIL"}

CallerType ==
    /\ it \in Iterators
    /\ crashes \in 0 .. MaxCrashes

LEMMA TypeParts ==
    TypeOK <=> FlashType /\ PlogType /\ CallType /\ CallerType
BY DEF TypeOK, FlashType, PlogType, CallType, CallerType

LEMMA PartsNext ==
    ASSUME FlashType', PlogType', CallType', CallerType',
           ControlInv', CursorInv'
    PROVE  TypeInv'
BY DEF TypeInv, TypeOK, FlashType, PlogType, CallType, CallerType

LEMMA NoItType == NoIt \in Iterators
BY BlankType, ConstantsAssumption
   DEF NoIt, Iterators, Blank, Unit, Units, Sequence, Cells, CellStates, Ids,
       NoOffset

\* A call that returns or fails leaves nothing of itself.
LEMMA ReturnEffect ==
    ASSUME Return("EOK") \/ Fail
    PROVE  CallType' /\ ControlInv' /\ CursorInv'
BY ConstantsAssumption
   DEF Return, Fail, CallType, ControlInv, CursorInv, PcNames, StageSector,
       SectorInit, Sectors

\* What nlog3_stage_sector() leaves when it succeeds.
LEMMA StagedEffect ==
    ASSUME TypeInv, pc \in StageSector, NEW s \in Sectors \ {current_sector},
           Staged(s), FlashType'
    PROVE  PlogType' /\ CallType' /\ ControlInv' /\ CursorInv'
<1> USE DEF TypeInv
<1>1. FlashType /\ PlogType /\ CallType
  BY TypeParts
<1>2. /\ staged_sector' = s
      /\ UNCHANGED <<current_sector, current_sequence, write_addr,
                     last_record_offset, last_record_sequence, current_closed>>
  BY DEF Staged
<1>3. CASE then = "done"
  <2>1. Return("EOK")
    BY <1>3 DEF Staged
  <2>2. next_id' \in 0 .. (MaxId + 1)
    <3>1. SyslogNextId' \in 0 .. (MaxId + 1)
      BY <1>1, <1>2, NextIdType DEF PlogType
    <3> QED BY <1>1, <1>3, <3>1 DEF Staged, PlogType
  <2> QED BY <1>1, <1>2, <2>1, <2>2, ReturnEffect DEF PlogType
<1>4. CASE then # "done"
  <2>1. pc' = then /\ UNCHANGED <<request, ret, next_id>>
    BY <1>4 DEF Staged
  <2>2. op = "append" /\ then \in {"record", "sector_erase"}
    BY <1>4 DEF ControlInv
  <2>3. PlogType' /\ CallType'
    BY <1>1, <1>2, <2>1, <2>2 DEF PlogType, CallType, request, PcNames, SectorInit
  <2>4. ControlInv'
    BY <1>1, <1>2, <2>1, <2>2
       DEF ControlInv, request, StageSector, SectorInit, HaveStaged
  <2>5. CursorInv'
    <3>1. then = "record" => ~current_closed /\ write_addr = 0
      BY DEF CursorInv
    <3>2. size \in 1 .. Room /\ Room \in Nat
      BY <2>2, ConstantsAssumption DEF ControlInv
    <3> QED BY <1>2, <2>1, <2>2, <3>1, <3>2
            DEF CursorInv, request, StageSector
  <2> QED BY <2>3, <2>4, <2>5
<1> QED BY <1>3, <1>4

\* A step to the next FLASH operation of the same call.
LEMMA GotoEffect ==
    ASSUME TypeInv, NEW l \in PcNames, Goto(l), UNCHANGED <<plog, next_id>>,
           \/ pc \in StageSector /\ l \in StageSector
           \/ pc \in SectorInit /\ l \in SectorInit
           \/ pc = "record" /\ l = "commit"
    PROVE  PlogType' /\ CallType' /\ ControlInv' /\ CursorInv'
<1> USE DEF TypeInv
<1>1. FlashType /\ PlogType /\ CallType
  BY TypeParts
<1>2. PlogType' /\ CallType'
  BY <1>1 DEF Goto, PlogType, CallType, plog, request
<1>3. ControlInv'
  BY DEF Goto, ControlInv, plog, request, StageSector, SectorInit, HaveStaged
<1>4. CursorInv'
  BY DEF Goto, CursorInv, plog, request, StageSector, SectorInit
<1> QED BY <1>2, <1>3, <1>4

LEMMA TypeInit == Init => TypeInv
<1> SUFFICES ASSUME Init PROVE TypeInv
  OBVIOUS
<1>1. FlashType
  <2>1. [state |-> "VALID", seq |-> 0, ok |-> FALSE] \in Headers
    BY ConstantsAssumption DEF Headers, SectorStates, Sequence
  <2>2. hdr \in [Sectors -> Headers]
    BY <2>1, NoHeaderType DEF Init
  <2>3. [a \in Units |-> Unit("BODY")] \in [Units -> Cells]
    BY BlankType
  <2>4. cell \in [Sectors -> [Units -> Cells]]
    BY <2>3, BlankType DEF Init
  <2> QED BY <2>2, <2>4, ConstantsAssumption DEF Init, FlashType
<1>2. PlogType /\ CallType
  BY ConstantsAssumption
     DEF Init, PlogType, CallType, Sectors, Sequence, NoSector, NoOffset,
         PcNames
<1>3. CallerType
  BY NoItType, ConstantsAssumption DEF Init, CallerType
<1>4. ControlInv /\ CursorInv
  BY DEF Init, ControlInv, CursorInv, StageSector, SectorInit
<1> QED BY <1>1, <1>2, <1>3, <1>4, TypeParts DEF TypeInv

LEMMA StageType == TypeInv /\ Stage => TypeInv'
<1> SUFFICES ASSUME TypeInv, Stage PROVE TypeInv'
  OBVIOUS
<1> DEFINE s == SectorNext(current_sector)
<1>1. FlashType /\ PlogType /\ CallType /\ CallerType
  BY TypeParts DEF TypeInv
<1>2. s \in Sectors \ {current_sector} /\ pc \in StageSector
  BY <1>1, NextSector DEF PlogType, Stage, StageSector
<1>3. CallerType'
  BY <1>1 DEF CallerType, Stage
<1>4. CASE UNCHANGED <<flash, faults>> /\ Staged(s)
  <2>1. FlashType'
    BY <1>1, <1>4 DEF FlashType, flash
  <2> QED BY <1>2, <1>3, <1>4, <2>1, StagedEffect, PartsNext
<1>5. ASSUME NEW good \in BOOLEAN,
             TryHeader(s, HeaderWith(s, "STAGED"), good),
             IF good THEN Staged(s) ELSE Fail /\ UNCHANGED <<plog, next_id>>
      PROVE  TypeInv'
  <2>1. FlashType'
    BY <1>1, <1>2, <1>5, HeaderWithType, TryHeaderType DEF SectorStates
  <2>2. CASE good
    BY <1>2, <1>3, <1>5, <2>1, <2>2, StagedEffect, PartsNext
  <2>3. CASE ~good
    <3>1. PlogType'
      BY <1>1, <1>5, <2>3 DEF PlogType, plog
    <3> QED BY <1>3, <1>5, <2>1, <2>3, <3>1, ReturnEffect, PartsNext
  <2> QED BY <2>2, <2>3
<1>6. CASE Goto("stage_erase") /\ UNCHANGED <<flash, plog, next_id, faults>>
  <2>1. FlashType'
    BY <1>1, <1>6 DEF FlashType, flash
  <2> QED BY <1>2, <1>3, <1>6, <2>1, GotoEffect, PartsNext
          DEF PcNames, StageSector
<1> QED BY <1>4, <1>5, <1>6 DEF Stage

\* The steps that erase or program a header and go on or fail.
LEMMA TryType ==
    ASSUME TypeInv, FlashType', NEW good \in BOOLEAN, NEW l \in PcNames,
           IF good THEN Goto(l) ELSE Fail,
           UNCHANGED <<plog, next_id, it, crashes>>,
           \/ pc \in StageSector /\ l \in StageSector
           \/ pc \in SectorInit /\ l \in SectorInit
    PROVE  TypeInv'
<1>1. FlashType /\ PlogType /\ CallType /\ CallerType
  BY TypeParts DEF TypeInv
<1>2. CallerType' /\ PlogType'
  BY <1>1 DEF CallerType, PlogType, plog
<1>3. CASE good
  BY <1>2, <1>3, GotoEffect, PartsNext
<1>4. CASE ~good
  BY <1>2, <1>4, ReturnEffect, PartsNext
<1> QED BY <1>3, <1>4

LEMMA StageStepsType ==
    TypeInv /\ (StageErase \/ StageHeader \/ StageCommit) => TypeInv'
<1> SUFFICES ASSUME TypeInv, StageErase \/ StageHeader \/ StageCommit
             PROVE  TypeInv'
  OBVIOUS
<1> DEFINE s == SectorNext(current_sector)
<1>1. FlashType /\ PlogType /\ CallType /\ CallerType
  BY TypeParts DEF TypeInv
<1>2. s \in Sectors \ {current_sector}
  BY <1>1, NextSector DEF PlogType
<1>3. CASE StageErase
  <2>1. PICK good \in BOOLEAN : /\ TryErase(s, good)
                                /\ IF good THEN Goto("stage_header") ELSE Fail
    BY <1>3 DEF StageErase
  <2>2. FlashType'
    BY <1>1, <1>2, <2>1, TryEraseType
  <2> QED BY <1>3, <2>1, <2>2, TryType DEF StageErase, StageSector, PcNames
<1>4. CASE StageHeader
  <2> DEFINE h == PendingHeader((current_sequence + 1) % SeqMod)
  <2>1. PICK good \in BOOLEAN : /\ TryHeader(s, h, good)
                                /\ IF good THEN Goto("stage_commit") ELSE Fail
    BY <1>4 DEF StageHeader
  <2>2. h \in Headers
    BY <1>1, NextSequence, PendingHeaderType DEF PlogType
  <2>3. FlashType'
    BY <1>1, <1>2, <2>1, <2>2, TryHeaderType
  <2> QED BY <1>4, <2>1, <2>3, TryType DEF StageHeader, StageSector, PcNames
<1>5. CASE StageCommit
  <2>1. PICK good \in BOOLEAN :
            /\ TryHeader(s, HeaderWith(s, "STAGED"), good)
            /\ IF good THEN Staged(s)
               ELSE Fail /\ UNCHANGED <<plog, next_id>>
    BY <1>5 DEF StageCommit
  <2>2. FlashType'
    BY <1>1, <1>2, <2>1, HeaderWithType, TryHeaderType DEF SectorStates
  <2>3. CallerType' /\ pc \in StageSector
    BY <1>1, <1>5 DEF CallerType, StageCommit, StageSector
  <2>4. CASE good
    BY <1>2, <2>1, <2>2, <2>3, <2>4, StagedEffect, PartsNext
  <2>5. CASE ~good
    <3>1. PlogType'
      BY <1>1, <2>1, <2>5 DEF PlogType, plog
    <3> QED BY <2>1, <2>2, <2>3, <2>5, <3>1, ReturnEffect, PartsNext
  <2> QED BY <2>4, <2>5
<1> QED BY <1>3, <1>4, <1>5

\* The sector that nlog3_sector_init() works on.
LEMMA InitSectorType ==
    ASSUME TypeInv, pc \in SectorInit
    PROVE  InitSector \in Sectors /\ InitSequence \in Sequence
<1>1. PlogType
  BY TypeParts DEF TypeInv
<1>2. op = "append" => HaveStaged
  BY DEF TypeInv, ControlInv
<1>3. 0 \in Sectors /\ 0 \in Sequence
  BY ConstantsAssumption DEF Sectors, Sequence
<1> QED BY <1>1, <1>2, <1>3, NextSequence
        DEF InitSector, InitSequence, HaveStaged, PlogType

LEMMA SectorStepsType ==
    TypeInv /\ (SectorErase \/ SectorHeader \/ SectorCommit) => TypeInv'
<1> SUFFICES ASSUME TypeInv, SectorErase \/ SectorHeader \/ SectorCommit
             PROVE  TypeInv'
  OBVIOUS
<1>1. FlashType /\ PlogType /\ CallType /\ CallerType
  BY TypeParts DEF TypeInv
<1>2. InitSector \in Sectors /\ InitSequence \in Sequence /\ pc \in SectorInit
  <2>1. pc \in SectorInit
    BY DEF SectorErase, SectorHeader, SectorCommit, SectorInit
  <2> QED BY <2>1, InitSectorType
<1>3. CASE SectorErase
  <2>1. PICK good \in BOOLEAN : /\ TryErase(InitSector, good)
                                /\ IF good THEN Goto("sector_header") ELSE Fail
    BY <1>3 DEF SectorErase
  <2>2. FlashType'
    BY <1>1, <1>2, <2>1, TryEraseType
  <2> QED BY <1>2, <1>3, <2>1, <2>2, TryType DEF SectorErase, SectorInit, PcNames
<1>4. CASE SectorHeader
  <2>1. PICK good \in BOOLEAN :
            /\ TryHeader(InitSector, PendingHeader(InitSequence), good)
            /\ IF good THEN Goto("sector_commit") ELSE Fail
    BY <1>4 DEF SectorHeader
  <2>2. FlashType'
    BY <1>1, <1>2, <2>1, PendingHeaderType, TryHeaderType
  <2> QED BY <1>2, <1>4, <2>1, <2>2, TryType DEF SectorHeader, SectorInit, PcNames
<1>5. CASE SectorCommit
  <2>1. PICK good \in BOOLEAN :
            /\ TryHeader(InitSector, HeaderWith(InitSector, "VALID"), good)
            /\ IF good
               THEN /\ current_sector' = InitSector
                    /\ current_sequence' = InitSequence
                    /\ staged_sector' = NoSector
                    /\ write_addr' = 0
                    /\ current_closed' = FALSE
                    /\ pc' = "stage"
                    /\ then' = IF op = "append" THEN "record" ELSE "done"
                    /\ UNCHANGED <<op, size, i, ret>>
               ELSE /\ Fail
                    /\ UNCHANGED <<current_sector, current_sequence,
                                   staged_sector, write_addr, current_closed>>
    BY <1>5 DEF SectorCommit
  <2>2. FlashType'
    BY <1>1, <1>2, <2>1, HeaderWithType, TryHeaderType DEF SectorStates
  <2>3. CallerType' /\ UNCHANGED <<last_record_offset, last_record_sequence,
                                   next_id>>
    BY <1>1, <1>5 DEF CallerType, SectorCommit
  <2>4. CASE good
    <3>0. 0 \in 0 .. Room
      BY ConstantsAssumption
    <3>1. PlogType'
      BY <1>1, <1>2, <2>1, <2>3, <2>4, <3>0 DEF PlogType
    <3>3. CallType'
      BY <1>1, <2>1, <2>4 DEF CallType, PcNames, StageSector
    <3>2. ControlInv' /\ CursorInv'
      BY <1>2, <2>1, <2>3, <2>4
         DEF TypeInv, ControlInv, CursorInv, StageSector, SectorInit
    <3> QED BY <2>2, <2>3, <3>1, <3>2, <3>3, PartsNext
  <2>5. CASE ~good
    <3>1. PlogType'
      BY <1>1, <2>1, <2>3, <2>5 DEF PlogType
    <3> QED BY <2>1, <2>2, <2>3, <2>5, <3>1, ReturnEffect, PartsNext
  <2> QED BY <2>4, <2>5
<1> QED BY <1>3, <1>4, <1>5

LEMMA LogAppendType ==
    ASSUME TypeInv, NEW n \in Sizes, LogAppend(n)
    PROVE  TypeInv'
<1>1. FlashType /\ PlogType /\ CallType /\ CallerType
  BY TypeParts DEF TypeInv
<1>2. FlashType' /\ PlogType' /\ CallerType'
  BY <1>1
     DEF FlashType, PlogType, CallerType, LogAppend, flash, plog, env
<1>3. /\ Advance \in {"sector_erase", "stage"}
      /\ Advance = "sector_erase" => HaveStaged
  BY DEF Advance
<1>4. CallType'
  BY <1>1, <1>3
     DEF CallType, LogAppend, PcNames, StageSector, SectorInit
<1>5. ControlInv'
  BY <1>3
     DEF ControlInv, LogAppend, HaveStaged, StageSector, SectorInit, plog
<1>6. CursorInv'
  <2>1. then' = "sector_erase" /\ UNCHANGED plog
    BY DEF LogAppend
  <2>2. pc' = "record" => ~current_closed /\ write_addr + n <= Room
    BY <1>3 DEF LogAppend
  <2>3. pc' = "end_marker" => ~current_closed
    BY <1>3 DEF LogAppend
  <2>4. pc' # "commit" /\ size' = n
    BY <1>3 DEF LogAppend
  <2> QED BY <2>1, <2>2, <2>3, <2>4 DEF CursorInv, plog
<1> QED BY <1>2, <1>4, <1>5, <1>6, PartsNext

LEMMA EndMarkerType == TypeInv /\ EndMarker => TypeInv'
<1> SUFFICES ASSUME TypeInv, EndMarker PROVE TypeInv'
  OBVIOUS
<1>1. FlashType /\ PlogType /\ CallType /\ CallerType
  BY TypeParts DEF TypeInv
<1>2. PICK good \in BOOLEAN :
        /\ IF write_addr = Room
           THEN good /\ UNCHANGED <<flash, faults>>
           ELSE TryCells(StateAt(current_sector, write_addr, "END"),
                         StateAt(current_sector, write_addr, "PENDING"), good)
        /\ IF good THEN Goto(Advance) ELSE Fail
  BY DEF EndMarker
<1>3. FlashType'
  <2>1. CASE write_addr = Room
    BY <1>1, <1>2, <2>1 DEF FlashType, flash
  <2>2. CASE write_addr # Room
    <3>1. write_addr \in Units /\ current_sector \in Sectors
      BY <1>1, <2>2, ConstantsAssumption DEF PlogType, Units
    <3>2. \A st \in CellStates :
            StateAt(current_sector, write_addr, st) \in [Units -> Cells]
      BY <1>1, <3>1, StateAtType
    <3>3. "END" \in CellStates /\ "PENDING" \in CellStates
      BY DEF CellStates
    <3> QED BY <1>1, <1>2, <2>2, <3>1, <3>2, <3>3, TryCellsType
  <2> QED BY <2>1, <2>2
<1>4. PlogType' /\ CallerType'
  BY <1>1 DEF PlogType, CallerType, EndMarker
<1>5. CASE good
  <2>1. op = "append" /\ pc = "end_marker"
    BY DEF TypeInv, ControlInv, EndMarker
  <2>2. pc' = Advance /\ UNCHANGED <<request, ret>>
    BY <1>2, <1>5 DEF Goto
  <2>3. /\ Advance \in {"sector_erase", "stage"}
        /\ Advance = "sector_erase" => HaveStaged
    BY DEF Advance
  <2>4. CallType'
    BY <1>1, <2>2, <2>3
       DEF CallType, request, PcNames, StageSector, SectorInit
  <2>5. ControlInv'
    BY <2>1, <2>2, <2>3
       DEF TypeInv, ControlInv, EndMarker, request, HaveStaged, StageSector,
           SectorInit
  <2>6. then' # "record"
    BY <2>1, <2>2 DEF TypeInv, CursorInv, EndMarker, request
  <2>7. CursorInv'
    BY <2>2, <2>3, <2>6 DEF CursorInv
  <2> QED BY <1>3, <1>4, <2>4, <2>5, <2>7, PartsNext
<1>6. CASE ~good
  BY <1>2, <1>3, <1>4, <1>6, ReturnEffect, PartsNext
<1> QED BY <1>5, <1>6

LEMMA RecordType == TypeInv /\ Record => TypeInv'
<1> SUFFICES ASSUME TypeInv, Record PROVE TypeInv'
  OBVIOUS
<1>1. FlashType /\ PlogType /\ CallType /\ CallerType
  BY TypeParts DEF TypeInv
<1>2. PICK good \in BOOLEAN :
        /\ TryCells(WithRecord, WithRecord, good)
        /\ current_closed' = (current_closed \/ ~good)
        /\ IF good THEN Goto("commit") ELSE Fail
  BY DEF Record
<1>3. op = "append" /\ pc = "record" /\ size \in Sizes /\ next_id <= MaxId
  BY DEF TypeInv, ControlInv, Record
<1>4. FlashType'
  <2>1. NewRecord \in Cells
    BY <1>1, <1>3, ConstantsAssumption
       DEF PlogType, NewRecord, Cells, CellStates, Ids
  <2>2. WithRecord \in [Units -> Cells]
    BY <1>1, <2>1, ProgrammedType DEF WithRecord, PlogType
  <2> QED BY <1>1, <1>2, <2>2, TryCellsType DEF PlogType
<1>5. PlogType' /\ CallerType'
  BY <1>1, <1>2 DEF PlogType, CallerType, Record
<1>6. CASE good
  <2>1. pc' = "commit" /\ UNCHANGED <<request, ret, plog, next_id>>
    BY <1>1, <1>2, <1>6 DEF Goto, Record, plog, PlogType
  <2>2. CallType'
    BY <1>1, <2>1 DEF CallType, request, PcNames
  <2>3. ControlInv'
    BY <1>3, <2>1 DEF TypeInv, ControlInv, request, StageSector, SectorInit
  <2>4. CursorInv'
    BY <1>3, <2>1 DEF TypeInv, CursorInv, request, plog, StageSector
  <2> QED BY <1>4, <1>5, <2>2, <2>3, <2>4, PartsNext
<1>7. CASE ~good
  BY <1>2, <1>4, <1>5, <1>7, ReturnEffect, PartsNext
<1> QED BY <1>6, <1>7

LEMMA CommitType == TypeInv /\ Commit => TypeInv'
<1> SUFFICES ASSUME TypeInv, Commit PROVE TypeInv'
  OBVIOUS
<1>1. FlashType /\ PlogType /\ CallType /\ CallerType
  BY TypeParts DEF TypeInv
<1>2. PICK good \in BOOLEAN :
        /\ TryCells(StateAt(current_sector, write_addr, "VALID"),
                    cell[current_sector], good)
        /\ current_closed' = ~good
        /\ IF good
           THEN /\ last_record_offset' = Offset(current_sector, write_addr)
                /\ last_record_sequence' = current_sequence
                /\ write_addr' = write_addr + size
                /\ next_id' = next_id + 1
                /\ Return("EOK")
           ELSE /\ Fail
                /\ UNCHANGED <<last_record_offset, last_record_sequence,
                               write_addr, next_id>>
  BY DEF Commit
<1>3. /\ size \in 1 .. Room /\ write_addr + size <= Room
      /\ next_id <= MaxId
      /\ Room \in Nat /\ MaxId \in Nat
  BY ConstantsAssumption DEF TypeInv, ControlInv, CursorInv, Commit
<1>4. write_addr \in Units /\ current_sector \in Sectors
  BY <1>1, <1>3 DEF PlogType, Units
<1>5. FlashType'
  <2>1. "VALID" \in CellStates
    BY DEF CellStates
  <2>2. StateAt(current_sector, write_addr, "VALID") \in [Units -> Cells]
    BY <1>1, <1>4, <2>1, StateAtType
  <2>3. cell[current_sector] \in [Units -> Cells]
    BY <1>1, <1>4 DEF FlashType
  <2> QED BY <1>1, <1>2, <1>4, <2>2, <2>3, TryCellsType
<1>6. CallType' /\ ControlInv' /\ CursorInv'
  BY <1>2, ReturnEffect
<1>7. CallerType'
  BY <1>1 DEF CallerType, Commit
<1>8. PlogType'
  <2>1. CASE good
    <3>1. last_record_offset' \in 0 .. NoOffset
      BY <1>2, <1>4, <2>1, OffsetType
    <3>2. write_addr' \in 0 .. Room /\ next_id' \in 0 .. (MaxId + 1)
      BY <1>1, <1>2, <1>3, <2>1 DEF PlogType
    <3> QED BY <1>1, <1>2, <2>1, <3>1, <3>2 DEF PlogType, Commit
  <2>2. CASE ~good
    BY <1>1, <1>2, <2>2 DEF PlogType, Commit
  <2> QED BY <2>1, <2>2
<1> QED BY <1>5, <1>6, <1>7, <1>8, PartsNext

\* What nlog3_init() finds is in range, whatever is on FLASH.
LEMMA RecoverType ==
    ASSUME FlashType, NEW newest \in Sectors, Recover(newest)
    PROVE  /\ current_sector' \in Sectors
           /\ current_sequence' \in Sequence
           /\ write_addr' \in 0 .. Room
           /\ last_record_offset' \in 0 .. NoOffset
           /\ last_record_sequence' \in Sequence
           /\ current_closed' \in BOOLEAN
<1>1. \A s \in Sectors : hdr[s].seq \in Sequence
  BY DEF FlashType, Headers
<1>2. last_record_offset' \in 0 .. NoOffset /\ last_record_sequence' \in Sequence
  <2>1. CASE RecoverNone
    BY <2>1, ConstantsAssumption DEF RecoverNone, NoOffset, Sequence
  <2>2. ASSUME NEW tail \in WithRecords, RecoverLast(tail)
        PROVE  /\ last_record_offset' \in 0 .. NoOffset
               /\ last_record_sequence' \in Sequence
    BY <1>1, <2>2, OffsetType DEF WithRecords, ValidSectors, RecoverLast
  <2> QED BY <2>1, <2>2 DEF Recover, RecoverNewest
<1> QED BY <1>1, <1>2 DEF Recover, EndsEmpty

LEMMA StartType == TypeInv /\ Start => TypeInv'
<1> SUFFICES ASSUME TypeInv, Start PROVE TypeInv'
  OBVIOUS
<1>1. FlashType /\ PlogType /\ CallType /\ CallerType
  BY TypeParts DEF TypeInv
<1>2. FlashType' /\ CallerType'
  BY <1>1 DEF FlashType, CallerType, Start, flash, env
<1>3. /\ op' = "init" /\ then' = "done" /\ staged_sector' = NoSector
      /\ UNCHANGED <<next_id, size, ret>>
  BY DEF Start
<1>4. CASE /\ pc' = "reset_erase"
           /\ i' = 2
           /\ current_sector' = 0
           /\ current_sequence' = 0
           /\ write_addr' = 0
           /\ current_closed' = TRUE
           /\ RecoverNone
  <2>1. PlogType'
    BY <1>1, <1>3, <1>4, ConstantsAssumption
       DEF PlogType, RecoverNone, Sectors, Sequence, NoOffset
  <2>2. CallType'
    BY <1>1, <1>3, <1>4, ConstantsAssumption DEF CallType, PcNames, Sectors
  <2>3. ControlInv' /\ CursorInv'
    BY <1>3, <1>4 DEF ControlInv, CursorInv, StageSector, SectorInit
  <2> QED BY <1>2, <2>1, <2>2, <2>3, PartsNext
<1>5. ASSUME pc' = "stage", UNCHANGED i,
             NEW newest \in ValidSectors, Recover(newest)
      PROVE  TypeInv'
  <2>1. PlogType'
    BY <1>1, <1>3, <1>5, RecoverType DEF PlogType, ValidSectors
  <2>2. CallType'
    BY <1>1, <1>3, <1>5 DEF CallType, PcNames, StageSector
  <2>3. ControlInv' /\ CursorInv'
    BY <1>3, <1>5 DEF ControlInv, CursorInv, StageSector, SectorInit
  <2> QED BY <1>2, <2>1, <2>2, <2>3, PartsNext
<1> QED BY <1>4, <1>5 DEF Start

LEMMA ResetType == TypeInv /\ Reset => TypeInv'
<1> SUFFICES ASSUME TypeInv, Reset PROVE TypeInv'
  OBVIOUS
<1>1. FlashType /\ PlogType /\ CallType /\ CallerType
  BY TypeParts DEF TypeInv
<1>2. FlashType' /\ CallerType' /\ PlogType'
  BY <1>1 DEF FlashType, CallerType, PlogType, Reset, flash, plog, env
<1>3. CallType'
  BY <1>1, ConstantsAssumption DEF CallType, Reset, PcNames, Sectors
<1>4. ControlInv' /\ CursorInv'
  BY DEF Reset, ControlInv, CursorInv, StageSector, SectorInit
<1> QED BY <1>2, <1>3, <1>4, PartsNext

LEMMA ResetEraseType == TypeInv /\ ResetErase => TypeInv'
<1> SUFFICES ASSUME TypeInv, ResetErase PROVE TypeInv'
  OBVIOUS
<1>1. FlashType /\ PlogType /\ CallType /\ CallerType
  BY TypeParts DEF TypeInv
<1>2. pc = "reset_erase" /\ op \in {"init", "reset"} /\ 2 <= i /\ i \in Sectors
  BY <1>1 DEF TypeInv, ControlInv, CallType, ResetErase
<1>3. PICK good \in BOOLEAN :
        /\ TryErase(i, good)
        /\ \/ /\ good /\ i < SectorCount - 1
              /\ i' = i + 1
              /\ UNCHANGED <<pc, op, size, then, ret, last_record_offset,
                             last_record_sequence>>
           \/ /\ good /\ i = SectorCount - 1
              /\ i' = 0
              /\ pc' = "sector_erase"
              /\ last_record_offset' = NoOffset
              /\ last_record_sequence' = 0
              /\ UNCHANGED <<op, size, then, ret>>
           \/ ~good /\ Fail /\ UNCHANGED <<last_record_offset,
                                           last_record_sequence>>
  BY DEF ResetErase
<1>4. FlashType'
  BY <1>1, <1>2, <1>3, TryEraseType
<1>5. CallerType'
  BY <1>1 DEF CallerType, ResetErase
<1>6. NoOffset \in 0 .. NoOffset /\ 0 \in Sequence
  BY ConstantsAssumption DEF NoOffset, Sequence
<1>7. PlogType'
  BY <1>1, <1>3, <1>6 DEF PlogType, ResetErase
<1>8. CallType' /\ ControlInv' /\ CursorInv'
  <2>1. CASE /\ i < SectorCount - 1
             /\ i' = i + 1
             /\ UNCHANGED <<pc, op, size, then, ret>>
    <3>1. i' \in Sectors /\ 2 <= i'
      BY <1>2, <2>1, ConstantsAssumption DEF Sectors
    <3> QED BY <1>1, <1>2, <2>1, <3>1
            DEF CallType, TypeInv, ControlInv, CursorInv, StageSector, SectorInit
  <2>2. CASE /\ i' = 0
             /\ pc' = "sector_erase"
             /\ UNCHANGED <<op, size, then, ret>>
    <3>1. 0 \in Sectors
      BY ConstantsAssumption DEF Sectors
    <3> QED BY <1>1, <1>2, <2>2, <3>1
            DEF CallType, ControlInv, CursorInv, StageSector, SectorInit, PcNames
  <2>3. CASE Fail
    BY <2>3, ReturnEffect
  <2> QED BY <1>3, <2>1, <2>2, <2>3
<1> QED BY <1>4, <1>5, <1>7, <1>8, PartsNext

LEMMA PowerOffType ==
    ASSUME TypeInv, PowerOff, FlashType'
    PROVE  TypeInv'
<1>1. FlashType /\ PlogType /\ CallType /\ CallerType
  BY TypeParts DEF TypeInv
<1>2. PlogType'
  BY <1>1, ConstantsAssumption
     DEF PlogType, PowerOff, Sectors, Sequence, NoOffset
<1>3. CallType'
  BY ConstantsAssumption DEF CallType, PowerOff, PcNames, Sectors
<1>4. CallerType'
  BY <1>1, NoItType, ConstantsAssumption DEF CallerType, PowerOff
<1>5. ControlInv' /\ CursorInv'
  BY DEF PowerOff, ControlInv, CursorInv, StageSector, SectorInit
<1> QED BY <1>2, <1>3, <1>4, <1>5, PartsNext

LEMMA PowerFailureType == TypeInv /\ PowerFailure => TypeInv'
<1> SUFFICES ASSUME TypeInv, PowerFailure PROVE TypeInv'
  OBVIOUS
<1>1. FlashType /\ PlogType /\ CallType /\ CallerType
  BY TypeParts DEF TypeInv
<1>2. /\ current_sector \in Sectors
      /\ SectorNext(current_sector) \in Sectors
      /\ current_sequence \in Sequence
  BY <1>1, NextSector DEF PlogType
<1>3. PowerOff /\ faults' = faults
  BY DEF PowerFailure, Crash, CrashInErase, CrashInHeader, CrashInRecord,
         PowerOff
<1>4. CASE UNCHANGED flash
  BY <1>1, <1>3, <1>4, PowerOffType DEF FlashType, flash
<1>5. ASSUME NEW s \in Sectors, CutErase(s) PROVE TypeInv'
  BY <1>1, <1>3, <1>5, CutEraseType, PowerOffType DEF FlashType
<1>6. ASSUME NEW s \in Sectors, NEW h \in Headers, CutHeader(s, h) PROVE TypeInv'
  BY <1>1, <1>3, <1>6, CutHeaderType, PowerOffType DEF FlashType
<1>7. ASSUME NEW cells \in [Units -> Cells], SetCells(current_sector, cells)
      PROVE  TypeInv'
  BY <1>1, <1>2, <1>3, <1>7, PowerOffType DEF FlashType, SetCells
<1>8. CASE Crash
  BY <1>4, <1>8 DEF Crash
<1>9. CASE CrashInErase
  BY <1>1, <1>2, <1>5, <1>9, InitSectorType
     DEF CrashInErase, CallType, SectorInit
<1>10. CASE CrashInHeader
  <2>1. \A s \in Sectors, st \in SectorStates : HeaderWith(s, st) \in Headers
    BY <1>1, HeaderWithType
  <2>2. PendingHeader((current_sequence + 1) % SeqMod) \in Headers
    BY <1>2, NextSequence, PendingHeaderType
  <2>3. "STAGED" \in SectorStates /\ "VALID" \in SectorStates
    BY DEF SectorStates
  <2>4. pc \in SectorInit =>
            InitSector \in Sectors /\ PendingHeader(InitSequence) \in Headers
    BY InitSectorType, PendingHeaderType
  <2> QED BY <1>2, <1>6, <1>10, <2>1, <2>2, <2>3, <2>4
          DEF CrashInHeader, SectorInit
<1>11. CASE CrashInRecord
  <2>1. CASE pc = "record" /\ SetCells(current_sector, WithRecord)
    <3>1. size \in Sizes /\ next_id <= MaxId
      BY <2>1 DEF TypeInv, ControlInv
    <3>2. NewRecord \in Cells
      BY <1>1, <3>1, ConstantsAssumption
         DEF PlogType, NewRecord, Cells, CellStates, Ids
    <3>3. WithRecord \in [Units -> Cells]
      BY <1>1, <3>2, ProgrammedType DEF WithRecord, PlogType
    <3> QED BY <1>7, <2>1, <3>3
  <2>2. CASE write_addr < Room /\ SetCells(current_sector,
                  StateAt(current_sector, write_addr, "PENDING"))
    <3>1. write_addr \in Units /\ "PENDING" \in CellStates
      BY <1>1, <2>2, ConstantsAssumption DEF PlogType, Units, CellStates
    <3>2. StateAt(current_sector, write_addr, "PENDING") \in [Units -> Cells]
      BY <1>1, <1>2, <3>1, StateAtType
    <3> QED BY <1>7, <2>2, <3>2
  <2> QED BY <1>11, <2>1, <2>2 DEF CrashInRecord
<1> QED BY <1>8, <1>9, <1>10, <1>11 DEF PowerFailure

LEMMA TypeNext == TypeInv /\ [Next]_vars => TypeInv'
<1>1. TypeInv /\ UNCHANGED vars => TypeInv'
  BY DEF vars, flash, plog, request, env, TypeInv, TypeOK, ControlInv,
         CursorInv, HaveStaged
<1> QED
  BY <1>1, StartType, LogAppendType, ResetType, StageType, StageStepsType,
     SectorStepsType, EndMarkerType, RecordType, CommitType, ResetEraseType,
     PowerFailureType
     DEF Next, Call, Step

\* TypeInv holds always: whatever is found on FLASH at a start, and whatever
\* fails, no sector, offset or sequence number goes out of range and no record
\* is written past the end of a sector.
THEOREM TypeCorrect == Spec => []TypeInv
<1>1. Init => TypeInv
  BY TypeInit
<1>2. TypeInv /\ [Next]_vars => TypeInv'
  BY TypeNext
<1> QED BY <1>1, <1>2, PTL DEF Spec

----------------------------------------------------------------------------
(* The shape of a data area.                                               *)

Written(c, n)   == \A u \in Units : u < n => c[u].state # "EMPTY"
BlankFrom(c, n) == \A u \in Units : n <= u => c[u] = Blank

\* What looks erased is, with all that follows; and a record has no unit that
\* looks erased.
Sound(c) ==
    \A a \in Units :
        /\ c[a].state = "EMPTY" => BlankFrom(c, a)
        /\ c[a].state = "VALID" =>
            \A u \in Units :
                a <= u /\ u < a + c[a].size => c[u].state # "EMPTY"

\* The writer may go on at n.  A reset that failed may have erased what is
\* before n, but then the sector is not a valid one any more.
Ready(n) ==
    /\ BlankFrom(cell[current_sector], n)
    /\ current_sector \in ValidSectors => Written(cell[current_sector], n)

BlankInv ==
    /\ \A s \in ValidSectors : Sound(cell[s])
    /\ pc \in {"sector_header", "sector_commit"} => cell[InitSector] = Erased
    /\ pc \in {"stage_header", "stage_commit"} =>
            cell[SectorNext(current_sector)] = Erased
    /\ ~current_closed /\ pc # "commit" => Ready(write_addr)
    /\ pc = "commit" =>
        /\ Ready(write_addr + size)
        /\ cell[current_sector][write_addr].size = size

LEMMA ErasedShape ==
    Sound(Erased) /\ BlankFrom(Erased, 0) /\ Written(Erased, 0)
<1>1. \A u \in Units : u \in Nat
  BY ConstantsAssumption DEF Units
<1>2. Blank.state = "EMPTY"
  BY DEF Blank, Unit
<1> QED BY <1>1, <1>2 DEF Sound, BlankFrom, Written, Erased

\* A data area d made from c by writing it up to n.
LEMMA WrittenSound ==
    ASSUME NEW c \in [Units -> Cells], NEW d \in [Units -> Cells], NEW n \in Nat,
           Sound(c), Written(d, n), BlankFrom(d, n),
           \A u \in Units : c[u].state # "EMPTY" => d[u].state # "EMPTY",
           \A a \in Units : d[a].state = "VALID" =>
                \/ c[a].state = "VALID" /\ d[a].size = c[a].size
                \/ a + d[a].size <= n
    PROVE  Sound(d)
<1>1. Room \in Nat /\ \A a \in Units : a \in Nat /\ d[a].size \in Nat
  BY ConstantsAssumption DEF Units, Cells
<1>2. ASSUME NEW a \in Units, d[a].state = "EMPTY"
      PROVE  BlankFrom(d, a)
  <2>1. n <= a
    BY <1>1, <1>2 DEF Written
  <2> QED BY <1>1, <2>1 DEF BlankFrom
<1>3. ASSUME NEW a \in Units, d[a].state = "VALID",
             NEW u \in Units, a <= u, u < a + d[a].size
      PROVE  d[u].state # "EMPTY"
  <2>1. CASE c[a].state = "VALID" /\ d[a].size = c[a].size
    BY <1>3, <2>1 DEF Sound
  <2>2. CASE a + d[a].size <= n
    <3>1. u < n
      BY <1>1, <1>3, <2>2
    <3> QED BY <3>1 DEF Written
  <2> QED BY <1>3, <2>1, <2>2
<1> QED BY <1>2, <1>3 DEF Sound

\* Marking the end of the records, or failing to.
LEMMA MarkShape ==
    ASSUME FlashType, NEW s \in Sectors, NEW a \in Units,
           NEW st \in {"END", "PENDING"}, BlankFrom(cell[s], a)
    PROVE  /\ StateAt(s, a, st) \in [Units -> Cells]
           /\ cell[s][a] = Blank
           /\ \A u \in Units \ {a} : StateAt(s, a, st)[u] = cell[s][u]
           /\ Sound(cell[s]) /\ Written(cell[s], a) => Sound(StateAt(s, a, st))
<1> DEFINE d == StateAt(s, a, st)
<1>1. d \in [Units -> Cells] /\ cell[s] \in [Units -> Cells]
  BY StateAtType DEF FlashType, CellStates
<1>2. /\ \A u \in Units \ {a} : d[u] = cell[s][u]
      /\ d[a] = [cell[s][a] EXCEPT !.state = st]
  BY <1>1 DEF StateAt
<1>3. d[a].state = st
  BY <1>1, <1>2 DEF Cells
<1>4. a \in Nat /\ \A u \in Units : u \in Nat
  BY ConstantsAssumption DEF Units
<1> HIDE DEF d
<1>5. cell[s][a] = Blank
  BY <1>4 DEF BlankFrom
<1>6. ASSUME Sound(cell[s]), Written(cell[s], a) PROVE Sound(d)
  <2>1. ASSUME NEW u \in Units, u < a + 1 PROVE d[u].state # "EMPTY"
    <3>1. CASE u = a
      BY <1>3, <3>1
    <3>2. CASE u < a
      <4>1. cell[s][u].state # "EMPTY" /\ u # a
        BY <1>4, <1>6, <3>2 DEF Written
      <4> QED BY <1>2, <4>1
    <3>3. u = a \/ u < a
      BY <1>4, <2>1
    <3> QED BY <3>1, <3>2, <3>3
  <2>2. ASSUME NEW u \in Units, a + 1 <= u PROVE d[u] = Blank
    <3>1. u # a /\ a <= u
      BY <1>4, <2>2
    <3> QED BY <1>2, <3>1 DEF BlankFrom
  <2>3. Written(d, a + 1) /\ BlankFrom(d, a + 1)
    BY <2>1, <2>2 DEF Written, BlankFrom
  <2>4. a + 1 \in Nat
    BY <1>4
  <2>5. \A u \in Units : cell[s][u].state # "EMPTY" => d[u].state # "EMPTY"
    BY <1>2, <1>3
  <2>6. \A u \in Units : d[u].state = "VALID" =>
            cell[s][u].state = "VALID" /\ d[u].size = cell[s][u].size
    BY <1>2, <1>3
  <2> QED BY <1>1, <1>6, <2>3, <2>4, <2>5, <2>6, WrittenSound
<1> QED BY <1>1, <1>2, <1>5, <1>6 DEF d

\* Programming a record that is not valid yet.
LEMMA ProgrammedShape ==
    ASSUME FlashType, NEW s \in Sectors, NEW a \in Units, NEW rec \in Cells,
           rec.state = "PENDING", 1 <= rec.size, BlankFrom(cell[s], a)
    PROVE  /\ BlankFrom(Programmed(s, a, rec), a + rec.size)
           /\ Programmed(s, a, rec)[a] = rec
           /\ \A u \in Units : Programmed(s, a, rec)[u] # cell[s][u] =>
                                    cell[s][u] = Blank
           /\ Sound(cell[s]) /\ Written(cell[s], a) =>
                /\ Written(Programmed(s, a, rec), a + rec.size)
                /\ Sound(Programmed(s, a, rec))
<1> DEFINE d == Programmed(s, a, rec)
<1>1. Room \in Nat /\ a \in Nat /\ rec.size \in Nat
      /\ \A u \in Units : u \in Nat
  BY ConstantsAssumption DEF Units, Cells
<1>2. d \in [Units -> Cells] /\ cell[s] \in [Units -> Cells]
  BY <1>1, ProgrammedType DEF FlashType
<1>3. \A u \in Units : d[u] = IF u < a \/ a + rec.size <= u THEN cell[s][u]
                              ELSE IF cell[s][u] = Blank /\ u = a THEN rec
                              ELSE Unit("BODY")
  BY DEF Programmed
<1>4. Unit("BODY").state = "BODY" /\ Blank.state = "EMPTY"
  BY DEF Unit, Blank
<1> HIDE DEF d
<1>5. \A u \in Units : u < a => d[u] = cell[s][u]
  BY <1>3
<1>6. \A u \in Units : a <= u => cell[s][u] = Blank
  BY DEF BlankFrom
<1>7. d[a] = rec
  BY <1>1, <1>3, <1>6
<1>8. \A u \in Units : a <= u /\ u < a + rec.size =>
        d[u].state \in {"PENDING", "BODY"}
  BY <1>1, <1>3, <1>4, <1>7
<1>9. ASSUME NEW u \in Units, a + rec.size <= u PROVE d[u] = Blank
  <2>1. a <= u
    BY <1>1, <1>9
  <2>2. cell[s][u] = Blank
    BY <1>6, <2>1
  <2> QED BY <1>3, <1>9, <2>2
<1>10. BlankFrom(d, a + rec.size)
  BY <1>9 DEF BlankFrom
<1>11. ASSUME Sound(cell[s]), Written(cell[s], a)
       PROVE  Written(d, a + rec.size) /\ Sound(d)
  <2>1. Written(d, a + rec.size)
    <3>1. ASSUME NEW u \in Units, u < a + rec.size PROVE d[u].state # "EMPTY"
      <4>1. CASE u < a
        BY <1>5, <1>11, <4>1 DEF Written
      <4>2. CASE a <= u
        BY <1>8, <3>1, <4>2
      <4> QED BY <1>1, <4>1, <4>2
    <3> QED BY <3>1 DEF Written
  <2>2. ASSUME NEW u \in Units, cell[s][u].state # "EMPTY"
        PROVE  d[u].state # "EMPTY"
    <3>1. u < a
      <4>1. CASE a <= u
        BY <1>4, <1>6, <2>2, <4>1
      <4> QED BY <1>1, <4>1
    <3> QED BY <1>5, <2>2, <3>1
  <2>3. ASSUME NEW u \in Units, d[u].state = "VALID"
        PROVE  cell[s][u].state = "VALID" /\ d[u].size = cell[s][u].size
    <3>1. u < a
      <4>1. CASE a <= u /\ u < a + rec.size
        BY <1>8, <2>3, <4>1
      <4>2. CASE a + rec.size <= u
        BY <1>4, <1>9, <2>3, <4>2
      <4> QED BY <1>1, <4>1, <4>2
    <3> QED BY <1>5, <2>3, <3>1
  <2>4. a + rec.size \in Nat
    BY <1>1
  <2> QED BY <1>2, <1>10, <1>11, <2>1, <2>2, <2>3, <2>4, WrittenSound
<1>12. \A u \in Units : d[u] # cell[s][u] => cell[s][u] = Blank
  BY <1>1, <1>5, <1>6
<1> QED BY <1>7, <1>10, <1>11, <1>12 DEF d

\* The state word that makes the record at a VALID.
LEMMA ValidShape ==
    ASSUME FlashType, NEW s \in Sectors, NEW a \in Units, NEW n \in Nat,
           1 <= n, cell[s][a].size = n, BlankFrom(cell[s], a + n)
    PROVE  /\ StateAt(s, a, "VALID") \in [Units -> Cells]
           /\ StateAt(s, a, "VALID")[a] = [cell[s][a] EXCEPT !.state = "VALID"]
           /\ \A u \in Units \ {a} : StateAt(s, a, "VALID")[u] = cell[s][u]
           /\ BlankFrom(StateAt(s, a, "VALID"), a + n)
           /\ Sound(cell[s]) /\ Written(cell[s], a + n) =>
                /\ Written(StateAt(s, a, "VALID"), a + n)
                /\ Sound(StateAt(s, a, "VALID"))
<1> DEFINE d == StateAt(s, a, "VALID")
<1>1. d \in [Units -> Cells] /\ cell[s] \in [Units -> Cells]
  BY StateAtType DEF FlashType, CellStates
<1>2. /\ \A u \in Units \ {a} : d[u] = cell[s][u]
      /\ d[a] = [cell[s][a] EXCEPT !.state = "VALID"]
  BY <1>1 DEF StateAt
<1>3. d[a].state = "VALID" /\ d[a].size = n
  BY <1>1, <1>2 DEF Cells
<1>4. a \in Nat /\ a < a + n /\ \A u \in Units : u \in Nat
  BY ConstantsAssumption DEF Units
<1> HIDE DEF d
<1>5. BlankFrom(d, a + n)
  <2>1. ASSUME NEW u \in Units, a + n <= u PROVE d[u] = Blank
    <3>1. u # a
      BY <1>4, <2>1
    <3> QED BY <1>2, <2>1, <3>1 DEF BlankFrom
  <2> QED BY <2>1 DEF BlankFrom
<1>6. ASSUME Sound(cell[s]), Written(cell[s], a + n)
      PROVE  Written(d, a + n) /\ Sound(d)
  <2>1. a + n \in Nat
    BY <1>4
  <2>2. \A u \in Units : cell[s][u].state # "EMPTY" => d[u].state # "EMPTY"
    BY <1>2, <1>3
  <2>3. Written(d, a + n)
    BY <1>6, <2>2 DEF Written
  <2>4. ASSUME NEW u \in Units, d[u].state = "VALID"
        PROVE  \/ cell[s][u].state = "VALID" /\ d[u].size = cell[s][u].size
               \/ u + d[u].size <= a + n
    <3>1. CASE u = a
      BY <1>3, <1>4, <3>1
    <3>2. CASE u # a
      BY <1>2, <2>4, <3>2
    <3> QED BY <3>1, <3>2
  <2> QED BY <1>1, <1>5, <1>6, <2>1, <2>2, <2>3, <2>4, WrittenSound
<1> QED BY <1>1, <1>2, <1>5, <1>6 DEF d

\* nlog3_sector_scan() comes to an address over written units only.
LEMMA ScanWritten ==
    ASSUME FlashType, NEW s \in Sectors, Sound(cell[s]), NEW a \in Scanned(s)
    PROVE  Written(cell[s], a)
<1> DEFINE S == {b \in 0 .. Room : Written(cell[s], b)}
<1>1. Room \in Nat /\ \A u \in Units : u \in Nat
  BY ConstantsAssumption DEF Units
<1>2. 0 \in S
  BY <1>1 DEF Written
<1>3. ASSUME NEW b \in S, IsRecord(s, b)
      PROVE  b + cell[s][b].size \in S
  <2>1. /\ b \in Units /\ cell[s][b].state = "VALID"
        /\ b + cell[s][b].size <= Room
        /\ cell[s][b].size \in Nat
    BY <1>1, <1>3 DEF IsRecord, FlashType, Cells
  <2>2. ASSUME NEW u \in Units, u < b + cell[s][b].size
        PROVE  cell[s][u].state # "EMPTY"
    <3>1. CASE u < b
      BY <1>3, <3>1 DEF Written
    <3>2. CASE b <= u
      BY <2>1, <2>2, <3>2 DEF Sound
    <3> QED BY <1>1, <2>1, <3>1, <3>2
  <2>3. Written(cell[s], b + cell[s][b].size)
    BY <2>2 DEF Written
  <2> QED BY <1>1, <2>1, <2>3
<1>4. S \in SUBSET (0 .. Room)
  OBVIOUS
<1>5. a \in S
  BY <1>2, <1>3, <1>4 DEF Scanned
<1> QED BY <1>5

----------------------------------------------------------------------------
(* Steps that leave the data areas alone but for erases.                   *)

\* Nothing but erases of whole sectors; no sector becomes a valid one unless
\* it is erased, and not the current one.
Quiet ==
    /\ \A s \in Sectors : cell'[s] = cell[s] \/ cell'[s] = Erased
    /\ \A s \in ValidSectors' :
        \/ s \in ValidSectors /\ cell'[s] = cell[s]
        \/ s # current_sector /\ cell'[s] = Erased

LEMMA QuietValid ==
    ASSUME BlankInv, Quiet
    PROVE  (\A s \in ValidSectors : Sound(cell[s]))' /\ ProgramsErased
<1>1. \A s \in ValidSectors' : Sound(cell'[s])
  BY ErasedShape DEF BlankInv, Quiet
<1> QED BY <1>1 DEF Quiet, ProgramsErased

LEMMA QuietReady ==
    ASSUME Quiet, current_sector \in Sectors,
           UNCHANGED <<current_sector, write_addr>>, Ready(write_addr)
    PROVE  Ready(write_addr)'
<1>1. BlankFrom(cell'[current_sector], write_addr)
  BY DEF Quiet, Ready, BlankFrom, Erased
<1>2. current_sector \in ValidSectors' =>
            Written(cell'[current_sector], write_addr)
  BY DEF Quiet, Ready
<1> QED BY <1>1, <1>2 DEF Ready

\* A step that does not open the sector of the writer.
LEMMA QuietStep ==
    ASSUME TypeInv, BlankInv, Quiet,
           UNCHANGED <<current_sector, write_addr>>,
           ~current_closed' => ~current_closed,
           pc # "commit" \/ current_closed',
           pc' \notin {"sector_header", "sector_commit", "stage_header",
                       "stage_commit", "commit"}
    PROVE  BlankInv' /\ ProgramsErased
<1>1. (\A s \in ValidSectors : Sound(cell[s]))' /\ ProgramsErased
  BY QuietValid
<1>2. (~current_closed /\ pc # "commit" => Ready(write_addr))'
  <2>1. ASSUME ~current_closed' PROVE Ready(write_addr)'
    BY <2>1, QuietReady DEF BlankInv, TypeInv, TypeOK
  <2> QED BY <2>1
<1> QED BY <1>1, <1>2 DEF BlankInv

LEMMA SameFlash == UNCHANGED flash => Quiet
BY DEF flash, Quiet, ValidSectors

LEMMA CutEraseQuiet ==
    ASSUME FlashType, NEW s \in Sectors, CutErase(s)
    PROVE  Quiet /\ cell' = cell
BY DEF FlashType, CutErase, Quiet, ValidSectors

LEMMA TryEraseQuiet ==
    ASSUME FlashType, NEW s \in Sectors, NEW good, TryErase(s, good)
    PROVE  /\ Quiet
           /\ good => cell'[s] = Erased
<1>1. CASE good /\ EraseSector(s)
  BY <1>1 DEF EraseSector, FlashType, Quiet, ValidSectors, NoHeader
<1>2. CASE ~good /\ UNCHANGED flash
  BY <1>2, SameFlash
<1>3. CASE ~good /\ CutErase(s)
  BY <1>3, CutEraseQuiet
<1> QED BY <1>1, <1>2, <1>3 DEF TryErase

\* Writes of state words that are not VALID.
LEMMA SetHeaderQuiet ==
    ASSUME FlashType, NEW s \in Sectors, NEW h, SetHeader(s, h),
           h.state # "VALID"
    PROVE  Quiet /\ cell' = cell
BY DEF FlashType, SetHeader, Quiet, ValidSectors

\* STAGED over PENDING, cut, may make VALID: of an erased sector.
LEMMA CutHeaderQuiet ==
    ASSUME FlashType, NEW s \in Sectors, NEW h, CutHeader(s, h),
           hdr[s].state = "PENDING" /\ h.state = "STAGED" =>
                cell[s] = Erased /\ s # current_sector
    PROVE  Quiet /\ cell' = cell
<1>1. CASE SetHeader(s, [state |-> "PENDING", seq |-> h.seq, ok |-> FALSE])
  BY <1>1, SetHeaderQuiet
<1>2. CASE /\ hdr[s].state = "PENDING"
           /\ h.state = "STAGED"
           /\ SetHeader(s, HeaderWith(s, "VALID"))
  BY <1>2 DEF FlashType, SetHeader, Quiet, ValidSectors
<1> QED BY <1>1, <1>2 DEF CutHeader

LEMMA TryHeaderQuiet ==
    ASSUME FlashType, NEW s \in Sectors, NEW h, NEW good, TryHeader(s, h, good),
           good => h.state # "VALID",
           hdr[s].state = "PENDING" /\ h.state = "STAGED" =>
                cell[s] = Erased /\ s # current_sector
    PROVE  Quiet /\ cell' = cell
<1>1. CASE good /\ SetHeader(s, h)
  BY <1>1, SetHeaderQuiet
<1>2. CASE ~good /\ UNCHANGED flash
  BY <1>2, SameFlash DEF flash
<1>3. CASE ~good /\ CutHeader(s, h)
  BY <1>3, CutHeaderQuiet
<1> QED BY <1>1, <1>2, <1>3 DEF TryHeader

----------------------------------------------------------------------------
(* BlankInv is inductive.                                                  *)

LEMMA BlankInit == Init => BlankInv
BY DEF Init, BlankInv, ValidSectors, NoHeader

LEMMA StartBlank == TypeInv /\ BlankInv /\ Start => BlankInv' /\ ProgramsErased
<1> SUFFICES ASSUME TypeInv, BlankInv, Start PROVE BlankInv' /\ ProgramsErased
  OBVIOUS
<1>1. UNCHANGED flash /\ pc' \in {"reset_erase", "stage"}
  BY DEF Start
<1>2. (\A s \in ValidSectors : Sound(cell[s]))' /\ ProgramsErased
  BY <1>1, SameFlash, QuietValid
<1>3. ASSUME ~current_closed' PROVE Ready(write_addr)'
  <2>1. PICK newest \in ValidSectors : Recover(newest)
    BY <1>3 DEF Start
  <2>2. PICK a \in 0 .. Room : /\ IsEnd(newest, a)
                               /\ write_addr' = a
                               /\ current_closed' = ~EndsEmpty(newest, a)
    BY <2>1 DEF Recover
  <2>3. a \in Units /\ a \in Scanned(newest) /\ cell[newest][a].state = "EMPTY"
    BY <1>3, <2>2 DEF EndsEmpty, IsEnd
  <2>4. newest \in Sectors /\ current_sector' = newest /\ Sound(cell[newest])
    BY <2>1 DEF ValidSectors, Recover, BlankInv
  <2>5. BlankFrom(cell[newest], a)
    BY <2>3, <2>4 DEF Sound
  <2>6. Written(cell[newest], a)
    BY <2>3, <2>4, ScanWritten, TypeParts DEF TypeInv
  <2> QED BY <1>1, <2>2, <2>4, <2>5, <2>6 DEF Ready, flash
<1> QED BY <1>1, <1>2, <1>3 DEF BlankInv

LEMMA CallBlank == TypeInv /\ BlankInv /\ Call => BlankInv' /\ ProgramsErased
<1> SUFFICES ASSUME TypeInv, BlankInv, Call PROVE BlankInv' /\ ProgramsErased
  OBVIOUS
<1>1. UNCHANGED <<flash, plog>> /\ pc = "idle"
  BY DEF Call, LogAppend, Reset
<1>2. pc' \notin {"sector_header", "sector_commit", "stage_header",
                  "stage_commit", "commit"}
  BY DEF Call, LogAppend, Reset, Advance
<1> QED BY <1>1, <1>2, SameFlash, QuietStep DEF plog

\* A header write of staging.
LEMMA StageHeaderQuiet ==
    ASSUME TypeInv, BlankInv, NEW good, NEW st \in {"PENDING", "STAGED"},
           NEW h, h.state = st,
           TryHeader(SectorNext(current_sector), h, good),
           \/ pc \in {"stage_header", "stage_commit"}
           \/ hdr[SectorNext(current_sector)].state # "PENDING"
    PROVE  Quiet /\ cell' = cell
<1>1. FlashType /\ PlogType
  BY TypeParts DEF TypeInv
<1>2. SectorNext(current_sector) \in Sectors \ {current_sector}
  BY <1>1, NextSector DEF PlogType
<1>3. hdr[SectorNext(current_sector)].state = "PENDING" =>
            cell[SectorNext(current_sector)] = Erased
  BY DEF BlankInv
<1> QED BY <1>1, <1>2, <1>3, TryHeaderQuiet

LEMMA StageBlank ==
    TypeInv /\ BlankInv /\ (Stage \/ StageErase \/ StageHeader \/ StageCommit)
        => BlankInv' /\ ProgramsErased
<1> SUFFICES ASSUME TypeInv, BlankInv,
                    Stage \/ StageErase \/ StageHeader \/ StageCommit
             PROVE  BlankInv' /\ ProgramsErased
  OBVIOUS
<1> DEFINE s == SectorNext(current_sector)
<1>1. FlashType /\ PlogType
  BY TypeParts DEF TypeInv
<1>2. s \in Sectors \ {current_sector} /\ current_sector \in Sectors
  BY <1>1, NextSector DEF PlogType
<1>3. /\ UNCHANGED <<current_sector, write_addr, current_closed>>
      /\ pc \in StageSector
  BY DEF Stage, StageErase, StageHeader, StageCommit, Staged, plog, StageSector
<1>4. ASSUME Quiet PROVE (~current_closed => Ready(write_addr))'
  BY <1>2, <1>3, <1>4, QuietReady DEF BlankInv, StageSector
<1>5. pc' \notin {"sector_header", "sector_commit", "commit"}
  <2>1. then # "done" => then \in {"record", "sector_erase"}
    BY <1>3 DEF TypeInv, TypeOK, ControlInv
  <2> QED BY <2>1 DEF Stage, StageErase, StageHeader, StageCommit, Staged,
                      Goto, Fail, Return
<1>6. CASE Quiet /\ pc' \notin {"stage_header", "stage_commit"}
  BY <1>3, <1>5, <1>6, QuietStep DEF StageSector
<1>7. CASE Stage
  <2>1. pc' \notin {"stage_header", "stage_commit"}
    <3>1. then # "done" => then \in {"record", "sector_erase"}
      BY <1>3 DEF TypeInv, TypeOK, ControlInv
    <3> QED BY <1>7, <3>1 DEF Stage, Staged, Goto, Fail, Return
  <2>2. CASE UNCHANGED flash
    BY <1>6, <2>1, <2>2, SameFlash
  <2>3. ASSUME NEW good \in BOOLEAN, hdr[s].state = "VALID",
               TryHeader(s, HeaderWith(s, "STAGED"), good)
        PROVE  Quiet
    BY <2>3, StageHeaderQuiet DEF HeaderWith
  <2> QED BY <1>6, <1>7, <2>1, <2>2, <2>3 DEF Stage
<1>8. CASE StageErase
  <2>1. PICK good \in BOOLEAN : /\ TryErase(s, good)
                                /\ IF good THEN Goto("stage_header") ELSE Fail
    BY <1>8 DEF StageErase
  <2>2. Quiet /\ (good => cell'[s] = Erased)
    BY <1>1, <1>2, <2>1, TryEraseQuiet
  <2>3. CASE good
    <3>1. pc' = "stage_header" /\ cell'[SectorNext(current_sector')] = Erased
      BY <1>3, <2>1, <2>2, <2>3 DEF Goto
    <3> QED BY <1>4, <2>2, <3>1, QuietValid DEF BlankInv
  <2>4. CASE ~good
    BY <1>6, <2>1, <2>2, <2>4 DEF Fail
  <2> QED BY <2>3, <2>4
<1>9. CASE StageHeader
  <2> DEFINE h == PendingHeader((current_sequence + 1) % SeqMod)
  <2>1. PICK good \in BOOLEAN : /\ TryHeader(s, h, good)
                                /\ IF good THEN Goto("stage_commit") ELSE Fail
    BY <1>9 DEF StageHeader
  <2>2. pc = "stage_header" /\ h.state = "PENDING"
    BY <1>9 DEF StageHeader, PendingHeader
  <2>3. Quiet /\ cell' = cell
    <3> HIDE DEF h
    <3> QED BY <2>1, <2>2, StageHeaderQuiet
  <2>4. CASE good
    <3>1. pc' = "stage_commit" /\ cell'[SectorNext(current_sector')] = Erased
      BY <1>3, <2>1, <2>2, <2>3, <2>4 DEF Goto, BlankInv
    <3> QED BY <1>4, <2>3, <3>1, QuietValid DEF BlankInv
  <2>5. CASE ~good
    BY <1>6, <2>1, <2>3, <2>5 DEF Fail
  <2> QED BY <2>4, <2>5
<1>10. CASE StageCommit
  <2>1. PICK good \in BOOLEAN : TryHeader(s, HeaderWith(s, "STAGED"), good)
    BY <1>10 DEF StageCommit
  <2>2. Quiet
    BY <1>10, <2>1, StageHeaderQuiet DEF StageCommit, HeaderWith
  <2>3. pc' \notin {"stage_header", "stage_commit"}
    <3>1. then # "done" => then \in {"record", "sector_erase"}
      BY <1>3 DEF TypeInv, TypeOK, ControlInv
    <3> QED BY <1>10, <3>1 DEF StageCommit, Staged, Goto, Fail, Return
  <2> QED BY <1>6, <2>2, <2>3
<1> QED BY <1>7, <1>8, <1>9, <1>10

LEMMA SectorInitBlank ==
    TypeInv /\ BlankInv /\ (SectorErase \/ SectorHeader \/ SectorCommit)
        => BlankInv' /\ ProgramsErased
<1> SUFFICES ASSUME TypeInv, BlankInv,
                    SectorErase \/ SectorHeader \/ SectorCommit
             PROVE  BlankInv' /\ ProgramsErased
  OBVIOUS
<1>1. FlashType /\ PlogType
  BY TypeParts DEF TypeInv
<1>2. pc \in SectorInit
  BY DEF SectorErase, SectorHeader, SectorCommit, SectorInit
<1>3. InitSector \in Sectors /\ current_sector \in Sectors
  BY <1>1, <1>2, InitSectorType DEF PlogType
<1>4. ASSUME Quiet, UNCHANGED plog, NEW l \in {"sector_header", "sector_commit"},
             Goto(l), cell'[InitSector] = Erased
      PROVE  BlankInv' /\ ProgramsErased
  <2>1. InitSector' = InitSector /\ pc' = l
    BY <1>4 DEF InitSector, Goto, request, plog
  <2>2. (~current_closed => Ready(write_addr))'
    BY <1>2, <1>3, <1>4, QuietReady DEF BlankInv, SectorInit, plog
  <2> QED BY <1>4, <2>1, <2>2, QuietValid DEF BlankInv
<1>5. ASSUME Quiet, UNCHANGED <<current_sector, write_addr, current_closed>>, Fail
      PROVE  BlankInv' /\ ProgramsErased
  BY <1>2, <1>5, QuietStep DEF SectorInit, Fail
<1>6. CASE SectorErase
  <2>1. PICK good \in BOOLEAN : /\ TryErase(InitSector, good)
                                /\ IF good THEN Goto("sector_header") ELSE Fail
    BY <1>6 DEF SectorErase
  <2>2. Quiet /\ (good => cell'[InitSector] = Erased)
    BY <1>1, <1>3, <2>1, TryEraseQuiet
  <2> QED BY <1>4, <1>5, <1>6, <2>1, <2>2 DEF SectorErase, plog
<1>7. CASE SectorHeader
  <2> DEFINE h == PendingHeader(InitSequence)
  <2>1. PICK good \in BOOLEAN : /\ TryHeader(InitSector, h, good)
                                /\ IF good THEN Goto("sector_commit") ELSE Fail
    BY <1>7 DEF SectorHeader
  <2>2. h.state = "PENDING"
    BY DEF PendingHeader
  <2>3. Quiet /\ cell' = cell
    <3> HIDE DEF h
    <3> QED BY <1>1, <1>3, <2>1, <2>2, TryHeaderQuiet
  <2>4. cell[InitSector] = Erased
    BY <1>7 DEF SectorHeader, BlankInv
  <2> QED BY <1>4, <1>5, <1>7, <2>1, <2>3, <2>4 DEF SectorHeader, plog
<1>8. CASE SectorCommit
  <2> DEFINE h == HeaderWith(InitSector, "VALID")
  <2>1. PICK good \in BOOLEAN :
            /\ TryHeader(InitSector, h, good)
            /\ IF good
               THEN /\ current_sector' = InitSector
                    /\ write_addr' = 0
                    /\ pc' = "stage"
               ELSE /\ Fail
                    /\ UNCHANGED <<current_sector, write_addr, current_closed>>
    BY <1>8 DEF SectorCommit
  <2>2. cell[InitSector] = Erased /\ h.state = "VALID"
    BY <1>8 DEF SectorCommit, BlankInv, HeaderWith
  <2>3. CASE good
    <3>1. /\ cell' = cell
          /\ \A s \in ValidSectors' : s \in ValidSectors \union {InitSector}
      BY <1>1, <1>3, <2>1, <2>3
         DEF TryHeader, SetHeader, FlashType, ValidSectors
    <3>2. \A s \in ValidSectors' : Sound(cell'[s])
      BY <2>2, <3>1, ErasedShape DEF BlankInv
    <3>3. ProgramsErased
      BY <3>1 DEF ProgramsErased
    <3>4. Ready(write_addr)'
      BY <2>1, <2>2, <2>3, <3>1, ErasedShape DEF Ready
    <3> QED BY <2>1, <2>3, <3>2, <3>3, <3>4 DEF BlankInv
  <2>4. CASE ~good
    <3>1. Quiet
      <4> HIDE DEF h
      <4> QED BY <1>1, <1>3, <2>1, <2>2, <2>4, TryHeaderQuiet
    <3> QED BY <1>5, <2>1, <2>4, <3>1
  <2> QED BY <2>3, <2>4
<1> QED BY <1>6, <1>7, <1>8

----------------------------------------------------------------------------
(* Steps that write in the data area of the current sector.                *)

\* Its cells become d.
LEMMA CellsStep ==
    ASSUME TypeInv, BlankInv, NEW d, SetCells(current_sector, d),
           current_sector \in ValidSectors => Sound(d),
           \A u \in Units : d[u] # cell[current_sector][u] =>
                \/ cell[current_sector][u] = Blank
                \/ d[u] = [cell[current_sector][u] EXCEPT !.state = "VALID"]
    PROVE  /\ (\A s \in ValidSectors : Sound(cell[s]))'
           /\ ProgramsErased
           /\ cell'[current_sector] = d
           /\ ValidSectors' = ValidSectors
<1>1. /\ current_sector \in Sectors
      /\ cell'[current_sector] = d
      /\ \A s \in Sectors \ {current_sector} : cell'[s] = cell[s]
      /\ hdr' = hdr
  BY DEF TypeInv, TypeOK, SetCells
<1>2. ValidSectors' = ValidSectors
  BY <1>1 DEF ValidSectors
<1>3. \A s \in ValidSectors : s \in Sectors
  BY DEF ValidSectors
<1>4. \A s \in ValidSectors : Sound(cell'[s])
  BY <1>1, <1>3 DEF BlankInv
<1>5. ProgramsErased
  BY <1>1 DEF ProgramsErased
<1> QED BY <1>1, <1>2, <1>4, <1>5

\* Where the writer is, the sector is erased, and the records before it are
\* sound in a valid sector.
LEMMA WriterReady ==
    ASSUME TypeInv, BlankInv, pc \in {"end_marker", "record"}
    PROVE  /\ BlankFrom(cell[current_sector], write_addr)
           /\ current_sector \in ValidSectors =>
                /\ Sound(cell[current_sector])
                /\ Written(cell[current_sector], write_addr)
BY DEF TypeInv, CursorInv, BlankInv, Ready

LEMMA MarkStep ==
    ASSUME TypeInv, BlankInv, pc = "end_marker", write_addr # Room,
           NEW st \in {"END", "PENDING"},
           SetCells(current_sector, StateAt(current_sector, write_addr, st))
    PROVE  (\A s \in ValidSectors : Sound(cell[s]))' /\ ProgramsErased
<1> DEFINE d == StateAt(current_sector, write_addr, st)
<1>1. FlashType /\ PlogType
  BY TypeParts DEF TypeInv
<1>2. write_addr \in Units /\ current_sector \in Sectors
  BY <1>1, ConstantsAssumption DEF PlogType, Units
<1>3. BlankFrom(cell[current_sector], write_addr)
  BY WriterReady
<1>4. /\ cell[current_sector][write_addr] = Blank
      /\ \A u \in Units \ {write_addr} : d[u] = cell[current_sector][u]
  BY <1>1, <1>2, <1>3, MarkShape
<1>5. current_sector \in ValidSectors => Sound(d)
  BY <1>1, <1>2, <1>3, MarkShape, WriterReady
<1> HIDE DEF d
<1>6. SetCells(current_sector, d)
  BY DEF d
<1> QED BY <1>4, <1>5, <1>6, CellsStep

LEMMA EndMarkerBlank ==
    ASSUME TypeInv, BlankInv, EndMarker
    PROVE  BlankInv' /\ ProgramsErased
<1>1. /\ pc = "end_marker" /\ current_closed' = TRUE
      /\ UNCHANGED <<current_sector, write_addr>>
      /\ pc' \notin {"sector_header", "sector_commit", "stage_header",
                     "stage_commit", "commit"}
  BY DEF EndMarker, Goto, Advance, Fail
<1>2. CASE UNCHANGED flash
  BY <1>1, <1>2, SameFlash, QuietStep
<1>3. ASSUME write_addr # Room, NEW st \in {"END", "PENDING"},
             SetCells(current_sector, StateAt(current_sector, write_addr, st))
      PROVE  BlankInv' /\ ProgramsErased
  BY <1>1, <1>3, MarkStep DEF BlankInv
<1> QED BY <1>2, <1>3 DEF EndMarker, TryCells

\* The record of nlog3_append() goes into erased units.
LEMMA RecordStep ==
    ASSUME TypeInv, BlankInv, pc = "record", SetCells(current_sector, WithRecord)
    PROVE  /\ (\A s \in ValidSectors : Sound(cell[s]))'
           /\ ProgramsErased
           /\ BlankFrom(cell'[current_sector], write_addr + size)
           /\ cell'[current_sector][write_addr].size = size
           /\ current_sector \in ValidSectors' =>
                Written(cell'[current_sector], write_addr + size)
<1>1. FlashType /\ PlogType
  BY TypeParts DEF TypeInv
<1>2. /\ size \in Sizes /\ next_id <= MaxId /\ write_addr + size <= Room
  BY DEF TypeInv, ControlInv, CursorInv
<1>3. /\ write_addr \in Units /\ write_addr \in Nat /\ size \in 1 .. Room
      /\ current_sector \in Sectors
  BY <1>1, <1>2, ConstantsAssumption DEF PlogType, Units
<1>4. NewRecord \in Cells /\ NewRecord.state = "PENDING" /\ NewRecord.size = size
  BY <1>1, <1>2, ConstantsAssumption
     DEF PlogType, NewRecord, Cells, CellStates, Ids
<1>5. BlankFrom(cell[current_sector], write_addr)
  BY WriterReady
<1> DEFINE d == WithRecord
<1>6. 1 <= NewRecord.size
  BY <1>3, <1>4
<1>7. /\ BlankFrom(d, write_addr + size)
      /\ d[write_addr] = NewRecord
      /\ \A u \in Units : d[u] # cell[current_sector][u] =>
                cell[current_sector][u] = Blank
      /\ Sound(cell[current_sector]) /\ Written(cell[current_sector], write_addr)
            => Written(d, write_addr + size) /\ Sound(d)
  BY <1>1, <1>3, <1>4, <1>5, <1>6, ProgrammedShape DEF WithRecord
<1> HIDE DEF d
<1>8. current_sector \in ValidSectors => Sound(d) /\ Written(d, write_addr + size)
  BY <1>7, WriterReady
<1>9. SetCells(current_sector, d)
  BY DEF d
<1>10. /\ (\A s \in ValidSectors : Sound(cell[s]))'
       /\ ProgramsErased
       /\ cell'[current_sector] = d
       /\ ValidSectors' = ValidSectors
  BY <1>7, <1>8, <1>9, CellsStep
<1> QED BY <1>4, <1>7, <1>8, <1>10

LEMMA RecordBlank ==
    ASSUME TypeInv, BlankInv, Record
    PROVE  BlankInv' /\ ProgramsErased
<1>1. PICK good \in BOOLEAN :
        /\ TryCells(WithRecord, WithRecord, good)
        /\ current_closed' = (current_closed \/ ~good)
        /\ IF good THEN Goto("commit") ELSE Fail
  BY DEF Record
<1>2. pc = "record" /\ UNCHANGED <<current_sector, write_addr>>
  BY DEF Record
<1>3. CASE good
  <2>1. SetCells(current_sector, WithRecord) /\ pc' = "commit" /\ size' = size
    BY <1>1, <1>3 DEF TryCells, Goto, request
  <2> QED BY <1>2, <2>1, RecordStep DEF BlankInv, Ready
<1>4. CASE ~good
  <2>1. pc' \in {"off", "idle"} /\ current_closed'
    BY <1>1, <1>4 DEF Fail
  <2>2. CASE UNCHANGED flash
    BY <1>2, <2>1, <2>2, SameFlash, QuietStep
  <2>3. CASE SetCells(current_sector, WithRecord)
    BY <1>2, <2>1, <2>3, RecordStep DEF BlankInv
  <2> QED BY <1>1, <1>4, <2>2, <2>3 DEF TryCells
<1> QED BY <1>3, <1>4

LEMMA CommitBlank ==
    ASSUME TypeInv, BlankInv, Commit
    PROVE  BlankInv' /\ ProgramsErased
<1> DEFINE c == cell[current_sector]
           d == StateAt(current_sector, write_addr, "VALID")
<1>1. FlashType /\ PlogType
  BY TypeParts DEF TypeInv
<1>2. PICK good \in BOOLEAN :
        /\ TryCells(d, c, good)
        /\ current_closed' = ~good
        /\ IF good THEN write_addr' = write_addr + size /\ Return("EOK")
           ELSE Fail /\ UNCHANGED write_addr
  BY DEF Commit
<1>3. pc = "commit" /\ UNCHANGED current_sector
  BY DEF Commit
<1>4. /\ size \in Sizes /\ write_addr + size <= Room
      /\ current_sector \in Sectors
  BY <1>1, <1>3 DEF TypeInv, ControlInv, CursorInv, PlogType
<1>5. write_addr \in Units /\ size \in Nat /\ 1 <= size
  BY <1>1, <1>4, ConstantsAssumption DEF PlogType, Units
<1>6. /\ BlankFrom(c, write_addr + size) /\ c[write_addr].size = size
      /\ current_sector \in ValidSectors =>
            Sound(c) /\ Written(c, write_addr + size)
  BY <1>3 DEF BlankInv, Ready
<1>7. CASE good
  <2>1. /\ d[write_addr] = [c[write_addr] EXCEPT !.state = "VALID"]
        /\ \A u \in Units \ {write_addr} : d[u] = c[u]
        /\ BlankFrom(d, write_addr + size)
        /\ Sound(c) /\ Written(c, write_addr + size) =>
                Written(d, write_addr + size) /\ Sound(d)
    BY <1>1, <1>4, <1>5, <1>6, ValidShape
  <2>2. SetCells(current_sector, d)
    BY <1>2, <1>7 DEF TryCells
  <2>3. /\ (\A s \in ValidSectors : Sound(cell[s]))'
        /\ ProgramsErased
        /\ cell'[current_sector] = d
        /\ ValidSectors' = ValidSectors
    <3> HIDE DEF d
    <3> QED BY <1>6, <2>1, <2>2, CellsStep
  <2>4. pc' = "idle" /\ write_addr' = write_addr + size
    BY <1>2, <1>7 DEF Return
  <2>5. Ready(write_addr)'
    <3> HIDE DEF d
    <3> QED BY <1>3, <1>6, <2>1, <2>3, <2>4 DEF Ready
  <2> QED BY <2>3, <2>4, <2>5 DEF BlankInv
<1>8. CASE ~good
  <2>1. current_closed' /\ pc' \in {"off", "idle"} /\ UNCHANGED write_addr
    BY <1>2, <1>8 DEF Fail
  <2>2. UNCHANGED flash
    BY <1>1, <1>2, <1>8 DEF TryCells, SetCells, flash, FlashType
  <2> QED BY <1>3, <2>1, <2>2, SameFlash, QuietStep
<1> QED BY <1>7, <1>8

LEMMA ResetEraseBlank ==
    ASSUME TypeInv, BlankInv, ResetErase
    PROVE  BlankInv' /\ ProgramsErased
<1>1. FlashType
  BY TypeParts DEF TypeInv
<1>2. /\ pc = "reset_erase" /\ i \in Sectors
      /\ UNCHANGED <<current_sector, write_addr, current_closed>>
      /\ pc' \in {"reset_erase", "sector_erase", "off", "idle"}
  BY DEF TypeInv, TypeOK, ResetErase, Fail
<1>3. Quiet
  BY <1>1, <1>2, TryEraseQuiet DEF ResetErase
<1> QED BY <1>2, <1>3, QuietStep

LEMMA PowerFailureBlank ==
    ASSUME TypeInv, BlankInv, PowerFailure
    PROVE  BlankInv' /\ ProgramsErased
<1> DEFINE next == SectorNext(current_sector)
<1>1. FlashType /\ PlogType /\ CallType
  BY TypeParts DEF TypeInv
<1>2. pc' = "off" /\ current_closed' = TRUE
  BY DEF PowerFailure, Crash, CrashInErase, CrashInHeader, CrashInRecord,
         PowerOff
<1>3. CASE Quiet
  BY <1>2, <1>3, QuietValid DEF BlankInv
<1>4. next \in Sectors \ {current_sector}
  BY <1>1, NextSector DEF PlogType
<1>5. pc \in SectorInit => InitSector \in Sectors
  BY InitSectorType
<1>6. CASE Crash
  BY <1>3, <1>6, SameFlash DEF Crash
<1>7. CASE CrashInErase
  BY <1>1, <1>3, <1>4, <1>5, <1>7, CutEraseQuiet
     DEF CrashInErase, CallType, SectorInit
<1>8. CASE CrashInHeader
  <2>1. ASSUME NEW h, CutHeader(next, h),
               pc \in {"stage_header", "stage_commit"} \/ next \in ValidSectors
        PROVE  Quiet
    <3>1. hdr[next].state = "PENDING" => cell[next] = Erased
      BY <2>1 DEF BlankInv, ValidSectors
    <3> HIDE DEF next
    <3> QED BY <1>1, <1>4, <2>1, <3>1, CutHeaderQuiet
  <2>2. ASSUME NEW h, pc \in SectorInit, CutHeader(InitSector, h),
               h.state # "STAGED"
        PROVE  Quiet
    BY <1>1, <1>5, <2>2, CutHeaderQuiet
  <2>3. \A q : PendingHeader(q).state # "STAGED"
    BY DEF PendingHeader
  <2>4. HeaderWith(InitSector, "VALID").state # "STAGED"
    BY DEF HeaderWith
  <2> QED BY <1>3, <1>8, <2>1, <2>2, <2>3, <2>4 DEF CrashInHeader, SectorInit
<1>9. CASE CrashInRecord
  <2>1. (\A s \in ValidSectors : Sound(cell[s]))' /\ ProgramsErased
    <3>1. write_addr < Room => write_addr # Room
      BY <1>1, ConstantsAssumption DEF PlogType
    <3> QED BY <1>9, <3>1, RecordStep, MarkStep DEF CrashInRecord
  <2> QED BY <1>2, <2>1 DEF BlankInv
<1> QED BY <1>6, <1>7, <1>8, <1>9 DEF PowerFailure

LEMMA BlankNext ==
    TypeInv /\ BlankInv /\ [Next]_vars => BlankInv' /\ [ProgramsErased]_vars
<1> SUFFICES ASSUME TypeInv, BlankInv, [Next]_vars
             PROVE  BlankInv' /\ [ProgramsErased]_vars
  OBVIOUS
<1>1. CASE UNCHANGED vars
  BY <1>1 DEF vars, flash, plog, request, BlankInv, Ready, ValidSectors,
              InitSector
<1>2. CASE Next
  BY <1>2, StartBlank, CallBlank, StageBlank, SectorInitBlank, EndMarkerBlank,
     RecordBlank, CommitBlank, ResetEraseBlank, PowerFailureBlank
     DEF Next, Step
<1> QED BY <1>1, <1>2

\* A record or a marker is programmed into erased units only, and then only its
\* state word changes until its sector is erased: through torn writes, failed
\* operations, resets that fail halfway, power failures anywhere and the
\* recovery after them.
THEOREM RecordsWrittenOnce == Spec => WriteOnce
<1>1. Init => TypeInv /\ BlankInv
  BY TypeInit, BlankInit
<1>2. TypeInv /\ BlankInv /\ [Next]_vars =>
            TypeInv' /\ BlankInv' /\ [ProgramsErased]_vars
  BY TypeNext, BlankNext
<1> QED BY <1>1, <1>2, PTL DEF Spec, WriteOnce
=============================================================================
