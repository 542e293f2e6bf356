------------------------------- MODULE Nlog3 -------------------------------
(***************************************************************************)
(* The record log of src/nvram/nlog3.c: records appended to a ring of      *)
(* FLASH sectors.  One sector is current; the one after it is staged: its  *)
(* records are given up, and it is erased when the current one is full.    *)
(* A step of the program is one FLASH operation with the computation       *)
(* around it, so power can fail between any two and in the middle of each. *)
(*                                                                         *)
(* The caller is syslog.c: one call at a time, under its mutex, and record *)
(* ids that carry on from the newest record found at start.                *)
(***************************************************************************)
EXTENDS Integers, FiniteSets

CONSTANTS
    SectorCount,    \* plog->sectorcount
    Room,           \* data area of a sector, in units of NLOG3_LOG_RECORD_ALIGN
    Sizes,          \* sizes of the records appended, in the same units
    SeqMod,         \* sequence numbers are modulo this (2^32 in the code)
    MaxId,          \* bound: record ids
    MaxCrashes,     \* bound: power failures
    Ops,            \* what the caller does besides appending
    Faults,         \* the kinds of FLASH operation that may fail
    MaxFaults       \* bound: FLASH operations that fail

OpNames == {"init", "reset"}

ASSUME ConstantsAssumption ==
    /\ SectorCount \in Nat
    /\ 3 <= SectorCount
    /\ Room \in Nat \ {0}
    /\ Sizes \subseteq 1 .. Room
    /\ SeqMod \in Nat
    /\ 2 * SectorCount < SeqMod
    /\ MaxId \in Nat
    /\ MaxCrashes \in Nat
    /\ Ops \subseteq OpNames
    /\ Faults \subseteq {"write",        \* a write returns an error
                     "erase",        \* an erase returns an error
                     "reset",        \* so may those of nlog3_reset()
                     "torn_word"}    \* power cut between the bytes of a word
    /\ MaxFaults \in Nat

VARIABLES
    \* FLASH
    hdr,        \* the sector headers
    cell,       \* the data areas, by unit
    \* NLOG3_T
    current_sector, current_sequence,
    staged_sector,
    write_addr,
    last_record_offset, last_record_sequence,
    current_closed,
    \* syslog.c
    next_id,    \* _syslog_id
    \* the call in progress
    pc,         \* the FLASH operation it is about to do
    op,
    size,       \* nlog3_append(): record_size
    then,       \* where nlog3_stage_sector() returns to
    i,          \* nlog3_reset(): i
    ret,        \* result of the last call
    it,         \* an iterator of the caller's, NoIt if it has none
    \* environment
    crashes, faults

flash   == <<hdr, cell>>
plog    == <<current_sector, current_sequence, staged_sector, write_addr,
             last_record_offset, last_record_sequence, current_closed>>
request == <<op, size, then, i>>
env     == <<crashes, faults>>
vars    == <<flash, plog, next_id, pc, request, ret, it, env>>

----------------------------------------------------------------------------
(* FLASH contents.                                                         *)

Sectors  == 0 .. (SectorCount - 1)
Units    == 0 .. (Room - 1)
Ids      == 0 .. MaxId
Sequence == 0 .. (SeqMod - 1)

NoSector == SectorCount             \* NLOG3_SECTOR_NONE
NoOffset == SectorCount * Room      \* NLOG3_RECORD_OFFSET_NONE

Offset(s, a) == s * Room + a        \* nlog3_record_offset()

\* Mutant: every other sector.
SectorSkip(s) == (s + 2) % SectorCount

\* nlog3_sector_next()
SectorNext(s) == (s + 1) % SectorCount

\* State words.  "PENDING" stands for every value that is none of the others:
\* what a cut or failed write of a state word leaves is treated like it.
SectorStates == {"EMPTY", "PENDING", "VALID", "STAGED"}

\* "BODY" is a unit inside a record, "END" NLOG3_RECORD_STATE_SECTOR_END.
CellStates == {"EMPTY", "PENDING", "VALID", "END", "BODY"}

\* A sector header; ok: magic, format, log version and checksum match.
Headers == [state: SectorStates, seq: Sequence, ok: BOOLEAN]
NoHeader == [state |-> "EMPTY", seq |-> 0, ok |-> FALSE]

\* A unit; one that starts a record holds its header.
Cells == [state: CellStates, id: Ids, size: 0 .. Room,
          prev: 0 .. NoOffset, pseq: Sequence]
Unit(st) == [state |-> st, id |-> 0, size |-> 0, prev |-> NoOffset, pseq |-> 0]
Blank == Unit("EMPTY")
Erased == [a \in Units |-> Blank]

----------------------------------------------------------------------------
(* Sequence numbers and the search for sectors.                            *)

\* Mutant: compares without the wrap.
SeqAfterPlain(a, b) == a > b

\* nlog3_seq_after(): the difference as a signed number.
SeqAfter(a, b) == LET d == (a - b) % SeqMod IN 0 < d /\ 2 * d < SeqMod

\* nlog3_sector_header_read() = EOK
Readable(s) == hdr[s].state \in {"VALID", "STAGED"} /\ hdr[s].ok

ValidSectors == {s \in Sectors : hdr[s].state = "VALID" /\ hdr[s].ok}

\* The loops over the sectors: the first of S, or a later one with a better
\* sequence number than the best so far.
BestOf(S, Better(_, _)) ==
    LET taken[s \in Sectors] ==
            [b \in 0 .. SectorCount |->
                IF s \in S /\ (b = NoSector \/ Better(hdr[s].seq, hdr[b].seq))
                THEN s ELSE b]
        best[n \in 0 .. SectorCount] ==
            IF n = 0 THEN NoSector ELSE taken[n - 1][best[n - 1]]
    IN  best[SectorCount]

SeqBefore(a, b) == SeqAfter(b, a)

NewestOf(S) == BestOf(S, SeqAfter)
OldestOf(S) == BestOf(S, SeqBefore)

SectorAfter(q) == OldestOf({s \in ValidSectors : SeqAfter(hdr[s].seq, q)})

----------------------------------------------------------------------------
(* Scanning a sector.                                                      *)

\* nlog3_record_read(): NLOG3_SCAN_RECORD
IsRecord(s, a) ==
    a \in Units /\ cell[s][a].state = "VALID" /\ a + cell[s][a].size <= Room

\* nlog3_sector_scan(): the addresses it comes to, from record to record.
Scanned(s) ==
    {a \in 0 .. Room : \A S \in SUBSET (0 .. Room) :
        /\ 0 \in S
        /\ \A b \in S : IsRecord(s, b) => b + cell[s][b].size \in S
        => a \in S}

RecordsOf(s)    == {a \in Scanned(s) : IsRecord(s, a)}
IsEnd(s, a)     == a \in Scanned(s) /\ ~IsRecord(s, a)
IsLast(s, a)    == a \in RecordsOf(s) /\ \A b \in RecordsOf(s) : b <= a
EndsEmpty(s, a) == a \in Units /\ cell[s][a].state = "EMPTY"

WithRecords == {s \in ValidSectors : RecordsOf(s) # {}}

----------------------------------------------------------------------------
(* FLASH operations, and what they leave when they fail or power is cut.   *)

Fault(f) ==
    /\ f \in Faults
    /\ op = "reset" => "reset" \in Faults
    /\ faults < MaxFaults
    /\ faults' = faults + 1

EraseSector(s) ==
    /\ hdr' = [hdr EXCEPT ![s] = NoHeader]
    /\ cell' = [cell EXCEPT ![s] = Erased]

\* An erase that is cut disturbs the header first.
CutErase(s) ==
    /\ hdr' = [hdr EXCEPT ![s].state = "PENDING"]
    /\ UNCHANGED cell

\* nlog3_sector_erase()
TryErase(s, good) ==
    \/ good /\ EraseSector(s) /\ UNCHANGED faults
    \/ ~good /\ Fault("erase") /\ (UNCHANGED flash \/ CutErase(s))

SetHeader(s, h) ==
    /\ hdr' = [hdr EXCEPT ![s] = h]
    /\ UNCHANGED cell

\* nlog3_sector_write_header(): the pending header of sequence q.
PendingHeader(q) == [state |-> "PENDING", seq |-> q, ok |-> TRUE]

\* The header of sector s with its state word set to st.
HeaderWith(s, st) == [state |-> st, seq |-> hdr[s].seq, ok |-> hdr[s].ok]

\* What a cut write of header h leaves: no known state; or, where only the
\* first byte of STAGED (0xFFFFF000) was programmed over PENDING (0xFFFFFFF0),
\* VALID (0xFFFFFF00).
CutHeader(s, h) ==
    \/ SetHeader(s, [state |-> "PENDING", seq |-> h.seq, ok |-> FALSE])
    \/ /\ "torn_word" \in Faults
       /\ hdr[s].state = "PENDING"
       /\ h.state = "STAGED"
       /\ SetHeader(s, HeaderWith(s, "VALID"))

TryHeader(s, h, good) ==
    \/ good /\ SetHeader(s, h) /\ UNCHANGED faults
    \/ ~good /\ Fault("write") /\ (UNCHANGED flash \/ CutHeader(s, h))

SetCells(s, cells) ==
    /\ cell' = [cell EXCEPT ![s] = cells]
    /\ UNCHANGED hdr

\* The data area of sector s with record rec programmed at a.  What is
\* programmed over something else is neither.
Programmed(s, a, rec) ==
    [u \in Units |->
        IF u < a \/ a + rec.size <= u THEN cell[s][u]
        ELSE IF cell[s][u] = Blank /\ u = a THEN rec
        ELSE Unit("BODY")]

\* The data area of sector s with the state word at a set to st.
StateAt(s, a, st) == [cell[s] EXCEPT ![a].state = st]

\* Writes in the data area of the current sector: to cells, or, when cut, to
\* cut.
TryCells(cells, cut, good) ==
    \/ good /\ SetCells(current_sector, cells) /\ UNCHANGED faults
    \/ /\ ~good
       /\ Fault("write")
       /\ UNCHANGED flash \/ SetCells(current_sector, cut)

----------------------------------------------------------------------------
(* Iterators: a position in the log with the header of the record there.   *)

Iterators == [sector: Sectors \union {NoSector}, seq: Sequence, addr: Units,
              rec: Cells]

NoIt == [sector |-> NoSector, seq |-> 0, addr |-> 0, rec |-> Blank]

\* nlog3_iterator_set()
At(s, q, a) == [sector |-> s, seq |-> q, addr |-> a, rec |-> cell[s][a]]

\* nlog3_iterator_set_offset(); NoIt for E_BOF and E_CORRUPT.
IteratorSetOffset(offset, q, allow_staged) ==
    LET s == offset \div Room
        a == offset % Room
    IN  IF /\ offset # NoOffset
           /\ Readable(s)
           /\ hdr[s].state = "VALID" \/ allow_staged
           /\ hdr[s].seq = q
           /\ IsRecord(s, a)
        THEN At(s, q, a)
        ELSE NoIt

\* nlog3_sector_find_first()
SectorFindFirst(s, q, a) == IF IsRecord(s, a) THEN At(s, q, a) ELSE NoIt

\* The loops of nlog3_iterator_init_oldest() and nlog3_iterator_next(): the
\* first record of sector s or of the sectors after it.
FirstRecordFrom(s) ==
    LET onward[t \in Sectors \union {NoSector}] ==
            IF t = NoSector \/ IsRecord(t, 0) THEN t
            ELSE SectorAfter(hdr[t].seq)
        sector[n \in 1 .. SectorCount] ==
            IF n = 1 THEN s ELSE onward[sector[n - 1]]
        first[t \in Sectors \union {NoSector}] ==
            IF t # NoSector /\ IsRecord(t, 0) THEN At(t, hdr[t].seq, 0) ELSE NoIt
    IN  first[sector[SectorCount]]

IteratorInit == IteratorSetOffset(last_record_offset, last_record_sequence, FALSE)

IteratorInitOldest == FirstRecordFrom(OldestOf(ValidSectors))

\* nlog3_iterator_prev()
IteratorPrev(p) ==
    IF Readable(p.sector)
    THEN IteratorSetOffset(p.rec.prev, p.rec.pseq,
                           hdr[p.sector].state = "STAGED")
    ELSE NoIt

\* Mutant: does not go on into the next sector.
NextInside(p) == SectorFindFirst(p.sector, p.seq, p.addr + p.rec.size)

\* nlog3_iterator_next()
IteratorNext(p) ==
    LET inside == SectorFindFirst(p.sector, p.seq, p.addr + p.rec.size)
    IN  IF inside # NoIt THEN inside ELSE FirstRecordFrom(SectorAfter(p.seq))

----------------------------------------------------------------------------
(* Control flow shared by the operations.                                  *)

Return(r) ==
    /\ pc' = "idle"
    /\ op' = "none"
    /\ size' = 0
    /\ then' = "none"
    /\ i' = 0
    /\ ret' = r

Goto(l) == pc' = l /\ UNCHANGED <<request, ret>>

\* syslog.c does not use a log whose nlog3_init() failed.
Fail ==
    /\ pc' = IF op = "init" THEN "off" ELSE "idle"
    /\ op' = "none"
    /\ size' = 0
    /\ then' = "none"
    /\ i' = 0
    /\ ret' = "FAIL"

\* _syslog_next_id(): after the newest record, or from the start.
SyslogNextId == IF IteratorInit = NoIt THEN 0 ELSE IteratorInit.rec.id + 1

\* nlog3_stage_sector() succeeded; what called it goes on.
Staged(s) ==
    /\ staged_sector' = s
    /\ UNCHANGED <<current_sector, current_sequence, write_addr,
                   last_record_offset, last_record_sequence, current_closed>>
    /\ \/ /\ then = "done"
          /\ Return("EOK")
          /\ next_id' = IF op = "init" THEN SyslogNextId' ELSE next_id
       \/ /\ then # "done"
          /\ pc' = then
          /\ UNCHANGED <<request, ret, next_id>>

----------------------------------------------------------------------------
(* nlog3_stage_sector()                                                    *)

Stage ==
    LET s == SectorNext(current_sector)
    IN  /\ pc = "stage"
        /\ \/ /\ Readable(s) /\ hdr[s].state = "STAGED"
              /\ UNCHANGED <<flash, faults>>
              /\ Staged(s)
           \/ /\ Readable(s) /\ hdr[s].state = "VALID"
              /\ \E good \in BOOLEAN :
                    /\ TryHeader(s, HeaderWith(s, "STAGED"), good)
                    /\ IF good THEN Staged(s)
                       ELSE Fail /\ UNCHANGED <<plog, next_id>>
           \/ /\ ~Readable(s)
              /\ Goto("stage_erase")
              /\ UNCHANGED <<flash, plog, next_id, faults>>
        /\ UNCHANGED <<it, crashes>>

StageErase ==
    /\ pc = "stage_erase"
    /\ \E good \in BOOLEAN :
        /\ TryErase(SectorNext(current_sector), good)
        /\ IF good THEN Goto("stage_header") ELSE Fail
    /\ UNCHANGED <<plog, next_id, it, crashes>>

StageHeader ==
    /\ pc = "stage_header"
    /\ \E good \in BOOLEAN :
        /\ TryHeader(SectorNext(current_sector),
                     PendingHeader((current_sequence + 1) % SeqMod), good)
        /\ IF good THEN Goto("stage_commit") ELSE Fail
    /\ UNCHANGED <<plog, next_id, it, crashes>>

StageCommit ==
    LET s == SectorNext(current_sector)
    IN  /\ pc = "stage_commit"
        /\ \E good \in BOOLEAN :
            /\ TryHeader(s, HeaderWith(s, "STAGED"), good)
            /\ IF good THEN Staged(s)
               ELSE Fail /\ UNCHANGED <<plog, next_id>>
        /\ UNCHANGED <<it, crashes>>

----------------------------------------------------------------------------
(* nlog3_sector_init(), for nlog3_advance_sector() and nlog3_reset()       *)

InitSector   == IF op = "append" THEN staged_sector ELSE 0
InitSequence == IF op = "append" THEN (current_sequence + 1) % SeqMod ELSE 0

SectorErase ==
    /\ pc = "sector_erase"
    /\ \E good \in BOOLEAN :
        /\ TryErase(InitSector, good)
        /\ IF good THEN Goto("sector_header") ELSE Fail
    /\ UNCHANGED <<plog, next_id, it, crashes>>

SectorHeader ==
    /\ pc = "sector_header"
    /\ \E good \in BOOLEAN :
        /\ TryHeader(InitSector, PendingHeader(InitSequence), good)
        /\ IF good THEN Goto("sector_commit") ELSE Fail
    /\ UNCHANGED <<plog, next_id, it, crashes>>

\* The sector after it is staged next.
SectorCommit ==
    /\ pc = "sector_commit"
    /\ \E good \in BOOLEAN :
        /\ TryHeader(InitSector, HeaderWith(InitSector, "VALID"), good)
        /\ IF good
           THEN /\ current_sector' = InitSector
                /\ current_sequence' = InitSequence
                /\ staged_sector' = NoSector
                /\ write_addr' = 0
                /\ current_closed' = FALSE
                /\ pc' = "stage"
                /\ then' = IF op = "append" THEN "record" ELSE "done"
                /\ UNCHANGED <<op, size, i, ret>>
           ELSE /\ Fail
                /\ UNCHANGED <<current_sector, current_sequence, staged_sector,
                               write_addr, current_closed>>
    /\ UNCHANGED <<last_record_offset, last_record_sequence, next_id, it,
                   crashes>>

----------------------------------------------------------------------------
(* nlog3_append()                                                          *)

\* nlog3_advance_sector(): it stages a sector first if there is none.
HaveStaged == staged_sector \in Sectors \ {current_sector}
Advance == IF HaveStaged THEN "sector_erase" ELSE "stage"

\* Mutant: the room check is off by one.
LogAppendPast(n) ==
    /\ pc = "idle"
    /\ next_id <= MaxId
    /\ op' = "append"
    /\ size' = n
    /\ pc' = IF current_closed THEN Advance
             ELSE IF write_addr + n <= Room + 1 THEN "record"
             ELSE "end_marker"
    /\ then' = "sector_erase"
    /\ UNCHANGED <<flash, plog, next_id, i, ret, it, env>>

\* nlog3_append(): the next step, by the room left.
LogAppend(n) ==
    /\ pc = "idle"
    /\ next_id <= MaxId
    /\ op' = "append"
    /\ size' = n
    /\ pc' = IF current_closed THEN Advance
             ELSE IF write_addr + n <= Room THEN "record"
             ELSE "end_marker"
    /\ then' = "sector_erase"
    /\ UNCHANGED <<flash, plog, next_id, i, ret, it, env>>

\* nlog3_write_end_marker(): nothing to write in a sector filled to its end.
EndMarker ==
    /\ pc = "end_marker"
    /\ current_closed' = TRUE
    /\ \E good \in BOOLEAN :
        /\ IF write_addr = Room
           THEN good /\ UNCHANGED <<flash, faults>>
           ELSE TryCells(StateAt(current_sector, write_addr, "END"),
                         StateAt(current_sector, write_addr, "PENDING"), good)
        /\ IF good THEN Goto(Advance) ELSE Fail
    /\ UNCHANGED <<current_sector, current_sequence, staged_sector, write_addr,
                   last_record_offset, last_record_sequence, next_id, it,
                   crashes>>

NewRecord ==
    [state |-> "PENDING", id |-> next_id, size |-> size,
     prev |-> last_record_offset, pseq |-> last_record_sequence]

WithRecord == Programmed(current_sector, write_addr, NewRecord)

\* Mutant: the sector stays open after a failed write.
RecordLeftOpen ==
    /\ pc = "record"
    /\ \E good \in BOOLEAN :
        /\ TryCells(WithRecord, WithRecord, good)
        /\ IF good THEN Goto("commit") ELSE Fail
    /\ UNCHANGED <<plog, next_id, it, crashes>>

\* The pending header and the payload.
Record ==
    /\ pc = "record"
    /\ \E good \in BOOLEAN :
        /\ TryCells(WithRecord, WithRecord, good)
        /\ current_closed' = (current_closed \/ ~good)
        /\ IF good THEN Goto("commit") ELSE Fail
    /\ UNCHANGED <<current_sector, current_sequence, staged_sector, write_addr,
                   last_record_offset, last_record_sequence, next_id, it,
                   crashes>>

\* The state word that makes it VALID; _syslog_write() then takes the next id.
Commit ==
    /\ pc = "commit"
    /\ \E good \in BOOLEAN :
        /\ TryCells(StateAt(current_sector, write_addr, "VALID"),
                    cell[current_sector], good)
        /\ current_closed' = ~good
        /\ IF good
           THEN /\ last_record_offset' = Offset(current_sector, write_addr)
                /\ last_record_sequence' = current_sequence
                /\ write_addr' = write_addr + size
                /\ next_id' = next_id + 1
                /\ Return("EOK")
           ELSE /\ Fail
                /\ UNCHANGED <<last_record_offset, last_record_sequence,
                               write_addr, next_id>>
    /\ UNCHANGED <<current_sector, current_sequence, staged_sector, it,
                   crashes>>

----------------------------------------------------------------------------
(* nlog3_init() and nlog3_reset()                                          *)

\* The newest record is the last one of sector tail.
RecoverLast(tail) ==
    /\ last_record_sequence' = hdr[tail].seq
    /\ \E a \in Units :
        IsLast(tail, a) /\ last_record_offset' = Offset(tail, a)

RecoverNone ==
    /\ last_record_offset' = NoOffset
    /\ last_record_sequence' = 0

\* It may be in a sector before the current one.
RecoverNewest ==
    \/ WithRecords = {} /\ RecoverNone
    \/ \E tail \in WithRecords :
        tail = NewestOf(WithRecords) /\ RecoverLast(tail)

\* Mutant: a sector that ends in a torn record is left open.
RecoverOpen(newest) ==
    /\ current_sector' = newest
    /\ current_sequence' = hdr[newest].seq
    /\ \E a \in 0 .. Room :
        /\ IsEnd(newest, a)
        /\ write_addr' = a
        /\ current_closed' = (a = Room)
    /\ RecoverNewest

\* Mutant: looks for the newest record in the newest sector only.
RecoverHead(newest) ==
    /\ current_sector' = newest
    /\ current_sequence' = hdr[newest].seq
    /\ \E a \in 0 .. Room :
        /\ IsEnd(newest, a)
        /\ write_addr' = a
        /\ current_closed' = ~EndsEmpty(newest, a)
    /\ IF RecordsOf(newest) = {} THEN RecoverNone ELSE RecoverLast(newest)

\* The log as it is on FLASH: the newest sector, the end of its records, and
\* the newest record.
Recover(newest) ==
    /\ current_sector' = newest
    /\ current_sequence' = hdr[newest].seq
    /\ \E a \in 0 .. Room :
        /\ IsEnd(newest, a)
        /\ write_addr' = a
        /\ current_closed' = ~EndsEmpty(newest, a)
    /\ RecoverNewest

\* syslog_start(), after power up or after syslog_stop()
Start ==
    /\ pc = "off" \/ (pc = "idle" /\ "init" \in Ops)
    /\ op' = "init"
    /\ then' = "done"
    /\ staged_sector' = NoSector
    /\ \/ /\ ValidSectors = {}
          /\ pc' = "reset_erase"
          /\ i' = 2
          /\ current_sector' = 0
          /\ current_sequence' = 0
          /\ write_addr' = 0
          /\ current_closed' = TRUE
          /\ RecoverNone
       \/ /\ pc' = "stage"
          /\ \E newest \in ValidSectors :
                newest = NewestOf(ValidSectors) /\ Recover(newest)
          /\ UNCHANGED i
    /\ UNCHANGED <<flash, next_id, size, ret, it, env>>

\* syslog_reset()
Reset ==
    /\ "reset" \in Ops
    /\ pc = "idle"
    /\ pc' = "reset_erase"
    /\ op' = "reset"
    /\ i' = 2
    /\ UNCHANGED <<flash, plog, next_id, size, then, ret, it, env>>

\* Mutant: the loop does not advance.
ResetEraseStuck ==
    /\ pc = "reset_erase"
    /\ TryErase(i, TRUE)
    /\ UNCHANGED <<plog, next_id, pc, request, ret, it, crashes>>

\* Sectors 0 and 1 are left to the initialisation and staging that follow.
ResetErase ==
    /\ pc = "reset_erase"
    /\ \E good \in BOOLEAN :
        /\ TryErase(i, good)
        /\ \/ /\ good /\ i < SectorCount - 1
              /\ i' = i + 1
              /\ UNCHANGED <<pc, op, size, then, ret, last_record_offset,
                             last_record_sequence>>
           \/ /\ good /\ i = SectorCount - 1
              /\ i' = 0
              /\ pc' = "sector_erase"
              /\ last_record_offset' = NoOffset
              /\ last_record_sequence' = 0
              /\ UNCHANGED <<op, size, then, ret>>
           \/ ~good /\ Fail /\ UNCHANGED <<last_record_offset,
                                           last_record_sequence>>
    /\ UNCHANGED <<current_sector, current_sequence, staged_sector, write_addr,
                   current_closed, next_id, it, crashes>>

----------------------------------------------------------------------------
(* Iterating.  A failed move leaves the iterator where it is               *)
(* (_syslog_iterator_step()).  It changes nothing of the log, so Next is   *)
(* without it; a caller that keeps an iterator adds Iterate (LogUpgrade).  *)

MoveTo(p) ==
    /\ pc = "idle"
    /\ p # NoIt
    /\ it' = p
    /\ UNCHANGED <<flash, plog, next_id, pc, request, ret, env>>

MoveNewest == MoveTo(IteratorInit)
MoveOldest == MoveTo(IteratorInitOldest)
MovePrev   == it # NoIt /\ MoveTo(IteratorPrev(it))
MoveNext   == it # NoIt /\ MoveTo(IteratorNext(it))

Iterate == MoveNewest \/ MoveOldest \/ MovePrev \/ MoveNext

----------------------------------------------------------------------------
(* Power failure.  RAM is lost; the FLASH operation in progress is done,   *)
(* not done, or cut in the middle.                                         *)

PowerOff ==
    /\ pc # "off"
    /\ crashes < MaxCrashes
    /\ crashes' = crashes + 1
    /\ pc' = "off"
    /\ op' = "none"
    /\ size' = 0
    /\ then' = "none"
    /\ i' = 0
    /\ ret' = "none"
    /\ it' = NoIt
    /\ current_sector' = 0
    /\ current_sequence' = 0
    /\ staged_sector' = NoSector
    /\ write_addr' = 0
    /\ last_record_offset' = NoOffset
    /\ last_record_sequence' = 0
    /\ current_closed' = TRUE
    /\ UNCHANGED <<next_id, faults>>

Crash == PowerOff /\ UNCHANGED flash

CrashInErase ==
    /\ PowerOff
    /\ \/ pc = "reset_erase" /\ CutErase(i)
       \/ pc = "sector_erase" /\ CutErase(InitSector)
       \/ pc = "stage_erase" /\ CutErase(SectorNext(current_sector))

CrashInHeader ==
    LET next == SectorNext(current_sector)
    IN  /\ PowerOff
        /\ \/ /\ pc = "stage" /\ next \in ValidSectors
              /\ CutHeader(next, HeaderWith(next, "STAGED"))
           \/ /\ pc = "stage_header"
              /\ CutHeader(next, PendingHeader((current_sequence + 1) % SeqMod))
           \/ /\ pc = "stage_commit"
              /\ CutHeader(next, HeaderWith(next, "STAGED"))
           \/ /\ pc = "sector_header"
              /\ CutHeader(InitSector, PendingHeader(InitSequence))
           \/ /\ pc = "sector_commit"
              /\ CutHeader(InitSector, HeaderWith(InitSector, "VALID"))

CrashInRecord ==
    /\ PowerOff
    /\ \/ /\ pc = "record"
          /\ SetCells(current_sector, WithRecord)
       \/ /\ pc = "end_marker" /\ write_addr < Room
          /\ SetCells(current_sector,
                      StateAt(current_sector, write_addr, "PENDING"))

----------------------------------------------------------------------------
\* An erased device, or a log in another format.
Init ==
    /\ \/ /\ hdr = [s \in Sectors |-> NoHeader]
          /\ cell = [s \in Sectors |-> Erased]
       \/ /\ hdr = [s \in Sectors |->
                        [state |-> "VALID", seq |-> 0, ok |-> FALSE]]
          /\ cell = [s \in Sectors |-> [a \in Units |-> Unit("BODY")]]
    /\ current_sector = 0
    /\ current_sequence = 0
    /\ staged_sector = NoSector
    /\ write_addr = 0
    /\ last_record_offset = NoOffset
    /\ last_record_sequence = 0
    /\ current_closed = TRUE
    /\ next_id = 0
    /\ pc = "off"
    /\ op = "none"
    /\ size = 0
    /\ then = "none"
    /\ i = 0
    /\ ret = "none"
    /\ it = NoIt
    /\ crashes = 0
    /\ faults = 0

Call ==
    \/ \E n \in Sizes : LogAppend(n)
    \/ Reset

Step ==
    \/ Stage \/ StageErase \/ StageHeader \/ StageCommit
    \/ SectorErase \/ SectorHeader \/ SectorCommit
    \/ EndMarker \/ Record \/ Commit
    \/ ResetErase

PowerFailure == Crash \/ CrashInErase \/ CrashInHeader \/ CrashInRecord

Next == Start \/ Call \/ Step \/ PowerFailure

Spec == Init /\ [][Next]_vars

\* The thread that called keeps running, and the device is started again.
FairSpec == Spec /\ WF_vars(Step) /\ WF_vars(pc = "off" /\ Start)

----------------------------------------------------------------------------
(* Properties.                                                             *)

StageSector == {"stage", "stage_erase", "stage_header", "stage_commit"}
SectorInit  == {"sector_erase", "sector_header", "sector_commit"}
PcNames     == {"off", "idle", "end_marker", "record", "commit", "reset_erase"}
                \union StageSector \union SectorInit

TypeOK ==
    /\ hdr \in [Sectors -> Headers]
    /\ cell \in [Sectors -> [Units -> Cells]]
    /\ current_sector \in Sectors
    /\ current_sequence \in Sequence
    /\ staged_sector \in Sectors \union {NoSector}
    /\ write_addr \in 0 .. Room
    /\ last_record_offset \in 0 .. NoOffset
    /\ last_record_sequence \in Sequence
    /\ current_closed \in BOOLEAN
    /\ next_id \in 0 .. (MaxId + 1)
    /\ pc \in PcNames
    /\ op \in {"none", "init", "reset", "append"}
    /\ size \in Sizes \union {0}
    /\ then \in {"none", "done", "record", "sector_erase"}
    /\ i \in Sectors
    /\ ret \in {"none", "EOK", "FAIL"}
    /\ it \in Iterators
    /\ crashes \in 0 .. MaxCrashes
    /\ faults \in 0 .. MaxFaults

\* Which call is in progress where, and with what.
ControlInv ==
    /\ op = "none" <=> pc \in {"off", "idle"}
    /\ op = "none" => then = "none"
    /\ pc \in {"end_marker", "record", "commit"} => op = "append"
    /\ op = "append" =>
        /\ size \in Sizes
        /\ next_id <= MaxId
        /\ then \in {"record", "sector_erase"}
        /\ pc # "reset_erase"
        /\ pc \in SectorInit => HaveStaged
    /\ pc \in StageSector /\ op # "append" => then = "done"
    /\ pc = "reset_erase" => 2 <= i

\* Where the writer is: a record is written into a sector that is open and has
\* room for it.
CursorInv ==
    /\ pc \in {"end_marker", "record"} => ~current_closed
    /\ pc = "end_marker" => then = "sector_erase"
    /\ pc \in StageSector /\ then = "record" => ~current_closed /\ write_addr = 0
    /\ pc \in {"record", "commit"} => write_addr + size <= Room

\* Types, which call is in progress at each step, and no write past the end of
\* a sector, whatever fails and whatever is found on FLASH at a start.
TypeInv == TypeOK /\ ControlInv /\ CursorInv

\* FLASH discipline: a record or a marker is programmed into erased units
\* only, and then only its state word changes until its sector is erased.
ProgramsErased ==
    \A s \in Sectors, u \in Units : cell'[s][u] # cell[s][u] =>
        \/ cell[s][u] = Blank
        \/ cell'[s] = Erased
        \/ cell'[s][u] = [cell[s][u] EXCEPT !.state = "VALID"]

WriteOnce == [][ProgramsErased]_vars

\* Every call and every start comes back to its caller.
OperationsReturn == (pc # "idle") ~> (pc = "idle")
=============================================================================
