------------------------------- MODULE Nlog2 -------------------------------
(***************************************************************************)
(* The older record log of src/nvram/nlog2.c.  Records are headers with    *)
(* links to their neighbours, each followed by its payload; a sector       *)
(* starts with a header of its own and ends with a patch, a link to the    *)
(* next sector.  When the current sector is full the next one of the ring  *)
(* is closed, linked, erased and begun.  The writer is a copy of the       *)
(* newest header in RAM.                                                   *)
(*                                                                         *)
(* A step is one FLASH operation with the computation around it.  A unit   *)
(* of FLASH holds one header; payloads are whole units.                    *)
(***************************************************************************)
EXTENDS Integers, FiniteSets, Sequences

CONSTANTS
    SectorCount,    \* plog->sectorcount
    SectorSize,     \* plog->sectorsize, in headers
    Sizes,          \* the sets of sizes, in headers, that an application may use
    MaxId,          \* bound: record ids
    MaxCrashes,     \* bound: power failures
    Ops             \* what the caller does besides appending

\* LogUpgrade.tla assumes it of the values it gives them.
ConstantsAssumption ==
    /\ SectorCount \in Nat
    /\ 2 <= SectorCount
    /\ SectorSize \in Nat
    /\ 4 <= SectorSize
    /\ Sizes \subseteq SUBSET (Nat \ {0})
    /\ MaxId \in Nat
    /\ MaxCrashes \in Nat
    /\ Ops \subseteq {"init", "reset"}

VARIABLES
    cell,       \* FLASH, by unit
    sector,     \* plog->it.sector
    header,     \* plog->it.header
    id,         \* plog->id
    pc,         \* the FLASH operation the call in progress is about to do
    op,         \* the call in progress
    size,       \* nlog2_append(): alloc
    i,          \* nlog2_reset(): i
    crashes,    \* power failures so far
    sizes       \* sizes of the payloads that the application appends

request == <<op, size, i>>
vars    == <<cell, sector, header, id, pc, request, crashes, sizes>>

----------------------------------------------------------------------------
(* FLASH contents.                                                         *)

Sectors == 0 .. (SectorCount - 1)
Addrs   == 0 .. (SectorCount * SectorSize - 1)

\* 0xFFFFFFFF, as a link and as an id.
NoAddr == SectorCount * SectorSize
NoId   == MaxId + 1

\* record_type()
Types == {"RECORD", "SECTOR", "PATCH", "CLOSED", "EMPTY", "INVALID"}

\* A unit, as a header that is read there has it.
Cells == [type: Types, this: Addrs \union {NoAddr},
          next: Addrs \union {NoAddr}, previous: Addrs \union {NoAddr},
          id: 0 .. NoId]

Header(ty, this, next, previous, k) ==
    [type |-> ty, this |-> this, next |-> next, previous |-> previous,
     id |-> k]

Blank == Header("EMPTY", NoAddr, NoAddr, NoAddr, NoId)

\* Payload, data in another format, what a cut erase leaves.
Junk == Header("INVALID", NoAddr, NoAddr, NoAddr, NoId)

\* sector_address()
SectorAddress(s) == s * SectorSize
SectorUnits(s)   == SectorAddress(s) .. (SectorAddress(s) + SectorSize - 1)

\* sector_of_address()
SectorOfAddress(a) == a \div SectorSize

\* sector_next()
SectorNext(s) == IF s < SectorCount - 1 THEN s + 1 ELSE 0

\* sector_available(): room is kept for a header and for the patch.
Available(s, h) == SectorAddress(s + 1) - h.next - 2

----------------------------------------------------------------------------
(* FLASH operations.                                                       *)

\* Programming clears bits: header h over what a unit holds.  Where a cut write
\* has left the beginning of the same header, it is completed; a closed header
\* stays closed; anything else is spoilt.
Over(old, h) ==
    IF /\ old.type = "EMPTY"
       /\ old.this     \in {NoAddr, h.this}
       /\ old.next     \in {NoAddr, h.next}
       /\ old.previous \in {NoAddr, h.previous}
    THEN h
    ELSE [Junk EXCEPT !.type = IF old.type = "CLOSED" THEN "CLOSED"
                               ELSE "INVALID"]

WriteHeader(h) == cell' = [cell EXCEPT ![h.this] = Over(@, h)]

\* Mutant: one unit short.
WriteUnitsShort(first, n) ==
    cell' = [a \in Addrs |-> IF a \in first .. (first + n - 2) THEN Junk
                             ELSE cell[a]]

WriteUnits(first, n) ==
    cell' = [a \in Addrs |-> IF a \in first .. (first + n - 1) THEN Junk
                             ELSE cell[a]]

\* sector_erase()
EraseSector(s) ==
    cell' = [a \in Addrs |-> IF a \in SectorUnits(s) THEN Blank ELSE cell[a]]

\* What a write of header h that is cut leaves: the links without the flags,
\* the flags without the record type, or all but the id.
CutHeader(h) ==
    \E c \in {[h EXCEPT !.type = "EMPTY", !.id = NoId], Junk,
              [h EXCEPT !.id = NoId]} : WriteHeader([c EXCEPT !.this = h.this])

\* An erase that is cut disturbs the header of the sector first.
CutErase(s) == cell' = [cell EXCEPT ![SectorAddress(s)] = Junk]

----------------------------------------------------------------------------
(* Iterators: a copy of the header they are at.  A move is where it leads  *)
(* and its result.                                                         *)

Move(h, r) == [at |-> h, res |-> r]

\* _iterator_next()
StepNext(h) ==
    IF h.type \in {"CLOSED", "EMPTY", "INVALID"} THEN Move(h, "FAIL")
    ELSE LET next == cell[h.next]
         IN  CASE next.type \in {"CLOSED", "INVALID"} -> Move(h, "FAIL")
               [] next.type = "EMPTY" -> Move(h, "EOF")
               [] OTHER -> Move(next, "EOK")

\* _iterator_prev()
StepPrev(h) ==
    IF h.type \in {"EMPTY", "INVALID"} THEN Move(h, "FAIL")
    ELSE IF h.previous = h.this \/ h.type = "CLOSED" THEN Move(h, "BOF")
    ELSE LET prev == cell[h.previous]
         IN  IF prev.type \in {"CLOSED", "EMPTY", "INVALID"}
             THEN Move(h, "BOF")
             ELSE Move(prev, "EOK")

Onward(way, h) == IF way = "next" THEN StepNext(h) ELSE StepPrev(h)

\* The loops over them: on until it is at a record or does not go on.  Between
\* records are at most a patch and a header of each sector.
ToRecord(way, h) ==
    LET after[n \in 0 .. (2 * SectorCount + 1)] ==
            IF n = 0 THEN Onward(way, h)
            ELSE LET p == after[n - 1]
                 IN  IF p.res = "EOK" /\ p.at.type # "RECORD"
                     THEN Onward(way, p.at) ELSE p
    IN  after[2 * SectorCount + 1]

\* nlog2_iterator_next()
IteratorNext(h) == ToRecord("next", h)

\* nlog2_iterator_prev(): from the beginning of the log it goes back to the
\* first record.
IteratorPrev(h) ==
    LET p == ToRecord("prev", h)
    IN  IF p.res = "BOF" THEN Move(StepNext(p.at).at, "BOF") ELSE p

\* nlog2_iterator_init()
IteratorInit ==
    IF header.type = "RECORD" THEN Move(header, "EOK")
    ELSE IteratorPrev(header)

----------------------------------------------------------------------------
(* nlog2_init()                                                            *)

\* The header that sector_find_active() reads for it->sector = s: that of the
\* sector before, as the address is computed first.
ReadFor(s) == cell[SectorAddress(IF s = 0 THEN 0 ELSE s - 1)]

\* sector_find_active() stops at these.
ActiveSectors ==
    {s \in Sectors :
        /\ ReadFor(s).type = "SECTOR"
        /\ cell[SectorAddress(SectorNext(s))].type # "SECTOR"}

ActiveSector == CHOOSE s \in ActiveSectors : \A t \in ActiveSectors : s <= t

\* Mutant: takes any header for the next one.
NextForAny(h, n) == n.type \in {"RECORD", "PATCH", "SECTOR"}

\* The loop of nlog2_init() goes on from header h to header n.
NextFor(h, n) == n.type \in {"RECORD", "PATCH"} /\ n.previous = h.this

\* The headers it comes to from h on.
Walked(h) ==
    LET from[w \in Seq(Cells)] ==
            LET n == cell[w[Len(w)].next]
            IN  IF NextFor(w[Len(w)], n) /\ Len(w) <= NoAddr
                THEN from[Append(w, n)] ELSE w
    IN  from[<<h>>]

\* Mutant: the id of the newest record is given again.
IdAgain(k) == IF k = NoId THEN 0 ELSE k

\* plog->id++; 0xFFFFFFFF wraps.
IdAfter(k) == IF k = NoId THEN 0 ELSE k + 1

BeginReset ==
    /\ pc' = "reset_erase"
    /\ op' = "reset"
    /\ i' = 1
    /\ UNCHANGED <<cell, size, crashes>>

\* The log is taken up where the headers end, or reset.
Start ==
    /\ \/ pc = "off"
       \/ pc = "idle" /\ "init" \in Ops
    /\ \/ /\ ActiveSectors = {}
          /\ sector' = SectorCount - 1
          /\ header' = ReadFor(SectorCount - 1)
          /\ UNCHANGED id
          /\ BeginReset
       \/ /\ ActiveSectors # {}
          /\ LET w == Walked(ReadFor(ActiveSector))
                 h == w[Len(w)]
             IN  /\ header' = h
                 /\ id' = IF Len(w) = 1 THEN id ELSE IdAfter(h.id)
                 /\ \/ /\ cell[h.next].type = "EMPTY"
                       /\ sector' = SectorOfAddress(h.this)
                       /\ pc' = "idle"
                       /\ UNCHANGED <<cell, request, crashes>>
                    \/ /\ cell[h.next].type # "EMPTY"
                       /\ sector' = ActiveSector
                       /\ BeginReset

----------------------------------------------------------------------------
(* nlog2_reset()                                                           *)

Return ==
    /\ pc' = "idle"
    /\ op' = "none"
    /\ size' = 0
    /\ i' = 0

Goto(l) == pc' = l /\ UNCHANGED request

Reset ==
    /\ "reset" \in Ops
    /\ pc = "idle"
    /\ BeginReset
    /\ UNCHANGED <<sector, header, id>>

\* Sector 0 is left to sector_init_first().
ResetErase ==
    /\ pc = "reset_erase"
    /\ EraseSector(i)
    /\ \/ /\ i < SectorCount - 1
          /\ i' = i + 1
          /\ UNCHANGED <<sector, pc, op, size>>
       \/ /\ i = SectorCount - 1
          /\ sector' = 0
          /\ Goto("sector_erase")
    /\ UNCHANGED <<header, id, crashes>>

----------------------------------------------------------------------------
(* sector_init_first()                                                     *)

SectorErase ==
    /\ pc = "sector_erase"
    /\ EraseSector(sector)
    /\ Goto("sector_header")
    /\ UNCHANGED <<sector, header, id, crashes>>

\* Mutant: a sector header without the way back.
FirstHeaderAlone ==
    LET this == SectorAddress(sector)
    IN  Header("SECTOR", this, this + 1, this, 0)

\* Mutant: links to the last record of the sector before, and not to its patch.
FirstHeaderToRecord ==
    LET this == SectorAddress(sector)
    IN  Header("SECTOR", this, this + 1,
               IF op = "append" THEN header.this ELSE this, 0)

\* previous: the patch before it, which is at header.next; its own address
\* after a reset.
FirstHeader ==
    LET this == SectorAddress(sector)
    IN  Header("SECTOR", this, this + 1,
               IF op = "append" THEN header.next ELSE this, 0)

SectorHeader ==
    /\ pc = "sector_header"
    /\ WriteHeader(FirstHeader)
    /\ header' = FirstHeader
    \* An append returns E_PARM if even this sector is too small.
    /\ IF op = "append" /\ Available(sector, header') >= size
       THEN Goto("record") ELSE Return
    /\ UNCHANGED <<sector, id, crashes>>

----------------------------------------------------------------------------
(* nlog2_append()                                                          *)

LogAppend(n) ==
    /\ pc = "idle"
    /\ id <= MaxId
    /\ op' = "append"
    /\ size' = n
    /\ pc' = IF Available(sector, header) < n THEN "close" ELSE "record"
    /\ UNCHANGED <<cell, sector, header, id, i, crashes>>

\* sector_init_next(): the flags of the next sector are set CLOSED.
Close ==
    LET next == SectorAddress(SectorNext(sector))
    IN  /\ pc = "close"
        /\ cell' = [cell EXCEPT ![next].type = "CLOSED"]
        /\ Goto("patch")
        /\ UNCHANGED <<sector, header, id, crashes>>

\* sector_init_next(): the link to the next sector.
PatchHeader ==
    Header("PATCH", header.next, SectorAddress(SectorNext(sector)),
           header.this, 0)

Patch ==
    /\ pc = "patch"
    /\ WriteHeader(PatchHeader)
    /\ sector' = SectorNext(sector)
    /\ Goto("sector_erase")
    /\ UNCHANGED <<header, id, crashes>>

\* The header of a record with id k after the newest header.
RecordHeader(k) ==
    Header("RECORD", header.next, header.next + 1 + size, header.this, k)

Record ==
    /\ pc = "record"
    /\ WriteHeader(RecordHeader(id))
    /\ id' = id + 1
    /\ Goto("payload")
    /\ UNCHANGED <<sector, header, crashes>>

Payload ==
    /\ pc = "payload"
    /\ WriteUnits(header.next + 1, size)
    /\ header' = RecordHeader(id - 1)
    /\ Return
    /\ UNCHANGED <<sector, id, crashes>>

----------------------------------------------------------------------------
(* Power failure.  RAM is lost; the FLASH operation in progress is done,   *)
(* not done, or cut in the middle.                                         *)

PowerOff ==
    /\ pc # "off"
    /\ crashes < MaxCrashes
    /\ crashes' = crashes + 1
    /\ pc' = "off"
    /\ op' = "none"
    /\ size' = 0
    /\ i' = 0
    /\ sector' = 0
    /\ header' = Blank
    /\ id' = 0

Crash == PowerOff /\ UNCHANGED cell

CrashInErase ==
    /\ PowerOff
    /\ \/ pc = "reset_erase" /\ CutErase(i)
       \/ pc = "sector_erase" /\ CutErase(sector)

CrashInHeader ==
    /\ PowerOff
    /\ \/ pc = "sector_header" /\ CutHeader(FirstHeader)
       \/ pc = "patch" /\ CutHeader(PatchHeader)
       \/ pc = "record" /\ CutHeader(RecordHeader(id))

CrashInPayload ==
    /\ PowerOff
    /\ pc = "payload"
    /\ \E n \in 1 .. size : WriteUnits(header.next + 1, n)

----------------------------------------------------------------------------
\* A device that is erased or holds another format, sector by sector.
Init ==
    /\ \E other \in SUBSET Sectors :
        cell = [a \in Addrs |-> IF SectorOfAddress(a) \in other THEN Junk
                                ELSE Blank]
    /\ sector = 0
    /\ header = Blank
    /\ id = 0
    /\ pc = "off"
    /\ op = "none"
    /\ size = 0
    /\ i = 0
    /\ crashes = 0
    /\ sizes \in Sizes

Call ==
    \/ \E n \in sizes : LogAppend(n)
    \/ Reset

Step ==
    \/ ResetErase \/ SectorErase \/ SectorHeader
    \/ Close \/ Patch \/ Record \/ Payload

PowerFailure == Crash \/ CrashInErase \/ CrashInHeader \/ CrashInPayload

Next == (Start \/ Call \/ Step \/ PowerFailure) /\ UNCHANGED sizes

Spec == Init /\ [][Next]_vars

----------------------------------------------------------------------------
(* Properties.                                                             *)

\* The records from the newest one back, up to where one would come again.
Backward ==
    LET from[w \in Seq(Cells)] ==
            LET p == IteratorPrev(w[Len(w)])
            IN  IF p.res = "EOK" /\ \A n \in DOMAIN w : w[n].this # p.at.this
                THEN from[Append(w, p.at)] ELSE w
    IN  IF IteratorInit.res = "EOK" THEN from[<<IteratorInit.at>>] ELSE <<>>

RecordAddrs == {a \in Addrs : cell[a].type = "RECORD"}

OneSize == Cardinality(sizes) = 1

\* Going back from the newest record with nlog2_iterator_prev() comes to the
\* beginning of the log and does not go round, after any power failures, if the
\* records have one size.  If they have several it need not end, without any
\* failure, but goes round by one way only: a sector's header still links to the
\* place where the patch before it was, and a record is there now.
WayBackEnds ==
    LET p == IteratorPrev(Backward[Len(Backward)])
    IN  Backward # <<>> /\ p.res = "EOK" =>
            /\ ~OneSize
            /\ \E s \in Sectors : cell[SectorAddress(s)].previous = p.at.this

\* On the way the ids descend by one without a gap, and the next record is given
\* the id after the newest.  A record whose header was cut may have no id; the
\* ids start again after it.
IdsDescend ==
    /\ header.type = "RECORD" => id = IdAfter(Backward[1].id)
    /\ \A n \in DOMAIN Backward \ {1} :
            Backward[n - 1].id \in {IdAfter(Backward[n].id), NoId}

\* The way back from the newest record ends, as WayBackEnds has it, whatever
\* power failures there were; the ids on it descend, as IdsDescend has it, for
\* records of one size after a power failure too.
WalkBackInOrder ==
    pc = "idle" =>
        /\ WayBackEnds
        /\ crashes <= (IF OneSize THEN 1 ELSE 0) => IdsDescend

\* Without power failures the way back reaches every record on FLASH, and the
\* way forward goes from any of them to the next one, up to the newest: changing
\* sectors gives up the records of the oldest sector and no others.
EveryRecordIsReached ==
    pc = "idle" /\ crashes = 0 =>
        /\ RecordAddrs = {Backward[n].this : n \in DOMAIN Backward}
        /\ \A a \in RecordAddrs :
                LET n == IteratorNext(cell[a])
                IN  IF cell[a].id + 1 = id
                    THEN n.res = "EOF" /\ IteratorInit = Move(cell[a], "EOK")
                    ELSE n.res = "EOK" /\ n.at.id = cell[a].id + 1

\* nlog2_init() on a log in use finds what the log is, the place, the newest
\* header and the next id, from FLASH alone; or it resets the log.
ResumesSameLog ==
    [][pc = "idle" /\ Start /\ pc' = "idle" =>
            UNCHANGED <<cell, sector, header, id>>]_vars

Torn(h) == h.id = NoId \/ \E a \in (h.this + 1) .. (h.next - 1) : cell[a] = Blank

\* A power failure leaves at most one record that an iterator finds but that
\* lacks its id or some of its payload.
OneTornPerFailure ==
    pc = "idle" =>
        Cardinality({n \in DOMAIN Backward : Torn(Backward[n])}) <= crashes
=============================================================================
