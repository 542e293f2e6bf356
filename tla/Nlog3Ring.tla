----------------------------- MODULE Nlog3Ring -----------------------------
(***************************************************************************)
(* Nlog3 implements RingLog: the log is what the iterators find on FLASH.  *)
(***************************************************************************)
EXTENDS Nlog3, Sequences

\* The ids of the records from iterator p on, as Move goes from one to the
\* next.
Walk(p, Move(_)) ==
    LET move[q \in Iterators] == Move(q)
        on[w \in Seq(Iterators)] ==
            IF w[Len(w)] = NoIt THEN w ELSE Append(w, move[w[Len(w)]])
        from[n \in 1 .. (SectorCount * Room)] ==
            IF n = 1 THEN <<p>> ELSE on[from[n - 1]]
        ids[w \in Seq(Iterators)] ==
            [n \in {m \in DOMAIN w : w[m] # NoIt} |-> w[n].rec.id]
    IN  ids[from[SectorCount * Room]]

Forward  == Walk(IteratorInitOldest, IteratorNext)
Backward == Walk(IteratorInit, IteratorPrev)

Ring == INSTANCE RingLog WITH
            log    <- Forward,
            next   <- next_id,
            busy   <- op,
            result <- ret

\* The log implements the ring: through appends, sector changes, restarts and
\* power failures in any of their FLASH operations, the records on FLASH are
\* those appended, in order, without a gap; an append that returned EOK has
\* added its record and one that did not has not; only the oldest records are
\* given up.
ImplementsRingLog == Ring!Spec

\* The way back, along the offsets in the records, is the way forth, along the
\* sequence numbers of the sectors, reversed.  Not after a reset of four sectors
\* or more that power has cut: it may leave sectors on both sides of a gap.
WalksAgree ==
    pc = "idle" =>
        /\ Len(Backward) = Len(Forward)
        /\ \A n \in 1 .. Len(Forward) :
                Backward[n] = Forward[Len(Forward) + 1 - n]

\* The newest record is kept: between calls it is there, and a start takes the
\* ids up after it (syslog.c: "the ids carry on from the newest record found at
\* start"), as long as there were fewer failures than sectors besides the
\* staged one: a failure wastes at most one sector.
NewestSurvives ==
    [][crashes' + faults' < SectorCount - 1 =>
          /\ next_id' >= next_id
          /\ pc' = "idle" /\ next_id' > 0 =>
                /\ Forward' # <<>>
                /\ Forward'[Len(Forward')] = next_id' - 1]_vars

\* Capacity: a log that has given up records is as full as it can be, every
\* sector but the staged one holds records or is current (test/syslog_test.c:
\* "a log of N sectors holds N-2 full sectors plus the partial current one"),
\* also after power failures in the middle of a change of sectors.
FullRing ==
    pc = "idle" /\ Forward # <<>> /\ Forward[1] > 0 =>
        Cardinality(ValidSectors) = SectorCount - 1

\* The sector that the iterator is in has not been given a new sequence number.
Fresh(p) == Readable(p.sector) /\ hdr[p.sector].seq = p.seq

\* An iterator kept across appends: as long as its sector is not reused, the
\* next record is the one appended next, also into sectors begun since, and
\* the previous record the one appended before, unless it has been given up.
IteratorsFollowLog ==
    pc = "idle" /\ it # NoIt /\ Fresh(it) =>
        LET n == IteratorNext(it)
            p == IteratorPrev(it)
        IN  /\ IF it.rec.id + 1 = next_id THEN n = NoIt
               ELSE n.rec.id = it.rec.id + 1
            /\ p # NoIt => p.rec.id = it.rec.id - 1
            /\ p = NoIt => \A k \in 1 .. Len(Forward) :
                                Forward[k] # it.rec.id - 1
=============================================================================
