----------------------------- MODULE LogUpgrade -----------------------------
(***************************************************************************)
(* The FLASH region of a log through a change of firmware.  At first nlog2 *)
(* keeps its log there; at some start it is nlog3 that reads what nlog2    *)
(* has left, in whatever state a power failure left that.                  *)
(***************************************************************************)
EXTENDS Nlog3Ring

CONSTANTS
    OldUnits,       \* the sectors of the region, in headers of nlog2
    OldSizes, OldMaxId, OldMaxCrashes, OldOps

VARIABLES
    firmware,       \* the one that runs: "nlog2", then "nlog3"
    \* the variables of Nlog2, blank when nlog3 has the region
    old_cell, old_sector, old_header, old_id, old_pc, old_op, old_size, old_i,
    old_crashes, old_sizes

old_vars == <<old_cell, old_sector, old_header, old_id, old_pc, old_op,
              old_size, old_i, old_crashes, old_sizes>>

Old == INSTANCE Nlog2 WITH
        SectorSize <- OldUnits, Sizes <- OldSizes, MaxId <- OldMaxId,
        MaxCrashes <- OldMaxCrashes, Ops <- OldOps,
        cell <- old_cell, sector <- old_sector, header <- old_header,
        id <- old_id, pc <- old_pc, op <- old_op, size <- old_size,
        i <- old_i, crashes <- old_crashes, sizes <- old_sizes

ASSUME OldConstantsAssumption == Old!ConstantsAssumption

\* nlog3_sector_header_read() of a sector that nlog2 has used: where nlog3 has
\* the state word nlog2 has an address, which is no state.
HeaderRead(s) ==
    LET h == old_cell[Old!SectorAddress(s)]
    IN  IF h.this = Old!NoAddr /\ h.type # "INVALID" THEN NoHeader
        ELSE [state |-> "PENDING", seq |-> 0, ok |-> FALSE]

\* The data area of such a sector, to nlog3.
CellsRead(s) ==
    IF \A a \in Old!SectorUnits(s) : old_cell[a] = Old!Blank THEN Erased
    ELSE [u \in Units |-> Unit("BODY")]

\* The firmware is replaced while the device is off.
Upgrade ==
    /\ firmware = "nlog2"
    /\ old_pc = "off"
    /\ firmware' = "nlog3"
    /\ hdr' = [s \in Sectors |-> HeaderRead(s)]
    /\ cell' = [s \in Sectors |-> CellsRead(s)]
    /\ old_cell' = [a \in Old!Addrs |-> Old!Blank]
    /\ old_crashes' = 0
    /\ old_sizes' = {}
    /\ UNCHANGED <<plog, next_id, pc, request, ret, it, env, old_sector,
                   old_header, old_id, old_pc, old_op, old_size, old_i>>

UpgradeInit ==
    /\ firmware = "nlog2"
    /\ Old!Init
    /\ Init
    /\ hdr = [s \in Sectors |-> NoHeader]

UpgradeNext ==
    \/ firmware = "nlog2" /\ Old!Next /\ UNCHANGED <<vars, firmware>>
    \/ Upgrade
    \/ firmware = "nlog3" /\ (Next \/ Iterate) /\ UNCHANGED <<old_vars, firmware>>

UpgradeSpec == UpgradeInit /\ [][UpgradeNext]_<<vars, old_vars, firmware>>

----------------------------------------------------------------------------
(* Properties of nlog2 that its file states.                               *)

\* nlog2.c: going back from the newest record comes to an end, after any power
\* failures, for records of one size, and for others may go round at one place
\* only; the ids descend on the way.
OldWalkBackInOrder == Old!WalkBackInOrder

\* nlog2.c: without power failures both ways reach every record on FLASH.
OldEveryRecordIsReached == Old!EveryRecordIsReached

\* nlog2.c: an init of a log in use takes it up where it is.
OldResumesSameLog == Old!ResumesSameLog

\* nlog2.c: a power failure tears at most one record.
OldOneTornPerFailure == Old!OneTornPerFailure
=============================================================================
