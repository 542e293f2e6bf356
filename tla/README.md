# TLA+ models of qoraal-flash

qoraal-flash keeps values, counters and logs in NOR FLASH on small devices. This
directory models it in TLA+, checks the models with TLC on small instances and
proves theorems about them, for every instance, with TLAPS.

## 1. The system

| Component | State | Operations | Talks to |
|---|---|---|---|
| **nvol3** `src/nvram/nvol3.c`: a volume of key/value records in two FLASH sectors | FLASH: a header and a row of record slots in each sector. RAM: the lookup table (`dict`), the sector in use, `next_idx`, the counters `inuse`, `invalid`, `error` | `load`, `unload`, `record_set`, `record_get`, `record_delete`, the entry API on cached data (`entry_data`, `entry_save`, `entry_delete`), `repair`, `reset`, `delete`, `validate`, `status` | the FLASH driver; called by registry and tallies, each with its own volume and mutex |
| **registry** `src/registry.c`: typed values under string keys | a mutex, one scratch record, a started flag | `start` (validate, reset if that fails, load), `stop`, `erase`, `repair`, `get`/`set`/`delete` by type, enumeration, blobs, string substitution | nvol3, regenum |
| **regenum** `src/regenum.c`: names for enumerated values | a linked list of types | `register_type`, lookups, next/previous name | used by registry and the shell |
| **tallies** `src/tallies.c`: counters in RAM, persisted in the background | registered blocks, their counters and dirty bits, a periodic task | `init`, `start`, `stop`, `reset`, `register`, `unregister`, `inc`, `add`, `set`, `clear`, getters | nvol3; the service task thread of qoraal |
| **nlog3** `src/nvram/nlog3.c`: an append-only log over a ring of sectors | FLASH: sector headers with a sequence number, records, end markers. RAM: the head sector and its write position, the sector staged next | `init`, `reset`, `append`, iterators (`init`, `init_oldest`, `prev`, `next`, `read`) | the FLASH driver; called by syslog |
| **syslog** `src/syslog.c`: a severity-filtered log | record id, two logs, a mutex | `init`, `start`, `stop`, `reset`, `append`, iterators, `read` | nlog3 |
| **nlog2** `src/nvram/nlog2.c`: the previous log format | FLASH: records linked to their neighbours, a header at the start and a patch at the end of each sector. RAM: the newest header, the next id | `init`, `reset`, `append`, iterators (`init`, `prev`, `next`, `read`) | the FLASH driver; nothing in the library uses it, the tests upgrade from it and roll back to it |
| **shell commands** `src/qshell/` | none | parse arguments, call the API, print | all of the above |
| **platform glue** `src/qoraal.c` | pointers to the application's driver | FLASH read, write, erase; allocation | the driver |

What is hard here is not any single call but what lies between two FLASH
operations. Power can fail between them or in the middle of one; one of several
operations can return an error; a value written in one operation can be the
stale copy of another; a sector fills up in the middle of a call, which then
swaps sectors under the caller's feet; and after every such accident the next
boot has to decide from the FLASH alone what the state was. Tallies adds real
concurrency: counters change on any thread while a background task writes them.

What makes each component correct:

* nvol3: an update is atomic whatever fails, an acknowledged update is durable,
  a deleted record stays deleted, the RAM lookup table is the one a load would
  build, a slot is programmed once between two erases, every call returns.
* nlog3: records come back in the order they were appended, a crash loses at most
  the record being appended and, when the ring wraps, the oldest sector; the
  sequence numbers survive their wrap; an iterator returns a record or an end.
* nlog2: the links of the records lead through the log in order and, for records
  of one size, come to an end, an init finds the log again or resets it, after a crash too.
* tallies: a counter that is not dirty is on FLASH as it is in RAM; what a flush
  covered is never replaced by an older value; no counter shows another's
  history; every count reaches FLASH.
* syslog: ids increase, a filtered message costs nothing, both logs recover.
* registry and regenum: a value read back has the type and bytes it was set
  with; enumeration visits every key once; lookups invert each other.

The hazards, each at its line of code, are the list `hazards` of `PROJECT.json`.

## 2. Plan

The most important behaviour first; what stands on a component takes it as its
abstract specification promises it.

1. **Nvol3**: the record volume, everything else but the log stands on it. The
   abstract store it implements is `KVStore`, the refinement `Nvol3KV`.
2. **Nlog3**: the log. The abstract ring it implements is `RingLog`, the
   refinement `Nlog3Ring`.
3. **Tallies**: the counters and their threads, over a volume that behaves as
   `KVStore` says.
4. **Syslog**: the system log and its threads, over a log as `RingLog` and the
   staged sector of nlog3 let an iterator see it.
5. **Registry** over **Regenum**: typed values and the commands of the shell, over
   a volume that behaves as `KVStore` says.
6. **Nlog2**: the older log, whose links are what nlog3 replaced, and **LogUpgrade**:
   the region of a device that changes from one to the other.
7. Proofs: `Nvol3Proofs`, `Nvol3StoreProofs`, `Nvol3KVProofs`, `TalliesProofs`,
   `RegistryProofs`, `SyslogProofs`, `Nlog3Proofs`, `Nlog3RingProofs`.

## 3. The record volume

### Modules

* `Nvol3.tla`: the volume. `hdr`, `ver`, `slot` are the FLASH; `sector`,
  `next_idx`, `idx`, `cache`, `stat` the instance of `nvol3.h`; `pc`, `op`,
  `key`, `val`, `ret`, `todo`, `src_idx`, `dst_idx` the call in progress with
  its locals; `crashes` and `faults` bound the environment.
* `KVStore.tla`: what a volume promises, a map on which every operation is atomic.
* `Nvol3KV.tla`: the refinement. The map is `Stored`, what a boot would find on
  FLASH as it is now; an answer is `RecordGet`, what `nvol3_record_get()` returns.
* `MCNvol3.tla`: the instances TLC checks, with symmetry in keys and data (they
  are only compared for equality; the run with a liveness property does not use it).
* `Nvol3Proofs.tla`, `Nvol3StoreProofs.tla`, `Nvol3KVProofs.tla`: the theorems.

### Steps

One action is one FLASH operation with the computation around it, so the state
between any two FLASH operations is a state of the model, and a power failure
can follow each. `Crash` cuts the power between two operations, `CrashInWrite`,
`CrashInHeader` and `CrashInErase` inside one.

| Code | Actions |
|---|---|
| `nvol3_record_set`, `nvol3_entry_save`, `record_set` | `RecordSet`, `EntrySave`, `RecordSetCheck`, `RecordSetWrite`, `RecordSetMarkBad`, `RecordSetValid`, `RecordSetMarkOld` |
| `nvol3_entry_data` and the caller's write through it | `EntryData` |
| `nvol3_record_delete`, `nvol3_entry_delete` | `RecordDelete`, `RecordDeleteMark` |
| `swap_sectors` | `SwapErase`, `SwapInit`, `SwapCopy`, `SwapValid`, `EraseSource` |
| `move_sector`, `nvol3_repair` | `Repair`, `MoveErase`, `MoveInit`, `MoveEnd`, `MoveSkip`, `MoveCopy`, `MoveMark`, `MoveValid`, `Rebuild`, `EraseSource` |
| `nvol3_reset`, `nvol3_delete` | `Reset`, `Reset1`, `Reset2`, then the load |
| `registry_start`, `nvol3_validate`, `nvol3_load`, `init_sectors`, `construct_lookup_table` | `Boot`, `Load`, `InitUnknown`, `InitSectors`, `InitErase`, `FormatErase`, `FormatValid`, `Construct` |
| `nvol3_unload` | `Unload` |

### What the model assumes

* One call at a time: `registry.c` holds its mutex around every call.
* A record flag is two bytes programmed at once. A header is two such words,
  flags and version, and power may fail between them (`torn_header`).
* An interrupted erase disturbs the header first, so that its flags read as
  neither erased nor known. A sector of several pages may also lose power
  between the page of the header and the others (`torn_erase`).
* A record write that fails or is cut leaves nothing, or a record whose checksum
  does not match; the checksum finds every such record. A length that cannot be
  is the same to the load as a checksum that does not match, and has no state of
  its own. A flag write, header
  write or erase that returns an error has changed nothing.
* `construct_lookup_table()` is one step. It only reads, apart from marking bad
  records INVALID, and marking one again is harmless.
* Reads do not fail and memory does not run out. `E_NOMEM` is reported before
  FLASH is touched everywhere but in the load.
* The order in which the hash table is walked is unknown: `SwapCopy` takes any
  entry not copied yet.
* A partly cached volume behaves as `Cached = FALSE`: its cached prefix is
  refreshed by `insert_lookup_table()` and never the only copy.
* The `write_cb` hook of the entry API is not modelled.

### Runs

| Run | Properties | What it shows |
|---|---|---|
| `nvol3_crash` | `ImplementsKVStore`, `OperationsReturn` | through two power failures anywhere, in writes, swaps, moves, resets and boots, the volume implements the atomic map, and every call and boot returns |
| `nvol3_cached` | `TypeInv`, `ErasedInv`, `WriteOnce`, `UpdatesAreAtomic`, `SetIsDurable` | on a fully cached volume, where a swap copies from RAM, with pending changes, a failing write, flag write or erase and a power failure: the invariants of the proofs, the FLASH discipline, atomic and durable updates |
| `nvol3_deletes` | `LookupTableSound`, `StatusIsExact`, `DeleteIsDurable`, `OneRecordPerFault` | without power failures, deleted stays deleted, the status counters are exact, and a failing write, also in a move, loses one record and not the tail |
| `nvol3_delete_crash` | `DeleteIsDurable`, violated | a power failure between "new VALID" and "old INVALID" leaves two VALID records; deleting the key then invalidates one, and the other comes back on the next load |

### Observations

The passing runs leave out five kinds of FLASH failure under which a property
does not hold. Each shows when the kind is put into `Faults` of a run with
`Ops = {"record_set"}`:

* `Faults = {"header"}`, `LookupTableSound`: when the VALID header at the end of
  a swap fails, `swap_sectors()` returns (nvol3.c:1876) with every `entry->idx`
  already a slot of the destination and `instance->sector` still the source. The
  ignored header write of a format (nvol3.c:1963) breaks `SetIsDurable`.
* `Faults = {"erase_src"}`, `SetIsDurable`: when the erase of the source fails after
  a swap from sector 1 to 2 (nvol3.c:1913), both sectors are VALID; the volume
  goes on in sector 2, and the next boot erases sector 2 and takes sector 1.
* `Faults = {"torn_erase"}`, `WriteOnce`: a power cut between the pages of an
  erase, with the page of the header erased, leaves old records behind a header
  that reads as erased; the next swap skips the erase (nvol3.c:1797) and
  programs over them.
* `Faults = {"torn_header"}`, `UpdatesAreAtomic`: a power cut between the flags
  and the version of a header makes `nvol3_validate()` return `E_VERSION`
  (nvol3.c:184) and `registry_start()` reset the volume.
* `Faults = {"write", "flag"}` with `MaxFaults = 2`, three keys and `repair`,
  `OneRecordPerFault`: a failed write that could not be marked either is a hole;
  a load scans past it (nvol3.c:1560), `move_sector()` stops at it (nvol3.c:1673)
  and loses every record behind it.

### Bounds

Two keys, two values and four slots with a headroom of one: a sector takes both
keys and two updates, so updates, duplicates after a crash, full volumes, swaps
in both directions, moves during a boot and swaps inside a write all happen
within one sector's length. Three keys where the question is how many records
are lost. Two power failures, because the second can hit the recovery from the
first. One FLASH failure (two where the hazard needs two). There is no bound on
the number of operations: the state space is finite without one.

### Fairness

`FairSpec` assumes weak fairness of `Boot` (the device is switched on again) and
of `Step`, the steps of a call in progress: the calling thread keeps running,
holding the mutex, and no step waits for another thread. Nothing is assumed of
the caller or of power failures.

### Theorems

For every set of keys and values, every sector size and headroom and every
number of failures:

* `TypeCorrect` (`Nvol3Proofs`): `Spec => []TypeInv`. `TypeOK` is not inductive:
  that `next_idx` stays in range needs to know where in a call it is
  incremented, hence `ControlInv` (which operation runs at which `pc`) and
  `CursorInv` (how far the cursors of a copy can be: `move_sector()` never has
  more records in the destination than it has read from the source).
* `ErasedWhereTold` (`Nvol3Proofs`): unless a header write fails or an
  erase is cut between pages, `Spec => []ErasedInv`: the sector in use is erased
  from `next_idx` on, a destination from `dst_idx` on. `TailInv` says so;
  `HeaderInv` is needed because a swap skips the erase when a header reads
  EMPTY; `BlankInv` because a load takes a slot with EMPTY flags to be erased;
  `EntryInv` because an update marks the slot its lookup entry names, which must
  lie before the tail.
* `RecordsWrittenOnce` (`Nvol3Proofs`): under the same assumption,
  `Spec => WriteOnce`, from `ErasedInv`. The two excluded failures are
  needed: see the observations on `header` and `torn_erase`.
* `SetDurable` (`Nvol3StoreProofs`): if only record writes and flag writes fail, and
  power at any point but inside a header or between the pages of an erase
  (`RecordFaults`), `Spec => SetIsDurable`. What a boot finds depends on the headers
  of both sectors and on the newest record of the key, so the invariant has two
  parts. `HeadersInv` says which headers go with each step: one sector is VALID
  unless there is no volume, so `nvol3_validate()` accepts it and a load never has
  to repair. `TableInv` says that a lookup entry names the newest live record of
  its key, in the destination too once it is copied; without it a set that finds
  the value unchanged, and returns EOK without writing, could have looked at an
  old record. Erases, header writes and `torn_header` are excluded because the
  observations above show that the property fails, or the volume is reset, then;
  a failing erase without `erase_src` is model-checked (`nvol3_cached`).
* `TableIsSound`, `DeleteDurable` (`Nvol3StoreProofs`): `Spec =>
  []LookupTableSound` and `Spec => DeleteIsDurable`. `TableInv` says what an entry
  names; `StrayInv` adds that a key without an entry has no live record. A deletion
  keeps that only if the record it marks is the last live one of its key, which
  fails after a power failure between a new record and the marking of the old one
  (run `nvol3_delete_crash`), and after a flag write that failed there, whose result
  the code ignores. So with deletions the two theorems assume `NoLeftovers`: only
  record writes fail, and power does not. `TableIsSound` holds under `RecordFaults`
  if the caller does not delete (`TableUse` is either). `SoleInv` is the invariant
  for deletions: `SoleInUse`, a VALID sector has one live record of each key, but
  for the key being replaced, which has exactly the two that the step in progress
  names; `SoleCopied`, so has the destination of a copy; `SoleSwapped`, an entry
  that a swap has not reached has nothing in the destination; `SoleMoved`, a move
  has passed every source record of a key that the destination has.
* `StatusCorrect` (`Nvol3StoreProofs`): under `NoLeftovers`, `Spec =>
  []StatusIsExact`. The counters are adjusted at each flag write, so they follow
  the flags (`CountInv`) as long as the slot that is counted exists: a write that is
  refused at the end of the sector counts a record that is not there. That a write
  always finds a slot is the larger part of the proof (`RoomInv`). `LimitInv`: a
  sector has records of at most `max_records() - NVOL3_HEADROOM` keys, since a write
  tests the entries and the entries are the keys. A sector of sole records
  (`SoleInv`) with a slot more than it has keys has a slot that is not live, by the
  pigeonhole principle, so a copy frees at least one: `FillInv`, a swap writes one
  slot for each entry; `GapInv`, a move falls behind its scan once it has passed a
  slot that is not live, also if a write fails and the slot is marked. This is where
  `Headroom > 0` is needed.
* `AtomicUpdates`, `ImplementsKV` (`Nvol3KVProofs`): if only flag writes fail, and
  power as before, and the caller neither deletes records nor changes cached data
  in place (`AtomicUse`), `Spec => UpdatesAreAtomic` and `Spec =>
  ImplementsKVStore`. Outside it the atomic map is not what the code promises: a
  record write that fails in a move loses the record (`OneLossPerFault` says how
  much), a deleted record can come back, and a swap stores the pending changes of
  other keys.

  The map of a step is `Value`, read off the two sectors directly: sector 1 if
  it is VALID, else sector 2. `StoredSame` says that a boot finds the same. Each
  step keeps `Value`, or is the one FLASH write that commits the operation
  (`ValueStep`): the VALID flag of the new record, or an erase that a reset asked
  for. This takes an invariant of each phase of a copy (`CopyInv`). `ExactInv`:
  between operations table and cache agree with the newest records, and a key
  without an entry has none. `CopiedInv`: in a swap, each key copied has its value
  in the destination and each other key nothing there. `MovedInv`: in a move,
  the destination has the values of the slots read so far, so that of two VALID
  records of a key the newer one wins again. `FilledInv`: the used slots of a
  sector are its first ones, so the scan of a move, which ends at the first
  erased slot, misses none. `TwinInv`: while both headers say VALID, both sectors
  have the same values, so it does not matter which one a boot takes. `ResetInv`
  keeps a boot from erasing a volume that has a VALID sector, and a reset from
  returning while a value is left. `KVSteps` then maps each step to `Start`, `Commit`,
  `Finish`, `Maintain`, `PowerFailure` or a stutter of `KVStore`.
* `OneLossPerFault` (`Nvol3KVProofs`): if only record writes fail, and power as
  before, and the caller deletes records only where power does not fail
  (`LossUse`), `Spec => OneRecordPerFault`. The restriction on deletions is needed:
  of a key whose previous record a power failure left VALID, that record outlives
  the deletion until the next swap, which copies entries and drops it. A flag write
  that fails is excluded since it can leave the hole described above. What a step
  loses is again read off `Value`; the invariant (`LossInv`) says what a copy has
  when its header becomes VALID, and which sector a boot finds. `SwapKept`: in a
  swap each key of the source has an entry that is still to be copied, naming a
  live record, or is in the destination. `MoveKept`: in a move, of the keys read so
  far at most `faults` are missing from the destination; a write that fails adds
  one to both sides, and this still holds for the two VALID sectors until the
  source is erased. `PackedInv`: the used slots of a sector are its first ones,
  through the writes that fail too, because each such slot is marked before the next
  is written, so a move misses no tail. `BootKept`: a boot erases the sector it
  would not choose, or a volume with no VALID sector. `ValuesInv` makes "has a live
  record" and "has a value" the same. Every other step programs or marks one slot
  that is not live, or one whose key has another live record (`Touch`), which
  loses nothing.

Only model-checked: the liveness property (the prover has no rule for fairness),
and the safety properties under the failures that the assumptions above
leave out.

## 4. The log

### Modules

* `Nlog3.tla`: the log. `hdr`, `cell` are the FLASH, sector headers and data
  areas; the fields of `NLOG3_T` keep their names; `pc`, `op`, `size`, `then`, `i`,
  `ret` are the call in progress; `it` is one iterator of the caller's;
  `next_id` is `_syslog_id`.
* `RingLog.tla`: what the log promises: a sequence of records that grows at one
  end by appends and loses whole runs of the oldest at the other.
* `Nlog3Ring.tla`: the refinement. The sequence is what `nlog3_iterator_init_oldest()` and then
  `nlog3_iterator_next()` return from the FLASH as it
  is now.
* `MCNlog3.tla`: the instances TLC checks; `nlog3_keep` is one of `LogUpgrade` below.

### Steps

| Code | Actions |
|---|---|
| `nlog3_init` with its recovery, `syslog_start` | `Start`; then staging or a reset |
| `nlog3_append` | `LogAppend`, `EndMarker`, `Record`, `Commit` |
| `nlog3_stage_sector` | `StageErase`, `StageHeader`, `StageCommit` |
| `nlog3_advance_sector`, `nlog3_sector_init` | `SectorErase`, `SectorHeader`, `SectorCommit` |
| `nlog3_reset`, `syslog_reset` | `Reset`, `ResetErase` |
| `nlog3_iterator_init`, `_init_oldest`, `_prev`, `_next`, `_syslog_iterator_step` | `MoveNewest`, `MoveOldest`, `MovePrev`, `MoveNext`; not part of `Next`, added to it in `LogUpgrade` |

### What the model assumes

* One call at a time, under the mutex of syslog; a log whose `nlog3_init()`
  failed is not used. The FLASH may at first hold a log of another format.
* Sizes and addresses are in units of `NLOG3_LOG_RECORD_ALIGN`. A record of one
  unit stands for a header without payload, the payload is not modelled.
* The pending header of a sector is one write; cut by a power failure it does not
  pass its checksum. A state word that is none of the known ones counts as
  PENDING, as for `nlog3_sector_header_read()` and `nlog3_record_read()`. A word
  is programmed at once, unless `Faults` has `torn_word`.
* Header and payload of a record are one step. When it fails or is cut it leaves
  nothing, or a record that stays PENDING. A state word write or erase that
  returns an error changed nothing, or left the word or the header unreadable.
* Reads do not fail; `E_NOTRDY` and `E_PARM` are not reached by syslog.
* Sequence numbers are modulo `SeqMod` in place of 2^32. The order of two is
  decided by the sign of their difference, as in `nlog3_seq_after()`; it is
  enough that `SeqMod` is more than twice the number of sectors.

### Runs

| Run | Properties | What it shows |
|---|---|---|
| `nlog3_ring` | `TypeInv`, `WalksAgree`, `WriteOnce`, `ImplementsRingLog`, `OperationsReturn` | with a failing write or erase, a power failure, resets that it may cut and the next start repeats, and sequence numbers that wrap: the log is the ring, walking back and walking forth give the same records (for resets: with three sectors), no unit is programmed twice, every call returns |
| `nlog3_keep` | `FullRing`, `IteratorsFollowLog`, `NewestSurvives`, `OldWalkBackInOrder`, `OldEveryRecordIsReached`, `OldOneTornPerFailure`, `OldResumesSameLog` | nlog2, then nlog3 in the region, each with two power failures anywhere. nlog3, on four sectors: the newest record and its id survive, all sectors but the staged one hold records, an iterator kept across appends follows the log. nlog2, with records of one size and of two: the way back ends for one size, and for two goes round by a single kind of link; the ids descend on it; no record is lost but those of the oldest sector; both ways go over all records; a failure leaves one incomplete record at most; an init finds the log as it is or resets it |
| `nlog3_torn_word` | `NewestSurvives`, violated | a power cut between the two bytes of STAGED over PENDING: the first byte makes the word VALID, so the empty sector is the newest one, and the start stages the sector with the records |

### Bounds

Sectors of two units and records of one or two: a record that fits exactly, one
that leaves room for an end marker, one that has to go to the next sector.
Three sectors, the least `nlog3_log_valid()` allows, are the hard case, as the
sector after the staged one is the current one; four where the question is what
is kept between them. `SeqMod` is 7 in `nlog3_ring`, so that the sequence numbers
wrap around within its records. `MaxId` bounds the records appended, enough to
go round the ring and into it again. An erase that fails inside a reset is a kind of
its own, `Faults = {"reset"}`, that no run has: what the log is then no document
says, and `ImplementsRingLog` fails for it. Nothing else is bounded.

### Fairness

`FairSpec` is weak fairness of the steps of a call in progress, and of `Start`:
the device is switched on again. Nothing is assumed of the caller.

### The older log, and the upgrade from it

`Nlog2.tla` is the log of `src/nvram/nlog2.c`. `cell` is the FLASH, a unit for each
header; `sector`, `header` and `id` are the write iterator and the id in `NLOG2_T`;
`pc`, `op`, `size`, `i` are the call in progress. An iterator is a copy of a header
and has no effects, so iterators are operators (`IteratorInit`, `IteratorPrev`,
`IteratorNext`), evaluated in every idle state.

| Code | Actions |
|---|---|
| `nlog2_init`, `sector_find_active` | `Start`; then idle, or the steps of a reset |
| `nlog2_reset`, `sector_init_first` | `Reset`, `ResetErase`, `SectorErase`, `SectorHeader` |
| `nlog2_append`, `sector_init_next` | `LogAppend`, `Close`, `Patch`, `SectorErase`, `SectorHeader`, `Record`, `Payload` |

`LogUpgrade.tla` (instance `MCLogUpgrade.tla`) composes the two formats over the
life of a device, as `test_upgrade_from_nlog2` has it: nlog2 keeps its log in the
region; at some start (`Upgrade`, while the power is off, perhaps in the middle of
an append, a change of sectors or a reset) it is nlog3 that reads what is left.
`HeaderRead` and `CellsRead` are what nlog3 makes of it: where its headers have the
state word nlog2 has an address, which is no state. From then on the steps are
those of `Nlog3`, with all properties of its run. The way back
(`test_rollback_to_nlog2`) is `Init` of `Nlog2`, where any sectors may hold data of
another format.

What the model assumes: one caller; payloads are whole units, at least one, and
read as headers they are INVALID, as is data of another format, whose words are
no addresses of the region; operations of the driver do not fail (the code
ignores their results), but power can fail between and in them. A header that is
cut has its links and no flags, flags and no record type, or all but its id. An
erase that is cut disturbs the header of the sector first.

Bounds: four sectors of six units, so that a sector holds two records of one unit
or one of two, and its patch; `OldMaxId` lets the log go round the ring and into it
again; two power failures for each of the two firmwares. `sizes` is the set of sizes
that an application uses, chosen from `OldSizes` in the first state: one size, or two.
A size that no sector has room for is left out for the time it takes: TLC passes
`OldSizes = {{1}, {1, 2, 4}}` with one power failure as well. There is no liveness
property of nlog2, whose calls are loops over counters.

What the model showed of this log:

* With records of different sizes, or after refused appends, the way back need not
  end, without any failure: the oldest sector's header links to the old place of a
  patch in a sector used again, where a new record may be, and `_iterator_prev()`
  (nlog2.c:547) does not test that the record there leads on to where it came from.
  `OldWalkBackInOrder` has it that this is the only way round, and
  `OldEveryRecordIsReached` that every record has been seen before, if nothing
  failed. With records of one size that place is blank or a patch, and the way back
  ends. One mutant of the property links a sector to the last record before it in
  place of the patch: then it goes round with one size, too. The
  other gives an id twice.
* The order of the ids on the way back is checked without failures for all sizes,
  and after one failure for one size (`IdsDescend` in `OldWalkBackInOrder`). A power failure between two
  erases of a reset leaves a first sector that links to the old place of a patch; with
  different sizes a newer record may be there, and the ids do not descend.
* `nlog2_init()` takes up only a log that is in its first sector: its walk stops
  at the header of a second one and resets the log. `ResumesSameLog` leaves that
  choice open.
* A patch has id 0. A start that ends at one, after a power failure between the
  erase of a sector and its header, begins the ids at 1 again; the next append
  then begins a sector that does not link back. After a reset that power cut
  short, and a second failure, ids can start at 0 over older records.
* A power failure inside the header of a record can leave a record with id
  0xFFFFFFFF; the ids start at 0 after it.
* With different sizes a record may be programmed over the beginning of a longer
  one that power cut off.

### Theorems

For every number and size of sectors, set of record sizes and number of failures
and power failures (`Nlog3Proofs`):

* `TypeCorrect`: `Spec => []TypeInv`. `TypeOK` is not inductive: that a record ends
  inside its sector needs to know where the room was checked and which steps can
  come between the check and the write (`ControlInv`, `CursorInv`), and that the
  offset and the id a start reads from FLASH are in range needs the types of
  whatever is there.
* `RecordsWrittenOnce`: `Spec => WriteOnce`, with every kind of failure in `Faults`,
  also those no run has. It rests on `BlankInv`: in a valid sector a unit that
  looks erased is erased, with all that follows (`Sound`); an open sector is
  erased from `write_addr` on, and written up to there if it is a valid one
  (`Ready`); and a sector being initialised or staged stays erased until its header
  is done. `Sound` is what makes `nlog3_init()` right to write where its scan met an
  EMPTY state word (lemma `ScanWritten`): the state word of a record goes first, so
  a record that was cut leaves none. That `Ready` asks for less in a sector that is
  not valid is for resets that fail halfway, which leave the writer in a sector
  that was erased under it; and a word torn to VALID (`torn_word`) makes only an
  erased sector valid.

What the log is (`Nlog3RingProofs`), for every number and size of sectors, set of
record sizes, number of power failures and of failing writes and erases, under
`Plain`:

* `WalksAreOneLog`: `Spec => []WalksAgree`.
* `ImplementsRing`: `Spec => ImplementsRingLog`, the refinement of `RingLog`.
* `RingStaysFull`: `Spec => []FullRing`, where no operation fails (`Faults = {}`;
  otherwise a call can end between giving up a sector and beginning it).
* `NewestIsKept`: `Spec => NewestSurvives`.

`Plain` says:

* the caller does not call `nlog3_reset()`. What a reset leaves that power cuts is
  no ring, see below;
* a state word is programmed at once: run `nlog3_torn_word` shows what is lost when
  it is not;
* `2 * SectorCount + MaxFaults < SeqMod`: sequence numbers go round more slowly than
  what is compared is old. In the code there are 2^32 of them.

The invariant is `RingInv`, or rather its part `LogAt`, which says what is on FLASH
without reference to the writer, in five parts. `RingAt`: the valid sectors are the
current one and some before it, without a gap, numbered one after the other.
`RunsAt`: each has a run of records with ids one after the other that goes on where
that of the sector before it ended. `LinksAt`: what a record has as the place of the
record before it is the place of that record if it is there, and of no other; the
latter because the place is not further back than the sequence numbers tell apart.
`NewestAt`: the last record is there unless no record is. `FullAt`: either all
sectors but one are in use or nothing has been given up. `Cursor` says that the
writer is at the end of it, and `Progress` what the call in progress has done.

Three things can happen to such a log: a record is added (`AddRecord`), a sector is
begun (`AddSector`), the oldest sector is given up (`DropOldest`); every step of the
program is one of them or leaves the log alone. The searches and iterators are
functions in the model, so what they find in such a log is shown by an induction over
the number of steps, as the least step that goes wrong (`Loop`): `NewestIs`,
`SectorAfterIs`, `RecoverIs`, `WalkIs`, `ForwardIs`, `BackwardIs`.

`NewestIsKept` needs to count: the newest record is at most as many sectors before the
current one as there have been failures (`NewestInv`), one more while an append has
begun a sector for its record, since each failure wastes at most one sector; and the
sector that is given up is the one `SectorCount - 1` before the current one.

Of nlog3 only model-checked: the liveness property, as all liveness; these four
properties with resets (run `nlog3_ring`, on three sectors); and `IteratorsFollowLog`.
The last is no theorem of `Spec`, where nobody keeps an iterator, and with the
iterators of `LogUpgrade` it is true only as long as a sector that has been used again
cannot have the sequence number it had: a bound on `MaxId` by `SeqMod` that says more
about the model than about the code. Nlog2 and the upgrade are model-checked only:
what its properties speak of, the headers that a walk comes to, are recursive
functions on sequences, and showing what such a function returns is induction over
data, which the provers do not have.

#### A reset that power cuts

`nlog3_reset()` erases the sectors from 2 on in the order of their indices, then
sector 0, and leaves sector 1 to the staging that follows. Power that fails in
between leaves one of two things that are not a ring, and the next start takes up
what it finds:

* with four sectors or more, sectors on both sides of those erased. Then the way
  forth, along the sequence numbers, passes the gap and the way back, along the
  places in the records, ends at it: `WalksAgree` does not hold (TLC shows it with
  `SectorCount = 4`, `Room = 1`, `Sizes = {1}`, `SeqMod = 16`, one power failure). With
  three sectors there is no room for a gap, which is why `nlog3_ring` has it
  hold. No document promises either. `RingLog` allows for it: what a reset that
  stops halfway leaves is any part of the log in order (`Remains`);
* sector 0 begun with sequence number 0 and sector 1 with its old number and records.
  The old sector is then the newest one if its number is after 0: the log goes on
  after its records, and sector 0 is part of the ring by its place and not by its
  number, without records, until it is staged.

## 5. The counters

### Modules

`Tallies.tla` and its instances `MCTallies.tla`. The blocks are the intrusive list
`head`, `next`, with `base`, `entry`, `dirty` as in `TALLIES_BLOCK_T`; `vol` and
`dict` the volume; `started`, `scratch`, `record`, `volume`, `scheduled` the
statics of `tallies.c` with `volume` the holder of `_tallies_volume`. `total`, `owed`
and `kept` are history, which the properties use and no step reads: what was
counted, what a flush in progress has to store, what completed flushes stored.

### Threads and steps

Two threads have a `pc`: `life`, which makes the lifecycle and registration calls
one after the other (tallies.h:65), and `task`, the service task. Counting happens
on any number of other threads, each count one step.

| Code | Actions |
|---|---|
| `tallies_add`, `tallies_inc` | `Add` |
| `tallies_set`, `tallies_clear` | `Set` |
| `tallies_persist_bounded`, `entry_write` | `PassLock`, `PassBlock`, `PassEntry`, `PassWrite`, `PassFail`, by either thread |
| `tallies_cb` | `TaskRun`, the pass, `TaskEnd` |
| `tallies_start` | `Start`, `StartVolume`, the load, `StartDone` |
| `block_load` | `LoadBlock`, `LoadZero`, `LoadGet`, `LoadPut` |
| `tallies_stop` | `Stop`, `StopCancel`, the pass, `StopUnload` |
| `tallies_reset` | `Reset`, `ResetVolume`, `ResetZero`, the pass |
| `tallies_register`, `tallies_unregister` | `Register`, `RegisterLoad`, the load; `Unregister` |

### What the model assumes

* A section under the value mutex is one step: it is never held across another
  lock or a FLASH access. The readiness check before it belongs to the step.
* A call of nvol3 is one step that succeeds or fails without effect, which is
  what `KVStore` says and section 3 checks. A failed load loses the volume
  (`nvol3_reset`), which may then be available or not.
* `svc_tasks_cancel_wait()` may time out at any time, so a running pass can outlast
  it. When the task runs next is not modelled, so the intervals and `remaining`,
  which chooses one, are left out: a scheduled task may run at any time.
* `tallies_init()` has been called; memory does not run out.
* The stores of `tallies_unregister()`, without a lock, are one step.
* Every block has `Count` counters. A stored name is the counter it belongs to,
  so names of two counters are never equal.
* A local variable is reset when the code is done with it, which only keeps the
  state space small.

### Runs

| Run | Properties | What it shows |
|---|---|---|
| `tallies_flush` | `TypeInv`, `CleanIsStored`, `FlushIsDurable` | counting, setting, flushes, stops, restarts and resets against the task, a failing write or load, a power failure: a clean counter is on FLASH, a completed flush is never undone |
| `tallies_blocks` | `NoInheritance`, `CountsReachFlash` | blocks that come and go at shared and overlapping ids: no counter shows another's counts, and every count reaches FLASH |
| `tallies_late` | `FlushIsDurable`, violated | a block registered while the store runs can be written by the task before its history is loaded |

`FlushIsDurable` is about ids and not about blocks, since a block may come back.
A `Set`, a reset, a failed write and the registration of another block at an id
take the promise for it back.

### Observations

The model shows three more losses that no run records, as no property tells them
from what the calls are for:

* `block_load()` zeroes a counter before it reads the stored value and replaces it
  by that, so counts made before `tallies_start()` or during it are dropped
  (tallies.c:195, 234).
* `tallies_reset()` zeroes the counters after the erase and drops what was counted
  in between, where tallies.c:513 says that it goes out with the zeros.
* `tallies_unregister()` while the task is in the block makes it store the entry
  under an id from `TALLIES_BASE_NONE` up (tallies.c:270), in a record that nothing
  reads or deletes.

### Bounds

One block of two counters, so that a pass bounded to one write leaves one for
the next, and a flush can overtake a pass in every place; two blocks of one
counter at two ids for what registration does. Three counts per counter are
enough for "stored, counted again, overwritten with less".

### Fairness

`FairSpec` is strong fairness of the steps of the lifecycle thread and of the
task. Strong, because a step may have to wait for the volume mutex, which is
free again and again; the RTOS gives a mutex to a thread that waits for it. It
includes that a scheduled task runs in the end. Nothing is assumed of the calls,
of counting or of power failures.

### Theorems

For every set of blocks and ids, every number of counters, bound of a pass and
number of failures (`TalliesProofs`):

* `TypeCorrect`: `Spec => []TypeInv`. Types alone are not inductive: that the
  loops do not leave their block needs `CursorInv`, that a pass does not write
  more than it may needs the count of its writes at `pass_write`, that ids are in
  range needs `BaseInv`. `MutexInv`, at most one thread in the volume, is part of it.
* `CountsOfItsOwn`: `Spec => []NoInheritance`, from `TypeInv` and `CountInv`. A
  counter takes its value from the scratch record, so the record must still be
  the one that was read: `CountInv` says so, and it is inductive because of
  `MutexInv`: while the lifecycle thread is between the read and the handover,
  no pass of the task can write the scratch record.

* `CleanCorrect`: `Spec => []CleanIsStored`. `StoredInv` says it
  in the middle of a call too, for the counters that the load in progress has come
  past (`Loaded`) and that no pass has claimed. Why a pass stores the right value:
  `WriteInv`, which compares what it claimed with a counter that may have been
  counted up, taken off the list and registered elsewhere since. Why a load or a
  pass spares the records of other counters: `OwnInv`, an id is one registered
  counter's. Why a start loads every block: `ListInv`. That a block is on the list is
  said without counting steps: it is in every set that holds the head and the
  successor of each member (`Reaches`), and that the list ends: every set of blocks
  has a member whose successor is not in it. `CallInv` says that the volume is only
  loaded while the store runs, starts or stops, so that a block registered before the
  start is loaded by it.

* `FlushDurable`: `RegisteredFirst` implies
  `Spec => []FlushIsDurable`. `RegisteredFirst`, no block is registered while the store
  runs, is needed: run `tallies_late` shows the loss without it. Two invariants carry
  the argument. `OwedInv` is about a flush in progress: what it owes a counter is in
  the record of that counter, or in the scratch record of the pass that has claimed it,
  or the counter is dirty and the flush still has to come to it (`Ahead`), or a failed
  write is about to make it so. That a pass of the task may claim the counter at any
  moment is why the first two are needed; that the flush finds every registered
  counter rests on `ListInv`; and that nothing is owed that is neither dirty nor stored
  when the call begins is `StoredInv`, the invariant of `CleanCorrect`. `KeptInv` is
  about completed flushes: what they covered of an id is not more than what is stored
  there, under the name of the counter registered there, nor than that counter's value
  once it is loaded, nor than what a pass is about to write. It is not inductive without
  `FirstInv`, that no load runs beside a task that could claim the zeros it starts
  from.

Only model-checked: the liveness property.

## 6. The system log

### Modules

`Syslog.tla` and its instance `MCSyslog.tla`. `instance`, `cnt`, `id`, `mutex` and
`buffer` are the statics of `syslog.c`; `log` holds the records of each nlog3 that
can be read, `given` how many of the oldest lie in the staged sector, where an
iterator can still be but a new one does not start. `seen` is history: the ids an
iterator has stood on since it was made.

### Threads and steps

Writers append, readers iterate, the owner starts, resets and stops. Each has a
`pc`: a call tests whether its log is in service, waits for the mutex, works and
gives it back.

| Code | Actions |
|---|---|
| `syslog_append`, `syslog_vappend_fmtstr`, `_syslog_write` | `SyslogAppend`, `Lock`, `Format`, `Write`, `Unlock` |
| `syslog_iterator_init`, `syslog_platform_it_create` | `IteratorInit`, `PlatformItCreate`, `FindNewest` |
| `syslog_iterator_prev`, `_next`, `_syslog_iterator_step` | `IteratorStep`, `Move` with `Find`, `Match`, `Land` |
| `syslog_init`, `syslog_start`, `_syslog_next_id` | `SyslogInit`, `Start`, `StartLog` |
| `syslog_reset` | `SyslogReset`, `ResetLog` |
| `syslog_stop` | `Stop`, `StopLock`, `StopUnlock`, `StopDelete` |

### What the model assumes

* A call of nlog3 is one step: it has no thread of its own and runs under the
  mutex, or before the mutex is used. An append that fails may have staged or
  changed sectors, a start may have staged one; section 4 checks what the log is
  then. A failing `nlog3_reset()` is left out.
* How records fill sectors is abstract: any number of the oldest may be given up
  when a sector is staged, but not the newest.
* An iterator whose sector was erased may come to any record: nlog3 looks at its
  offset without comparing sequence numbers. The same holds of one made before a
  reset. A walk is taken to start anew there.
* `syslog_stop()` is called when no call is in progress and no iterator is used
  again. The code does not enforce it: it tests `_syslog_instance_cnt` before the
  mutex and deletes the mutex under a thread that waits for it.
* Whether the system is started is tested in the same step in which a call
  begins, which is all a call does before it waits.
* Facility, date, the text itself and what `syslog_iterator_read()` copies are left
  out, and so are 2^32 ids: `MaxId` bounds them.

### Run

| Run | Properties | What it shows |
|---|---|---|
| `syslog` | `IdsAscend`, `AppendsCarryOn`, `TextsAreWhole`, `WalkLeavesNoneOut`, `WalkEndsAtEnd` | two threads append while a reader goes back and forth and the service is reset and restarted, with one failing call of nlog3 and one power failure: ids ascend and none is skipped, a text is its writer's, a walk misses no record that is kept and ends at the end only |

Three records fit, so that one can be between two others, and given up or erased
under the iterator; two severities, so that one is filtered; ids up to 2, and on
after every reset. One log: the logs share the mutex and the buffer and nothing
else, and the run with two, one writer and no symmetry holds as well. There is
no liveness property; that nothing waits for ever shows in that no state
deadlocks: the thread that holds the mutex waits for no other.

### Theorems

For every number of writers, readers and logs, every capacity and number of
failures and power failures (`SyslogProofs`):

* `IdsCorrect`: `Spec => []IdsAscend`. Not inductive as it stands: an append takes
  the id from `_syslog_id`, so that must be exactly one past the newest record
  for every log in service, and for those that `syslog_start()` has done already
  (`ServiceInv`); and a writer that waits for the mutex must still find its log in
  service (`WriterInv`), which holds because the service is started and stopped
  only while nobody calls (`QuietInv`). Giving up the oldest records keeps the
  newest one (`LogInv`, lemma `AppendKeeps`), and what a reset that is cut leaves
  still ascends (lemma `CutAscends`).
* `TextsCorrect`: `Spec => []TextsAreWhole`, from `MutexInv`: whoever is past
  `os_mutex_lock()` holds the mutex.
* `AppendsCorrect`: `Spec => AppendsCarryOn`, from the same invariant.
* `WalksComplete`: `Spec => []WalkLeavesNoneOut`. What `_syslog_iterator_find()`
  comes to is a recursive function, `Find`; lemma `FindSought` gives its value
  outright, as the first match among the places that are reached, by taking the
  least, or the greatest, place at which the two would differ. So no match that is
  kept lies between the line that an iterator leaves and the one it comes to
  (`NoneBetween`), and as ids and places have the same order (`PlacesOrdered`), what
  lies between two lines that were seen was seen before or lies on the other side
  of the line it leaves (`MoveUnbroken`). For the appends the invariant must say
  that every id seen is below the next one, so that a new record lies between no
  two (`SeenInv`, `GrownUnbroken`), which needs the iterator's log to be in service
  (`ReaderCall`).
* `WalksEnd`: `Spec => WalkEndsAtEnd`, from the same invariant and `NoneBetween`.

### Observations

* The text that is read through an iterator whose sector was reused since is that
  of another record, with that record's header: the id tells, no error does.
* `syslog_iterator_read()` gives the id as 16 bits (syslog.c:418), so past 65535
  lines ids that a caller sees repeat.
* `syslog_start()` works on the logs without the mutex; an append between the two
  is kept out by `_syslog_instance_cnt` alone, which is set last.

## 7. The registry

### Modules

* `Regenum.tla`: the registered enumerations and the lookups in them. `types` is
  the list; what a type consists of is the application's constant `Enums`.
* `Registry.tla` extends it: `store` is the volume, a map from keys to values, each
  a type word of 16 bits and bytes; `mutex`, `scratch`, `it` the statics of
  `registry.c`. `touched` and `walk` are history: whose key another thread has
  changed between the sections of a call, and which keys an enumeration in
  progress still owes.
* `MCRegistry.tla`: the instance TLC checks.

### Threads and steps

The shell runs the commands, other threads are the application and use the typed
API. A call begins when it gets the mutex; each of its sections under the mutex is
a pair of steps, and between two sections others may run.

| Code | Actions |
|---|---|
| `registry_value_set` and the typed setters, `registry_blob_value_set` | `ValueSet`, `Set` |
| `registry_value_get` and what reads through it | `ValueGet`, `Get` |
| `registry_value_delete`, `registry_erase`, `registry_repair` | `ValueDelete`, `Delete`; `RegistryErase`, `Erase`; `RegistryRepair`, `Repair` |
| `registry_set_strval`, `_set_strval` | `SetStrval`, `Type`, `Typed` with `WordFor` and `Parse`, `Set` |
| `qshell_cmd_reg`, `reg_show` | `Reg`, `Hint`, `Hinted`, then as `registry_set_strval`; `RegistryFirst`, `RegistryNext` |
| `qshell_cmd_regadd`, `reg_parse_type_arg` | `Regadd`, `Length`, `Hinted`, then as `registry_set_strval` |
| `registry_first`, `registry_next` | `First`, `NextRecord`, `NextDangling` |
| `registry_init`, `registry_start`, `registry_stop` | `Start`, `Stop` |
| `regenum_register_type` | `Register` |

### What the model assumes

* A volume operation takes effect or not, and EOK means that it has (`KVStore`,
  section 3). One that fails, or is cut by a power failure, may or may not have.
* A type word has its width: 3 bits of kind, 13 of the enumeration. A text is an
  atom; which texts are numbers, which bytes a blob text stands for, and how a
  number prints are constants with the one law that a printed number reads as
  itself.
* A set may find the sector full; the swap then frees every entry of the lookup
  table, as a registry volume is never fully cached.
* One thread enumerates, as `_registry_it` is one iterator for all, and the shell
  does nothing but read while it does.
* The registry is stopped when no call is in progress (see `hazards`). Types are
  registered by one thread and names are distinct within a type.
* `registry_start()` is one step that succeeds: a load that fails, and the result of
  the reset after a validation that fails (registry.c:141-149), are left out here;
  what they do to the volume is in section 3.
* `registry_value_set()` with a type word of the caller's choice is left out: the
  typed setters and the shell give words that fit the bytes.
* Reads do not fail. If one did, a value would count as absent (registry.c:219)
  and `registry_set_strval()` could change its type.

### Run

| Run | Properties | What it shows |
|---|---|---|
| `registry` | `TypeOK`, `ScratchIsOwn`, `WellTyped`, `StrvalRoundTrip`, `EnumerationComplete`, `StepsGoRound`, `StrvalKeepsType` | the shell and the application on two keys, with a failing operation or a power failure: the bytes of every value fit its type, what is printed of a value sets it again, a text changes no type, an enumeration misses no value unless its entry is freed, next and previous go round |

The instance has one enumeration with the greatest id, 8191, where the type word
is nearly `REGISTRY_TYPE_NONE`; one of its names is a number but not its own, one
of the numbers has no name, one text is no number, and one blob is empty.

### Theorems

For every set of threads, keys and texts, every set of enumerations with ids up
to 8191 and any number of accidents (`RegistryProofs`):

* `TypeCorrect`, `ScratchCorrect`, `ValuesWellTyped`: `Spec => []TypeOK`,
  `[]ScratchIsOwn`, `[]WellTyped`, from `Inv`. Its `ThreadInv` says that a thread in
  a section holds the mutex, that the scratch record then has the key of its
  call, and that a set has a value there whose bytes fit its type; its `DataInv`
  that the volume is well typed. Neither is inductive alone: what a set stores
  comes from the scratch record, what a text is parsed for from the volume.
* `RoundTripCorrect`: `Spec => []StrvalRoundTrip`, from `WellTyped` and lemmas about
  the lookups of an enumeration (the first match: a least position) and about
  the 16 bits of a type word.
* `EnumerationCorrect`: `Spec => []EnumerationComplete`, inductive with `Inv`.
* `StrvalCorrect`, `RegaddCorrect`: `Spec => StrvalKeepsType`, `Spec => RegaddAddsOnly`,
  from `TextInv`: what a section of a call has found is still so in the next one,
  as long as no other thread has touched the key.
* `StepsCorrect`: `Spec => []StepsGoRound`, from the place a value has in its
  enumeration when no two are the same (`DistinctValues`, `StepOfPlace`): a step
  goes to the place beside it, so a walk of n steps ends n places on (`WalkOf`,
  whose recursive function is followed to its least counterexample).

The assumptions are `ConstantsAssumption` (`None`, `Absent` are no thread, key, text
or number), `TextAssumption` (a printed number reads as itself) and
`EnumsAssumption`.

### Observations

* Between the sections of `registry_set_strval()` another thread may set or delete
  the value: the call then replaces what it has not seen, also with another type,
  or brings back what was deleted. `StrvalKeepsType` and `RegaddAddsOnly` except it.
* A value without bytes, which `registry_blob_value_set()` makes of a text with no
  number in it, counts as absent for its type and its length but not for an
  enumeration, which ends at it with `E_INVAL` (registry.c:447).
* The key that `registry_first()` and `registry_next()` return points into the lookup
  table and is used after the mutex is given back; a swap or delete by another
  thread frees it, and the entry of `_registry_it` with it. What the next
  `registry_next()` comes to is any entry in the model.
* `registry_start()` that fails for want of memory or of a mutex leaves
  `_registry_inst` set, so that the calls do not refuse; `registry_blob_value_set()`,
  `registry_blob_value_get()` and the substitution callback do not test it at all.
* The substitution callback calls back with the mutex held and formats into the
  scratch record; a callback that uses the registry would wait for itself where
  the mutex is not recursive.

## 8. Not modelled

* The commands on the log and the counters, which print or call one operation,
  and all argument parsing and printing but the types of regadd.
* The driver, of which the models have what the code relies on: programming
  clears bits, an operation may fail or be cut by a power failure.
* Build files, the host platform and the tests.
* Read errors of the driver and exhaustion of memory, in all components.
