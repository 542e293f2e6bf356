------------------------------ MODULE Tallies ------------------------------
(***************************************************************************)
(* The persistent counters of src/tallies.c.  Counters live in RAM, in     *)
(* blocks that modules register; a background task writes the dirty ones   *)
(* to an nvol3 volume.  Three kinds of threads: one that makes the         *)
(* lifecycle and registration calls (tallies.h: "expected to run from one  *)
(* thread"), the service task, and any number that count.                  *)
(*                                                                         *)
(* The value mutex is held for a few instructions and never across         *)
(* another lock or a FLASH access, so what it covers is one step here.     *)
(* The volume mutex is the variable volume.  A call of nvol3 is one step,  *)
(* which is what KVStore.tla promises.                                     *)
(***************************************************************************)
EXTENDS Integers, FiniteSets

CONSTANTS
    Blocks,         \* the blocks of the application's modules
    Count,          \* counters in each of them, blk->count
    Bases,          \* ids that modules register their blocks at
    BaseNone,       \* TALLIES_BASE_NONE
    MaxPerPass,     \* TALLIES_PERSIST_MAX_PER_PASS
    None,           \* the null pointer
    MaxValue,       \* bound: counts of each counter
    Ops,            \* the calls made
    Faults,         \* the calls of nvol3 that may fail
    MaxFaults,      \* bound: calls of nvol3 that fail
    MaxCrashes      \* bound: power failures

OpNames == {"register", "register_late", "unregister", "stop", "persist",
            "reset", "set"}

Threads == {"life", "task"}

ASSUME ConstantsAssumption ==
    /\ Count \in Nat \ {0}
    /\ BaseNone \in Nat
    /\ Bases \subseteq Nat
    /\ MaxPerPass \in Nat \ {0}
    /\ None \notin Blocks \union Threads
    /\ MaxValue \in Nat
    /\ Ops \subseteq OpNames
    /\ Faults \subseteq {"record_set", "record_delete", "load"}
    /\ MaxFaults \in Nat
    /\ MaxCrashes \in Nat

VARIABLES
    \* TALLIES_BLOCK_T, and the list of them
    head, next, base, entry, dirty,
    \* the volume
    vol,        \* its records, by id
    dict,       \* it is loaded: inst->dict
    \* tallies.c
    started,    \* _tallies_started
    scratch,    \* _tallies_scratch is allocated
    record,     \* what is in it
    volume,     \* the thread that holds _tallies_volume
    scheduled,  \* _tallies_task waits for its time
    \* the threads
    pc,
    blk, local, written,    \* locals, written by the task only
    op,         \* the call that the lifecycle thread is in
    \* environment, and history of the counts
    crashes, faults,
    total,      \* counts made of each counter
    owed,       \* counts made before the flush in progress began, by id
    kept        \* counts that a completed flush has covered, by id

list    == <<head, next, base>>
values  == <<entry, dirty>>
store   == <<vol, dict>>
task    == <<started, scheduled>>
cursor  == <<blk, local, written>>
env     == <<crashes, faults>>
history == <<total, owed, kept>>
vars    == <<list, values, store, task, scratch, record, volume, pc, cursor, op,
             env, history>>

----------------------------------------------------------------------------
Locals  == 0 .. (Count - 1)
Entries == Blocks \X Locals
Values  == 0 .. MaxValue
Ids     == 0 .. (BaseNone + Count - 1)

\* The stored record of counter e, whose name it carries.
Records  == [name: Entries \union {None}, value: Values]
NoRecord == [name |-> None, value |-> 0]
Empty    == [id \in Ids |-> NoRecord]

\* _tallies_scratch holds a record with its id.
NoScratch == [id |-> 0, name |-> None, value |-> 0]

Registered(b) == base[b] # BaseNone
Id(e) == base[e[1]] + e[2]

\* The counter that thread t is at.
Here(t) == <<blk[t], local[t]>>

\* What a load gives counter e.
StoredValue(e) == IF vol[Id(e)].name = e THEN vol[Id(e)].value ELSE 0

Fault(f) ==
    /\ f \in Faults
    /\ faults < MaxFaults
    /\ faults' = faults + 1

Goto(t, l) == pc' = [pc EXCEPT ![t] = l]

----------------------------------------------------------------------------
(* Counting, on any thread.                                                *)

\* tallies_inc(), tallies_add()
Add(e) ==
    /\ Registered(e[1])
    /\ total[e] < MaxValue
    /\ entry[e] < MaxValue
    /\ entry' = [entry EXCEPT ![e] = @ + 1]
    /\ dirty' = [dirty EXCEPT ![e] = TRUE]
    /\ total' = [total EXCEPT ![e] = @ + 1]
    /\ UNCHANGED <<list, store, task, scratch, record, volume, pc, cursor, op,
                   env, owed, kept>>

\* tallies_set(), tallies_clear()
Set(e, v) ==
    /\ "set" \in Ops
    /\ Registered(e[1])
    /\ entry' = [entry EXCEPT ![e] = v]
    /\ dirty' = [dirty EXCEPT ![e] = TRUE]
    \* What was counted before is given up.
    /\ total' = [total EXCEPT ![e] = IF @ < v THEN v ELSE @]
    /\ owed' = [owed EXCEPT ![Id(e)] = 0]
    /\ kept' = [kept EXCEPT ![Id(e)] = 0]
    /\ UNCHANGED <<list, store, task, scratch, record, volume, pc, cursor, op,
                   env>>

----------------------------------------------------------------------------
(* tallies_persist_bounded(), by the lifecycle thread without a bound and  *)
(* by the task with one.                                                   *)

\* A flush is over; if it wrote, what it owed is stored.
FlushDone(wrote) ==
    /\ kept' = [id \in Ids |-> IF wrote /\ kept[id] < owed[id] THEN owed[id]
                               ELSE kept[id]]
    /\ owed' = [id \in Ids |-> 0]
    /\ UNCHANGED total

PassReturn(t, wrote) ==
    \/ /\ t = "task"
       /\ Goto(t, "task_end")
       /\ UNCHANGED <<op, history>>
    \/ /\ t = "life"
       /\ FlushDone(wrote)
       /\ IF op = "stop" THEN Goto(t, "stop_unload") /\ UNCHANGED op
          ELSE Goto(t, "idle") /\ op' = "none"

\* Mutant: does not take the volume mutex.
PassLockFree(t) ==
    /\ pc[t] = "pass_lock"
    /\ \/ /\ scratch /\ dict
          /\ blk' = [blk EXCEPT ![t] = head]
          /\ written' = [written EXCEPT ![t] = 0]
          /\ Goto(t, "pass_block")
          /\ UNCHANGED <<op, history>>
       \/ /\ ~(scratch /\ dict)
          /\ PassReturn(t, FALSE)
          /\ UNCHANGED <<blk, written>>
    /\ UNCHANGED <<list, values, store, task, scratch, record, volume, local,
                   env>>

PassLock(t) ==
    /\ pc[t] = "pass_lock"
    /\ volume = None
    /\ \/ /\ scratch /\ dict
          /\ volume' = t
          /\ blk' = [blk EXCEPT ![t] = head]
          /\ written' = [written EXCEPT ![t] = 0]
          /\ Goto(t, "pass_block")
          /\ UNCHANGED <<op, history>>
       \/ /\ ~(scratch /\ dict)
          /\ PassReturn(t, FALSE)
          /\ UNCHANGED <<volume, blk, written>>
    /\ UNCHANGED <<list, values, store, task, scratch, record, local, env>>

PassBlock(t) ==
    /\ pc[t] = "pass_block"
    /\ \/ /\ blk[t] = None
          /\ volume' = None
          /\ written' = [written EXCEPT ![t] = 0]
          /\ PassReturn(t, TRUE)
          /\ UNCHANGED blk
       \/ /\ blk[t] # None /\ ~Registered(blk[t])
          /\ blk' = [blk EXCEPT ![t] = next[blk[t]]]
          /\ UNCHANGED <<volume, pc, op, written, history>>
       \/ /\ blk[t] # None /\ Registered(blk[t])
          /\ Goto(t, "pass_entry")
          /\ UNCHANGED <<volume, op, blk, written, history>>
    /\ UNCHANGED <<list, values, store, task, scratch, record, local, env>>

\* Mutant: one more.
AtBoundLate(t) == t = "task" /\ written[t] > MaxPerPass

AtBound(t) == t = "task" /\ written[t] >= MaxPerPass

\* The loop over a block, and entry_write() up to the write: the entry is
\* claimed and copied into the scratch record.
PassEntry(t) ==
    /\ pc[t] = "pass_entry"
    /\ \/ /\ local[t] = Count
          /\ blk' = [blk EXCEPT ![t] = next[blk[t]]]
          /\ local' = [local EXCEPT ![t] = 0]
          /\ Goto(t, "pass_block")
          /\ UNCHANGED <<dirty, record>>
       \/ /\ local[t] < Count
          /\ AtBound(t) \/ ~dirty[Here(t)]
          /\ local' = [local EXCEPT ![t] = @ + 1]
          /\ UNCHANGED <<dirty, record, pc, blk>>
       \/ /\ local[t] < Count
          /\ ~AtBound(t) /\ dirty[Here(t)]
          /\ dirty' = [dirty EXCEPT ![Here(t)] = FALSE]
          /\ record' = [id |-> Id(Here(t)), name |-> Here(t),
                        value |-> entry[Here(t)]]
          /\ Goto(t, "pass_write")
          /\ UNCHANGED <<blk, local>>
    /\ UNCHANGED <<list, entry, store, task, scratch, volume, written, op,
                   env, history>>

\* Mutant: the flag is cleared after the write.
PassWriteClears(t) ==
    /\ pc[t] = "pass_write"
    /\ \/ /\ vol' = [vol EXCEPT ![record.id] = [name  |-> record.name,
                                                value |-> record.value]]
          /\ dirty' = [dirty EXCEPT ![Here(t)] = FALSE]
          /\ local' = [local EXCEPT ![t] = @ + 1]
          /\ Goto(t, "pass_entry")
          /\ UNCHANGED <<faults, owed>>
       \/ /\ Fault("record_set")
          /\ Goto(t, "pass_fail")
          /\ owed' = [owed EXCEPT ![record.id] = 0]
          /\ UNCHANGED <<vol, dirty, local>>
    /\ written' = [written EXCEPT ![t] = IF t = "task" THEN @ + 1 ELSE @]
    /\ record' = NoScratch
    /\ UNCHANGED <<list, entry, dict, task, scratch, volume, blk, op,
                   crashes, total, kept>>

\* entry_write(): nvol3_record_set()
PassWrite(t) ==
    /\ pc[t] = "pass_write"
    /\ \/ /\ vol' = [vol EXCEPT ![record.id] = [name  |-> record.name,
                                                value |-> record.value]]
          /\ local' = [local EXCEPT ![t] = @ + 1]
          /\ Goto(t, "pass_entry")
          /\ UNCHANGED <<faults, owed>>
       \/ /\ Fault("record_set")
          /\ Goto(t, "pass_fail")
          /\ owed' = [owed EXCEPT ![record.id] = 0]
          /\ UNCHANGED <<vol, local>>
    /\ written' = [written EXCEPT ![t] = IF t = "task" THEN @ + 1 ELSE @]
    /\ record' = NoScratch
    /\ UNCHANGED <<list, values, dict, task, scratch, volume, blk, op,
                   crashes, total, kept>>

\* entry_write(): the entry is handed back.
PassFail(t) ==
    /\ pc[t] = "pass_fail"
    /\ dirty' = [dirty EXCEPT ![Here(t)] = TRUE]
    /\ local' = [local EXCEPT ![t] = @ + 1]
    /\ Goto(t, "pass_entry")
    /\ UNCHANGED <<list, entry, store, task, scratch, record, volume, blk,
                   written, op, env, history>>

Pass(t) ==
    \/ PassLock(t) \/ PassBlock(t) \/ PassEntry(t) \/ PassWrite(t)
    \/ PassFail(t)

----------------------------------------------------------------------------
(* tallies_cb()                                                            *)

TaskRun ==
    /\ scheduled
    /\ pc["task"] = "idle"
    /\ scheduled' = FALSE
    /\ Goto("task", IF started THEN "pass_lock" ELSE "idle")
    /\ UNCHANGED <<list, values, store, started, scratch, record, volume,
                   cursor, op, env, history>>

\* Mutant: the task is not scheduled again.
TaskEndOnce ==
    /\ pc["task"] = "task_end"
    /\ Goto("task", "idle")
    /\ UNCHANGED <<list, values, store, task, scratch, record, volume, cursor,
                   op, env, history>>

TaskEnd ==
    /\ pc["task"] = "task_end"
    /\ scheduled' = (scheduled \/ started)
    /\ Goto("task", "idle")
    /\ UNCHANGED <<list, values, store, started, scratch, record, volume,
                   cursor, op, env, history>>

----------------------------------------------------------------------------
(* block_load(), for tallies_start() and tallies_register()                *)

LoadBlock ==
    /\ pc["life"] = "load_block"
    /\ \/ /\ blk["life"] # None
          /\ Goto("life", "load_zero")
          /\ UNCHANGED <<volume, op>>
       \/ /\ blk["life"] = None
          /\ volume' = None
          /\ IF op = "start" THEN Goto("life", "start_done") /\ UNCHANGED op
             ELSE Goto("life", "idle") /\ op' = "none"
    /\ UNCHANGED <<list, values, store, task, scratch, record, cursor, env,
                   history>>

LoadZero ==
    /\ pc["life"] = "load_zero"
    /\ \/ /\ local["life"] = Count
          /\ blk' = [blk EXCEPT !["life"] = IF op = "start" THEN next[@]
                                            ELSE None]
          /\ local' = [local EXCEPT !["life"] = 0]
          /\ Goto("life", "load_block")
          /\ UNCHANGED values
       \/ /\ local["life"] < Count
          /\ entry' = [entry EXCEPT ![Here("life")] = 0]
          /\ dirty' = [dirty EXCEPT ![Here("life")] = FALSE]
          /\ IF dict THEN Goto("life", "load_get") /\ UNCHANGED local
             ELSE local' = [local EXCEPT !["life"] = @ + 1] /\ UNCHANGED pc
          /\ UNCHANGED blk
    /\ UNCHANGED <<list, store, task, scratch, record, volume, written, op, env,
                   history>>

\* Mutant: the stored name is not looked at.
LoadGetAny ==
    LET e  == Here("life")
        id == Id(e)
    IN  /\ pc["life"] = "load_get"
        /\ record' = [id |-> id, name |-> e, value |-> vol[id].value]
        /\ Goto("life", "load_put")
        /\ UNCHANGED <<list, values, store, task, scratch, volume, cursor, op,
                       env, history>>

\* A record with another name is dropped.
LoadGet ==
    LET e  == Here("life")
        id == Id(e)
        Skip == /\ local' = [local EXCEPT !["life"] = @ + 1]
                /\ Goto("life", "load_zero")
                /\ UNCHANGED record
    IN  /\ pc["life"] = "load_get"
        /\ \/ /\ vol[id] = NoRecord
              /\ Skip
              /\ UNCHANGED <<vol, faults>>
           \/ /\ vol[id] # NoRecord /\ vol[id].name # e
              /\ Skip
              /\ \/ vol' = [vol EXCEPT ![id] = NoRecord] /\ UNCHANGED faults
                 \/ Fault("record_delete") /\ UNCHANGED vol
           \/ /\ vol[id].name = e
              /\ record' = [id |-> id, name |-> e, value |-> vol[id].value]
              /\ Goto("life", "load_put")
              /\ UNCHANGED <<vol, local, faults>>
        /\ UNCHANGED <<list, values, dict, task, scratch, volume, blk, written,
                       op, crashes, history>>

LoadPut ==
    /\ pc["life"] = "load_put"
    /\ entry' = [entry EXCEPT ![Here("life")] = record.value]
    /\ dirty' = [dirty EXCEPT ![Here("life")] = FALSE]
    /\ record' = NoScratch
    /\ local' = [local EXCEPT !["life"] = @ + 1]
    /\ Goto("life", "load_zero")
    /\ UNCHANGED <<list, store, task, scratch, volume, blk, written, op, env,
                   history>>

Load == LoadBlock \/ LoadZero \/ LoadGet \/ LoadPut

----------------------------------------------------------------------------
(* Lifecycle.                                                              *)

Idle == pc["life"] = "idle"

Call(o, l) ==
    /\ Idle
    /\ op' = o
    /\ Goto("life", l)

\* What a flush that begins now has to store.
Owe ==
    /\ owed' = [id \in Ids |->
                    LET mine == {e \in Entries : Registered(e[1]) /\ Id(e) = id}
                    IN  IF mine = {} THEN 0
                        ELSE entry[CHOOSE e \in mine : TRUE]]
    /\ UNCHANGED <<total, kept>>

\* The volume was erased.
Forget ==
    /\ vol' = Empty
    /\ owed' = [id \in Ids |-> 0]
    /\ kept' = [id \in Ids |-> 0]
    /\ UNCHANGED total

Start ==
    /\ ~started
    /\ Call("start", "start_volume")
    /\ UNCHANGED <<list, values, store, task, scratch, record, volume, cursor,
                   env, history>>

\* A volume that does not load is reset, and may stay unavailable.
StartVolume ==
    /\ pc["life"] = "start_volume"
    /\ volume = None
    /\ volume' = "life"
    /\ scratch' = TRUE
    /\ \/ dict' = TRUE /\ UNCHANGED <<vol, faults, history>>
       \/ Fault("load") /\ Forget /\ dict' \in BOOLEAN
    /\ blk' = [blk EXCEPT !["life"] = head]
    /\ Goto("life", "load_block")
    /\ UNCHANGED <<list, values, task, record, local, written, op, crashes>>

StartDone ==
    /\ pc["life"] = "start_done"
    /\ started' = TRUE
    /\ scheduled' = TRUE
    /\ Goto("life", "idle")
    /\ op' = "none"
    /\ UNCHANGED <<list, values, store, scratch, record, volume, cursor, env,
                   history>>

Stop ==
    /\ "stop" \in Ops
    /\ started
    /\ Call("stop", "stop_cancel")
    /\ started' = FALSE
    /\ Owe
    /\ UNCHANGED <<list, values, store, scheduled, scratch, record, volume,
                   cursor, env>>

\* svc_tasks_cancel_wait(): a task that is running may outlast the wait.
StopCancel ==
    /\ pc["life"] = "stop_cancel"
    /\ scheduled' = FALSE
    /\ Goto("life", "pass_lock")
    /\ UNCHANGED <<list, values, store, started, scratch, record, volume,
                   cursor, op, env, history>>

StopUnload ==
    /\ pc["life"] = "stop_unload"
    /\ volume = None
    /\ dict' = FALSE
    /\ scratch' = FALSE
    /\ Goto("life", "idle")
    /\ op' = "none"
    /\ UNCHANGED <<list, values, vol, task, record, volume, cursor, env,
                   history>>

Persist ==
    /\ "persist" \in Ops
    /\ Call("persist", "pass_lock")
    /\ Owe
    /\ UNCHANGED <<list, values, store, task, scratch, record, volume, cursor,
                   env>>

Reset ==
    /\ "reset" \in Ops
    /\ started
    /\ Call("reset", "reset_volume")
    /\ UNCHANGED <<list, values, store, task, scratch, record, volume, cursor,
                   env, history>>

ResetVolume ==
    /\ pc["life"] = "reset_volume"
    /\ volume = None
    /\ Forget
    /\ \/ dict' = TRUE /\ UNCHANGED faults
       \/ dict' = FALSE /\ Fault("load")
    /\ Goto("life", "reset_zero")
    /\ UNCHANGED <<list, values, task, scratch, record, volume, cursor, op,
                   crashes>>

ResetZero ==
    /\ pc["life"] = "reset_zero"
    /\ entry' = [e \in Entries |-> IF Registered(e[1]) THEN 0 ELSE entry[e]]
    /\ dirty' = [e \in Entries |-> Registered(e[1]) \/ dirty[e]]
    /\ Goto("life", "pass_lock")
    /\ UNCHANGED <<list, store, task, scratch, record, volume, cursor, op, env,
                   history>>

----------------------------------------------------------------------------
(* Registration.                                                           *)

\* block_find_overlap()
Overlap(b, id) ==
    \E c \in Blocks \ {b} :
        Registered(c) /\ id < base[c] + Count /\ base[c] < id + Count

Tail == CHOOSE b \in Blocks : Registered(b) /\ next[b] = None

Register(b, id) ==
    /\ IF started THEN "register_late" \in Ops ELSE "register" \in Ops
    /\ Idle
    /\ id + Count <= BaseNone
    /\ ~Registered(b)
    /\ ~Overlap(b, id)
    /\ base' = [base EXCEPT ![b] = id]
    /\ IF head = None
       THEN head' = b /\ next' = [next EXCEPT ![b] = None]
       ELSE next' = [next EXCEPT ![Tail] = b, ![b] = None] /\ UNCHANGED head
    /\ IF started
       THEN /\ Goto("life", "register_load")
            /\ op' = "register"
            /\ blk' = [blk EXCEPT !["life"] = b]
       ELSE UNCHANGED <<pc, op, blk>>
    \* The records of other counters at these ids are given up.
    /\ kept' = [k \in Ids |-> IF k \in id .. (id + Count - 1)
                                 /\ vol[k].name # <<b, k - id>> THEN 0
                              ELSE kept[k]]
    /\ UNCHANGED <<values, store, task, scratch, record, volume, local, written,
                   env, total, owed>>

RegisterLoad ==
    /\ pc["life"] = "register_load"
    /\ volume = None
    /\ volume' = "life"
    /\ Goto("life", "load_block")
    /\ UNCHANGED <<list, values, store, task, scratch, record, cursor, op, env,
                   history>>

Unregister(b) ==
    /\ "unregister" \in Ops
    /\ Idle
    /\ Registered(b)
    /\ head' = IF head = b THEN next[b] ELSE head
    /\ next' = [c \in Blocks |-> IF c = b THEN None
                                 ELSE IF next[c] = b THEN next[b] ELSE next[c]]
    /\ base' = [base EXCEPT ![b] = BaseNone]
    /\ UNCHANGED <<values, store, task, scratch, record, volume, pc, cursor, op,
                   env, history>>

----------------------------------------------------------------------------
\* Power failure: RAM is lost, the volume is not.
Crash ==
    /\ crashes < MaxCrashes
    /\ crashes' = crashes + 1
    /\ head' = None
    /\ next' = [b \in Blocks |-> None]
    /\ base' = [b \in Blocks |-> BaseNone]
    /\ entry' = [e \in Entries |-> 0]
    /\ dirty' = [e \in Entries |-> FALSE]
    /\ dict' = FALSE
    /\ started' = FALSE
    /\ scheduled' = FALSE
    /\ scratch' = FALSE
    /\ record' = NoScratch
    /\ volume' = None
    /\ pc' = [t \in Threads |-> "idle"]
    /\ blk' = [t \in Threads |-> None]
    /\ local' = [t \in Threads |-> 0]
    /\ written' = [t \in Threads |-> 0]
    /\ op' = "none"
    /\ owed' = [id \in Ids |-> 0]
    /\ UNCHANGED <<vol, faults, total, kept>>

Init ==
    /\ head = None
    /\ next = [b \in Blocks |-> None]
    /\ base = [b \in Blocks |-> BaseNone]
    /\ entry = [e \in Entries |-> 0]
    /\ dirty = [e \in Entries |-> FALSE]
    /\ vol = Empty
    /\ dict = FALSE
    /\ started = FALSE
    /\ scheduled = FALSE
    /\ scratch = FALSE
    /\ record = NoScratch
    /\ volume = None
    /\ pc = [t \in Threads |-> "idle"]
    /\ blk = [t \in Threads |-> None]
    /\ local = [t \in Threads |-> 0]
    /\ written = [t \in Threads |-> 0]
    /\ op = "none"
    /\ crashes = 0
    /\ faults = 0
    /\ total = [e \in Entries |-> 0]
    /\ owed = [id \in Ids |-> 0]
    /\ kept = [id \in Ids |-> 0]

Counting == \E e \in Entries : Add(e) \/ \E v \in Values : Set(e, v)

Calls ==
    \/ Start \/ Stop \/ Persist \/ Reset
    \/ \E b \in Blocks : Unregister(b) \/ \E id \in Bases : Register(b, id)

LifeStep ==
    \/ StartVolume \/ StartDone \/ StopCancel \/ StopUnload
    \/ ResetVolume \/ ResetZero \/ RegisterLoad \/ Load \/ Pass("life")

TaskStep == TaskRun \/ Pass("task") \/ TaskEnd

Next == Counting \/ Calls \/ LifeStep \/ TaskStep \/ Crash

Spec == Init /\ [][Next]_vars

\* Threads keep running, a mutex goes to a thread that waits for it long
\* enough, and the time of a scheduled task comes.
FairSpec == Spec /\ SF_vars(LifeStep) /\ SF_vars(TaskStep)

----------------------------------------------------------------------------
(* Properties.                                                             *)

PcNames == {"idle", "pass_lock", "pass_block", "pass_entry", "pass_write",
            "pass_fail", "task_end", "load_block", "load_zero", "load_get",
            "load_put", "start_volume", "start_done", "stop_cancel",
            "stop_unload", "reset_volume", "reset_zero", "register_load"}

ListTypes ==
    /\ head \in Blocks \union {None}
    /\ next \in [Blocks -> Blocks \union {None}]
    /\ base \in [Blocks -> Bases \union {BaseNone}]

ValueTypes ==
    /\ entry \in [Entries -> Values]
    /\ dirty \in [Entries -> BOOLEAN]

StoreTypes ==
    /\ vol \in [Ids -> Records]
    /\ dict \in BOOLEAN
    /\ started \in BOOLEAN
    /\ scheduled \in BOOLEAN
    /\ scratch \in BOOLEAN
    /\ record \in [id: Ids, name: Entries \union {None}, value: Values]
    /\ volume \in Threads \union {None}

ThreadTypes ==
    /\ pc \in [Threads -> PcNames]
    /\ blk \in [Threads -> Blocks \union {None}]
    /\ local \in [Threads -> 0 .. Count]
    /\ written \in [Threads -> 0 .. MaxPerPass]
    /\ op \in {"none", "start", "stop", "persist", "reset", "register"}

HistoryTypes ==
    /\ crashes \in 0 .. MaxCrashes
    /\ faults \in 0 .. MaxFaults
    /\ total \in [Entries -> Values]
    /\ owed \in [Ids -> Values]
    /\ kept \in [Ids -> Values]

TypeOK ==
    ListTypes /\ ValueTypes /\ StoreTypes /\ ThreadTypes /\ HistoryTypes

\* Where a thread uses the volume and the scratch record.
Using == {"pass_block", "pass_entry", "pass_write", "pass_fail", "load_block",
          "load_zero", "load_get", "load_put"}

MutexInv == \A t \in Threads : pc[t] \in Using => volume = t

\* A block that is registered lies below TALLIES_BASE_NONE.
BaseInv == \A b \in Blocks : base[b] <= BaseNone

\* How far the loops are.
CursorInv ==
    /\ written["life"] = 0
    /\ pc["task"] = "pass_write" => written["task"] < MaxPerPass
    /\ \A t \in Threads :
        /\ pc[t] \in {"pass_entry", "pass_write", "pass_fail", "load_zero",
                     "load_get", "load_put", "register_load"} =>
                blk[t] \in Blocks
        /\ pc[t] \in {"pass_write", "pass_fail", "load_get", "load_put"} =>
                local[t] < Count

\* The state is in order: one thread at a time is in the volume, the loops stay
\* in their block, and a pass of the task stops at its bound, also when a block
\* is registered or unregistered under it (tallies_persist_bounded(): "one pass
\* at a time, and the scratch record is not shared with a concurrent load").
TypeInv == TypeOK /\ BaseInv /\ MutexInv /\ CursorInv

\* Some thread has claimed counter e and not written it yet.
Writing(e) ==
    \E t \in Threads : pc[t] \in {"pass_write", "pass_fail"} /\ Here(t) = e

\* The dirty flags: while the store runs, a counter that is clean, and not on
\* its way to FLASH, is on FLASH as it is in RAM, whatever was counted while a
\* pass was writing, and whichever writes failed (entry_write(): "clearing the
\* flag afterwards would drop exactly that increment").
CleanIsStored ==
    Idle /\ started /\ dict =>
        \A e \in Entries :
            Registered(e[1]) /\ ~dirty[e] /\ ~Writing(e) =>
                entry[e] = StoredValue(e)

\* A flush is durable: once tallies_persist() or tallies_stop() has returned,
\* what had been counted when it was called is on FLASH and stays there: no
\* pass of the task, begun before or after, no restart and no power failure
\* puts an older value in its place.
FlushIsDurable ==
    /\ \A id \in Ids : kept[id] <= vol[id].value
    /\ Idle /\ started /\ dict =>
            \A e \in Entries : Registered(e[1]) => kept[Id(e)] <= entry[e]

\* No history of another counter: a counter never shows more than was counted
\* into it, whatever blocks were registered at its ids before (block_load():
\* "rather than inherit a history that is not ours").
NoInheritance == \A e \in Entries : entry[e] <= total[e]

\* Why it holds: neither does a record on FLASH nor the scratch record, and what
\* is handed to a counter was stored under its name.
CountInv ==
    /\ NoInheritance
    /\ \A id \in Ids :
            vol[id].name \in Entries => vol[id].value <= total[vol[id].name]
    /\ record.name \in Entries => record.value <= total[record.name]
    /\ pc["life"] = "load_put" => record.name = Here("life")

\* While the store runs, every count is on FLASH in the end, also with passes
\* that stop at their bound and writes that fail.
CountsReachFlash ==
    \A e \in Entries :
        LET running == started /\ dict /\ Registered(e[1])
        IN  (running /\ entry[e] # StoredValue(e)) ~>
                (~running \/ entry[e] = StoredValue(e))
=============================================================================
