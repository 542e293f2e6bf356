------------------------------- MODULE Syslog -------------------------------
(***************************************************************************)
(* The system log of src/syslog.c: threads that append lines, a reader     *)
(* that walks a log with a severity threshold, and the thread that starts, *)
(* resets and stops the service.  One mutex guards the logs, the ids and   *)
(* the shared message buffer; whether the service runs is tested before    *)
(* the mutex is taken.                                                     *)
(*                                                                         *)
(* A log below it is what RingLog promises of src/nvram/nlog3.c, and what  *)
(* an iterator can still reach: records in order, of which the first       *)
(* "given" lie in the staged sector, given up and not erased yet.          *)
(***************************************************************************)
EXTENDS Integers, Sequences

CONSTANTS
    Writers,        \* threads that append
    Readers,        \* threads that iterate
    Owner,          \* the thread that starts, resets and stops
    None,           \* "no thread"
    Absent,         \* the mutex that does not exist
    LogMax,         \* SYSLOG_LOG_MAX
    MaxSeverity,    \* severities are 0 (most severe) .. MaxSeverity
    Capacity,       \* records that fit in the sectors of a log
    MaxId,          \* bound: no append is called with an id past it
    MaxCrashes,     \* bound: power failures
    MaxFaults       \* bound: calls of nlog3 that fail

Threads == Writers \union Readers \union {Owner}

ASSUME ConstantsAssumption ==
    /\ {None, Absent} \intersect Threads = {}
    /\ None # Absent
    /\ Owner \notin Writers \union Readers
    /\ Writers \intersect Readers = {}
    /\ LogMax \in Nat
    /\ 1 <= LogMax
    /\ MaxSeverity \in Nat
    /\ Capacity \in Nat
    /\ 2 <= Capacity
    /\ MaxId \in Nat
    /\ MaxCrashes \in Nat
    /\ MaxFaults \in Nat

VARIABLES
    \* nlog3: the readable records of each log, and how many are given up
    log, given,
    \* the service
    instance,       \* _syslog_instance is set
    cnt,            \* _syslog_instance_cnt
    id,             \* _syslog_id
    mutex,          \* _syslog_mutex: its holder, None or Absent
    buffer,         \* _syslog_msg_buffer: the thread whose text it holds
    \* the threads
    pc, arg,        \* the call in progress: log, severity and kind
    it,             \* a reader's iterator
    \* history and environment
    seen,           \* the ids a reader's iterator has stood on
    crashes, faults

nlog3   == <<log, given>>
service == <<instance, cnt, id, mutex, buffer>>
calls   == <<pc, arg>>
env     == <<crashes, faults>>
vars    == <<nlog3, service, calls, it, seen, env>>

Logs       == 0 .. (LogMax - 1)
Severities == 0 .. MaxSeverity

\* A line: SYSLOG_DESC_ID and the severity.
Lines == [id: Nat, severity: Severities]

\* SYSLOG_ITERATOR_T; line: the copy of the record's header.  NoIt before
\* syslog_iterator_init() has succeeded.
Iterators == [log: Logs, severity: Severities, line: Lines]
NoIt == [log |-> LogMax]

NoArg == [kind |-> "none", log |-> 0, severity |-> 0]

----------------------------------------------------------------------------
(* nlog3, as far as syslog.c can tell.                                     *)

\* The records of log l that are not given up.
Kept(l) == SubSeq(log[l], given[l] + 1, Len(log[l]))

\* nlog3 stages a sector with at most room records left in the others: what was
\* given up is erased, and others, not the newest, are given up; lines follow.
Stage(l, room, lines) ==
    \E n \in {m \in 0 .. Capacity : m < Len(Kept(l)) \/ m = 0} :
        /\ Len(Kept(l)) - n <= room
        /\ log' = [log EXCEPT ![l] = Kept(l) \o lines]
        /\ given' = [given EXCEPT ![l] = n]

\* nlog3_append(): lines go into the current sector, or after it into a new
\* one.  A failed append, of no line, may have come so far.
NlogAppend(l, lines) ==
    \/ /\ Len(Kept(l) \o lines) <= Capacity
       /\ log' = [log EXCEPT ![l] = @ \o lines]
       /\ UNCHANGED given
    \/ Stage(l, Capacity - 1, lines)

\* nlog3_init(): the log as it was found, and a sector staged after it.
NlogInit(l) == UNCHANGED nlog3 \/ Stage(l, Capacity, <<>>)

\* The place of a line in its log, 0 if its sector has been erased.
Place(l, line) ==
    IF \E n \in DOMAIN log[l] : log[l][n].id = line.id
    THEN CHOOSE n \in DOMAIN log[l] : log[l][n].id = line.id
    ELSE 0

\* nlog3_iterator_prev() at place n: the place it moves to, 0 for E_BOF.  A
\* record given up is reached only from another one.
PrevPlace(l, n) == IF n > 1 /\ n - 1 # given[l] THEN n - 1 ELSE 0

\* nlog3_iterator_next(), 0 for E_EOF.
NextPlace(l, n) == IF n < Len(log[l]) THEN n + 1 ELSE 0

\* Either of them, as kind says.
MovePlace(kind, l, n) == IF kind = "next" THEN NextPlace(l, n) ELSE PrevPlace(l, n)

\* From an iterator whose sector was erased, whatever is found at its offset:
\* any record, or none.
FirstPlaces(kind, l, n) ==
    IF n # 0 THEN {MovePlace(kind, l, n)} ELSE 0 .. Len(log[l])
----------------------------------------------------------------------------
(* Calls.  A call tests whether its log is in service, takes the mutex,    *)
(* does its work and gives the mutex back.                                 *)

Begin(t, kind, l, s) ==
    /\ pc[t] = "idle"
    /\ pc' = [pc EXCEPT ![t] = "lock"]
    /\ arg' = [arg EXCEPT ![t] = [kind |-> kind, log |-> l, severity |-> s]]
    /\ UNCHANGED <<nlog3, service, it, seen, env>>

Goto(t, l) == pc' = [pc EXCEPT ![t] = l] /\ UNCHANGED arg

Return(t) ==
    /\ pc' = [pc EXCEPT ![t] = "idle"]
    /\ arg' = [arg EXCEPT ![t] = NoArg]

\* Mutant: does not wait for the holder.
LockBusy(t) ==
    /\ pc[t] = "lock"
    /\ mutex # Absent
    /\ mutex' = t
    /\ Goto(t, arg[t].kind)
    /\ UNCHANGED <<nlog3, instance, cnt, id, buffer, it, seen, env>>

\* os_mutex_lock()
Lock(t) ==
    /\ pc[t] = "lock"
    /\ mutex = None
    /\ mutex' = t
    /\ Goto(t, arg[t].kind)
    /\ UNCHANGED <<nlog3, instance, cnt, id, buffer, it, seen, env>>

\* os_mutex_unlock() and the return.
Unlock(t) ==
    /\ pc[t] = "unlock"
    /\ mutex' = None
    /\ Return(t)
    /\ UNCHANGED <<nlog3, instance, cnt, id, buffer, it, seen, env>>

----------------------------------------------------------------------------
(* Appending.                                                              *)

\* syslog_append() and syslog_vappend_fmtstr(), which formats into the shared
\* buffer; nothing is done for a log that is not in service.
SyslogAppend(t, kind, l, s) ==
    /\ l < cnt
    /\ id[l] <= MaxId
    /\ Begin(t, kind, l, s)

Format(t) ==
    /\ pc[t] = "format"
    /\ buffer' = t
    /\ Goto(t, "write")
    /\ UNCHANGED <<nlog3, instance, cnt, id, mutex, it, seen, env>>

\* The line that a writer appends.
LineOf(t) == [id |-> id[arg[t].log], severity |-> arg[t].severity]

\* An nlog3 call that returns an error.
Fault(good) ==
    /\ good \/ faults < MaxFaults
    /\ faults' = IF good THEN faults ELSE faults + 1

\* Mutant: a line that was not written uses up its id.
IdAfterAlways(l, good) == id[l] + 1

\* _syslog_write(): _syslog_id after an append
IdAfter(l, good) == IF good THEN id[l] + 1 ELSE id[l]

Write(t) ==
    LET l == arg[t].log
    IN  /\ pc[t] = "write"
        /\ \E good \in BOOLEAN :
            /\ Fault(good)
            /\ NlogAppend(l, IF good THEN <<LineOf(t)>> ELSE <<>>)
            /\ id' = [id EXCEPT ![l] = IdAfter(l, good)]
        /\ Goto(t, "unlock")
        /\ UNCHANGED <<instance, cnt, mutex, buffer, it, seen, crashes>>

----------------------------------------------------------------------------
(* Iterating.                                                              *)

IteratorInit(t, l, s) == l < cnt /\ Begin(t, "init", l, s)

\* The platform iterator (syslog_platform_it_create()): every severity.
PlatformItCreate(t, l) == IteratorInit(t, l, MaxSeverity)

\* syslog_iterator_prev() and syslog_iterator_next() test no more than that
\* there is an instance.
IteratorStep(t, kind) ==
    /\ instance
    /\ it[t] # NoIt
    /\ Begin(t, kind, it[t].log, it[t].severity)

\* Mutant: more severe only.
MatchAbove(l, n, s) == log[l][n].severity < s

\* _syslog_iterator_match()
Match(l, n, s) == log[l][n].severity <= s

\* Mutant: tries no more than one record.
FindOnce(kind, l, n, s) == IF n # 0 /\ Match(l, n, s) THEN n ELSE 0

\* _syslog_iterator_find() from place n, 0 if there is no match.
Find(kind, l, n, s) ==
    LET find[m \in 0 .. Len(log[l])] ==
            IF m = 0 \/ Match(l, m, s) THEN m ELSE find[MovePlace(kind, l, m)]
    IN  find[n]

\* _syslog_iterator_step(): "the iterator stays put when there is none".
Land(t, first, found) ==
    IF found # 0 THEN log[it[t].log][found] ELSE it[t].line

\* The newest matching record, E_EMPTY without one.
FindNewest(t) ==
    LET l == arg[t].log
        s == arg[t].severity
        found == Find("prev", l, Len(log[l]), s)
    IN  /\ pc[t] = "init"
        /\ it' = [it EXCEPT ![t] =
                IF found = 0 THEN NoIt
                ELSE [log |-> l, severity |-> s, line |-> log[l][found]]]
        /\ seen' = [seen EXCEPT ![t] =
                IF found = 0 THEN {} ELSE {log[l][found].id}]
        /\ Goto(t, "unlock")
        /\ UNCHANGED <<nlog3, service, env>>

\* _syslog_iterator_step().  An iterator whose sector was erased starts a walk
\* anew.
Move(t) ==
    LET l == it[t].log
        n == Place(l, it[t].line)
    IN  /\ pc[t] \in {"prev", "next"}
        /\ \E first \in FirstPlaces(pc[t], l, n) :
            LET line == Land(t, first, Find(pc[t], l, first, it[t].severity))
            IN  /\ it' = [it EXCEPT ![t].line = line]
                /\ seen' = IF n = 0 THEN [seen EXCEPT ![t] = {line.id}]
                           ELSE [seen EXCEPT ![t] = @ \union {line.id}]
        /\ Goto(t, "unlock")
        /\ UNCHANGED <<nlog3, service, env>>

----------------------------------------------------------------------------
(* The owner: syslog_init(), syslog_start(), syslog_reset(), syslog_stop() *)

SyslogInit ==
    /\ pc[Owner] = "idle"
    /\ mutex = Absent
    /\ ~instance
    /\ instance' = TRUE
    /\ cnt' = 0
    /\ UNCHANGED <<nlog3, id, mutex, buffer, calls, it, seen, env>>

Start ==
    /\ pc[Owner] = "idle"
    /\ instance
    /\ mutex = Absent
    /\ mutex' = None
    /\ pc' = [pc EXCEPT ![Owner] = "start"]
    /\ arg' = [arg EXCEPT ![Owner].log = 0]
    /\ UNCHANGED <<nlog3, instance, cnt, id, buffer, it, seen, env>>

\* Mutant: the id of the newest record again.
NextIdSame(l) == IF log[l] = <<>> THEN 0 ELSE log[l][Len(log[l])].id

\* _syslog_next_id()
NextId(l) == IF log[l] = <<>> THEN 0 ELSE log[l][Len(log[l])].id + 1

\* _syslog_instance_cnt after nlog3_init() of log l, the last that is tried.
InService(l, good) == IF good THEN l + 1 ELSE l

\* nlog3_init() of one log; the logs before one that fails are in service.
StartLog ==
    LET l == arg[Owner].log
    IN  /\ pc[Owner] = "start"
        /\ \E good \in BOOLEAN :
            /\ Fault(good)
            /\ NlogInit(l)
            /\ id' = IF good THEN [id EXCEPT ![l] = NextId(l)] ELSE id
            /\ IF good /\ l < LogMax - 1
               THEN /\ arg' = [arg EXCEPT ![Owner].log = l + 1]
                    /\ UNCHANGED <<cnt, pc>>
               ELSE cnt' = InService(l, good) /\ Return(Owner)
        /\ UNCHANGED <<instance, mutex, buffer, it, seen, crashes>>

SyslogReset(l) == l < cnt /\ Begin(Owner, "reset", l, 0)

ResetLog ==
    /\ pc[Owner] = "reset"
    /\ log' = [log EXCEPT ![arg[Owner].log] = <<>>]
    /\ given' = [given EXCEPT ![arg[Owner].log] = 0]
    /\ Goto(Owner, "unlock")
    /\ UNCHANGED <<service, it, seen, env>>

\* The application stops the service when no call is in progress and its
\* iterators are no longer used.
Stop ==
    /\ \A t \in Threads : pc[t] = "idle"
    /\ mutex # Absent
    /\ cnt' = 0
    /\ it' = [t \in Readers |-> NoIt]
    /\ seen' = [t \in Readers |-> {}]
    /\ pc' = [pc EXCEPT ![Owner] = "stop"]
    /\ UNCHANGED <<nlog3, instance, id, mutex, buffer, arg, env>>

\* The mutex is locked and unlocked, then deleted.
StopLock ==
    /\ pc[Owner] = "stop"
    /\ mutex = None
    /\ mutex' = Owner
    /\ Goto(Owner, "stop_unlock")
    /\ UNCHANGED <<nlog3, instance, cnt, id, buffer, it, seen, env>>

StopUnlock ==
    /\ pc[Owner] = "stop_unlock"
    /\ mutex' = None
    /\ Goto(Owner, "stop_delete")
    /\ UNCHANGED <<nlog3, instance, cnt, id, buffer, it, seen, env>>

StopDelete ==
    /\ pc[Owner] = "stop_delete"
    /\ mutex' = Absent
    /\ Return(Owner)
    /\ UNCHANGED <<nlog3, instance, cnt, id, buffer, it, seen, env>>

----------------------------------------------------------------------------
\* nlog3_reset() erases sectors in the order of their places: what it erases
\* before it is cut is one run of the records, or leaves one.
CutReset(s) ==
    LET places == 1 .. (Len(s) + 1)
        runs == {r \in places \X places : r[1] <= r[2]}
    IN  {SubSeq(s, 1, r[1] - 1) \o SubSeq(s, r[2], Len(s)) : r \in runs}
        \union {SubSeq(s, r[1], r[2] - 1) : r \in runs}

\* RAM is lost; a reset is cut.
PowerFailure ==
    /\ instance
    /\ crashes < MaxCrashes
    /\ crashes' = crashes + 1
    /\ instance' = FALSE
    /\ cnt' = 0
    /\ id' = [l \in Logs |-> 0]
    /\ mutex' = Absent
    /\ buffer' = None
    /\ pc' = [t \in Threads |-> "idle"]
    /\ arg' = [t \in Threads |-> NoArg]
    /\ it' = [t \in Readers |-> NoIt]
    /\ seen' = [t \in Readers |-> {}]
    /\ \/ UNCHANGED nlog3
       \/ LET l == arg[Owner].log
          IN  /\ pc[Owner] = "reset"
              /\ \E rest \in CutReset(log[l]) : log' = [log EXCEPT ![l] = rest]
              /\ given' = [given EXCEPT ![l] = 0]
    /\ UNCHANGED faults

Init ==
    /\ log = [l \in Logs |-> <<>>]
    /\ given = [l \in Logs |-> 0]
    /\ instance = FALSE
    /\ cnt = 0
    /\ id = [l \in Logs |-> 0]
    /\ mutex = Absent
    /\ buffer = None
    /\ pc = [t \in Threads |-> "idle"]
    /\ arg = [t \in Threads |-> NoArg]
    /\ it = [t \in Readers |-> NoIt]
    /\ seen = [t \in Readers |-> {}]
    /\ crashes = 0
    /\ faults = 0

Call ==
    \/ \E t \in Writers, kind \in {"write", "format"}, l \in Logs,
          s \in Severities : SyslogAppend(t, kind, l, s)
    \/ \E t \in Readers, l \in Logs, s \in Severities : IteratorInit(t, l, s)
    \/ \E t \in Readers, l \in Logs : PlatformItCreate(t, l)
    \/ \E t \in Readers, kind \in {"prev", "next"} : IteratorStep(t, kind)
    \/ SyslogInit \/ Start \/ Stop
    \/ \E l \in Logs : SyslogReset(l)

\* What thread t does next in its call, besides waiting for the mutex.
Work(t) ==
    \/ t \in Writers /\ (Format(t) \/ Write(t))
    \/ t \in Readers /\ (FindNewest(t) \/ Move(t))
    \/ t = Owner /\ (StartLog \/ ResetLog \/ StopUnlock \/ StopDelete)
    \/ Unlock(t)

Acquire(t) == Lock(t) \/ (t = Owner /\ StopLock)

Next ==
    \/ Call
    \/ \E t \in Threads : Work(t) \/ Acquire(t)
    \/ PowerFailure

Spec == Init /\ [][Next]_vars

----------------------------------------------------------------------------
(* Properties.                                                             *)

\* Ids ascend in every log, whatever appends failed and whatever was reset,
\* cut or restarted, and the next id is past them all while the log is in
\* service: no two lines of a log have the same id.
IdsAscend ==
    \A l \in Logs :
        /\ \A n \in 2 .. Len(log[l]) : log[l][n - 1].id < log[l][n].id
        /\ l < cnt /\ log[l] # <<>> => log[l][Len(log[l])].id < id[l]

\* A line appended to a log that has lines carries the id after the newest
\* one: a failed append leaves no gap, and two appends at the same time none.
AppendsCarryOn ==
    [][\A l \in Logs :
          /\ log[l] # <<>>
          /\ \E t \in Writers : pc[t] = "write" /\ pc'[t] = "unlock"
                                /\ arg[t].log = l
          => log'[l][Len(log'[l])].id - log[l][Len(log[l])].id \in {0, 1}]_vars

\* The text that is about to be appended from the buffer all writers share is
\* the writer's own.
TextsAreWhole ==
    \A t \in Writers : pc[t] = "write" /\ arg[t].kind = "format" => buffer = t

\* A walk leaves out no record of its severity that is still kept, whatever
\* is appended and given up meanwhile.
WalkLeavesNoneOut ==
    \A t \in Readers : it[t] # NoIt =>
        LET l == it[t].log
        IN  \A n \in (given[l] + 1) .. Len(log[l]) :
                /\ log[l][n].severity <= it[t].severity
                /\ \E i, j \in seen[t] : i < log[l][n].id /\ log[l][n].id < j
                => log[l][n].id \in seen[t]

\* A move that finds none has come to the end: no record of its severity is
\* kept before, or after, the iterator, as long as its sector is not erased.
WalkEndsAtEnd ==
    [][\A t \in Readers :
          /\ pc[t] \in {"prev", "next"} /\ pc'[t] = "unlock"
          /\ it'[t].line = it[t].line
          /\ Place(it[t].log, it[t].line) # 0
          => \A n \in (given[it[t].log] + 1) .. Len(log[it[t].log]) :
                LET r == log[it[t].log][n]
                IN  r.severity <= it[t].severity =>
                        IF pc[t] = "prev" THEN r.id >= it[t].line.id
                                          ELSE r.id <= it[t].line.id]_vars
=============================================================================
