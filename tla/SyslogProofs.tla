---------------------------- MODULE SyslogProofs ----------------------------
(***************************************************************************)
(* Proofs about Syslog, for every number of threads and logs, every        *)
(* capacity, and any number of crashes and failures: the mutex, the shared *)
(* buffer, the ids and the walks of the iterators.                         *)
(***************************************************************************)
EXTENDS Syslog, SequenceTheorems, NaturalsInduction, WellFoundedInduction,
        TLAPS

----------------------------------------------------------------------------
(* Sequences of lines.                                                     *)

Ascends(s) == \A m, n \in DOMAIN s : m < n => s[m].id < s[n].id

\* Lines of ascending ids, all below i.
Below(s, i) == \A n \in DOMAIN s : s[n].id < i

LEMMA LineTypes ==
    ASSUME NEW s \in Seq(Lines)
    PROVE  /\ Len(s) \in Nat
           /\ DOMAIN s = 1 .. Len(s)
           /\ \A n \in 1 .. Len(s) : s[n] \in Lines /\ s[n].id \in Nat
           /\ s = <<>> <=> Len(s) = 0
<1>1. \A n \in 1 .. Len(s) : s[n] \in Lines
  OBVIOUS
<1>2. \A r \in Lines : r.id \in Nat
  BY DEF Lines
<1>3. s = <<>> <=> Len(s) = 0
  BY EmptySeq, Zenon
<1> QED BY <1>1, <1>2, <1>3

\* A part of a log.
LEMMA PartAscends ==
    ASSUME NEW s \in Seq(Lines), Ascends(s),
           NEW m \in Int, NEW n \in Int, 1 <= m, n <= Len(s)
    PROVE  /\ SubSeq(s, m, n) \in Seq(Lines)
           /\ Len(SubSeq(s, m, n)) = IF m <= n THEN n - m + 1 ELSE 0
           /\ \A i \in 1 .. n - m + 1 : SubSeq(s, m, n)[i] = s[m + i - 1]
           /\ Ascends(SubSeq(s, m, n))
<1> DEFINE q == SubSeq(s, m, n)
<1>1. \A i \in m .. n : s[i] \in Lines
  BY LineTypes
<1>2. /\ q \in Seq(Lines)
      /\ Len(q) = IF m <= n THEN n - m + 1 ELSE 0
      /\ \A i \in 1 .. n - m + 1 : q[i] = s[m + i - 1]
  <2>1. s \in Seq(Lines) /\ m \in Int /\ n \in Int
    OBVIOUS
  <2> QED BY <1>1, <2>1, SubSeqProperties
<1> HIDE DEF q
<1>3. Len(s) \in Nat /\ DOMAIN s = 1 .. Len(s)
  BY LineTypes
<1>4. DOMAIN q \subseteq 1 .. n - m + 1
  BY <1>2
<1>5. Ascends(q)
  <2> SUFFICES ASSUME NEW i \in DOMAIN q, NEW j \in DOMAIN q, i < j
               PROVE  q[i].id < q[j].id
    BY DEF Ascends
  <2>1. i \in 1 .. n - m + 1 /\ j \in 1 .. n - m + 1
    BY <1>4
  <2>2. q[i] = s[m + i - 1] /\ q[j] = s[m + j - 1]
    BY <1>2, <2>1
  <2>3. /\ m + i - 1 \in DOMAIN s /\ m + j - 1 \in DOMAIN s
        /\ m + i - 1 < m + j - 1
    BY <1>3, <2>1
  <2> QED BY <2>2, <2>3, Zenon DEF Ascends
<1> QED BY <1>2, <1>5 DEF q

\* A log that is continued.
LEMMA JoinAscends ==
    ASSUME NEW s \in Seq(Lines), NEW q \in Seq(Lines), Ascends(s), Ascends(q),
           \A m \in DOMAIN s, n \in DOMAIN q : s[m].id < q[n].id
    PROVE  /\ s \o q \in Seq(Lines)
           /\ Len(s \o q) = Len(s) + Len(q)
           /\ Ascends(s \o q)
<1>1. /\ s \o q \in Seq(Lines)
      /\ Len(s \o q) = Len(s) + Len(q)
      /\ \A i \in 1 .. Len(s) + Len(q) :
            (s \o q)[i] = IF i <= Len(s) THEN s[i] ELSE q[i - Len(s)]
  BY ConcatProperties, Zenon
<1>2. /\ Len(s) \in Nat /\ DOMAIN s = 1 .. Len(s)
      /\ Len(q) \in Nat /\ DOMAIN q = 1 .. Len(q)
      /\ DOMAIN (s \o q) = 1 .. Len(s) + Len(q)
  BY <1>1, LineTypes
<1> DEFINE w == s \o q
<1>3. \A i \in DOMAIN w : \/ i \in DOMAIN s /\ w[i] = s[i]
                          \/ /\ i - Len(s) \in DOMAIN q /\ i > Len(s)
                             /\ w[i] = q[i - Len(s)]
  BY <1>1, <1>2
<1> HIDE DEF w
<1>4. DOMAIN w \subseteq Int
  BY <1>2 DEF w
<1>5. ASSUME NEW i \in DOMAIN w, NEW j \in DOMAIN w, i < j
      PROVE  w[i].id < w[j].id
  <2>1. CASE i \in DOMAIN s /\ w[i] = s[i] /\ j \in DOMAIN s /\ w[j] = s[j]
    BY <1>5, <2>1, Zenon DEF Ascends
  <2>2. CASE /\ i \in DOMAIN s /\ w[i] = s[i]
             /\ j - Len(s) \in DOMAIN q /\ w[j] = q[j - Len(s)]
    BY <2>2
  <2>3. CASE /\ i - Len(s) \in DOMAIN q /\ w[i] = q[i - Len(s)]
             /\ j - Len(s) \in DOMAIN q /\ w[j] = q[j - Len(s)]
    <3>1. i - Len(s) < j - Len(s)
      BY <1>2, <1>4, <1>5
    <3> QED BY <2>3, <3>1, Zenon DEF Ascends
  <2>4. CASE i > Len(s) /\ j \in DOMAIN s
    BY <1>2, <1>4, <1>5, <2>4
  <2> QED BY <1>3, <2>1, <2>2, <2>3, <2>4, Zenon
<1>6. Ascends(w)
  BY <1>5, Zenon DEF Ascends
<1> QED BY <1>1, <1>6 DEF w

\* A log, or what is kept of it, to which nothing or one line is added.
LEMMA OneAscends ==
    ASSUME NEW r \in Lines
    PROVE  /\ <<r>> \in Seq(Lines) /\ Ascends(<<r>>) /\ Len(<<r>>) = 1
           /\ DOMAIN <<r>> = {1} /\ <<r>>[1] = r
<1>1. /\ <<r>> \in Seq(Lines) /\ Len(<<r>>) = 1
      /\ DOMAIN <<r>> = {1} /\ <<r>>[1] = r
  OBVIOUS
<1> QED BY <1>1 DEF Ascends

LEMMA JoinOne ==
    ASSUME NEW s \in Seq(Lines), Ascends(s), NEW r \in Lines,
           s # <<>> => s[Len(s)].id < r.id
    PROVE  /\ s \o <<r>> \in Seq(Lines)
           /\ Ascends(s \o <<r>>)
           /\ Len(s \o <<r>>) = Len(s) + 1
           /\ (s \o <<r>>)[Len(s) + 1] = r
<1>1. /\ Len(s) \in Nat /\ DOMAIN s = 1 .. Len(s)
      /\ \A n \in 1 .. Len(s) : s[n].id \in Nat
      /\ s = <<>> <=> Len(s) = 0
      /\ r.id \in Nat
  BY LineTypes DEF Lines
<1>2. \A m \in DOMAIN s : s[m].id < r.id
  <2> SUFFICES ASSUME NEW m \in DOMAIN s PROVE s[m].id < r.id
    OBVIOUS
  <2>1. Len(s) \in DOMAIN s /\ s[Len(s)].id < r.id /\ s[Len(s)].id \in Nat
    BY <1>1
  <2>2. m = Len(s) \/ m < Len(s)
    BY <1>1
  <2>3. m < Len(s) => s[m].id < s[Len(s)].id
    BY <2>1, Zenon DEF Ascends
  <2> QED BY <1>1, <2>1, <2>2, <2>3
<1>3. \A m \in DOMAIN s, n \in DOMAIN <<r>> : s[m].id < <<r>>[n].id
  BY <1>2, OneAscends
<1>4. /\ s \o <<r>> \in Seq(Lines) /\ Ascends(s \o <<r>>)
      /\ Len(s \o <<r>>) = Len(s) + 1
  BY <1>3, OneAscends, JoinAscends
<1>5. (s \o <<r>>)[Len(s) + 1] = r
  BY <1>1
<1> QED BY <1>4, <1>5

\* The empty log.
LEMMA NothingAscends == <<>> \in Seq(Lines) /\ Ascends(<<>>)
<1>1. DOMAIN <<>> = {}
  OBVIOUS
<1> QED BY <1>1, EmptySeq, Zenon DEF Ascends

\* The records from m on: all of a log but its oldest ones.
LEMMA RestAscends ==
    ASSUME NEW s \in Seq(Lines), Ascends(s), NEW k \in Nat,
           k = 0 \/ k < Len(s)
    PROVE  /\ SubSeq(s, k + 1, Len(s)) \in Seq(Lines)
           /\ Ascends(SubSeq(s, k + 1, Len(s)))
           /\ Len(SubSeq(s, k + 1, Len(s))) = Len(s) - k
           /\ s # <<>> => /\ SubSeq(s, k + 1, Len(s)) # <<>>
                          /\ SubSeq(s, k + 1, Len(s))[Len(s) - k] = s[Len(s)]
           /\ s = <<>> => SubSeq(s, k + 1, Len(s)) = <<>>
<1> DEFINE q == SubSeq(s, k + 1, Len(s))
<1>1. /\ Len(s) \in Nat
      /\ s = <<>> <=> Len(s) = 0
  BY LineTypes
<1>2. 1 <= k + 1 /\ Len(s) <= Len(s) /\ k + 1 \in Int /\ Len(s) \in Int
  BY <1>1
<1>3. /\ q \in Seq(Lines)
      /\ Len(q) = IF k + 1 <= Len(s) THEN Len(s) - (k + 1) + 1 ELSE 0
      /\ \A i \in 1 .. Len(s) - (k + 1) + 1 : q[i] = s[k + 1 + i - 1]
      /\ Ascends(q)
  BY <1>2, PartAscends, Zenon
<1>4. q = <<>> <=> Len(q) = 0
  BY <1>3, LineTypes, Zenon
<1> HIDE DEF q
<1>5. Len(q) = Len(s) - k
  BY <1>1, <1>3
<1>6. ASSUME s # <<>>
      PROVE  q # <<>> /\ q[Len(s) - k] = s[Len(s)]
  <2>1. Len(s) - k \in 1 .. Len(s) - (k + 1) + 1
    BY <1>1, <1>6
  <2>2. k + 1 + (Len(s) - k) - 1 = Len(s)
    BY <1>1
  <2>3. q[Len(s) - k] = s[k + 1 + (Len(s) - k) - 1]
    BY <1>3, <2>1
  <2> QED BY <1>1, <1>4, <1>5, <1>6, <2>1, <2>2, <2>3
<1>7. s = <<>> => q = <<>>
  BY <1>1, <1>4, <1>5
<1> QED BY <1>3, <1>5, <1>6, <1>7 DEF q

\* What a reset that is cut leaves ascends.
LEMMA CutAscends ==
    ASSUME NEW s \in Seq(Lines), Ascends(s), NEW rest \in CutReset(s)
    PROVE  rest \in Seq(Lines) /\ Ascends(rest)
<1>1. Len(s) \in Nat /\ DOMAIN s = 1 .. Len(s)
  BY LineTypes
<1>2. PICK a \in 1 .. (Len(s) + 1), b \in 1 .. (Len(s) + 1) :
        /\ a <= b
        /\ \/ rest = SubSeq(s, 1, a - 1) \o SubSeq(s, b, Len(s))
           \/ rest = SubSeq(s, a, b - 1)
  BY DEF CutReset
<1>3. /\ a \in Int /\ b \in Int /\ a - 1 \in Int /\ b - 1 \in Int
      /\ 1 \in Int /\ Len(s) \in Int
      /\ 1 <= 1 /\ 1 <= a /\ 1 <= b /\ a - 1 <= Len(s) /\ b - 1 <= Len(s)
      /\ Len(s) <= Len(s)
  BY <1>1
<1>4. SubSeq(s, a, b - 1) \in Seq(Lines) /\ Ascends(SubSeq(s, a, b - 1))
  BY <1>3, PartAscends, Zenon
<1> DEFINE p == SubSeq(s, 1, a - 1)
           q == SubSeq(s, b, Len(s))
<1>5. /\ p \in Seq(Lines) /\ Ascends(p)
      /\ Len(p) = IF 1 <= a - 1 THEN a - 1 - 1 + 1 ELSE 0
      /\ \A i \in 1 .. a - 1 - 1 + 1 : p[i] = s[1 + i - 1]
  BY <1>3, PartAscends
<1>6. /\ q \in Seq(Lines) /\ Ascends(q)
      /\ Len(q) = IF b <= Len(s) THEN Len(s) - b + 1 ELSE 0
      /\ \A i \in 1 .. Len(s) - b + 1 : q[i] = s[b + i - 1]
  BY <1>3, PartAscends
<1> HIDE DEF p, q
<1>7. ASSUME NEW m \in DOMAIN p, NEW n \in DOMAIN q
      PROVE  p[m].id < q[n].id
  <2>1. m \in 1 .. a - 1 - 1 + 1 /\ n \in 1 .. Len(s) - b + 1
    <3>1. DOMAIN p = 1 .. Len(p) /\ DOMAIN q = 1 .. Len(q)
      BY <1>5, <1>6, LineTypes
    <3> QED BY <1>1, <1>5, <1>6, <1>7, <3>1
  <2>2. p[m] = s[1 + m - 1] /\ q[n] = s[b + n - 1]
    BY <1>5, <1>6, <2>1
  <2>3. /\ 1 + m - 1 \in DOMAIN s /\ b + n - 1 \in DOMAIN s
        /\ 1 + m - 1 < b + n - 1
    BY <1>1, <1>2, <2>1
  <2> QED BY <2>2, <2>3, Zenon DEF Ascends
<1>8. p \o q \in Seq(Lines) /\ Ascends(p \o q)
  BY <1>5, <1>6, <1>7, JoinAscends, Zenon
<1> QED BY <1>2, <1>4, <1>8, Zenon DEF p, q

----------------------------------------------------------------------------
(* The invariant.                                                          *)

LogInv ==
    /\ log \in [Logs -> Seq(Lines)]
    /\ given \in [Logs -> Nat]
    /\ id \in [Logs -> Nat]
    /\ \A l \in Logs :
        /\ Ascends(log[l])
        /\ given[l] = 0 \/ given[l] < Len(log[l])

\* The next id of log l follows its newest one.
Carries(l) == log[l] # <<>> => id[l] = log[l][Len(log[l])].id + 1

\* So it does for the logs in service, and those that syslog_start() has done.
ServiceInv ==
    /\ cnt \in Nat
    /\ \A l \in Logs :
        l < cnt \/ (pc[Owner] = "start" /\ l < arg[Owner].log) => Carries(l)

\* What a call does next.
InCall == {"lock", "write", "format", "init", "prev", "next", "reset",
           "unlock"}

\* A call of each kind of thread.
Args == [kind: InCall \union {"none"}, log: Logs, severity: Severities]

WriterInv ==
    \A t \in Writers :
        /\ pc[t] \in {"idle", "lock", "write", "format", "unlock"}
        /\ arg[t] \in Args
        /\ pc[t] = "lock" => arg[t].kind \in {"write", "format"}
        /\ pc[t] \in {"lock", "write", "format"} => arg[t].log < cnt

ReaderInv ==
    \A t \in Readers :
        /\ pc[t] \in {"idle", "lock", "init", "prev", "next", "unlock"}
        /\ pc[t] = "lock" => arg[t].kind \in {"init", "prev", "next"}

OwnerInv ==
    /\ pc[Owner] \in {"idle", "lock", "reset", "unlock", "start", "stop",
                      "stop_unlock", "stop_delete"}
    /\ pc[Owner] = "lock" => arg[Owner].kind = "reset"
    /\ arg[Owner] \in Args
    /\ pc[Owner] # "idle" => mutex # Absent

CallInv ==
    /\ DOMAIN pc = Threads
    /\ pc = [t \in Threads |-> pc[t]]
    /\ DOMAIN arg = Threads
    /\ arg = [t \in Threads |-> arg[t]]
    /\ WriterInv
    /\ ReaderInv
    /\ OwnerInv

\* Who is past os_mutex_lock() holds the mutex.
Holding == {"write", "format", "init", "prev", "next", "reset", "unlock",
            "stop_unlock"}

MutexInv == \A t \in Threads : pc[t] \in Holding => mutex = t

\* While the service is started or stopped, or has no mutex, no log is in
\* service and nobody calls.
Quiet == \/ mutex = Absent
         \/ pc[Owner] \in {"start", "stop", "stop_unlock", "stop_delete"}

QuietInv ==
    /\ DOMAIN it = Readers
    /\ Quiet => /\ cnt = 0
                /\ \A t \in Writers \union Readers : pc[t] = "idle"
                /\ \A t \in Readers : it[t] = NoIt

Inv == /\ LogInv
       /\ ServiceInv
       /\ CallInv
       /\ MutexInv
       /\ QuietInv
       /\ TextsAreWhole

----------------------------------------------------------------------------
(* The logs under nlog3.                                                   *)

\* Nothing happens to the logs in a step like this.
LEMMA SameLogs ==
    ASSUME Inv, UNCHANGED <<log, given, id, cnt>>,
           pc'[Owner] = "start" =>
                pc[Owner] = "start" /\ arg'[Owner] = arg[Owner]
    PROVE  LogInv' /\ ServiceInv'
BY DEF Inv, LogInv, ServiceInv, Carries

\* nlog3_append() of no line, or of one whose id is past the newest one.
LEMMA AppendKeeps ==
    ASSUME LogInv, NEW l \in Logs, NEW lines \in Seq(Lines),
           \/ lines = <<>>
           \/ \E r \in Lines :
                /\ lines = <<r>>
                /\ log[l] # <<>> => log[l][Len(log[l])].id < r.id,
           \/ NlogAppend(l, lines)
           \/ lines = <<>> /\ NlogInit(l)
    PROVE  \E q \in Seq(Lines) :
            /\ log' = [log EXCEPT ![l] = q]
            /\ Ascends(q)
            /\ given' \in [Logs -> Nat]
            /\ \A k \in Logs \ {l} : given'[k] = given[k]
            /\ given'[l] = 0 \/ given'[l] < Len(q)
            /\ lines = <<>> => /\ q = <<>> <=> log[l] = <<>>
                               /\ q # <<>> => q[Len(q)] = log[l][Len(log[l])]
            /\ \A r : lines = <<r>> => q # <<>> /\ q[Len(q)] = r
<1>1. /\ log[l] \in Seq(Lines) /\ Ascends(log[l])
      /\ given[l] \in Nat
      /\ given[l] = 0 \/ given[l] < Len(log[l])
      /\ Len(log[l]) \in Nat
  BY DEF LogInv
<1>2. \E s \in Seq(Lines), n \in Nat :
        /\ Ascends(s)
        /\ n = 0 \/ n < Len(s)
        /\ s = <<>> <=> log[l] = <<>>
        /\ s # <<>> => s[Len(s)] = log[l][Len(log[l])]
        /\ log' = [log EXCEPT ![l] = s \o lines]
        /\ given' = [given EXCEPT ![l] = n]
  <2>1. CASE UNCHANGED nlog3 /\ lines = <<>>
    <3>1. log[l] \o lines = log[l]
      BY <1>1, <2>1, ConcatEmptySeq
    <3>2. log' = [log EXCEPT ![l] = log[l] \o lines]
      BY <2>1, <3>1 DEF nlog3, LogInv
    <3>3. given' = [given EXCEPT ![l] = given[l]]
      BY <2>1 DEF nlog3, LogInv
    <3> QED BY <1>1, <3>2, <3>3
  <2>2. CASE log' = [log EXCEPT ![l] = @ \o lines] /\ UNCHANGED given
    <3>1. given' = [given EXCEPT ![l] = given[l]]
      BY <2>2 DEF LogInv
    <3> QED BY <1>1, <2>2, <3>1
  <2>3. CASE \E room : Stage(l, room, lines)
    <3>1. /\ Kept(l) \in Seq(Lines)
          /\ Ascends(Kept(l))
          /\ Len(Kept(l)) = Len(log[l]) - given[l]
          /\ log[l] # <<>> =>
                /\ Kept(l) # <<>>
                /\ Kept(l)[Len(log[l]) - given[l]] = log[l][Len(log[l])]
          /\ log[l] = <<>> => Kept(l) = <<>>
      BY <1>1, RestAscends, Zenon DEF Kept
    <3>2. PICK n \in {m \in 0 .. Capacity : m < Len(Kept(l)) \/ m = 0} :
            /\ log' = [log EXCEPT ![l] = Kept(l) \o lines]
            /\ given' = [given EXCEPT ![l] = n]
      BY <2>3, Zenon DEF Stage
    <3>3. n \in Nat /\ (n = 0 \/ n < Len(Kept(l)))
      BY ConstantsAssumption
    <3> QED BY <3>1, <3>2, <3>3, Zenon
  <2> QED BY <2>1, <2>2, <2>3 DEF NlogAppend, NlogInit
<1>3. PICK s \in Seq(Lines), n \in Nat :
        /\ Ascends(s)
        /\ n = 0 \/ n < Len(s)
        /\ s = <<>> <=> log[l] = <<>>
        /\ s # <<>> => s[Len(s)] = log[l][Len(log[l])]
        /\ log' = [log EXCEPT ![l] = s \o lines]
        /\ given' = [given EXCEPT ![l] = n]
  BY <1>2, Zenon
<1>4. /\ given' \in [Logs -> Nat]
      /\ given'[l] = n
      /\ \A k \in Logs \ {l} : given'[k] = given[k]
  BY <1>3 DEF LogInv
<1>5. CASE lines = <<>>
  <2>1. s \o lines = s
    BY <1>5, ConcatEmptySeq, Zenon
  <2>2. \A r : lines # <<r>>
    BY <1>5
  <2> QED BY <1>3, <1>4, <1>5, <2>1, <2>2, Zenon
<1>6. CASE lines # <<>>
  <2>1. PICK r \in Lines : /\ lines = <<r>>
                           /\ log[l] # <<>> => log[l][Len(log[l])].id < r.id
    BY <1>6
  <2> DEFINE q == s \o <<r>>
  <2>2. /\ q \in Seq(Lines) /\ Ascends(q)
        /\ Len(q) = Len(s) + 1
        /\ q[Len(s) + 1] = r
    BY <1>3, <2>1, JoinOne, Zenon
  <2> HIDE DEF q
  <2>3. q # <<>> /\ q[Len(q)] = r /\ (n = 0 \/ n < Len(q))
    <3>1. Len(s) \in Nat /\ (q = <<>> => Len(q) = 0)
      BY <2>2, LineTypes, Zenon
    <3> QED BY <1>3, <2>2, <3>1
  <2>4. \A x : lines = <<x>> => x = r
    BY <2>1
  <2>5. log' = [log EXCEPT ![l] = q]
    BY <1>3, <2>1 DEF q
  <2> QED BY <1>4, <1>6, <2>2, <2>3, <2>4, <2>5, Zenon
<1> QED BY <1>5, <1>6

----------------------------------------------------------------------------
(* The steps.                                                              *)

LEMMA NoArgType == NoArg \in Args
BY ConstantsAssumption DEF NoArg, Args, Logs, Severities

LEMMA InitInv == Init => Inv
<1> SUFFICES ASSUME Init PROVE Inv
  OBVIOUS
<1>1. LogInv
  BY NothingAscends DEF Init, LogInv
<1>2. ServiceInv
  BY DEF Init, ServiceInv, Carries
<1>3. CallInv
  BY NoArgType DEF Init, CallInv, WriterInv, ReaderInv, OwnerInv, Threads
<1>4. MutexInv /\ QuietInv /\ TextsAreWhole
  BY DEF Init, MutexInv, Holding, QuietInv, TextsAreWhole, Threads
<1> QED BY <1>1, <1>2, <1>3, <1>4 DEF Inv

\* A call begins.
LEMMA BeginInv ==
    ASSUME Inv, NEW t \in Threads, NEW kind, NEW l, NEW s, Begin(t, kind, l, s),
           \/ /\ t \in Writers /\ kind \in {"write", "format"}
              /\ l \in Logs /\ s \in Severities /\ l < cnt
           \/ /\ t \in Readers /\ kind \in {"init", "prev", "next"}
              /\ (l \in Logs /\ l < cnt) \/ it[t] # NoIt
           \/ /\ t = Owner /\ kind = "reset" /\ l \in Logs /\ s = 0 /\ l < cnt
    PROVE  Inv'
<1>1. ~Quiet
  BY ConstantsAssumption
     DEF Inv, QuietInv, ServiceInv, Begin, Logs, Threads
<1>2. /\ pc'[t] = "lock" /\ arg'[t].kind = kind
      /\ arg'[t] = [kind |-> kind, log |-> l, severity |-> s]
      /\ \A u \in Threads \ {t} : pc'[u] = pc[u] /\ arg'[u] = arg[u]
      /\ DOMAIN pc' = Threads /\ pc' = [u \in Threads |-> pc'[u]]
      /\ DOMAIN arg' = Threads /\ arg' = [u \in Threads |-> arg'[u]]
  BY DEF Inv, CallInv, Begin
<1>3. UNCHANGED <<log, given, instance, cnt, id, mutex, buffer, it>>
  BY DEF Begin, nlog3, service
<1>4. LogInv' /\ ServiceInv'
  BY <1>2, <1>3, SameLogs DEF Threads
<1>5. CallInv'
  <2>1. WriterInv'
    <3>1. t \in Writers => arg'[t] \in Args
      BY <1>2, ConstantsAssumption DEF Args, InCall
    <3> QED BY <1>2, <1>3, <3>1, ConstantsAssumption
            DEF Inv, CallInv, WriterInv, Threads
  <2>2. ReaderInv'
    BY <1>2, <1>3, ConstantsAssumption DEF Inv, CallInv, ReaderInv, Threads
  <2>3. OwnerInv'
    <3>1. t = Owner => arg'[t] \in Args
      BY <1>2, ConstantsAssumption DEF Args, InCall, Severities
    <3> QED BY <1>1, <1>2, <1>3, <3>1, ConstantsAssumption
            DEF Inv, CallInv, OwnerInv, Quiet, Threads
  <2> QED BY <1>2, <2>1, <2>2, <2>3 DEF CallInv
<1>6. MutexInv'
  BY <1>2, <1>3 DEF Inv, MutexInv, Holding
<1>7. QuietInv'
  BY <1>1, <1>2, <1>3 DEF Inv, QuietInv, Quiet, Threads
<1>8. TextsAreWhole'
  BY <1>2, <1>3 DEF Inv, TextsAreWhole, Threads
<1> QED BY <1>4, <1>5, <1>6, <1>7, <1>8 DEF Inv


\* A thread goes on with its call.
LEMMA GotoInv ==
    ASSUME Inv, NEW t \in Threads, NEW to,
           Goto(t, to), UNCHANGED cnt,
           \/ t \in Writers /\ to \in {"write", "format", "unlock"}
           \/ t \in Readers /\ to \in {"init", "prev", "next", "unlock"}
           \/ t = Owner /\ to \in {"reset", "unlock", "stop_unlock",
                                   "stop_delete"},
           t \in Writers /\ to # "unlock" => pc[t] \in {"lock", "format"},
           mutex # Absent /\ mutex' # Absent
    PROVE  /\ CallInv'
           /\ pc'[t] = to
           /\ \A u \in Threads \ {t} : pc'[u] = pc[u]
           /\ UNCHANGED arg
<1>1. /\ pc'[t] = to /\ UNCHANGED arg
      /\ \A u \in Threads \ {t} : pc'[u] = pc[u]
      /\ DOMAIN pc' = Threads /\ pc' = [u \in Threads |-> pc'[u]]
  BY DEF Inv, CallInv, Goto
<1>2. WriterInv'
  BY <1>1, ConstantsAssumption DEF Inv, CallInv, WriterInv, Threads
<1>3. ReaderInv'
  BY <1>1, ConstantsAssumption DEF Inv, CallInv, ReaderInv, Threads
<1>4. OwnerInv'
  BY <1>1, ConstantsAssumption DEF Inv, CallInv, OwnerInv, Threads
<1> QED BY <1>1, <1>2, <1>3, <1>4 DEF Inv, CallInv

LEMMA LockInv ==
    ASSUME Inv, NEW t \in Threads, Lock(t)
    PROVE  Inv'
<1>1. /\ pc[t] = "lock" /\ mutex = None /\ mutex' = t
      /\ Goto(t, arg[t].kind)
      /\ UNCHANGED <<log, given, instance, cnt, id, buffer, it>>
  BY DEF Lock, nlog3
<1>2. \/ t \in Writers /\ arg[t].kind \in {"write", "format"}
      \/ t \in Readers /\ arg[t].kind \in {"init", "prev", "next"}
      \/ t = Owner /\ arg[t].kind = "reset"
  BY <1>1 DEF Inv, CallInv, WriterInv, ReaderInv, OwnerInv, Threads
<1>3. mutex # Absent /\ mutex' # Absent
  BY <1>1, ConstantsAssumption
<1>4. /\ CallInv'
      /\ pc'[t] = arg[t].kind
      /\ \A u \in Threads \ {t} : pc'[u] = pc[u]
      /\ UNCHANGED arg
  BY <1>1, <1>2, <1>3, GotoInv
<1>8. LogInv' /\ ServiceInv'
  BY <1>1, <1>2, <1>4, SameLogs, ConstantsAssumption DEF Threads
<1>5. MutexInv'
  BY <1>1, <1>4, ConstantsAssumption DEF Inv, MutexInv
<1>6. QuietInv'
  <2>1. ~Quiet' /\ UNCHANGED it
    BY <1>1, <1>2, <1>3, <1>4, ConstantsAssumption
       DEF Inv, QuietInv, Quiet, Threads
  <2> QED BY <2>1 DEF Inv, QuietInv
<1>7. TextsAreWhole'
  BY <1>1, <1>4, ConstantsAssumption DEF Inv, TextsAreWhole, Threads
<1> QED BY <1>4, <1>5, <1>6, <1>7, <1>8 DEF Inv

\* Who is past os_mutex_lock() is alone there.
LEMMA Alone ==
    ASSUME Inv, NEW t \in Threads, pc[t] \in Holding
    PROVE  /\ mutex = t /\ mutex # Absent /\ mutex # None
           /\ \A u \in Threads \ {t} : pc[u] \notin Holding
           /\ pc[t] # "stop_unlock" => ~Quiet
           /\ pc[t] \in {"write", "format"} => t \in Writers
<1>1. mutex = t /\ \A u \in Threads \ {t} : pc[u] \notin Holding
  BY DEF Inv, MutexInv
<1>2. mutex # Absent /\ mutex # None
  BY <1>1, ConstantsAssumption
<1>3. ASSUME pc[t] # "stop_unlock", Quiet
      PROVE  FALSE
  BY <1>1, <1>2, <1>3 DEF Inv, QuietInv, Quiet, Holding, Threads
<1>4. pc[t] \in {"write", "format"} => t \in Writers
  BY DEF Inv, CallInv, ReaderInv, OwnerInv, Threads
<1> QED BY <1>1, <1>2, <1>3, <1>4

LEMMA UnlockInv ==
    ASSUME Inv, NEW t \in Threads, Unlock(t)
    PROVE  Inv'
<1>1. /\ pc[t] = "unlock" /\ mutex' = None
      /\ UNCHANGED <<log, given, instance, cnt, id, buffer, it>>
      /\ Return(t)
  BY DEF Unlock, nlog3
<1>2. /\ pc'[t] = "idle" /\ arg'[t] = NoArg
      /\ \A u \in Threads \ {t} : pc'[u] = pc[u] /\ arg'[u] = arg[u]
      /\ DOMAIN pc' = Threads /\ pc' = [u \in Threads |-> pc'[u]]
      /\ DOMAIN arg' = Threads /\ arg' = [u \in Threads |-> arg'[u]]
  BY <1>1 DEF Inv, CallInv, Return
<1>3. /\ \A u \in Threads \ {t} : pc[u] \notin Holding
      /\ ~Quiet /\ None # Absent
  BY <1>1, Alone, ConstantsAssumption DEF Holding
<1>4. NoArg \in Args
  BY NoArgType
<1>5. LogInv' /\ ServiceInv'
  BY <1>1, <1>2, SameLogs DEF Threads
<1>6. CallInv'
  <2>1. WriterInv'
    BY <1>1, <1>2, <1>4 DEF Inv, CallInv, WriterInv, Threads
  <2>2. ReaderInv'
    BY <1>1, <1>2 DEF Inv, CallInv, ReaderInv, Threads
  <2>3. OwnerInv'
    BY <1>1, <1>2, <1>3, <1>4 DEF Inv, CallInv, OwnerInv, Threads
  <2> QED BY <1>2, <2>1, <2>2, <2>3 DEF CallInv
<1>7. MutexInv'
  BY <1>2, <1>3 DEF MutexInv, Holding
<1>8. QuietInv'
  BY <1>1, <1>2, <1>3 DEF Inv, QuietInv, Quiet, Threads
<1>9. TextsAreWhole'
  BY <1>1, <1>2 DEF Inv, TextsAreWhole, Threads
<1> QED BY <1>5, <1>6, <1>7, <1>8, <1>9 DEF Inv

\* A step in the mutex, whatever it does to the logs: the call goes on to
\* os_mutex_unlock(), or from the formatting to the append.
LEMMA HeldInv ==
    ASSUME Inv, NEW t \in Threads, NEW to, Goto(t, to),
           UNCHANGED <<cnt, mutex>>,
           pc[t] \in Holding \ {"stop_unlock"}, DOMAIN it' = Readers,
           \/ to = "unlock" /\ buffer' = buffer
           \/ to = "write" /\ pc[t] = "format" /\ buffer' = t
    PROVE  /\ CallInv' /\ MutexInv' /\ QuietInv' /\ TextsAreWhole'
           /\ pc'[t] = to
           /\ \A u \in Threads \ {t} : pc'[u] = pc[u]
           /\ UNCHANGED arg
<1>1. /\ mutex = t /\ mutex # Absent
      /\ \A u \in Threads \ {t} : pc[u] \notin Holding
      /\ ~Quiet
      /\ pc[t] \in {"write", "format"} => t \in Writers
  BY Alone
<1>2. /\ CallInv'
      /\ pc'[t] = to
      /\ \A u \in Threads \ {t} : pc'[u] = pc[u]
      /\ UNCHANGED arg
  BY <1>1, GotoInv DEF Threads
<1>3. MutexInv'
  BY <1>1, <1>2 DEF MutexInv
<1>4. QuietInv'
  BY <1>1, <1>2 DEF QuietInv, Quiet, Threads
<1>5. TextsAreWhole'
  BY <1>1, <1>2 DEF Inv, TextsAreWhole, Holding, Threads
<1> QED BY <1>2, <1>3, <1>4, <1>5

LEMMA FormatInv ==
    ASSUME Inv, NEW t \in Writers, Format(t)
    PROVE  Inv'
<1>1. /\ pc[t] = "format" /\ buffer' = t /\ Goto(t, "write")
      /\ UNCHANGED <<log, given, id, cnt, mutex, it>>
      /\ t \in Threads
  BY DEF Format, nlog3, Threads
<1>2. DOMAIN it' = Readers /\ pc[t] \in Holding \ {"stop_unlock"}
  BY <1>1 DEF Inv, QuietInv, Holding
<1>3. /\ CallInv' /\ MutexInv' /\ QuietInv' /\ TextsAreWhole'
      /\ pc'[t] = "write"
      /\ \A u \in Threads \ {t} : pc'[u] = pc[u]
      /\ UNCHANGED arg
  BY <1>1, <1>2, HeldInv
<1>4. LogInv' /\ ServiceInv'
  BY <1>1, <1>3, SameLogs, ConstantsAssumption DEF Threads
<1> QED BY <1>3, <1>4 DEF Inv

\* The moves of an iterator leave the rest as it is.
LEMMA WalkInv ==
    ASSUME Inv, NEW t \in Readers, FindNewest(t) \/ Move(t)
    PROVE  Inv'
<1>1. /\ pc[t] \in {"init", "prev", "next"} /\ Goto(t, "unlock")
      /\ UNCHANGED <<log, given, id, cnt, mutex, buffer>>
      /\ t \in Threads
  BY DEF FindNewest, Move, nlog3, service, Threads
<1>2. DOMAIN it' = Readers
  BY DEF FindNewest, Move, Inv, QuietInv
<1>3. pc[t] \in Holding \ {"stop_unlock"}
  BY <1>1 DEF Holding
<1>4. /\ CallInv' /\ MutexInv' /\ QuietInv' /\ TextsAreWhole'
      /\ pc'[t] = "unlock"
      /\ \A u \in Threads \ {t} : pc'[u] = pc[u]
      /\ UNCHANGED arg
  BY <1>1, <1>2, <1>3, HeldInv
<1>5. LogInv' /\ ServiceInv'
  BY <1>1, <1>4, SameLogs, ConstantsAssumption DEF Threads
<1> QED BY <1>4, <1>5 DEF Inv

LEMMA ResetLogInv ==
    ASSUME Inv, ResetLog
    PROVE  Inv'
<1> DEFINE l == arg[Owner].log
<1>1. /\ pc[Owner] = "reset" /\ Goto(Owner, "unlock")
      /\ log' = [log EXCEPT ![l] = <<>>] /\ given' = [given EXCEPT ![l] = 0]
      /\ UNCHANGED <<id, cnt, mutex, buffer, it>>
      /\ Owner \in Threads
  BY DEF ResetLog, service, Threads
<1>2. DOMAIN it' = Readers /\ pc[Owner] \in Holding \ {"stop_unlock"}
  BY <1>1 DEF Inv, QuietInv, Holding
<1>3. /\ CallInv' /\ MutexInv' /\ QuietInv' /\ TextsAreWhole'
      /\ pc'[Owner] = "unlock"
      /\ UNCHANGED arg
  BY <1>1, <1>2, HeldInv
<1>4. l \in Logs
  BY DEF Inv, CallInv, OwnerInv, Args
<1> HIDE DEF l
<1>5. LogInv'
  BY <1>1, <1>4, NothingAscends DEF Inv, LogInv
<1>6. ServiceInv'
  BY <1>1, <1>3, <1>4 DEF Inv, LogInv, ServiceInv, Carries
<1> QED BY <1>3, <1>5, <1>6 DEF Inv

\* What an append leaves in the logs.
LEMMA WriteLogs ==
    ASSUME Inv, NEW t \in Writers, Write(t)
    PROVE  /\ LogInv'
           /\ arg[t].log \in Logs
           /\ \A l \in Logs \ {arg[t].log} : log'[l] = log[l] /\ id'[l] = id[l]
           /\ LET l == arg[t].log
              IN  /\ log'[l] # <<>> => id'[l] = log'[l][Len(log'[l])].id + 1
                  /\ log[l] # <<>> =>
                        log'[l][Len(log'[l])].id - log[l][Len(log[l])].id
                            \in {0, 1}
<1> DEFINE l == arg[t].log
<1>1. pc[t] = "write" /\ t \in Threads
  BY DEF Write, Threads
<1>2. l \in Logs /\ arg[t].severity \in Severities /\ l < cnt
  BY <1>1 DEF Inv, CallInv, WriterInv, Args
<1>3. PICK good \in BOOLEAN :
        /\ NlogAppend(l, IF good THEN <<LineOf(t)>> ELSE <<>>)
        /\ id' = [id EXCEPT ![l] = IdAfter(l, good)]
  BY Zenon DEF Write
<1>4. LineOf(t) = [id |-> id[l], severity |-> arg[t].severity]
  BY DEF LineOf
<1> HIDE DEF l
<1> DEFINE r == LineOf(t)
<1>5. r \in Lines /\ r.id = id[l] /\ id[l] \in Nat
  BY <1>2, <1>4 DEF Lines, Inv, LogInv
<1>6. Carries(l)
  BY <1>2 DEF Inv, ServiceInv
<1>7. log[l] # <<>> => /\ log[l][Len(log[l])].id \in Nat
                       /\ id[l] = log[l][Len(log[l])].id + 1
                       /\ log[l][Len(log[l])].id < r.id
  <2>1. log[l] # <<>> => log[l][Len(log[l])].id \in Nat
    <3>1. log[l] \in Seq(Lines)
      BY <1>2 DEF Inv, LogInv
    <3>2. log[l] # <<>> => Len(log[l]) \in 1 .. Len(log[l])
      BY <3>1, LineTypes
    <3> QED BY <3>1, <3>2, LineTypes, Zenon
  <2> QED BY <1>5, <1>6, <2>1 DEF Carries
<1> DEFINE lines == IF good THEN <<r>> ELSE <<>>
<1>8. /\ lines \in Seq(Lines)
      /\ lines = <<>> \/ (/\ lines = <<r>>
                          /\ log[l] # <<>> => log[l][Len(log[l])].id < r.id)
      /\ good => lines = <<r>>
      /\ ~good => lines = <<>>
  BY <1>5, <1>7, OneAscends, NothingAscends
<1> HIDE DEF lines, r
<1>9. NlogAppend(l, lines)
  BY <1>3 DEF lines, r
<1>10. PICK q \in Seq(Lines) :
        /\ log' = [log EXCEPT ![l] = q]
        /\ Ascends(q)
        /\ given' \in [Logs -> Nat]
        /\ \A k \in Logs \ {l} : given'[k] = given[k]
        /\ given'[l] = 0 \/ given'[l] < Len(q)
        /\ lines = <<>> => /\ q = <<>> <=> log[l] = <<>>
                           /\ q # <<>> => q[Len(q)] = log[l][Len(log[l])]
        /\ \A x : lines = <<x>> => q # <<>> /\ q[Len(q)] = x
  <2>1. LogInv /\ l \in Logs
    BY <1>2 DEF Inv
  <2>2. \/ lines = <<>>
        \/ \E x \in Lines : /\ lines = <<x>>
                            /\ log[l] # <<>> => log[l][Len(log[l])].id < x.id
    BY <1>5, <1>8, Zenon
  <2> QED BY <1>8, <1>9, <2>1, <2>2, AppendKeeps, Zenon
<1>11. /\ log'[l] = q /\ \A k \in Logs \ {l} : log'[k] = log[k]
       /\ log' \in [Logs -> Seq(Lines)]
  BY <1>2, <1>10 DEF Inv, LogInv
<1>12. /\ id'[l] = IdAfter(l, good) /\ \A k \in Logs \ {l} : id'[k] = id[k]
       /\ id' \in [Logs -> Nat]
  BY <1>2, <1>3, <1>5 DEF Inv, LogInv, IdAfter
<1>13. LogInv'
  <2>1. \A k \in Logs :
            /\ Ascends(log'[k])
            /\ given'[k] = 0 \/ given'[k] < Len(log'[k])
    BY <1>10, <1>11 DEF Inv, LogInv
  <2> QED BY <1>10, <1>11, <1>12, <2>1 DEF LogInv
<1>14. CASE good
  <2>1. q # <<>> /\ q[Len(q)] = r
    BY <1>8, <1>10, <1>14
  <2>2. id'[l] = r.id + 1
    BY <1>5, <1>12, <1>14 DEF IdAfter
  <2>3. log'[l] # <<>> => id'[l] = log'[l][Len(log'[l])].id + 1
    BY <1>11, <2>1, <2>2
  <2>4. log[l] # <<>> =>
            log'[l][Len(log'[l])].id - log[l][Len(log[l])].id \in {0, 1}
    BY <1>5, <1>7, <1>11, <2>1
  <2> QED BY <1>2, <1>11, <1>12, <1>13, <2>3, <2>4 DEF l
<1>15. CASE ~good
  <2>1. /\ q = <<>> <=> log[l] = <<>>
        /\ q # <<>> => q[Len(q)] = log[l][Len(log[l])]
    BY <1>8, <1>10, <1>15
  <2>2. id'[l] = id[l]
    BY <1>12, <1>15 DEF IdAfter
  <2>3. log'[l] # <<>> => id'[l] = log'[l][Len(log'[l])].id + 1
    BY <1>6, <1>11, <2>1, <2>2 DEF Carries
  <2>4. log[l] # <<>> =>
            log'[l][Len(log'[l])].id - log[l][Len(log[l])].id \in {0, 1}
    BY <1>7, <1>11, <2>1
  <2> QED BY <1>2, <1>11, <1>12, <1>13, <2>3, <2>4 DEF l
<1> QED BY <1>14, <1>15

LEMMA WriteInv ==
    ASSUME Inv, NEW t \in Writers, Write(t)
    PROVE  Inv'
<1>1. /\ pc[t] = "write" /\ Goto(t, "unlock")
      /\ UNCHANGED <<cnt, mutex, buffer, it>>
      /\ t \in Threads
  BY DEF Write, Threads
<1>2. DOMAIN it' = Readers /\ pc[t] \in Holding \ {"stop_unlock"}
  BY <1>1 DEF Inv, QuietInv, Holding
<1>3. /\ CallInv' /\ MutexInv' /\ QuietInv' /\ TextsAreWhole'
      /\ \A u \in Threads \ {t} : pc'[u] = pc[u]
      /\ UNCHANGED arg
  BY <1>1, <1>2, HeldInv
<1>4. pc'[Owner] = pc[Owner]
  BY <1>3, ConstantsAssumption DEF Threads
<1>5. ServiceInv'
  <2> SUFFICES ASSUME NEW l \in Logs,
                      l < cnt' \/ (pc'[Owner] = "start" /\ l < arg'[Owner].log)
               PROVE  Carries(l)'
    BY <1>1 DEF Inv, ServiceInv
  <2>1. CASE l = arg[t].log
    BY <2>1, WriteLogs DEF Carries
  <2>2. CASE l # arg[t].log
    BY <1>1, <1>3, <1>4, <2>2, WriteLogs DEF Inv, ServiceInv, Carries
  <2> QED BY <2>1, <2>2
<1> QED BY <1>3, <1>5, WriteLogs DEF Inv

\* A step of the owner while the service is started or stopped, which leaves
\* it so: nobody else calls.
LEMMA OwnerQuiet ==
    ASSUME Inv, NEW a \in Args,
           NEW to \in {"start", "stop", "stop_unlock", "stop_delete"},
           pc' = [pc EXCEPT ![Owner] = to],
           arg' = [arg EXCEPT ![Owner] = a],
           to = "start" => a.log = 0,
           to = "stop_unlock" => mutex' = Owner,
           mutex' # Absent,
           cnt' = 0,
           UNCHANGED <<log, given, id, buffer>>,
           DOMAIN it' = Readers,
           \A t \in Readers : it'[t] = NoIt,
           \A t \in Writers \union Readers : pc[t] = "idle"
    PROVE  Inv'
<1>1. /\ pc'[Owner] = to /\ arg'[Owner] = a
      /\ \A u \in Writers \union Readers : pc'[u] = "idle" /\ arg'[u] = arg[u]
      /\ DOMAIN pc' = Threads /\ pc' = [u \in Threads |-> pc'[u]]
      /\ DOMAIN arg' = Threads /\ arg' = [u \in Threads |-> arg'[u]]
  BY ConstantsAssumption DEF Inv, CallInv, Threads
<1>2. LogInv'
  BY DEF Inv, LogInv
<1>3. ServiceInv'
  BY <1>1 DEF ServiceInv, Logs
<1>4. CallInv'
  BY <1>1 DEF Inv, CallInv, WriterInv, ReaderInv, OwnerInv
<1>5. MutexInv'
  BY <1>1 DEF MutexInv, Holding, Threads
<1>6. QuietInv' /\ TextsAreWhole'
  BY <1>1 DEF QuietInv, TextsAreWhole
<1> QED BY <1>2, <1>3, <1>4, <1>5, <1>6 DEF Inv

LEMMA SyslogInitInv == Inv /\ SyslogInit => Inv'
<1> SUFFICES ASSUME Inv, SyslogInit PROVE Inv'
  OBVIOUS
<1>1. /\ Quiet /\ cnt = 0
      /\ UNCHANGED <<log, given, id, cnt, mutex, buffer, pc, arg, it>>
  BY DEF SyslogInit, nlog3, calls, Inv, QuietInv, Quiet
<1>2. LogInv' /\ ServiceInv'
  BY <1>1, SameLogs
<1>3. CallInv' /\ MutexInv' /\ QuietInv' /\ TextsAreWhole'
  BY <1>1 DEF Inv, CallInv, WriterInv, ReaderInv, OwnerInv, MutexInv, QuietInv,
              Quiet, TextsAreWhole
<1> QED BY <1>2, <1>3 DEF Inv

LEMMA StartInv == Inv /\ Start => Inv'
<1> SUFFICES ASSUME Inv, Start PROVE Inv'
  OBVIOUS
<1> DEFINE a == [arg[Owner] EXCEPT !.log = 0]
<1>1. /\ mutex' = None
      /\ pc' = [pc EXCEPT ![Owner] = "start"]
      /\ arg' = [arg EXCEPT ![Owner] = a]
      /\ UNCHANGED <<log, given, id, cnt, buffer, it>>
      /\ Quiet
  BY DEF Start, nlog3, Quiet
<1>2. a \in Args /\ a.log = 0
  BY ConstantsAssumption DEF Inv, CallInv, OwnerInv, Args, Logs
<1> HIDE DEF a
<1>3. /\ cnt' = 0 /\ mutex' # Absent
      /\ DOMAIN it' = Readers
      /\ \A t \in Readers : it'[t] = NoIt
      /\ \A t \in Writers \union Readers : pc[t] = "idle"
  BY <1>1, ConstantsAssumption DEF Inv, QuietInv
<1> QED BY <1>1, <1>2, <1>3, OwnerQuiet

LEMMA StopInv == Inv /\ Stop => Inv'
<1> SUFFICES ASSUME Inv, Stop PROVE Inv'
  OBVIOUS
<1>1. /\ cnt' = 0 /\ mutex' # Absent
      /\ pc' = [pc EXCEPT ![Owner] = "stop"]
      /\ UNCHANGED <<log, given, id, buffer>>
      /\ DOMAIN it' = Readers
      /\ \A t \in Readers : it'[t] = NoIt
      /\ \A t \in Writers \union Readers : pc[t] = "idle"
  BY DEF Stop, nlog3, Threads
<1>2. arg[Owner] \in Args /\ arg' = [arg EXCEPT ![Owner] = arg[Owner]]
  BY DEF Stop, Inv, CallInv, OwnerInv
<1> QED BY <1>1, <1>2, OwnerQuiet

LEMMA StopLockInv == Inv /\ (StopLock \/ StopUnlock) => Inv'
<1> SUFFICES ASSUME Inv, StopLock \/ StopUnlock PROVE Inv'
  OBVIOUS
<1>1. Quiet /\ UNCHANGED <<log, given, id, cnt, buffer, it, arg>>
  BY DEF StopLock, StopUnlock, Goto, nlog3, Quiet
<1>2. arg[Owner] \in Args /\ arg' = [arg EXCEPT ![Owner] = arg[Owner]]
  BY <1>1 DEF Inv, CallInv, OwnerInv
<1>3. /\ cnt' = 0
      /\ DOMAIN it' = Readers
      /\ \A t \in Readers : it'[t] = NoIt
      /\ \A t \in Writers \union Readers : pc[t] = "idle"
  BY <1>1 DEF Inv, QuietInv
<1>4. CASE StopLock
  <2>1. /\ pc' = [pc EXCEPT ![Owner] = "stop_unlock"]
        /\ mutex' = Owner /\ mutex' # Absent
    BY <1>4, ConstantsAssumption DEF StopLock, Goto, Threads
  <2> QED BY <1>1, <1>2, <1>3, <2>1, OwnerQuiet
<1>5. CASE StopUnlock
  <2>1. /\ pc' = [pc EXCEPT ![Owner] = "stop_delete"]
        /\ mutex' # Absent
    BY <1>5, ConstantsAssumption DEF StopUnlock, Goto
  <2> QED BY <1>1, <1>2, <1>3, <2>1, OwnerQuiet
<1> QED BY <1>4, <1>5

LEMMA StopDeleteInv == Inv /\ StopDelete => Inv'
<1> SUFFICES ASSUME Inv, StopDelete PROVE Inv'
  OBVIOUS
<1>1. /\ Quiet /\ mutex' = Absent
      /\ UNCHANGED <<log, given, id, cnt, buffer, it>>
      /\ pc' = [pc EXCEPT ![Owner] = "idle"]
      /\ arg' = [arg EXCEPT ![Owner] = NoArg]
  BY DEF StopDelete, Return, nlog3, Quiet
<1>2. /\ pc'[Owner] = "idle" /\ arg'[Owner] = NoArg
      /\ \A u \in Writers \union Readers : pc'[u] = pc[u] /\ arg'[u] = arg[u]
      /\ DOMAIN pc' = Threads /\ pc' = [u \in Threads |-> pc'[u]]
      /\ DOMAIN arg' = Threads /\ arg' = [u \in Threads |-> arg'[u]]
  BY <1>1, ConstantsAssumption DEF Inv, CallInv, Threads
<1>3. /\ cnt = 0
      /\ DOMAIN it = Readers
      /\ \A t \in Readers : it[t] = NoIt
      /\ \A t \in Writers \union Readers : pc[t] = "idle"
  BY <1>1 DEF Inv, QuietInv
<1>4. LogInv' /\ ServiceInv'
  BY <1>1, <1>2, SameLogs
<1>5. CallInv'
  <2>1. WriterInv'
    <3>1. \A t \in Writers : arg'[t] \in Args /\ pc'[t] = "idle"
      BY <1>2, <1>3 DEF Inv, CallInv, WriterInv
    <3> QED BY <3>1 DEF WriterInv
  <2>2. ReaderInv'
    <3>1. \A t \in Readers : pc'[t] = "idle"
      BY <1>2, <1>3
    <3> QED BY <3>1 DEF ReaderInv
  <2>3. OwnerInv'
    BY <1>1, <1>2, NoArgType DEF Inv, CallInv, OwnerInv
  <2> QED BY <1>2, <2>1, <2>2, <2>3 DEF CallInv
<1>6. MutexInv'
  BY <1>2, <1>3 DEF MutexInv, Holding, Threads
<1>7. QuietInv' /\ TextsAreWhole'
  BY <1>1, <1>2, <1>3 DEF QuietInv, TextsAreWhole
<1> QED BY <1>4, <1>5, <1>6, <1>7 DEF Inv

\* What nlog3_init() leaves in a log that is started.
LEMMA StartLogs ==
    ASSUME Inv, StartLog
    PROVE  LET l == arg[Owner].log
           IN  /\ LogInv'
               /\ l \in Logs
               /\ \A k \in Logs \ {l} : log'[k] = log[k] /\ id'[k] = id[k]
               /\ \/ /\ log'[l] # <<>> => id'[l] = log'[l][Len(log'[l])].id + 1
                     /\ l < LogMax - 1
                     /\ arg' = [arg EXCEPT ![Owner].log = l + 1]
                     /\ UNCHANGED <<cnt, pc>>
                  \/ /\ log'[l] # <<>> => id'[l] = log'[l][Len(log'[l])].id + 1
                     /\ cnt' = l + 1
                     /\ Return(Owner)
                  \/ /\ cnt' = l
                     /\ Return(Owner)
<1> DEFINE l == arg[Owner].log
<1>1. l \in Logs
  BY DEF Inv, CallInv, OwnerInv, Args
<1>2. PICK good \in BOOLEAN :
        /\ NlogInit(l)
        /\ id' = IF good THEN [id EXCEPT ![l] = NextId(l)] ELSE id
        /\ IF good /\ l < LogMax - 1
           THEN /\ arg' = [arg EXCEPT ![Owner].log = l + 1]
                /\ UNCHANGED <<cnt, pc>>
           ELSE cnt' = InService(l, good) /\ Return(Owner)
  BY Zenon DEF StartLog
<1> HIDE DEF l
<1>3. PICK q \in Seq(Lines) :
        /\ log' = [log EXCEPT ![l] = q]
        /\ Ascends(q)
        /\ given' \in [Logs -> Nat]
        /\ \A k \in Logs \ {l} : given'[k] = given[k]
        /\ given'[l] = 0 \/ given'[l] < Len(q)
        /\ q = <<>> <=> log[l] = <<>>
        /\ q # <<>> => q[Len(q)] = log[l][Len(log[l])]
  <2>1. LogInv /\ <<>> \in Seq(Lines)
    BY NothingAscends DEF Inv
  <2> QED BY <1>1, <1>2, <2>1, AppendKeeps, Zenon
<1>4. /\ log'[l] = q /\ \A k \in Logs \ {l} : log'[k] = log[k]
      /\ log' \in [Logs -> Seq(Lines)]
  BY <1>1, <1>3 DEF Inv, LogInv
<1>5. NextId(l) \in Nat
  <2>1. log[l] \in Seq(Lines)
    BY <1>1 DEF Inv, LogInv
  <2>2. log[l] # <<>> => Len(log[l]) \in 1 .. Len(log[l])
    BY <2>1, LineTypes
  <2>3. log[l] # <<>> => log[l][Len(log[l])].id \in Nat
    BY <2>1, <2>2, LineTypes, Zenon
  <2> QED BY <2>3 DEF NextId
<1>6. /\ id' \in [Logs -> Nat]
      /\ \A k \in Logs \ {l} : id'[k] = id[k]
      /\ good => id'[l] = NextId(l)
  BY <1>1, <1>2, <1>5 DEF Inv, LogInv
<1>7. LogInv'
  <2>1. \A k \in Logs :
            /\ Ascends(log'[k])
            /\ given'[k] = 0 \/ given'[k] < Len(log'[k])
    BY <1>3, <1>4 DEF Inv, LogInv
  <2> QED BY <1>3, <1>4, <1>6, <2>1 DEF LogInv
<1>8. good => (log'[l] # <<>> => id'[l] = log'[l][Len(log'[l])].id + 1)
  BY <1>3, <1>4, <1>6 DEF NextId
<1> QED BY <1>1, <1>2, <1>4, <1>6, <1>7, <1>8, Zenon DEF InService, l

LEMMA StartLogInv == Inv /\ StartLog => Inv'
<1> SUFFICES ASSUME Inv, StartLog PROVE Inv'
  OBVIOUS
<1> DEFINE l == arg[Owner].log
<1>1. /\ pc[Owner] = "start" /\ Quiet
      /\ UNCHANGED <<mutex, buffer, it>>
  BY DEF StartLog, Quiet
<1>2. /\ cnt = 0 /\ mutex # Absent
      /\ DOMAIN it = Readers
      /\ \A t \in Readers : it[t] = NoIt
      /\ \A t \in Writers \union Readers : pc[t] = "idle"
  BY <1>1 DEF Inv, QuietInv, CallInv, OwnerInv
<1>3. /\ LogInv' /\ l \in Logs
      /\ \A k \in Logs \ {l} : log'[k] = log[k] /\ id'[k] = id[k]
  BY StartLogs
<1>4. \A k \in Logs : k < l => Carries(k)
  BY <1>1 DEF Inv, ServiceInv
<1>5. \A k \in Logs : k < l => Carries(k)'
  <2> SUFFICES ASSUME NEW k \in Logs, k < l PROVE Carries(k)'
    OBVIOUS
  <2>1. Carries(k) /\ k \in Logs \ {l}
    BY <1>3, <1>4 DEF Logs
  <2> QED BY <1>3, <2>1 DEF Carries
<1>6. CASE /\ log'[l] # <<>> => id'[l] = log'[l][Len(log'[l])].id + 1
           /\ l < LogMax - 1
           /\ arg' = [arg EXCEPT ![Owner].log = l + 1]
           /\ UNCHANGED <<cnt, pc>>
  <2>1. /\ arg'[Owner] = [arg[Owner] EXCEPT !.log = l + 1]
        /\ arg'[Owner].log = l + 1
        /\ \A u \in Writers \union Readers : arg'[u] = arg[u]
        /\ DOMAIN arg' = Threads /\ arg' = [u \in Threads |-> arg'[u]]
    BY <1>6, ConstantsAssumption
       DEF Inv, CallInv, OwnerInv, Args, Threads
  <2>2. arg'[Owner] \in Args
    <3>1. l + 1 \in Logs
      BY <1>3, <1>6, ConstantsAssumption DEF Logs
    <3>2. arg[Owner] \in Args
      BY DEF Inv, CallInv, OwnerInv
    <3> QED BY <2>1, <3>1, <3>2 DEF Args
  <2>3. ServiceInv'
    <3> SUFFICES ASSUME NEW k \in Logs, k < cnt' \/ k < l + 1
                 PROVE  Carries(k)'
      BY <1>2, <1>6, <2>1 DEF ServiceInv
    <3>1. k < l \/ k = l
      BY <1>2, <1>3, <1>6 DEF Logs
    <3>2. k = l => Carries(k)'
      BY <1>6 DEF Carries
    <3> QED BY <1>5, <3>1, <3>2
  <2>4. CallInv'
    BY <1>1, <1>2, <1>6, <2>1, <2>2
       DEF Inv, CallInv, WriterInv, ReaderInv, OwnerInv
  <2>5. MutexInv' /\ QuietInv' /\ TextsAreWhole'
    BY <1>1, <1>2, <1>6, <2>1
       DEF Inv, MutexInv, QuietInv, Quiet, TextsAreWhole
  <2> QED BY <1>3, <2>3, <2>4, <2>5 DEF Inv
<1>7. CASE /\ Return(Owner)
           /\ \/ cnt' = l
              \/ /\ cnt' = l + 1
                 /\ log'[l] # <<>> => id'[l] = log'[l][Len(log'[l])].id + 1
  <2>1. /\ pc'[Owner] = "idle" /\ arg'[Owner] = NoArg
        /\ \A u \in Writers \union Readers : pc'[u] = pc[u] /\ arg'[u] = arg[u]
        /\ DOMAIN pc' = Threads /\ pc' = [u \in Threads |-> pc'[u]]
        /\ DOMAIN arg' = Threads /\ arg' = [u \in Threads |-> arg'[u]]
    BY <1>7, ConstantsAssumption DEF Return, Inv, CallInv, Threads
  <2>2. ServiceInv'
    <3>1. cnt' \in Nat
      BY <1>3, <1>7 DEF Logs
    <3> SUFFICES ASSUME NEW k \in Logs, k < cnt'
                 PROVE  Carries(k)'
      BY <2>1, <3>1 DEF ServiceInv
    <3>2. k < l \/ (k = l /\ cnt' # l)
      BY <1>3, <1>7 DEF Logs
    <3>3. k = l /\ cnt' # l => Carries(k)'
      BY <1>7 DEF Carries
    <3> QED BY <1>5, <3>2, <3>3
  <2>3. CallInv'
    BY <1>1, <1>2, <2>1, NoArgType
       DEF Inv, CallInv, WriterInv, ReaderInv, OwnerInv
  <2>4. MutexInv' /\ QuietInv' /\ TextsAreWhole'
    BY <1>1, <1>2, <2>1
       DEF MutexInv, Holding, QuietInv, Quiet, TextsAreWhole, Threads
  <2> QED BY <1>3, <2>2, <2>3, <2>4 DEF Inv
<1> QED BY <1>6, <1>7, StartLogs, Zenon

LEMMA PowerFailureInv == Inv /\ PowerFailure => Inv'
<1> SUFFICES ASSUME Inv, PowerFailure PROVE Inv'
  OBVIOUS
<1>1. /\ cnt' = 0 /\ id' = [l \in Logs |-> 0] /\ mutex' = Absent
      /\ pc' = [t \in Threads |-> "idle"]
      /\ arg' = [t \in Threads |-> NoArg]
      /\ it' = [t \in Readers |-> NoIt]
      /\ \/ UNCHANGED nlog3
         \/ \E rest \in CutReset(log[arg[Owner].log]) :
                /\ log' = [log EXCEPT ![arg[Owner].log] = rest]
                /\ given' = [given EXCEPT ![arg[Owner].log] = 0]
  BY Zenon DEF PowerFailure
<1>2. LogInv'
  <2>1. CASE UNCHANGED nlog3
    BY <1>1, <2>1 DEF nlog3, Inv, LogInv
  <2>2. ASSUME NEW rest \in CutReset(log[arg[Owner].log]),
               log' = [log EXCEPT ![arg[Owner].log] = rest],
               given' = [given EXCEPT ![arg[Owner].log] = 0]
        PROVE  LogInv'
    <3>1. arg[Owner].log \in Logs
      BY DEF Inv, CallInv, OwnerInv, Args
    <3>2. rest \in Seq(Lines) /\ Ascends(rest)
      BY <3>1, CutAscends DEF Inv, LogInv
    <3> QED BY <1>1, <2>2, <3>1, <3>2 DEF Inv, LogInv
  <2> QED BY <1>1, <2>1, <2>2
<1>3. ServiceInv'
  BY <1>1 DEF ServiceInv, Logs, Threads
<1>4. CallInv'
  BY <1>1, NoArgType
     DEF CallInv, WriterInv, ReaderInv, OwnerInv, Threads
<1>5. MutexInv' /\ QuietInv' /\ TextsAreWhole'
  BY <1>1 DEF MutexInv, Holding, QuietInv, TextsAreWhole, Threads
<1> QED BY <1>2, <1>3, <1>4, <1>5 DEF Inv

LEMMA CallsInv == Inv /\ Call => Inv'
<1> SUFFICES ASSUME Inv, Call PROVE Inv'
  OBVIOUS
<1>1. ASSUME NEW t \in Writers, NEW kind \in {"write", "format"},
             NEW l \in Logs, NEW s \in Severities, SyslogAppend(t, kind, l, s)
      PROVE  Inv'
  BY <1>1, BeginInv DEF SyslogAppend, Threads
<1>2. ASSUME NEW t \in Readers, NEW l \in Logs, NEW s, IteratorInit(t, l, s)
      PROVE  Inv'
  BY <1>2, BeginInv DEF IteratorInit, Threads
<1>3. ASSUME NEW t \in Readers, NEW l \in Logs, PlatformItCreate(t, l)
      PROVE  Inv'
  BY <1>2, <1>3 DEF PlatformItCreate
<1>4. ASSUME NEW t \in Readers, NEW kind \in {"prev", "next"},
             IteratorStep(t, kind)
      PROVE  Inv'
  BY <1>4, BeginInv DEF IteratorStep, Threads
<1>5. ASSUME NEW l \in Logs, SyslogReset(l)
      PROVE  Inv'
  <2>1. 0 \in Severities
    BY ConstantsAssumption DEF Severities
  <2> QED BY <1>5, <2>1, BeginInv DEF SyslogReset, Threads
<1> QED BY <1>1, <1>2, <1>3, <1>4, <1>5, SyslogInitInv, StartInv, StopInv,
           Zenon DEF Call

LEMMA NextInv == Inv /\ [Next]_vars => Inv'
<1> SUFFICES ASSUME Inv, [Next]_vars PROVE Inv'
  OBVIOUS
<1>1. ASSUME NEW t \in Threads, Work(t)
      PROVE  Inv'
  BY <1>1, FormatInv, WriteInv, WalkInv, StartLogInv, ResetLogInv, StopLockInv,
     StopDeleteInv, UnlockInv, Zenon DEF Work
<1>2. ASSUME NEW t \in Threads, Acquire(t)
      PROVE  Inv'
  BY <1>2, LockInv, StopLockInv, Zenon DEF Acquire
<1>3. CASE UNCHANGED vars
  <2>1. UNCHANGED <<log, given, id, cnt, mutex, buffer, pc, arg, it>>
    BY <1>3 DEF vars, nlog3, service, calls
  <2> QED BY <2>1
          DEF Inv, LogInv, ServiceInv, Carries, CallInv, WriterInv, ReaderInv,
              OwnerInv, MutexInv, QuietInv, Quiet, TextsAreWhole
<1> QED BY <1>1, <1>2, <1>3, CallsInv, PowerFailureInv, Zenon DEF Next

THEOREM Invariance == Spec => []Inv
BY InitInv, NextInv, PTL DEF Spec

----------------------------------------------------------------------------
(* The theorems.                                                           *)

\* The ids of every log ascend, and the next one is past them all
\* (_syslog_write(), _syslog_next_id()).
THEOREM IdsCorrect == Spec => []IdsAscend
<1>1. Inv => IdsAscend
  <2> SUFFICES ASSUME Inv, NEW l \in Logs
               PROVE  /\ \A n \in 2 .. Len(log[l]) :
                            log[l][n - 1].id < log[l][n].id
                      /\ l < cnt /\ log[l] # <<>> =>
                            log[l][Len(log[l])].id < id[l]
    BY DEF IdsAscend
  <2>1. /\ log[l] \in Seq(Lines) /\ Ascends(log[l])
        /\ l < cnt => Carries(l)
    BY DEF Inv, LogInv, ServiceInv
  <2>2. /\ Len(log[l]) \in Nat
        /\ DOMAIN log[l] = 1 .. Len(log[l])
        /\ \A n \in 1 .. Len(log[l]) : log[l][n].id \in Nat
        /\ log[l] # <<>> => Len(log[l]) \in 1 .. Len(log[l])
    BY <2>1, LineTypes
  <2>3. \A n \in 2 .. Len(log[l]) : log[l][n - 1].id < log[l][n].id
    <3> SUFFICES ASSUME NEW n \in 2 .. Len(log[l])
                 PROVE  log[l][n - 1].id < log[l][n].id
      OBVIOUS
    <3>1. n - 1 \in DOMAIN log[l] /\ n \in DOMAIN log[l] /\ n - 1 < n
      BY <2>2
    <3> QED BY <2>1, <3>1, Zenon DEF Ascends
  <2> QED BY <2>1, <2>2, <2>3 DEF Carries
<1> QED BY <1>1, Invariance, PTL

\* A formatted text is not overwritten before it is appended: the buffer that
\* all writers share is used in the mutex only (syslog_vappend_fmtstr()).
THEOREM TextsCorrect == Spec => []TextsAreWhole
<1>1. Inv => TextsAreWhole
  BY DEF Inv
<1> QED BY <1>1, Invariance, PTL

\* A call in the mutex goes on by a step of its thread.
LEMMA OwnStep ==
    ASSUME Inv, Next, NEW t \in Threads, pc[t] \in Holding,
           pc'[t] = "unlock", pc[t] # "unlock"
    PROVE  Work(t) \/ Acquire(t)
<1>1. DOMAIN pc = Threads
  BY DEF Inv, CallInv
<1>2. ~Call
  BY <1>1 DEF Call, SyslogAppend, IteratorInit, PlatformItCreate, IteratorStep,
              SyslogReset, Begin, SyslogInit, Start, Stop, calls
<1>3. ~PowerFailure
  BY <1>1 DEF PowerFailure
<1>4. ASSUME NEW u \in Threads, Work(u) \/ Acquire(u)
      PROVE  u = t
  <2>1. pc' = pc \/ \E to : pc' = [pc EXCEPT ![u] = to]
    <3>1. CASE Acquire(u)
      BY <3>1 DEF Acquire, Lock, StopLock, Goto
    <3>2. CASE Unlock(u) \/ Format(u) \/ Write(u) \/ FindNewest(u) \/ Move(u)
      BY <3>2 DEF Unlock, Format, Write, FindNewest, Move, Goto, Return
    <3>3. CASE /\ u = Owner
               /\ StartLog \/ ResetLog \/ StopUnlock \/ StopDelete
      BY <3>3 DEF StartLog, ResetLog, StopUnlock, StopDelete, Goto, Return
    <3> QED BY <1>4, <3>1, <3>2, <3>3 DEF Work
  <2> QED BY <1>1, <2>1
<1> QED BY <1>2, <1>3, <1>4, Zenon DEF Next

\* A line carries the id after the newest one, whatever appends fail and
\* whoever else appends (_syslog_write()).
THEOREM AppendsCorrect == Spec => AppendsCarryOn
<1>1. Inv /\ [Next]_vars =>
        [\A l \in Logs :
            /\ log[l] # <<>>
            /\ \E t \in Writers : pc[t] = "write" /\ pc'[t] = "unlock"
                                  /\ arg[t].log = l
            => log'[l][Len(log'[l])].id - log[l][Len(log[l])].id
                    \in {0, 1}]_vars
  <2> SUFFICES ASSUME Inv, Next, NEW l \in Logs, log[l] # <<>>,
                      NEW t \in Writers, pc[t] = "write", pc'[t] = "unlock",
                      arg[t].log = l
               PROVE  log'[l][Len(log'[l])].id - log[l][Len(log[l])].id
                        \in {0, 1}
    BY DEF vars
  <2>1. Write(t)
    <3>1. t \in Threads /\ pc[t] \in Holding /\ pc[t] # "unlock"
      BY DEF Threads, Holding
    <3>2. Work(t) \/ Acquire(t)
      BY <3>1, OwnStep
    <3> QED BY <3>2, ConstantsAssumption
            DEF Work, Acquire, Format, Unlock, Lock, Threads
  <2> QED BY <2>1, WriteLogs
<1> QED BY <1>1, Invariance, PTL DEF AppendsCarryOn, Spec

----------------------------------------------------------------------------
(* What an iterator finds.  _syslog_iterator_find() is a recursive         *)
(* function; Sought gives its value outright.                              *)

LEMMA LeastOf ==
    ASSUME NEW S, S \subseteq Nat, S # {}
    PROVE  \E n \in S : \A m \in S : n <= m
<1>1. PICK n \in S : \A m \in S : <<m, n>> \notin OpToRel(<, Nat)
  BY NatLessThanWellFounded, WFMin
<1>2. OpToRel(<, Nat) = {p \in Nat \X Nat : p[1] < p[2]}
  BY DEF OpToRel
<1>3. n \in Nat /\ \A m \in S : m \in Nat /\ ~(m < n)
  BY <1>1, <1>2
<1>4. \A m \in S : n <= m
  BY <1>3
<1> QED BY <1>4

LEMMA GreatestOf ==
    ASSUME NEW N \in Nat, NEW S, S \subseteq 0 .. N, S # {}
    PROVE  \E n \in S : \A m \in S : m <= n
<1> DEFINE T == {n \in Nat : N - n \in S}
<1>1. \A n \in S : N - n \in T /\ N - (N - n) = n
  OBVIOUS
<1>2. T \subseteq Nat /\ T # {}
  BY <1>1
<1>3. PICK n \in T : \A m \in T : n <= m
  BY <1>2, LeastOf
<1>4. \A m \in S : N - m \in T /\ n <= N - m
  BY <1>1, <1>3
<1>5. \A m \in S : m <= N - n
  BY <1>3, <1>4
<1> QED BY <1>3, <1>5

\* The matching records that are reached from place m, and the first of them.
Reached(kind, l, m, s) ==
    IF kind = "next"
    THEN {n \in m .. Len(log[l]) : Match(l, n, s)}
    ELSE {n \in 1 .. m : /\ Match(l, n, s)
                         /\ n <= given[l] => m <= given[l]}

First(kind, S) ==
    IF S = {} THEN 0
    ELSE IF kind = "next" THEN CHOOSE n \in S : \A m \in S : n <= m
                          ELSE CHOOSE n \in S : \A m \in S : m <= n

LEMMA FirstIs ==
    ASSUME NEW kind, NEW S, S \subseteq Int, NEW m \in S,
           IF kind = "next" THEN \A n \in S : m <= n
                            ELSE \A n \in S : n <= m
    PROVE  First(kind, S) = m
<1>1. CASE kind = "next"
  <2> DEFINE c == CHOOSE n \in S : \A x \in S : n <= x
  <2>1. c \in S /\ \A x \in S : c <= x
    BY <1>1
  <2> HIDE DEF c
  <2>2. c = m
    BY <1>1, <2>1
  <2> QED BY <1>1, <2>2 DEF First, c
<1>2. CASE kind # "next"
  <2> DEFINE c == CHOOSE n \in S : \A x \in S : x <= n
  <2>1. c \in S /\ \A x \in S : x <= c
    BY <1>2
  <2> HIDE DEF c
  <2>2. c = m
    BY <1>2, <2>1
  <2> QED BY <1>2, <2>2 DEF First, c
<1> QED BY <1>1, <1>2

Sought(kind, l, m, s) ==
    IF m = 0 THEN 0 ELSE First(kind, Reached(kind, l, m, s))

\* Sought stops at a match and goes on from any other record.
LEMMA SoughtStep ==
    ASSUME NEW kind, NEW l, NEW s, NEW m \in 1 .. Len(log[l]),
           Len(log[l]) \in Nat, given[l] \in Nat
    PROVE  /\ MovePlace(kind, l, m) \in 0 .. Len(log[l])
           /\ IF Match(l, m, s) THEN Sought(kind, l, m, s) = m
              ELSE Sought(kind, l, m, s) =
                       Sought(kind, l, MovePlace(kind, l, m), s)
<1> DEFINE R(x) == Reached(kind, l, x, s)
           to == MovePlace(kind, l, m)
<1>1. to \in 0 .. Len(log[l])
  BY DEF MovePlace, NextPlace, PrevPlace
<1>2. CASE Match(l, m, s)
  <2>1. m \in R(m) /\ R(m) \subseteq Int
    BY <1>2 DEF Reached
  <2>2. IF kind = "next" THEN \A n \in R(m) : m <= n
                         ELSE \A n \in R(m) : n <= m
    BY DEF Reached
  <2> HIDE DEF R
  <2>3. First(kind, R(m)) = m
    BY <2>1, <2>2, FirstIs
  <2> QED BY <1>1, <1>2, <2>3 DEF Sought, R
<1>3. CASE ~Match(l, m, s)
  <2>1. CASE to = 0
    <3>1. R(m) = {}
      BY <1>3, <2>1 DEF Reached, MovePlace, NextPlace, PrevPlace
    <3> QED BY <1>1, <1>3, <2>1, <3>1 DEF Sought, First
  <2>2. CASE to # 0
    <3>1. R(m) = R(to)
      <4>1. CASE kind = "next"
        <5>1. to = m + 1
          BY <2>2, <4>1 DEF MovePlace, NextPlace
        <5> QED BY <1>3, <4>1, <5>1 DEF Reached
      <4>2. CASE kind # "next"
        <5>1. to = m - 1 /\ m - 1 # given[l]
          BY <2>2, <4>2 DEF MovePlace, PrevPlace
        <5>2. m <= given[l] <=> m - 1 <= given[l]
          BY <5>1
        <5> HIDE DEF to
        <5> QED BY <1>3, <4>2, <5>1, <5>2 DEF Reached
      <4> QED BY <4>1, <4>2
    <3> QED BY <1>1, <1>3, <2>2, <3>1 DEF Sought
  <2> QED BY <2>1, <2>2
<1> QED BY <1>2, <1>3

LEMMA FindSought ==
    ASSUME NEW kind, NEW l, NEW s, NEW n \in 0 .. Len(log[l]),
           Len(log[l]) \in Nat, given[l] \in Nat
    PROVE  Find(kind, l, n, s) = Sought(kind, l, n, s)
<1> DEFINE N == Len(log[l])
           D == 0 .. N
           to(m) == MovePlace(kind, l, m)
           g == [m \in D |-> Sought(kind, l, m, s)]
           body(h) == [m \in D |-> IF m = 0 \/ Match(l, m, s) THEN m
                                   ELSE h[to(m)]]
           f == CHOOSE h : h = body(h)
<1>1. \A m \in D \ {0} : /\ to(m) \in D
                         /\ IF Match(l, m, s) THEN g[m] = m
                                              ELSE g[m] = g[to(m)]
  BY SoughtStep
<1>2. g[0] = 0
  BY DEF Sought
<1>3. Find(kind, l, n, s) = f[n]
  BY DEF Find
<1> HIDE DEF to
<1>4. g = body(g)
  <2>1. \A m \in D : g[m] = IF m = 0 \/ Match(l, m, s) THEN m ELSE g[to(m)]
    BY <1>1, <1>2
  <2>2. DOMAIN g = D /\ g = [m \in D |-> g[m]]
    OBVIOUS
  <2> HIDE DEF g
  <2> QED BY <2>1, <2>2
<1>5. f = body(f)
  <2> HIDE DEF g
  <2> QED BY <1>4
<1> HIDE DEF f
<1>6. \A m \in D : f[m] = IF m = 0 \/ Match(l, m, s) THEN m ELSE f[to(m)]
  BY <1>5
<1> HIDE DEF g
<1> DEFINE B == {m \in D : f[m] # g[m]}
<1>7. ASSUME NEW m \in B
      PROVE  m # 0 /\ to(m) \in B
  BY <1>1, <1>2, <1>6, <1>7
<1>8. \A m \in B : IF kind = "next" THEN to(m) > m ELSE to(m) < m
  <2> SUFFICES ASSUME NEW m \in B
               PROVE  IF kind = "next" THEN to(m) > m ELSE to(m) < m
    OBVIOUS
  <2>1. to(m) # 0 /\ m \in 1 .. N
    BY <1>7
  <2> QED BY <2>1 DEF to, MovePlace, NextPlace, PrevPlace
<1>9. B = {}
  <2> SUFFICES ASSUME B # {} PROVE FALSE
    OBVIOUS
  <2>1. B \subseteq D /\ B \subseteq Nat /\ B \subseteq Int
    OBVIOUS
  <2>2. \A m \in B : to(m) \in B
    BY <1>7
  <2> HIDE DEF B
  <2>3. CASE kind = "next"
    <3>1. PICK m \in B : \A x \in B : x <= m
      BY <2>1, GreatestOf
    <3>2. to(m) \in Int /\ m \in Int /\ to(m) <= m /\ to(m) > m
      BY <1>8, <2>1, <2>2, <2>3, <3>1
    <3> QED BY <3>2
  <2>4. CASE kind # "next"
    <3>1. PICK m \in B : \A x \in B : m <= x
      BY <2>1, LeastOf
    <3>2. to(m) \in Int /\ m \in Int /\ m <= to(m) /\ to(m) < m
      BY <1>8, <2>1, <2>2, <2>4, <3>1
    <3> QED BY <3>2
  <2> QED BY <2>3, <2>4
<1>10. f[n] = g[n]
  BY <1>9
<1> QED BY <1>3, <1>10 DEF g

\* Place r has the first match from place n on, and is past it: every match
\* that is kept lies before n or from r on.
FirstMatch(kind, l, n, s, r) ==
    /\ r \in 0 .. Len(log[l])
    /\ n = 0 => r = 0
    /\ r # 0 => /\ Match(l, r, s)
                /\ IF kind = "next" THEN n <= r ELSE r <= n
    /\ \A m \in (given[l] + 1) .. Len(log[l]) :
            /\ n # 0 /\ Match(l, m, s)
            /\ IF kind = "next" THEN n <= m ELSE m <= n
            => r # 0 /\ IF kind = "next" THEN r <= m ELSE m <= r

LEMMA FindDone ==
    ASSUME LogInv, NEW l \in Logs, NEW s, NEW kind,
           NEW n \in 0 .. Len(log[l])
    PROVE  FirstMatch(kind, l, n, s, Find(kind, l, n, s))
<1> DEFINE r == Find(kind, l, n, s)
<1>1. Len(log[l]) \in Nat /\ given[l] \in Nat
  BY DEF LogInv
<1>2. r = Sought(kind, l, n, s)
  BY <1>1, FindSought
<1> HIDE DEF r
<1>3. CASE n = 0
  BY <1>1, <1>2, <1>3 DEF Sought, FirstMatch, r
<1>4. CASE n # 0
  <2> DEFINE R == Reached(kind, l, n, s)
             N == Len(log[l])
  <2>1. r = First(kind, R)
    BY <1>2, <1>4 DEF Sought
  <2>2. /\ R \subseteq 1 .. N
        /\ \A m \in R : /\ Match(l, m, s)
                        /\ IF kind = "next" THEN n <= m ELSE m <= n
        /\ \A m \in (given[l] + 1) .. N :
                /\ Match(l, m, s)
                /\ IF kind = "next" THEN n <= m ELSE m <= n
                => m \in R
    BY <1>1, <1>4 DEF Reached
  <2>3. N \in Nat
    BY <1>1
  <2> HIDE DEF R, N
  <2>4. CASE R = {}
    <3>1. r = 0
      BY <2>1, <2>4 DEF First
    <3> QED BY <1>4, <2>2, <2>3, <2>4, <3>1 DEF N, FirstMatch, r
  <2>5. CASE R # {}
    <3>1. R \subseteq 0 .. N /\ R \subseteq Nat /\ R \subseteq Int
      BY <2>2, <2>3
    <3>2. PICK m \in R : IF kind = "next" THEN \A x \in R : m <= x
                                          ELSE \A x \in R : x <= m
      <4>1. \E m \in R : \A x \in R : m <= x
        BY <2>5, <3>1, LeastOf
      <4>2. \E m \in R : \A x \in R : x <= m
        BY <2>3, <2>5, <3>1, GreatestOf
      <4> QED BY <4>1, <4>2
    <3>3. r = m
      BY <2>1, <3>1, <3>2, FirstIs
    <3>4. m \in 1 .. N
      BY <2>2
    <3> QED BY <1>4, <2>2, <2>3, <3>2, <3>3, <3>4 DEF N, FirstMatch, r
  <2> QED BY <2>4, <2>5
<1> QED BY <1>3, <1>4

\* A record of a log in service has an id below the next one.
LEMMA RecordBelow ==
    ASSUME Inv, NEW l \in Logs, l < cnt, NEW n \in 1 .. Len(log[l])
    PROVE  /\ log[l][n] \in Lines
           /\ log[l][n].id \in Nat
           /\ log[l][n].id < id[l]
<1>1. /\ log[l] \in Seq(Lines) /\ Ascends(log[l]) /\ Carries(l)
      /\ id[l] \in Nat
  BY DEF Inv, LogInv, ServiceInv
<1>2. /\ Len(log[l]) \in Nat /\ DOMAIN log[l] = 1 .. Len(log[l])
      /\ \A m \in 1 .. Len(log[l]) :
            log[l][m] \in Lines /\ log[l][m].id \in Nat
      /\ log[l] # <<>>
  BY <1>1, LineTypes
<1>3. id[l] = log[l][Len(log[l])].id + 1
  BY <1>1, <1>2 DEF Carries
<1>4. n = Len(log[l]) \/ log[l][n].id < log[l][Len(log[l])].id
  <2>1. n \in DOMAIN log[l] /\ Len(log[l]) \in DOMAIN log[l]
        /\ (n = Len(log[l]) \/ n < Len(log[l]))
    BY <1>2
  <2> QED BY <1>1, <2>1, Zenon DEF Ascends
<1>5. Len(log[l]) \in 1 .. Len(log[l])
  BY <1>2
<1>6. log[l][Len(log[l])].id \in Nat /\ log[l][n].id \in Nat
  BY <1>2, <1>5
<1> QED BY <1>2, <1>3, <1>4, <1>6

\* The order of the ids is that of the places.
LEMMA PlacesOrdered ==
    ASSUME LogInv, NEW l \in Logs,
           NEW m \in 1 .. Len(log[l]), NEW n \in 1 .. Len(log[l])
    PROVE  /\ log[l][m].id < log[l][n].id <=> m < n
           /\ log[l][m].id = log[l][n].id <=> m = n
<1>1. log[l] \in Seq(Lines) /\ Ascends(log[l])
  BY DEF LogInv
<1>2. /\ DOMAIN log[l] = 1 .. Len(log[l])
      /\ log[l][m].id \in Nat /\ log[l][n].id \in Nat
  BY <1>1, LineTypes
<1>3. /\ m < n => log[l][m].id < log[l][n].id
      /\ n < m => log[l][n].id < log[l][m].id
  BY <1>1, <1>2, Zenon DEF Ascends
<1> QED BY <1>2, <1>3

LEMMA PlaceDone ==
    ASSUME NEW l, NEW line, NEW n, n = Place(l, line),
           DOMAIN log[l] = 1 .. Len(log[l])
    PROVE  n # 0 => n \in 1 .. Len(log[l]) /\ log[l][n].id = line.id
BY DEF Place

----------------------------------------------------------------------------
(* The invariant of the iterators.                                         *)

\* What a call does in the mutex, or is about to.
Doing(t) == IF pc[t] = "lock" THEN arg[t].kind ELSE pc[t]

\* A reader begins to walk a log that is in service, and moves an iterator
\* that it has.
ReaderCall(t) ==
    /\ Doing(t) = "init" => arg[t] \in Args /\ arg[t].log < cnt
    /\ Doing(t) \in {"prev", "next"} => it[t] # NoIt

\* An iterator stands on a line that it has seen, in a log that is in service,
\* and has seen no line that is not written yet.
SeenInv(t) ==
    it[t] # NoIt =>
        /\ it[t] \in Iterators
        /\ it[t].log < cnt
        /\ it[t].line.id \in seen[t]
        /\ \A i \in seen[t] : i \in Nat /\ i < id[it[t].log]

\* It has seen the records that are kept between two that it has seen.
Unbroken(t) ==
    it[t] # NoIt =>
        LET l == it[t].log
        IN  \A n \in (given[l] + 1) .. Len(log[l]) :
                /\ log[l][n].severity <= it[t].severity
                /\ \E i, j \in seen[t] : i < log[l][n].id /\ log[l][n].id < j
                => log[l][n].id \in seen[t]

IteratorInv ==
    /\ DOMAIN seen = Readers
    /\ \A t \in Readers : ReaderCall(t) /\ SeenInv(t) /\ Unbroken(t)

LEMMA IteratorInit0 == Init => IteratorInv
BY DEF Init, IteratorInv, ReaderCall, Doing, SeenInv, Unbroken, Threads

\* The records that are kept were kept before, or are new.
Grown(l) ==
    /\ id[l] <= id'[l]
    /\ \A n \in (given'[l] + 1) .. Len(log'[l]) :
        \/ id[l] <= log'[l][n].id
        \/ \E m \in (given[l] + 1) .. Len(log[l]) : log'[l][n] = log[l][m]

LEMMA GrownUnbroken ==
    ASSUME LogInv, LogInv', NEW t \in Readers, SeenInv(t), Unbroken(t),
           it'[t] = it[t], seen'[t] = seen[t], cnt' = cnt,
           \A l \in Logs : Grown(l)
    PROVE  SeenInv(t)' /\ Unbroken(t)'
<1> DEFINE l == it[t].log
<1> SUFFICES ASSUME it[t] # NoIt
             PROVE  SeenInv(t)' /\ Unbroken(t)'
  BY DEF SeenInv, Unbroken
<1>1. /\ l \in Logs /\ it[t].line.id \in seen[t]
      /\ \A i \in seen[t] : i \in Nat /\ i < id[l]
  BY DEF SeenInv, Iterators
<1> HIDE DEF l
<1>2. Grown(l) /\ id[l] \in Nat /\ id'[l] \in Nat
  BY <1>1 DEF LogInv
<1>3. \A i \in seen[t] : i \in Nat /\ i < id'[l]
  <2>1. id[l] <= id'[l]
    BY <1>2 DEF Grown
  <2> QED BY <1>1, <1>2, <2>1
<1>4. SeenInv(t)'
  BY <1>1, <1>3 DEF SeenInv, l
<1>5. ASSUME NEW n \in (given'[l] + 1) .. Len(log'[l]),
             log'[l][n].severity <= it[t].severity,
             NEW i \in seen[t], NEW j \in seen[t],
             i < log'[l][n].id, log'[l][n].id < j
      PROVE  log'[l][n].id \in seen[t]
  <2>1. log'[l][n].id \in Nat
    <3>1. log'[l] \in Seq(Lines) /\ given'[l] \in Nat
      BY <1>1 DEF LogInv
    <3>2. Len(log'[l]) \in Nat
      BY <3>1, LineTypes
    <3>3. n \in 1 .. Len(log'[l])
      BY <1>5, <3>1, <3>2
    <3> QED BY <3>1, <3>3, LineTypes
  <2>2. ~(id[l] <= log'[l][n].id)
    BY <1>1, <1>2, <1>5, <2>1
  <2>3. PICK m \in (given[l] + 1) .. Len(log[l]) : log'[l][n] = log[l][m]
    BY <1>2, <1>5, <2>2 DEF Grown
  <2>4. /\ log[l][m].severity <= it[t].severity
        /\ i < log[l][m].id /\ log[l][m].id < j
    BY <1>5, <2>3
  <2>5. log[l][m].id \in seen[t]
    BY <2>3, <2>4 DEF Unbroken, l
  <2> QED BY <2>3, <2>5
<1>6. Unbroken(t)'
  BY <1>5 DEF Unbroken, l
<1> QED BY <1>4, <1>6

\* The records that are kept.
LEMMA RestPlaces ==
    ASSUME NEW s \in Seq(Lines), Ascends(s), NEW k \in Nat,
           k = 0 \/ k < Len(s)
    PROVE  /\ SubSeq(s, k + 1, Len(s)) \in Seq(Lines)
           /\ Len(SubSeq(s, k + 1, Len(s))) = Len(s) - k
           /\ \A i \in 1 .. Len(s) - k : SubSeq(s, k + 1, Len(s))[i] = s[k + i]
<1> DEFINE q == SubSeq(s, k + 1, Len(s))
<1>1. Len(s) \in Nat
  BY LineTypes
<1>2. 1 <= k + 1 /\ Len(s) <= Len(s) /\ k + 1 \in Int /\ Len(s) \in Int
  BY <1>1
<1>3. \A i \in 1 .. Len(s) - (k + 1) + 1 : q[i] = s[k + 1 + i - 1]
  BY <1>2, PartAscends, Zenon
<1>4. q \in Seq(Lines) /\ Len(q) = Len(s) - k
  BY RestAscends, Zenon
<1> HIDE DEF q
<1>5. ASSUME NEW i \in 1 .. Len(s) - k
      PROVE  q[i] = s[k + i]
  <2>1. i \in 1 .. Len(s) - (k + 1) + 1 /\ k + 1 + i - 1 = k + i
    BY <1>1
  <2> QED BY <1>3, <2>1
<1> QED BY <1>4, <1>5 DEF q

\* nlog3_append() of lines from the next id on.
LEMMA AppendGrown ==
    ASSUME LogInv, NEW l \in Logs, NEW lines \in Seq(Lines),
           \A n \in DOMAIN lines : id[l] <= lines[n].id,
           NlogAppend(l, lines), NEW k \in Logs,
           NEW n \in (given'[k] + 1) .. Len(log'[k])
    PROVE  \/ id[k] <= log'[k][n].id
           \/ \E m \in (given[k] + 1) .. Len(log[k]) : log'[k][n] = log[k][m]
<1>1. /\ log[l] \in Seq(Lines) /\ given[l] \in Nat /\ Len(log[l]) \in Nat
      /\ given[l] = 0 \/ given[l] < Len(log[l])
      /\ Len(lines) \in Nat /\ DOMAIN lines = 1 .. Len(lines)
      /\ DOMAIN log = Logs /\ DOMAIN given = Logs
  BY LineTypes DEF LogInv
<1>2. CASE k # l
  <2>1. log'[k] = log[k] /\ given'[k] = given[k]
    BY <1>1, <1>2 DEF NlogAppend, Stage
  <2> QED BY <2>1
<1>3. CASE k = l /\ log' = [log EXCEPT ![l] = @ \o lines] /\ UNCHANGED given
  <2> DEFINE q == log[l] \o lines
  <2>1. /\ Len(q) = Len(log[l]) + Len(lines)
        /\ \A i \in 1 .. Len(log[l]) + Len(lines) :
              q[i] = IF i <= Len(log[l]) THEN log[l][i]
                                         ELSE lines[i - Len(log[l])]
    BY <1>1, ConcatProperties, Zenon
  <2>2. log'[k] = q /\ given'[k] = given[l]
    BY <1>1, <1>3
  <2> HIDE DEF q
  <2>3. n \in 1 .. Len(log[l]) + Len(lines) /\ given[l] + 1 <= n
    BY <1>1, <2>1, <2>2
  <2>4. CASE n <= Len(log[l])
    <3>1. n \in (given[l] + 1) .. Len(log[l]) /\ q[n] = log[l][n]
      BY <1>1, <2>1, <2>3, <2>4
    <3> QED BY <1>3, <2>2, <3>1
  <2>5. CASE ~(n <= Len(log[l]))
    <3>1. n - Len(log[l]) \in DOMAIN lines
          /\ q[n] = lines[n - Len(log[l])]
      BY <1>1, <2>1, <2>3, <2>5
    <3> QED BY <1>3, <2>2, <3>1
  <2> QED BY <2>4, <2>5
<1>4. CASE k = l /\ \E room : Stage(l, room, lines)
  <2> DEFINE q == Kept(l) \o lines
             L == Len(log[l]) - given[l]
  <2>1. /\ Kept(l) \in Seq(Lines)
        /\ Len(Kept(l)) = L
        /\ \A i \in 1 .. L : Kept(l)[i] = log[l][given[l] + i]
    <3>1. Ascends(log[l])
      BY DEF LogInv
    <3> QED BY <1>1, <3>1, RestPlaces, Zenon DEF Kept
  <2>2. L \in Nat
    BY <1>1
  <2> HIDE DEF L
  <2>3. /\ Len(q) = L + Len(lines)
        /\ \A i \in 1 .. L + Len(lines) :
              q[i] = IF i <= L THEN Kept(l)[i] ELSE lines[i - L]
    BY <2>1, ConcatProperties, Zenon
  <2> HIDE DEF q
  <2>4. log'[k] = q /\ given'[k] \in Nat
    BY <1>1, <1>4, ConstantsAssumption DEF Stage, q
  <2>5. n \in 1 .. L + Len(lines)
    BY <1>1, <2>2, <2>3, <2>4
  <2>6. CASE n <= L
    <3>1. n \in 1 .. L
      BY <2>2, <2>5, <2>6
    <3>2. q[n] = log[l][given[l] + n]
      BY <2>1, <2>3, <2>5, <2>6, <3>1
    <3>3. given[l] + n \in (given[l] + 1) .. Len(log[l])
      BY <1>1, <3>1 DEF L
    <3> QED BY <1>4, <2>4, <3>2, <3>3
  <2>7. CASE ~(n <= L)
    <3>1. n - L \in DOMAIN lines /\ q[n] = lines[n - L]
      BY <1>1, <2>2, <2>3, <2>5, <2>7
    <3> QED BY <1>4, <2>4, <3>1
  <2> QED BY <2>6, <2>7
<1> QED BY <1>2, <1>3, <1>4 DEF NlogAppend

----------------------------------------------------------------------------
(* The steps of the iterators.                                             *)

\* What a move comes to.
LEMMA MoveDone ==
    ASSUME Inv, NEW t \in Readers, SeenInv(t), ReaderCall(t), Move(t),
           NEW l, l = it[t].log, NEW s, s = it[t].severity,
           NEW n, n = Place(l, it[t].line)
    PROVE  /\ l \in Logs /\ l < cnt
           /\ it[t] \in Iterators /\ it[t].line.id \in seen[t]
           /\ n # 0 => n \in 1 .. Len(log[l]) /\ log[l][n].id = it[t].line.id
           /\ \E first \in 0 .. Len(log[l]), r \in 0 .. Len(log[l]) :
                /\ r = Find(pc[t], l, first, s)
                /\ n # 0 => first = MovePlace(pc[t], l, n)
                /\ LET line == IF r # 0 THEN log[l][r] ELSE it[t].line
                   IN  /\ line \in Lines /\ line.id \in Nat
                       /\ line.id < id[l]
                       /\ it' = [it EXCEPT ![t].line = line]
                       /\ seen' = [seen EXCEPT ![t] =
                                      IF n = 0 THEN {line.id}
                                      ELSE @ \union {line.id}]
<1>1. it[t] # NoIt /\ pc[t] \in {"prev", "next"}
  BY DEF Move, ReaderCall, Doing
<1>2. /\ it[t] \in Iterators /\ l \in Logs /\ l < cnt
      /\ it[t].line \in Lines /\ it[t].line.id \in Nat
      /\ it[t].line.id < id[l] /\ it[t].line.id \in seen[t]
  BY <1>1 DEF SeenInv, Iterators
<1>3. LogInv /\ log[l] \in Seq(Lines) /\ given[l] \in Nat
  BY <1>2 DEF Inv, LogInv
<1>4. Len(log[l]) \in Nat /\ DOMAIN log[l] = 1 .. Len(log[l])
  BY <1>3, LineTypes
<1>5. n # 0 => n \in 1 .. Len(log[l]) /\ log[l][n].id = it[t].line.id
  BY <1>4, PlaceDone
<1>6. PICK first \in FirstPlaces(pc[t], l, n) :
        LET line == Land(t, first, Find(pc[t], l, first, s))
        IN  /\ it' = [it EXCEPT ![t].line = line]
            /\ seen' = IF n = 0 THEN [seen EXCEPT ![t] = {line.id}]
                       ELSE [seen EXCEPT ![t] = @ \union {line.id}]
  BY DEF Move
<1>7. /\ first \in 0 .. Len(log[l])
      /\ n # 0 => first = MovePlace(pc[t], l, n)
  BY <1>4, <1>5, <1>6 DEF FirstPlaces, MovePlace, NextPlace, PrevPlace
<1> DEFINE r == Find(pc[t], l, first, s)
           line == IF r # 0 THEN log[l][r] ELSE it[t].line
<1>8. r = Find(pc[t], l, first, s) /\ line = Land(t, first, r)
  BY DEF Land
<1> HIDE DEF r
<1>9. r \in 0 .. Len(log[l])
  BY <1>2, <1>3, <1>7, FindDone DEF FirstMatch, r
<1>10. line \in Lines /\ line.id \in Nat /\ line.id < id[l]
  <2>1. CASE r = 0
    BY <1>2, <2>1
  <2>2. CASE r # 0
    <3>1. r \in 1 .. Len(log[l])
      BY <1>4, <1>9, <2>2
    <3> QED BY <1>2, <2>2, <3>1, RecordBelow
  <2> QED BY <2>1, <2>2
<1>11. /\ it' = [it EXCEPT ![t].line = line]
       /\ seen' = [seen EXCEPT ![t] = IF n = 0 THEN {line.id}
                                      ELSE @ \union {line.id}]
  BY <1>6, <1>8
<1> QED BY <1>2, <1>5, <1>7, <1>8, <1>9, <1>10, <1>11, Zenon

\* Between the line that an iterator leaves and the one it comes to there is
\* no match that is kept.
LEMMA NoneBetween ==
    ASSUME LogInv, NEW l \in Logs, NEW kind \in {"prev", "next"}, NEW s,
           NEW n \in 1 .. Len(log[l]), NEW first \in 0 .. Len(log[l]),
           first = MovePlace(kind, l, n),
           NEW r, r = Find(kind, l, first, s),
           NEW m \in (given[l] + 1) .. Len(log[l]), log[l][m].severity <= s
    PROVE  /\ r # 0 => IF kind = "next" THEN n < r ELSE r < n
           /\ kind = "next" /\ n < m => r # 0 /\ r <= m
           /\ kind = "prev" /\ m < n => r # 0 /\ m <= r
<1>1. /\ Len(log[l]) \in Nat /\ given[l] \in Nat
  BY LineTypes DEF LogInv
<1>2. /\ r \in 0 .. Len(log[l])
      /\ first = 0 => r = 0
      /\ r # 0 => IF kind = "next" THEN first <= r ELSE r <= first
      /\ first # 0 /\ (IF kind = "next" THEN first <= m ELSE m <= first) =>
            r # 0 /\ IF kind = "next" THEN r <= m ELSE m <= r
  <2>1. Match(l, m, s)
    BY DEF Match
  <2>2. FirstMatch(kind, l, first, s, r)
    BY FindDone
  <2> QED BY <2>1, <2>2 DEF FirstMatch
<1>3. CASE kind = "next"
  <2>1. /\ first # 0 => first = n + 1
        /\ n < m => first # 0
    BY <1>1, <1>3 DEF MovePlace, NextPlace
  <2> QED BY <1>1, <1>2, <1>3, <2>1
<1>4. CASE kind = "prev"
  <2>1. /\ first # 0 => first = n - 1
        /\ m < n => first # 0
    BY <1>1, <1>4 DEF MovePlace, PrevPlace
  <2> QED BY <1>1, <1>2, <1>4, <2>1
<1> QED BY <1>3, <1>4

\* An iterator that stays, in logs that stay.
LEMMA SameUnbroken ==
    ASSUME NEW t, SeenInv(t), Unbroken(t),
           it'[t] = it[t], seen'[t] = seen[t],
           UNCHANGED <<log, given, id, cnt>>
    PROVE  SeenInv(t)' /\ Unbroken(t)'
BY DEF SeenInv, Unbroken

\* What a call of another thread leaves of a reader's call.
LEMMA SameCall ==
    ASSUME NEW t, ReaderCall(t), it'[t] = it[t], cnt' = cnt,
           pc'[t] = pc[t], arg'[t] = arg[t]
    PROVE  ReaderCall(t)'
BY DEF ReaderCall, Doing

\* The records between two that were seen stay seen when an iterator moves.
LEMMA MoveUnbroken ==
    ASSUME Inv, NEW t \in Readers, SeenInv(t), Unbroken(t), ReaderCall(t),
           Move(t), t \in DOMAIN seen
    PROVE  SeenInv(t)' /\ Unbroken(t)'
<1> DEFINE l == it[t].log
           s == it[t].severity
           n == Place(l, it[t].line)
           c == it[t].line.id
<1>0. l = it[t].log /\ s = it[t].severity /\ n = Place(l, it[t].line)
  OBVIOUS
<1> HIDE DEF l, s, n
<1>1. /\ l \in Logs /\ l < cnt
      /\ it[t] \in Iterators /\ c \in seen[t]
      /\ n # 0 => n \in 1 .. Len(log[l]) /\ log[l][n].id = c
      /\ \E first \in 0 .. Len(log[l]), r \in 0 .. Len(log[l]) :
            /\ r = Find(pc[t], l, first, s)
            /\ n # 0 => first = MovePlace(pc[t], l, n)
            /\ LET line == IF r # 0 THEN log[l][r] ELSE it[t].line
               IN  /\ line \in Lines /\ line.id \in Nat
                   /\ line.id < id[l]
                   /\ it' = [it EXCEPT ![t].line = line]
                   /\ seen' = [seen EXCEPT ![t] =
                                  IF n = 0 THEN {line.id}
                                  ELSE @ \union {line.id}]
  BY <1>0, MoveDone DEF c
<1>2. PICK first \in 0 .. Len(log[l]), r \in 0 .. Len(log[l]) :
            /\ r = Find(pc[t], l, first, s)
            /\ n # 0 => first = MovePlace(pc[t], l, n)
            /\ LET line == IF r # 0 THEN log[l][r] ELSE it[t].line
               IN  /\ line \in Lines /\ line.id \in Nat
                   /\ line.id < id[l]
                   /\ it' = [it EXCEPT ![t].line = line]
                   /\ seen' = [seen EXCEPT ![t] =
                                  IF n = 0 THEN {line.id}
                                  ELSE @ \union {line.id}]
  BY <1>1, Zenon
<1> USE DEF l, s, n
<1> DEFINE line == IF r # 0 THEN log[l][r] ELSE it[t].line
<1>3. /\ line \in Lines /\ line.id \in Nat /\ line.id < id[l]
      /\ it' = [it EXCEPT ![t].line = line]
      /\ seen' = [seen EXCEPT ![t] = IF n = 0 THEN {line.id}
                                     ELSE @ \union {line.id}]
  BY <1>2
<1>4. /\ it[t] # NoIt /\ pc[t] \in {"prev", "next"}
      /\ UNCHANGED <<log, given, id, cnt>>
      /\ DOMAIN it = Readers
      /\ LogInv
  BY DEF Move, ReaderCall, Doing, nlog3, service, Inv, QuietInv
<1>5. r = 0 => line.id = c
  OBVIOUS
<1>6. r # 0 => line.id = log[l][r].id /\ r \in 1 .. Len(log[l])
  <2>1. Len(log[l]) \in Nat
    <3>1. l \in Logs
      BY <1>1, Zenon
    <3> HIDE DEF l
    <3>2. log[l] \in Seq(Lines)
      BY <1>4, <3>1 DEF LogInv
    <3> QED BY <3>2, LineTypes
  <2> QED BY <2>1
<1>7. /\ \A i \in seen[t] : i \in Nat /\ i < id[l]
      /\ id[l] \in Nat
  BY <1>1, <1>4 DEF SeenInv, LogInv
<1>8. ASSUME NEW q \in (given[l] + 1) .. Len(log[l]),
             log[l][q].severity <= s
      PROVE  ~ \E i, j \in seen[t] : /\ i < log[l][q].id
                                     /\ log[l][q].id < j
                                     /\ log[l][q].id \notin seen[t]
  BY <1>4, <1>8 DEF Unbroken
<1> HIDE DEF line, n, c
<1>9. /\ it'[t] \in Iterators /\ it'[t].log = l /\ it'[t].severity = s
      /\ it'[t].line = line
  BY <1>1, <1>3, <1>4 DEF Iterators
<1> HIDE DEF l, s
<1>10. SeenInv(t)' /\ Unbroken(t)'
  <2>1. seen'[t] = IF n = 0 THEN {line.id} ELSE seen[t] \union {line.id}
    BY <1>3
  <2>2. SeenInv(t)'
    <3>1. \A i \in seen'[t] : i \in Nat /\ i < id[l]
      BY <1>3, <1>7, <2>1
    <3>2. line.id \in seen'[t]
      BY <2>1
    <3> QED BY <1>1, <1>4, <1>9, <3>1, <3>2 DEF SeenInv
  <2>3. ASSUME NEW q \in (given[l] + 1) .. Len(log[l]),
               log[l][q].severity <= s,
               NEW i \in seen'[t], NEW j \in seen'[t],
               i < log[l][q].id, log[l][q].id < j,
               log[l][q].id \notin seen'[t]
        PROVE  FALSE
    <3> DEFINE v == log[l][q].id
    <3>1. /\ q \in 1 .. Len(log[l]) /\ given[l] \in Nat
          /\ Len(log[l]) \in Nat /\ v \in Nat
      <4>1. log[l] \in Seq(Lines) /\ given[l] \in Nat
        BY <1>1, <1>4 DEF LogInv
      <4>2. Len(log[l]) \in Nat
        BY <4>1, LineTypes
      <4>3. q \in 1 .. Len(log[l])
        BY <4>1, <4>2
      <4> QED BY <4>1, <4>2, <4>3, LineTypes
    <3>2. n # 0
      <4> SUFFICES ASSUME n = 0 PROVE FALSE
        OBVIOUS
      <4>1. i = line.id /\ j = line.id
        BY <2>1
      <4> QED BY <1>3, <2>3, <3>1, <4>1
    <3>3. /\ seen'[t] = seen[t] \union {line.id}
          /\ n \in 1 .. Len(log[l]) /\ log[l][n].id = c
          /\ c \in seen[t] /\ c \in Nat
      BY <1>1, <1>7, <2>1, <3>2
    <3>4. /\ v \notin seen[t] /\ v # line.id /\ v # c
          /\ i \in Nat /\ j \in Nat
      BY <1>3, <1>7, <2>3, <3>3
    <3>5. \A x, y \in seen[t] : ~(x < v /\ v < y)
      BY <1>8, <2>3, <3>4
    <3>6. q < n <=> v < c
      BY <1>1, <1>4, <3>1, <3>3, PlacesOrdered
    <3>7. r # 0 => /\ q < r <=> v < line.id
                   /\ n < r <=> c < line.id
      <4>1. r # 0 => /\ v < log[l][r].id <=> q < r
                     /\ log[l][n].id < log[l][r].id <=> n < r
        BY <1>1, <1>4, <1>6, <3>1, <3>3, PlacesOrdered, Zenon
      <4> QED BY <1>6, <3>3, <4>1
    <3>8. /\ r # 0 => IF pc[t] = "next" THEN n < r ELSE r < n
          /\ pc[t] = "next" /\ n < q => r # 0 /\ r <= q
          /\ pc[t] = "prev" /\ q < n => r # 0 /\ q <= r
      <4>1. first = MovePlace(pc[t], l, n)
        BY <1>2, <3>2 DEF l, s, n
      <4>2. r = Find(pc[t], l, first, s)
        BY <1>2
      <4> QED BY <1>1, <1>4, <2>3, <3>3, <4>1, <4>2, NoneBetween
    <3>9. r # 0 => (n < r <=> ~(r < n \/ r = n)) /\ (q < r <=> ~(r <= q))
      BY <1>6, <3>1, <3>3
    <3>10. r = 0 => line.id \in seen[t]
      BY <1>5, <3>3
    <3>11. r # 0 => line.id # c
      <4> SUFFICES ASSUME r # 0 PROVE line.id # c
        OBVIOUS
      <4>1. r # n
        BY <1>4, <1>6, <3>3, <3>8
      <4> QED BY <1>1, <1>4, <1>6, <3>3, <4>1, PlacesOrdered
    <3> HIDE DEF v
    <3>12. CASE r = 0
      <4>1. i \in seen[t] /\ j \in seen[t]
        BY <3>3, <3>10, <3>12
      <4> QED BY <2>3, <3>5, <4>1 DEF v
    <3>13. CASE r # 0 /\ pc[t] = "next"
      <4>1. c < line.id
        BY <3>7, <3>8, <3>13
      <4>2. CASE v < c
        <5>1. i # line.id /\ i < v
          BY <1>3, <2>3, <3>1, <3>3, <3>4, <4>1, <4>2 DEF v
        <5>2. i \in seen[t]
          BY <3>3, <5>1
        <5> QED BY <3>3, <3>5, <4>2, <5>1, <5>2
      <4>3. CASE ~(v < c)
        <5>1. n < q
          <6>1. ~(q < n) /\ q # n
            BY <3>3, <3>4, <3>6, <4>3 DEF v
          <6> QED BY <3>1, <3>3, <6>1
        <5>2. r <= q
          BY <3>8, <3>13, <5>1
        <5>3. ~(v < line.id)
          BY <3>7, <3>9, <3>13, <5>2
        <5>4. j # line.id /\ v < j /\ c < v
          BY <1>3, <2>3, <3>1, <3>3, <3>4, <4>3, <5>3 DEF v
        <5>5. j \in seen[t]
          BY <3>3, <5>4
        <5> QED BY <3>3, <3>5, <5>4, <5>5
      <4> QED BY <4>2, <4>3
    <3>14. CASE r # 0 /\ pc[t] = "prev"
      <4>1. line.id < c
        <5>1. ~(c < line.id)
          BY <3>7, <3>8, <3>9, <3>14
        <5> QED BY <1>3, <3>3, <3>11, <3>14, <5>1
      <4>2. CASE v < c
        <5>1. q <= r
          BY <3>6, <3>8, <3>14, <4>2
        <5>2. v < line.id
          <6>1. q # r
            BY <1>6, <3>4, <3>14 DEF v
          <6>2. q < r
            BY <1>6, <3>1, <3>14, <5>1, <6>1
          <6> QED BY <3>7, <3>14, <6>2
        <5>3. i # line.id /\ i < v
          BY <1>3, <2>3, <3>1, <3>4, <5>2 DEF v
        <5>4. i \in seen[t]
          BY <3>3, <5>3
        <5> QED BY <3>3, <3>5, <4>2, <5>3, <5>4
      <4>3. CASE ~(v < c)
        <5>1. c < v /\ j # line.id /\ v < j
          BY <1>3, <2>3, <3>1, <3>3, <3>4, <4>1, <4>3 DEF v
        <5>2. j \in seen[t]
          BY <3>3, <5>1
        <5> QED BY <3>3, <3>5, <5>1, <5>2
      <4> QED BY <4>2, <4>3
    <3> QED BY <1>4, <3>12, <3>13, <3>14
  <2>4. Unbroken(t)'
    BY <1>4, <1>9, <2>3 DEF Unbroken
  <2> QED BY <2>2, <2>4
<1> QED BY <1>10

LEMMA FindUnbroken ==
    ASSUME Inv, NEW t \in Readers, ReaderCall(t), FindNewest(t),
           t \in DOMAIN seen
    PROVE  SeenInv(t)' /\ Unbroken(t)'
<1> DEFINE l == arg[t].log
           s == arg[t].severity
           r == Find("prev", l, Len(log[l]), s)
<1>1. /\ pc[t] = "init"
      /\ it' = [it EXCEPT ![t] =
              IF r = 0 THEN NoIt
              ELSE [log |-> l, severity |-> s, line |-> log[l][r]]]
      /\ seen' = [seen EXCEPT ![t] = IF r = 0 THEN {} ELSE {log[l][r].id}]
      /\ UNCHANGED <<log, given, id, cnt>>
      /\ DOMAIN it = Readers
      /\ LogInv
  BY DEF FindNewest, nlog3, service, Inv, QuietInv
<1>2. l \in Logs /\ s \in Severities /\ l < cnt
  BY <1>1 DEF ReaderCall, Doing, Args
<1>3. Len(log[l]) \in Nat
  BY <1>1, <1>2 DEF LogInv
<1>4. r \in 0 .. Len(log[l])
  <2>1. FirstMatch("prev", l, Len(log[l]), s, r)
    BY <1>1, <1>2, <1>3, FindDone
  <2> QED BY <2>1 DEF FirstMatch
<1> HIDE DEF r
<1>5. CASE r = 0
  BY <1>1, <1>5 DEF SeenInv, Unbroken
<1>6. CASE r # 0
  <2>1. /\ log[l][r] \in Lines /\ log[l][r].id \in Nat
        /\ log[l][r].id < id[l]
    <3>1. r \in 1 .. Len(log[l])
      BY <1>3, <1>4, <1>6
    <3> QED BY <1>2, <3>1, RecordBelow
  <2>2. /\ it'[t] = [log |-> l, severity |-> s, line |-> log[l][r]]
        /\ seen'[t] = {log[l][r].id}
    BY <1>1, <1>6
  <2> HIDE DEF l, s
  <2>3. it'[t] \in Iterators /\ it'[t].log = l
        /\ it'[t].line.id = log[l][r].id
    BY <1>2, <2>1, <2>2 DEF Iterators
  <2>4. SeenInv(t)'
    BY <1>1, <1>2, <2>1, <2>2, <2>3 DEF SeenInv
  <2>5. ASSUME NEW q \in (given[l] + 1) .. Len(log[l]),
               NEW i \in seen'[t], NEW j \in seen'[t],
               i < log[l][q].id, log[l][q].id < j
        PROVE  FALSE
    <3>1. log[l] \in Seq(Lines) /\ given[l] \in Nat
      BY <1>1, <1>2 DEF LogInv
    <3>2. q \in 1 .. Len(log[l])
      BY <1>3, <3>1
    <3>3. log[l][q].id \in Nat /\ i = log[l][r].id /\ j = log[l][r].id
      BY <2>2, <3>1, <3>2, LineTypes
    <3> QED BY <2>1, <2>5, <3>3
  <2>6. Unbroken(t)'
    BY <1>1, <2>3, <2>5 DEF Unbroken
  <2> QED BY <2>4, <2>6
<1> QED BY <1>5, <1>6

LEMMA WalkIterator ==
    ASSUME Inv, IteratorInv, NEW t \in Readers, FindNewest(t) \/ Move(t)
    PROVE  IteratorInv'
<1>1. /\ Goto(t, "unlock")
      /\ UNCHANGED <<log, given, id, cnt>>
      /\ DOMAIN it' = DOMAIN it /\ DOMAIN seen' = DOMAIN seen
      /\ \A u \in Readers \ {t} : it'[u] = it[u] /\ seen'[u] = seen[u]
  <2>1. DOMAIN it = Readers /\ DOMAIN seen = Readers
    BY DEF Inv, QuietInv, IteratorInv
  <2>2. Goto(t, "unlock") /\ UNCHANGED <<log, given, id, cnt>>
    BY DEF FindNewest, Move, nlog3, service
  <2>3. \E a, b : it' = [it EXCEPT ![t] = a] /\ seen' = [seen EXCEPT ![t] = b]
    <3>1. CASE FindNewest(t)
      BY <3>1 DEF FindNewest
    <3>2. CASE Move(t)
      BY <3>2 DEF Move
    <3> QED BY <3>1, <3>2
  <2> QED BY <2>1, <2>2, <2>3
<1>2. /\ pc'[t] = "unlock" /\ arg' = arg
      /\ \A u \in Threads \ {t} : pc'[u] = pc[u]
  BY <1>1 DEF Goto, Inv, CallInv, Threads
<1>3. /\ DOMAIN seen = Readers
      /\ \A u \in Readers : ReaderCall(u) /\ SeenInv(u) /\ Unbroken(u)
  BY DEF IteratorInv
<1>4. SeenInv(t)' /\ Unbroken(t)'
  BY <1>3, FindUnbroken, MoveUnbroken
<1>5. ReaderCall(t)'
  BY <1>2 DEF ReaderCall, Doing
<1>6. \A u \in Readers \ {t} : ReaderCall(u)' /\ SeenInv(u)' /\ Unbroken(u)'
  BY <1>1, <1>2, <1>3, SameCall, SameUnbroken DEF Threads
<1> QED BY <1>1, <1>3, <1>4, <1>5, <1>6 DEF IteratorInv

\* A call of any thread that leaves the iterators alone, and the logs.
LEMMA BeginIterator ==
    ASSUME Inv, IteratorInv, NEW t \in Threads, NEW kind, NEW l, NEW s,
           Begin(t, kind, l, s),
           t \in Readers =>
              \/ kind = "init" /\ l \in Logs /\ s \in Severities /\ l < cnt
              \/ kind \in {"prev", "next"} /\ it[t] # NoIt
    PROVE  IteratorInv'
<1>1. /\ UNCHANGED <<log, given, id, cnt, it, seen>>
      /\ pc'[t] = "lock"
      /\ arg'[t] = [kind |-> kind, log |-> l, severity |-> s]
      /\ \A u \in Threads \ {t} : pc'[u] = pc[u] /\ arg'[u] = arg[u]
  BY DEF Begin, nlog3, service, Inv, CallInv
<1>2. /\ DOMAIN seen = Readers
      /\ \A u \in Readers : ReaderCall(u) /\ SeenInv(u) /\ Unbroken(u)
  BY DEF IteratorInv
<1>3. \A u \in Readers : SeenInv(u)' /\ Unbroken(u)'
  BY <1>1, <1>2, SameUnbroken
<1>4. \A u \in Readers \ {t} : ReaderCall(u)'
  BY <1>1, <1>2, SameCall DEF Threads
<1>5. ASSUME t \in Readers
      PROVE  ReaderCall(t)'
  <2>1. Doing(t)' = kind /\ it'[t] = it[t]
    BY <1>1 DEF Doing
  <2>2. CASE kind = "init" /\ l \in Logs /\ s \in Severities /\ l < cnt
    <3>1. arg'[t] \in Args /\ arg'[t].log = l
      BY <1>1, <2>2 DEF Args, InCall
    <3> QED BY <1>1, <2>1, <2>2, <3>1 DEF ReaderCall
  <2>3. CASE kind \in {"prev", "next"} /\ it[t] # NoIt
    BY <2>1, <2>3 DEF ReaderCall
  <2> QED BY <1>5, <2>2, <2>3
<1> QED BY <1>1, <1>2, <1>3, <1>4, <1>5 DEF IteratorInv

LEMMA LockIterator ==
    ASSUME Inv, IteratorInv, NEW t \in Threads, Lock(t) \/ Unlock(t)
    PROVE  IteratorInv'
<1>1. /\ UNCHANGED <<log, given, id, cnt, it, seen>>
      /\ \/ pc[t] = "lock" /\ pc'[t] = arg[t].kind /\ arg'[t] = arg[t]
         \/ pc'[t] = "idle"
      /\ \A u \in Threads \ {t} : pc'[u] = pc[u] /\ arg'[u] = arg[u]
  BY DEF Lock, Unlock, Goto, Return, nlog3, Inv, CallInv
<1>2. /\ DOMAIN seen = Readers
      /\ \A u \in Readers : ReaderCall(u) /\ SeenInv(u) /\ Unbroken(u)
  BY DEF IteratorInv
<1>3. \A u \in Readers : SeenInv(u)' /\ Unbroken(u)'
  BY <1>1, <1>2, SameUnbroken
<1>4. \A u \in Readers \ {t} : ReaderCall(u)'
  BY <1>1, <1>2, SameCall DEF Threads
<1>5. ASSUME t \in Readers
      PROVE  ReaderCall(t)'
  BY <1>1, <1>2, <1>5 DEF ReaderCall, Doing
<1> QED BY <1>1, <1>2, <1>3, <1>4, <1>5 DEF IteratorInv

\* A step of a writer, or of the owner that resets a log.
LEMMA GrownIterator ==
    ASSUME Inv, Inv', IteratorInv, NEW t \in Threads \ Readers, NEW to,
           Goto(t, to), UNCHANGED <<cnt, it, seen>>,
           \A l \in Logs : Grown(l)
    PROVE  IteratorInv'
<1>1. /\ arg' = arg
      /\ \A u \in Readers : pc'[u] = pc[u]
      /\ LogInv /\ LogInv'
  BY DEF Goto, Inv, CallInv, Threads
<1>2. /\ DOMAIN seen = Readers
      /\ \A u \in Readers : ReaderCall(u) /\ SeenInv(u) /\ Unbroken(u)
  BY DEF IteratorInv
<1>3. \A u \in Readers : SeenInv(u)' /\ Unbroken(u)'
  BY <1>1, <1>2, GrownUnbroken
<1>4. \A u \in Readers : ReaderCall(u)'
  BY <1>1, <1>2, SameCall
<1> QED BY <1>2, <1>3, <1>4 DEF IteratorInv

LEMMA FormatIterator ==
    ASSUME Inv, Inv', IteratorInv, NEW t \in Writers, Format(t)
    PROVE  IteratorInv'
<1>1. /\ UNCHANGED <<log, given, id, cnt, it, seen>>
      /\ Goto(t, "write")
      /\ t \in Threads \ Readers
  BY ConstantsAssumption DEF Format, nlog3, Threads
<1>2. \A l \in Logs : id[l] <= id'[l]
  BY <1>1 DEF Inv, LogInv
<1>3. \A l \in Logs : Grown(l)
  BY <1>1, <1>2 DEF Grown
<1> QED BY <1>1, <1>3, GrownIterator

LEMMA WriteIterator ==
    ASSUME Inv, Inv', IteratorInv, NEW t \in Writers, Write(t)
    PROVE  IteratorInv'
<1> DEFINE l == arg[t].log
<1>1. /\ UNCHANGED <<cnt, it, seen>>
      /\ Goto(t, "unlock")
      /\ t \in Threads \ Readers
      /\ pc[t] = "write"
      /\ LogInv
  BY ConstantsAssumption DEF Write, Threads, Inv
<1>2. PICK good \in BOOLEAN :
        /\ NlogAppend(l, IF good THEN <<LineOf(t)>> ELSE <<>>)
        /\ id' = [id EXCEPT ![l] = IdAfter(l, good)]
  BY Zenon DEF Write
<1>3. l \in Logs /\ LineOf(t) \in Lines /\ LineOf(t).id = id[l]
  <2>1. l \in Logs /\ arg[t].severity \in Severities
    BY <1>1 DEF Inv, CallInv, WriterInv, Args
  <2> QED BY <1>1, <2>1 DEF LogInv, LineOf, Lines
<1> HIDE DEF l
<1> DEFINE lines == IF good THEN <<LineOf(t)>> ELSE <<>>
<1>4. /\ lines \in Seq(Lines)
      /\ \A n \in DOMAIN lines : id[l] <= lines[n].id
  <2>1. id[l] \in Nat
    BY <1>1, <1>3 DEF LogInv
  <2>2. CASE good
    <3>1. lines = <<LineOf(t)>>
      BY <2>2
    <3>2. /\ <<LineOf(t)>> \in Seq(Lines)
          /\ \A n \in DOMAIN <<LineOf(t)>> : <<LineOf(t)>>[n] = LineOf(t)
      BY <1>3, OneAscends
    <3> HIDE DEF lines
    <3>3. /\ lines \in Seq(Lines)
          /\ \A n \in DOMAIN lines : lines[n].id = id[l]
      BY <1>3, <3>1, <3>2
    <3> QED BY <2>1, <3>3
  <2>3. CASE ~good
    <3>1. lines = <<>> /\ DOMAIN <<>> = {}
      BY <2>3
    <3> HIDE DEF lines
    <3> QED BY <3>1, NothingAscends
  <2> QED BY <2>2, <2>3
<1>5. NlogAppend(l, lines)
  BY <1>2
<1> HIDE DEF lines
<1>6. \A k \in Logs : id[k] <= id'[k]
  BY <1>1, <1>2, <1>3 DEF LogInv, IdAfter
<1>7. \A k \in Logs : Grown(k)
  BY <1>1, <1>3, <1>4, <1>5, <1>6, AppendGrown DEF Grown
<1> QED BY <1>1, <1>7, GrownIterator

LEMMA ResetIterator ==
    ASSUME Inv, Inv', IteratorInv, ResetLog
    PROVE  IteratorInv'
<1> DEFINE l == arg[Owner].log
<1>1. /\ UNCHANGED <<id, cnt, it, seen>>
      /\ Goto(Owner, "unlock")
      /\ Owner \in Threads \ Readers
      /\ log' = [log EXCEPT ![l] = <<>>]
      /\ given' = [given EXCEPT ![l] = 0]
      /\ LogInv
  BY ConstantsAssumption DEF ResetLog, service, Threads, Inv
<1> HIDE DEF l
<1>2. ASSUME NEW k \in Logs
      PROVE  Grown(k)
  <2>1. id[k] <= id'[k] /\ DOMAIN log = Logs /\ DOMAIN given = Logs
    BY <1>1 DEF LogInv
  <2>2. CASE k = l
    <3>1. log'[k] = <<>> /\ given'[k] = 0
      BY <1>1, <2>1, <2>2
    <3>2. Len(log'[k]) = 0
      BY <3>1, EmptySeq
    <3> QED BY <2>1, <3>1, <3>2 DEF Grown
  <2>3. CASE k # l
    <3>1. log'[k] = log[k] /\ given'[k] = given[k]
      BY <1>1, <2>1, <2>3
    <3> QED BY <2>1, <3>1 DEF Grown
  <2> QED BY <2>2, <2>3
<1> QED BY <1>1, <1>2, GrownIterator

\* Where nobody walks.
LEMMA NoIterator ==
    ASSUME DOMAIN seen' = Readers,
           \A t \in Readers : it'[t] = NoIt /\ pc'[t] = "idle"
    PROVE  IteratorInv'
BY DEF IteratorInv, ReaderCall, Doing, SeenInv, Unbroken

LEMMA QuietIterator ==
    ASSUME Inv, IteratorInv,
           \/ SyslogInit \/ Start \/ Stop \/ StartLog \/ StopLock
           \/ StopUnlock \/ StopDelete \/ PowerFailure
    PROVE  IteratorInv'
<1>1. CASE Stop \/ PowerFailure
  <2>1. /\ it' = [t \in Readers |-> NoIt] /\ seen' = [t \in Readers |-> {}]
        /\ \A t \in Readers : pc'[t] = "idle"
    <3>1. CASE Stop
      BY <3>1, ConstantsAssumption DEF Stop, Threads
    <3>2. CASE PowerFailure
      BY <3>2 DEF PowerFailure, Threads
    <3> QED BY <1>1, <3>1, <3>2
  <2> QED BY <2>1, NoIterator
<1>2. CASE \/ SyslogInit \/ Start \/ StartLog \/ StopLock
           \/ StopUnlock \/ StopDelete
  <2>1. Quiet /\ UNCHANGED <<it, seen>>
    BY <1>2 DEF SyslogInit, Start, StartLog, StopLock, StopUnlock, StopDelete,
                Quiet
  <2>2. \A t \in Readers : it[t] = NoIt /\ pc[t] = "idle" /\ t \in Threads
                           /\ t # Owner
    BY <2>1, ConstantsAssumption DEF Inv, QuietInv, Threads
  <2>3. pc' = pc \/ \E to : pc' = [pc EXCEPT ![Owner] = to]
    BY <1>2 DEF SyslogInit, Start, StartLog, StopLock, StopUnlock, StopDelete,
                Goto, Return, calls
  <2>4. \A t \in Readers : it'[t] = NoIt /\ pc'[t] = "idle"
    BY <2>1, <2>2, <2>3 DEF Inv, CallInv
  <2>5. DOMAIN seen' = Readers
    BY <2>1 DEF IteratorInv
  <2> QED BY <2>4, <2>5, NoIterator
<1> QED BY <1>1, <1>2

LEMMA IteratorNext == Inv /\ IteratorInv /\ [Next]_vars => IteratorInv'
<1> SUFFICES ASSUME Inv, IteratorInv, [Next]_vars PROVE IteratorInv'
  OBVIOUS
<1>1. Inv'
  BY NextInv
<1>2. CASE Call
  <2>1. ASSUME NEW t \in Writers, NEW kind \in {"write", "format"},
               NEW l \in Logs, NEW s \in Severities,
               SyslogAppend(t, kind, l, s)
        PROVE  IteratorInv'
    <3>1. t \in Threads /\ t \notin Readers /\ Begin(t, kind, l, s)
      BY <2>1, ConstantsAssumption DEF SyslogAppend, Threads
    <3> QED BY <3>1, BeginIterator
  <2>2. ASSUME NEW t \in Readers, NEW l \in Logs, NEW s \in Severities,
               IteratorInit(t, l, s)
        PROVE  IteratorInv'
    BY <2>2, BeginIterator DEF IteratorInit, Threads
  <2>3. ASSUME NEW t \in Readers, NEW l \in Logs, PlatformItCreate(t, l)
        PROVE  IteratorInv'
    <3>1. MaxSeverity \in Severities
      BY ConstantsAssumption DEF Severities
    <3> QED BY <2>2, <2>3, <3>1 DEF PlatformItCreate
  <2>4. ASSUME NEW t \in Readers, NEW kind \in {"prev", "next"},
               IteratorStep(t, kind)
        PROVE  IteratorInv'
    BY <2>4, BeginIterator DEF IteratorStep, Threads
  <2>5. ASSUME NEW l \in Logs, SyslogReset(l)
        PROVE  IteratorInv'
    <3>1. Owner \in Threads /\ Owner \notin Readers
          /\ Begin(Owner, "reset", l, 0)
      BY <2>5, ConstantsAssumption DEF SyslogReset, Threads
    <3> QED BY <3>1, BeginIterator
  <2> QED BY <1>2, <2>1, <2>2, <2>3, <2>4, <2>5, QuietIterator, Zenon DEF Call
<1>3. ASSUME NEW t \in Threads, Work(t)
      PROVE  IteratorInv'
  BY <1>1, <1>3, FormatIterator, WriteIterator, WalkIterator, QuietIterator,
     ResetIterator, LockIterator, Zenon DEF Work
<1>4. ASSUME NEW t \in Threads, Acquire(t)
      PROVE  IteratorInv'
  BY <1>4, LockIterator, QuietIterator, Zenon DEF Acquire
<1>5. CASE UNCHANGED vars
  <2>1. UNCHANGED <<log, given, id, cnt, pc, arg, it, seen>>
    BY <1>5 DEF vars, nlog3, service, calls
  <2> QED BY <2>1 DEF IteratorInv, ReaderCall, Doing, SeenInv, Unbroken
<1> QED BY <1>2, <1>3, <1>4, <1>5, QuietIterator, Zenon DEF Next

\* The invariant of the iterators: each stands in a log in service, on a line
\* that it has seen, and between two lines that it has seen has seen every one
\* of its severity that is kept (syslog_iterator_init(),
\* _syslog_iterator_step()).
THEOREM IteratorInvariance == Spec => []IteratorInv
BY Invariance, IteratorInit0, IteratorNext, PTL DEF Spec

\* A walk with an iterator leaves out no record of its severity that is still
\* kept, whatever is appended and given up meanwhile (_syslog_iterator_step(),
\* _syslog_iterator_find()).
THEOREM WalksComplete == Spec => []WalkLeavesNoneOut
<1>1. IteratorInv => WalkLeavesNoneOut
  BY DEF IteratorInv, Unbroken, WalkLeavesNoneOut
<1> QED BY <1>1, IteratorInvariance, PTL

\* A move that stays where it is has come to the end: nothing of the severity
\* is kept beyond.
LEMMA MoveEnds ==
    ASSUME Inv, NEW t \in Readers, SeenInv(t), ReaderCall(t), Move(t),
           it'[t].line = it[t].line, Place(it[t].log, it[t].line) # 0,
           NEW q \in (given[it[t].log] + 1) .. Len(log[it[t].log]),
           log[it[t].log][q].severity <= it[t].severity
    PROVE  IF pc[t] = "prev" THEN log[it[t].log][q].id >= it[t].line.id
                             ELSE log[it[t].log][q].id <= it[t].line.id
<1> DEFINE l == it[t].log
           s == it[t].severity
           n == Place(l, it[t].line)
           c == it[t].line.id
<1>1. l = it[t].log /\ s = it[t].severity /\ n = Place(l, it[t].line)
  OBVIOUS
<1> HIDE DEF l, s, n
<1>2. /\ l \in Logs
      /\ it[t] \in Iterators
      /\ n # 0 => n \in 1 .. Len(log[l]) /\ log[l][n].id = c
      /\ \E first \in 0 .. Len(log[l]), r \in 0 .. Len(log[l]) :
            /\ r = Find(pc[t], l, first, s)
            /\ n # 0 => first = MovePlace(pc[t], l, n)
            /\ LET line == IF r # 0 THEN log[l][r] ELSE it[t].line
               IN  it' = [it EXCEPT ![t].line = line]
  BY <1>1, MoveDone DEF c
<1>3. PICK first \in 0 .. Len(log[l]), r \in 0 .. Len(log[l]) :
            /\ r = Find(pc[t], l, first, s)
            /\ n # 0 => first = MovePlace(pc[t], l, n)
            /\ LET line == IF r # 0 THEN log[l][r] ELSE it[t].line
               IN  it' = [it EXCEPT ![t].line = line]
  BY <1>2, Zenon
<1>4. /\ pc[t] \in {"prev", "next"}
      /\ DOMAIN it = Readers
      /\ LogInv
  BY DEF Move, Inv, QuietInv
<1>5. /\ n \in 1 .. Len(log[l]) /\ log[l][n].id = c
      /\ first = MovePlace(pc[t], l, n)
  BY <1>1, <1>2, <1>3
<1>6. q \in (given[l] + 1) .. Len(log[l]) /\ log[l][q].severity <= s
  BY <1>1
<1>7. /\ r # 0 => IF pc[t] = "next" THEN n < r ELSE r < n
      /\ pc[t] = "next" /\ n < q => r # 0 /\ r <= q
      /\ pc[t] = "prev" /\ q < n => r # 0 /\ q <= r
  BY <1>2, <1>3, <1>4, <1>5, <1>6, NoneBetween
<1>8. /\ q \in 1 .. Len(log[l]) /\ log[l][q].id \in Nat
      /\ log[l][n].id \in Nat /\ Len(log[l]) \in Nat
  <2>1. log[l] \in Seq(Lines) /\ given[l] \in Nat
    BY <1>2, <1>4 DEF LogInv
  <2>2. Len(log[l]) \in Nat
    BY <2>1, LineTypes
  <2>3. q \in 1 .. Len(log[l])
    BY <1>6, <2>1, <2>2
  <2> QED BY <1>5, <2>1, <2>2, <2>3, LineTypes
<1>9. r = 0
  <2> SUFFICES ASSUME r # 0 PROVE FALSE
    OBVIOUS
  <2>1. r \in 1 .. Len(log[l]) /\ r # n
    BY <1>4, <1>5, <1>7, <1>8
  <2>2. it'[t].line = log[l][r]
    BY <1>2, <1>3, <1>4 DEF Iterators
  <2>3. log[l][r].id = log[l][n].id
    BY <1>5, <2>2 DEF c
  <2> QED BY <1>2, <1>4, <1>5, <2>1, <2>3, PlacesOrdered
<1>10. /\ q < n <=> log[l][q].id < log[l][n].id
       /\ n < q <=> log[l][n].id < log[l][q].id
  BY <1>2, <1>4, <1>5, <1>8, PlacesOrdered
<1>11. IF pc[t] = "prev" THEN log[l][q].id >= c ELSE log[l][q].id <= c
  <2>1. CASE pc[t] = "prev"
    <3>1. ~(log[l][q].id < log[l][n].id)
      BY <1>7, <1>9, <1>10, <2>1
    <3> QED BY <1>5, <1>8, <2>1, <3>1
  <2>2. CASE pc[t] = "next"
    <3>1. ~(log[l][n].id < log[l][q].id)
      BY <1>7, <1>9, <1>10, <2>2
    <3> QED BY <1>5, <1>8, <2>2, <3>1
  <2> QED BY <1>4, <2>1, <2>2
<1> QED BY <1>1, <1>11 DEF c

\* A move that finds no record has come to the end of those that are kept
\* (_syslog_iterator_step()).
THEOREM WalksEnd == Spec => WalkEndsAtEnd
<1>1. Inv /\ IteratorInv /\ [Next]_vars =>
        [\A t \in Readers :
            /\ pc[t] \in {"prev", "next"} /\ pc'[t] = "unlock"
            /\ it'[t].line = it[t].line
            /\ Place(it[t].log, it[t].line) # 0
            => \A n \in (given[it[t].log] + 1) .. Len(log[it[t].log]) :
                  LET r == log[it[t].log][n]
                  IN  r.severity <= it[t].severity =>
                          IF pc[t] = "prev" THEN r.id >= it[t].line.id
                                            ELSE r.id <= it[t].line.id]_vars
  <2> SUFFICES ASSUME Inv, IteratorInv, Next,
                      NEW t \in Readers, pc[t] \in {"prev", "next"},
                      pc'[t] = "unlock",
                      it'[t].line = it[t].line,
                      Place(it[t].log, it[t].line) # 0,
                      NEW n \in (given[it[t].log] + 1) .. Len(log[it[t].log]),
                      log[it[t].log][n].severity <= it[t].severity
               PROVE  IF pc[t] = "prev"
                      THEN log[it[t].log][n].id >= it[t].line.id
                      ELSE log[it[t].log][n].id <= it[t].line.id
    BY DEF vars
  <2>1. Move(t)
    <3>1. t \in Threads /\ pc[t] \in Holding /\ pc[t] # "unlock"
      BY DEF Threads, Holding
    <3>2. Work(t) \/ Acquire(t)
      BY <3>1, OwnStep
    <3> QED BY <3>2, ConstantsAssumption
            DEF Work, Acquire, FindNewest, Unlock, Lock, Threads
  <2>2. SeenInv(t) /\ ReaderCall(t)
    BY DEF IteratorInv
  <2> QED BY <2>1, <2>2, MoveEnds
<1> QED BY <1>1, Invariance, IteratorInvariance, PTL DEF WalkEndsAtEnd, Spec
=============================================================================
