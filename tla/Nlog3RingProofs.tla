-------------------------- MODULE Nlog3RingProofs --------------------------
(***************************************************************************)
(* Nlog3 is a circular log, for every number and size of sectors, every    *)
(* set of record sizes, and any number of failures and power failures.     *)
(*                                                                         *)
(* The invariant: the valid sectors are a ring, numbered in sequence, of   *)
(* runs of records with consecutive ids, each record has the place of the  *)
(* one before it, and the writer is at the end of the newest sector.       *)
(* LogAt says it of sectors as such, and the first half shows what adding  *)
(* a record, beginning a sector and giving one up make of it, and that the *)
(* searches and the iterators find that log.  The second half shows that   *)
(* every step of the program is one of those or leaves the log alone.      *)
(***************************************************************************)
EXTENDS Nlog3Ring, Nlog3Proofs, WellFoundedInduction, FiniteSetTheorems,
        SequenceTheorems

----------------------------------------------------------------------------
(* The ring: sectors by age, sequence numbers by distance.                 *)

\* How many sectors before c in the ring s is.
Age(c, s) == IF s <= c THEN c - s ELSE c - s + SectorCount

\* The sequence number n before q.
SeqBack(q, n) == IF n <= q THEN q - n ELSE q - n + SeqMod

\* The remainder of what is at most once around.
LEMMA Remainder ==
    ASSUME NEW m \in Nat, NEW n \in Int, 0 <= n + m, n < 2 * m
    PROVE  n % m = IF n < 0 THEN n + m ELSE IF n < m THEN n ELSE n - m
<1>0. 0 < m
  OBVIOUS
<1> DEFINE r == n % m
           p == n \div m
<1>1. r \in 0 .. (m - 1) /\ p \in Int /\ n = m * p + r
  BY <1>0
<1> HIDE DEF r, p
<1>2. CASE p = 0
  <2>1. m * p = 0
    BY <1>2
  <2> QED BY <1>1, <2>1 DEF r
<1>3. CASE p = 1
  <2>1. m * p = m
    BY <1>3
  <2> QED BY <1>1, <2>1 DEF r
<1>4. CASE p = -1
  <2>1. m * p = -m
    BY <1>4
  <2> QED BY <1>1, <2>1 DEF r
<1>5. CASE 2 <= p
  <2>1. m * p = m * (p - 2) + 2 * m
    BY <1>1
  <2>2. p - 2 \in Nat
    BY <1>1, <1>5
  <2>3. m * (p - 2) \in Nat
    BY <2>2
  <2> QED BY <1>1, <2>1, <2>3
<1>6. CASE p <= -2
  <2>1. m * p = -(m * (-p - 2)) - 2 * m
    BY <1>1
  <2>2. -p - 2 \in Nat
    BY <1>1, <1>6
  <2>3. m * (-p - 2) \in Nat
    BY <2>2
  <2> QED BY <1>1, <2>1, <2>3
<1> QED BY <1>1, <1>2, <1>3, <1>4, <1>5, <1>6

LEMMA NextSectorIs ==
    ASSUME NEW s \in Sectors
    PROVE  SectorNext(s) = IF s = SectorCount - 1 THEN 0 ELSE s + 1
<1>1. SectorCount \in Nat /\ 3 <= SectorCount /\ s \in 0 .. (SectorCount - 1)
  BY ConstantsAssumption DEF Sectors
<1> DEFINE n == s + 1
<1>2. n \in Int /\ 0 <= n + SectorCount /\ n < 2 * SectorCount
  BY <1>1
<1>3. SectorNext(s) = n % SectorCount
  BY DEF SectorNext
<1> HIDE DEF n
<1>4. n % SectorCount = IF n < 0 THEN n + SectorCount
                        ELSE IF n < SectorCount THEN n ELSE n - SectorCount
  BY <1>1, <1>2, Remainder
<1> QED BY <1>1, <1>3, <1>4 DEF n

LEMMA Ages ==
    ASSUME NEW c \in Sectors, NEW s \in Sectors
    PROVE  /\ Age(c, s) \in 0 .. (SectorCount - 1)
           /\ Age(c, s) = 0 <=> s = c
           /\ \A t \in Sectors : Age(c, t) = Age(c, s) => t = s
           /\ s # c => Age(c, SectorNext(s)) = Age(c, s) - 1
           /\ Age(c, SectorNext(c)) = SectorCount - 1
           /\ s # SectorNext(c) => Age(SectorNext(c), s) = Age(c, s) + 1
           /\ Age(SectorNext(c), SectorNext(c)) = 0
<1>1. /\ SectorCount \in Nat /\ 3 <= SectorCount
      /\ c \in 0 .. (SectorCount - 1) /\ s \in 0 .. (SectorCount - 1)
  BY ConstantsAssumption DEF Sectors
<1>2. /\ SectorNext(s) = IF s = SectorCount - 1 THEN 0 ELSE s + 1
      /\ SectorNext(c) = IF c = SectorCount - 1 THEN 0 ELSE c + 1
  BY NextSectorIs
<1> QED BY <1>1, <1>2 DEF Age, Sectors

LEMMA NextSequenceIs ==
    ASSUME NEW q \in Sequence
    PROVE  (q + 1) % SeqMod = IF q = SeqMod - 1 THEN 0 ELSE q + 1
<1>1. SeqMod \in Nat /\ 1 < SeqMod /\ q \in 0 .. (SeqMod - 1)
  BY ConstantsAssumption DEF Sequence
<1> DEFINE n == q + 1
<1>2. n \in Int /\ 0 <= n + SeqMod /\ n < 2 * SeqMod
  BY <1>1
<1> HIDE DEF n
<1>3. n % SeqMod = IF n < 0 THEN n + SeqMod
                   ELSE IF n < SeqMod THEN n ELSE n - SeqMod
  BY <1>1, <1>2, Remainder
<1>4. n % SeqMod = IF q = SeqMod - 1 THEN 0 ELSE q + 1
  BY <1>1, <1>3 DEF n
<1> QED BY <1>4 DEF n

\* Distances less than once around tell sequence numbers apart, and add up.
LEMMA Backs ==
    ASSUME NEW q \in Sequence, NEW m \in 0 .. (SeqMod - 1)
    PROVE  /\ SeqBack(q, m) \in Sequence
           /\ SeqBack(q, 0) = q
           /\ \A n \in 0 .. (SeqMod - 1) : SeqBack(q, n) = SeqBack(q, m) => n = m
           /\ \A n \in 0 .. (SeqMod - 1) : m + n < SeqMod =>
                SeqBack(SeqBack(q, m), n) = SeqBack(q, m + n)
           /\ m + 1 < SeqMod =>
                SeqBack((q + 1) % SeqMod, m + 1) = SeqBack(q, m)
<1>1. /\ SeqMod \in Nat /\ 1 < SeqMod /\ q \in 0 .. (SeqMod - 1)
      /\ Sequence = 0 .. (SeqMod - 1)
  BY ConstantsAssumption DEF Sequence
<1>2. (q + 1) % SeqMod = IF q = SeqMod - 1 THEN 0 ELSE q + 1
  BY NextSequenceIs
<1>3. ASSUME NEW n \in 0 .. (SeqMod - 1), m + n < SeqMod
      PROVE  SeqBack(SeqBack(q, m), n) = SeqBack(q, m + n)
  BY <1>1, <1>3 DEF SeqBack
<1>4. ASSUME m + 1 < SeqMod
      PROVE  SeqBack((q + 1) % SeqMod, m + 1) = SeqBack(q, m)
  BY <1>1, <1>2, <1>4 DEF SeqBack
<1>5. ASSUME NEW n \in 0 .. (SeqMod - 1), SeqBack(q, n) = SeqBack(q, m)
      PROVE  n = m
  BY <1>1, <1>5 DEF SeqBack
<1>6. SeqBack(q, m) \in Sequence /\ SeqBack(q, 0) = q
  BY <1>1 DEF SeqBack
<1> QED BY <1>3, <1>4, <1>5, <1>6

\* nlog3_seq_after() within the ring is the order of the ages.
LEMMA SeqOrder ==
    ASSUME NEW q \in Sequence, NEW m \in 0 .. SectorCount,
           NEW n \in 0 .. SectorCount
    PROVE  SeqAfter(SeqBack(q, m), SeqBack(q, n)) <=> m < n
<1>1. /\ SeqMod \in Nat /\ SectorCount \in Nat /\ 2 * SectorCount < SeqMod
      /\ q \in 0 .. (SeqMod - 1) /\ 3 <= SectorCount
  BY ConstantsAssumption DEF Sequence
<1> DEFINE a == SeqBack(q, m)
           b == SeqBack(q, n)
<1>2. /\ a = IF m <= q THEN q - m ELSE q - m + SeqMod
      /\ b = IF n <= q THEN q - n ELSE q - n + SeqMod
  BY DEF SeqBack
<1> HIDE DEF a, b
<1>3. a - b \in Int /\ 0 <= a - b + SeqMod /\ a - b < 2 * SeqMod
  BY <1>1, <1>2
<1>4. (a - b) % SeqMod = IF a - b < 0 THEN a - b + SeqMod
                         ELSE IF a - b < SeqMod THEN a - b ELSE a - b - SeqMod
  BY <1>1, <1>3, Remainder
<1> DEFINE r == (a - b) % SeqMod
<1>5. r = IF m <= n THEN n - m ELSE n - m + SeqMod
  BY <1>1, <1>2, <1>4
<1>6. SeqAfter(a, b) <=> 0 < r /\ 2 * r < SeqMod
  BY DEF SeqAfter
<1> HIDE DEF r
<1> QED BY <1>1, <1>5, <1>6 DEF a, b

----------------------------------------------------------------------------
(* The log in the valid sectors V, with headers h and data areas d.        *)

\* IsRecord(s, a) where e is the data area of s, and where that record ends.
Holds(e, a) == a \in Units /\ e[a].state = "VALID" /\ a + e[a].size <= Room
After(e, a) == a + e[a].size

\* Records one after the other from the start of e, with the ids l .. u - 1.
RunOf(e, l, u) ==
    /\ Holds(e, 0) => e[0].id = l
    /\ ~Holds(e, 0) => u = l
    /\ l <= u /\ u <= l + Room
    /\ \A a \in Units : Holds(e, a) =>
        /\ 0 < e[a].size
        /\ l <= e[a].id /\ e[a].id < u /\ e[a].id <= l + a
        /\ a > 0 => \E b \in Units : Holds(e, b) /\ After(e, b) = a
        /\ Holds(e, After(e, a)) => e[After(e, a)].id = e[a].id + 1
        /\ ~Holds(e, After(e, a)) => u = e[a].id + 1
        /\ \A b \in Units : Holds(e, b) /\ a < b =>
                After(e, a) <= b /\ e[a].id < e[b].id

\* The records of e end at w.
EndAt(e, w) ==
    /\ ~Holds(e, w)
    /\ w = 0 \/ \E b \in Units : Holds(e, b) /\ After(e, b) = w
    /\ \A b \in Units : Holds(e, b) => b < w

\* The valid sectors are the last ones up to c, numbered in sequence.
RingAt(V, h, c) ==
    /\ c \in V
    /\ \A s \in V : h[s].seq = SeqBack(h[c].seq, Age(c, s))
    /\ \A s \in V, t \in Sectors : Age(c, t) <= Age(c, s) => t \in V

\* n sectors have room for so many records.
Span(n) == n * Room

\* Sector s has the records lo[s] .. hi[s] - 1, and the next one goes on there.
RunsAt(V, d, c, lo, hi) ==
    \A s \in V :
        /\ RunOf(d[s], lo[s], hi[s])
        /\ s # c => lo[SectorNext(s)] = hi[s]
        /\ lo[c] <= lo[s] + Span(Age(c, s))
        /\ \A t \in V : Age(c, t) < Age(c, s) => hi[s] <= lo[t]

\* If there are records, there is the one before k.
NewestAt(V, d, k) ==
    \A s \in V, a \in Units : Holds(d[s], a) =>
        \E t \in V, b \in Units : Holds(d[t], b) /\ d[t][b].id + 1 = k

\* Offset o and sequence q are those of the record before k, if it is there,
\* and of no other.
Names(V, h, d, o, q, k) ==
    \A t \in V, b \in Units : Holds(d[t], b) =>
        (o = Offset(t, b) /\ q = h[t].seq <=> d[t][b].id + 1 = k)

\* They are at most E sectors before s, and before address a of it.
Near(h, o, q, s, a, E) ==
    o # NoOffset =>
        \E n \in 0 .. E : /\ q = SeqBack(h[s].seq, n)
                          /\ n = 0 => o < Offset(s, a)

LinksAt(V, h, d, E) ==
    \A s \in V, a \in Units : Holds(d[s], a) =>
        /\ Names(V, h, d, d[s][a].prev, d[s][a].pseq, d[s][a].id)
        /\ Near(h, d[s][a].prev, d[s][a].pseq, s, a, E)

\* Records are given up only when every sector but one is in use.
FullAt(V, c, lo) ==
    \/ \A t \in Sectors : Age(c, t) <= SectorCount - 2 => t \in V
    \/ \A s \in V : (\A t \in V : Age(c, t) <= Age(c, s)) => lo[s] = 0

LogAt(V, h, d, c, lo, hi, E) ==
    /\ RingAt(V, h, c)
    /\ RunsAt(V, d, c, lo, hi)
    /\ NewestAt(V, d, hi[c])
    /\ LinksAt(V, h, d, E)
    /\ FullAt(V, c, lo)

ViewType(V, h, d) ==
    /\ V \subseteq Sectors
    /\ h \in [Sectors -> Headers]
    /\ d \in [Sectors -> [Units -> Cells]]

LEMMA Numbers ==
    /\ SectorCount \in Nat /\ 3 <= SectorCount
    /\ Room \in Nat /\ 0 < Room
    /\ SeqMod \in Nat /\ 2 * SectorCount < SeqMod
    /\ Sectors = 0 .. (SectorCount - 1) /\ Units = 0 .. (Room - 1)
    /\ Sequence = 0 .. (SeqMod - 1)
BY ConstantsAssumption DEF Sectors, Units, Sequence

LEMMA AgeBelow ==
    ASSUME NEW c \in Sectors, NEW s \in Sectors, NEW E \in Nat,
           E + SectorCount < SeqMod, NEW n \in 0 .. E
    PROVE  Age(c, s) + n < SeqMod /\ n \in Nat
<1>1. /\ Age(c, s) \in 0 .. (SectorCount - 1)
      /\ SectorCount \in Nat /\ SeqMod \in Nat
  BY Ages, Numbers
<1> DEFINE x == Age(c, s)
<1> HIDE DEF x
<1> QED BY <1>1 DEF x

LEMMA OneMore ==
    \A m, n, k \in Nat : \A x \in 0 .. m :
        m < n /\ m < k - 1 =>
            /\ x \in 0 .. (k - 1) /\ x + 1 < k
            /\ x + 1 \in 0 .. n /\ x + 1 # 0
OBVIOUS

LEMMA Spans ==
    /\ Span(0) = 0
    /\ \A n \in Nat : Span(n) \in Nat /\ Span(n + 1) = Span(n) + Room
BY Numbers DEF Span

LEMMA CellParts ==
    ASSUME NEW e \in [Units -> Cells], NEW a \in Units
    PROVE  /\ e[a] \in Cells
           /\ a \in Nat /\ a < Room
           /\ e[a].id \in Nat /\ e[a].size \in Nat /\ e[a].size <= Room
           /\ e[a].pseq \in Sequence
           /\ After(e, a) \in Nat
<1>1. Room \in Nat /\ Units = 0 .. (Room - 1) /\ MaxId \in Nat
  BY Numbers, ConstantsAssumption
<1>2. a \in Nat /\ a < Room /\ e[a] \in Cells
  BY <1>1
<1>3. /\ e[a].id \in 0 .. MaxId /\ e[a].size \in 0 .. Room
      /\ e[a].pseq \in Sequence
  BY <1>2 DEF Cells, Ids
<1>4. e[a].id \in Nat /\ e[a].size \in Nat /\ e[a].size <= Room
  BY <1>1, <1>3
<1>5. After(e, a) \in Nat
  BY <1>2, <1>4 DEF After
<1> QED BY <1>2, <1>3, <1>4, <1>5

\* The records of the sectors V, and their numbers, are the same.
SameView(V, h, d, h2, d2) ==
    \A s \in V :
        /\ h2[s].seq = h[s].seq
        /\ \A a : Holds(d2[s], a) <=> Holds(d[s], a)
        /\ \A a : Holds(d[s], a) => d2[s][a] = d[s][a]

LEMMA SameLog ==
    ASSUME NEW V, NEW h, NEW d, ViewType(V, h, d), NEW h2, NEW d2,
           NEW c, NEW lo, NEW hi, NEW E \in Nat, NEW F \in Nat, E <= F,
           SameView(V, h, d, h2, d2), LogAt(V, h, d, c, lo, hi, E)
    PROVE  LogAt(V, h2, d2, c, lo, hi, F)
<1> USE DEF SameView
<1>1. RingAt(V, h2, c)
  BY DEF LogAt, RingAt
<1>2. ASSUME NEW s \in V PROVE RunOf(d2[s], lo[s], hi[s])
  <2>1. RunOf(d[s], lo[s], hi[s])
    BY DEF LogAt, RunsAt
  <2>2. /\ \A a : Holds(d2[s], a) <=> Holds(d[s], a)
        /\ \A a : Holds(d[s], a) => d2[s][a] = d[s][a]
    OBVIOUS
  <2>3. \A a : Holds(d[s], a) => After(d2[s], a) = After(d[s], a)
    BY <2>2 DEF After
  <2>4. 0 \in Units
    BY Numbers
  <2> DEFINE e == d[s]  f == d2[s]
  <2>5. /\ Holds(f, 0) => f[0].id = lo[s]
        /\ ~Holds(f, 0) => hi[s] = lo[s]
        /\ lo[s] <= hi[s] /\ hi[s] <= lo[s] + Room
    BY <2>1, <2>2 DEF RunOf
  <2>6. ASSUME NEW a \in Units, Holds(f, a)
        PROVE  /\ 0 < f[a].size
               /\ lo[s] <= f[a].id /\ f[a].id < hi[s] /\ f[a].id <= lo[s] + a
               /\ a > 0 => \E b \in Units : Holds(f, b) /\ After(f, b) = a
               /\ Holds(f, After(f, a)) => f[After(f, a)].id = f[a].id + 1
               /\ ~Holds(f, After(f, a)) => hi[s] = f[a].id + 1
               /\ \A b \in Units : Holds(f, b) /\ a < b =>
                    After(f, a) <= b /\ f[a].id < f[b].id
    <3>1. Holds(e, a) /\ f[a] = e[a] /\ After(f, a) = After(e, a)
      BY <2>2, <2>3, <2>6
    <3>2. /\ 0 < e[a].size
          /\ lo[s] <= e[a].id /\ e[a].id < hi[s] /\ e[a].id <= lo[s] + a
          /\ a > 0 => \E b \in Units : Holds(e, b) /\ After(e, b) = a
          /\ Holds(e, After(e, a)) => e[After(e, a)].id = e[a].id + 1
          /\ ~Holds(e, After(e, a)) => hi[s] = e[a].id + 1
          /\ \A b \in Units : Holds(e, b) /\ a < b =>
                After(e, a) <= b /\ e[a].id < e[b].id
      BY <2>1, <3>1 DEF RunOf
    <3> HIDE DEF e, f
    <3>3. /\ \A b : Holds(f, b) <=> Holds(e, b)
          /\ \A b : Holds(e, b) => f[b] = e[b]
          /\ \A b : Holds(e, b) => After(f, b) = After(e, b)
      BY <2>2, <2>3 DEF e, f
    <3> QED BY <3>1, <3>2, <3>3
  <2> QED BY <2>5, <2>6 DEF RunOf
<1>3. RunsAt(V, d2, c, lo, hi)
  BY <1>2 DEF LogAt, RunsAt
<1>4. NewestAt(V, d2, hi[c])
  BY DEF LogAt, NewestAt
<1>5. ASSUME NEW s \in V, NEW a \in Units, Holds(d2[s], a)
      PROVE  /\ Names(V, h2, d2, d2[s][a].prev, d2[s][a].pseq, d2[s][a].id)
             /\ Near(h2, d2[s][a].prev, d2[s][a].pseq, s, a, F)
  <2>1. Holds(d[s], a) /\ d2[s][a] = d[s][a]
    BY <1>5
  <2>2. /\ Names(V, h, d, d[s][a].prev, d[s][a].pseq, d[s][a].id)
        /\ Near(h, d[s][a].prev, d[s][a].pseq, s, a, E)
    BY <2>1 DEF LogAt, LinksAt
  <2>3. Names(V, h2, d2, d[s][a].prev, d[s][a].pseq, d[s][a].id)
    BY <2>2 DEF Names
  <2>4. Near(h2, d[s][a].prev, d[s][a].pseq, s, a, F)
    BY <2>2 DEF Near
  <2> QED BY <2>1, <2>3, <2>4
<1>6. LinksAt(V, h2, d2, F)
  BY <1>5 DEF LinksAt
<1> QED BY <1>1, <1>3, <1>4, <1>6 DEF LogAt

\* Offsets tell units apart, and are in the order of the addresses in a sector.
LEMMA Offsets ==
    ASSUME NEW s \in Sectors, NEW a \in Units
    PROVE  /\ Offset(s, a) \in Nat /\ Offset(s, a) < NoOffset
           /\ \A b \in 0 .. Room : Offset(s, a) < Offset(s, b) <=> a < b
           /\ \A t \in Sectors, b \in Units :
                Offset(s, a) = Offset(t, b) => s = t /\ a = b
<1>1. /\ s \in Nat /\ a \in Nat /\ a < Room /\ Room \in Nat
      /\ s < SectorCount /\ SectorCount \in Nat
  BY Numbers
<1> DEFINE P(n) == n * Room
<1>2. \A n \in Nat : P(n) \in Nat /\ P(n + 1) = P(n) + Room
  BY <1>1
<1>3. \A m, n \in Nat : m <= n => P(m) <= P(n)
  BY <1>1, ProductGrows
<1>4. /\ \A t, b : Offset(t, b) = P(t) + b
      /\ NoOffset = P(SectorCount)
  BY DEF Offset, NoOffset
<1> HIDE DEF P
<1>5. Offset(s, a) \in Nat /\ Offset(s, a) < NoOffset
  <2>1. s + 1 \in Nat /\ s + 1 <= SectorCount
    BY <1>1
  <2>2. P(s + 1) <= P(SectorCount)
    BY <1>1, <1>3, <2>1
  <2>3. P(s) \in Nat /\ P(SectorCount) \in Nat /\ P(s + 1) = P(s) + Room
    BY <1>1, <1>2
  <2> QED BY <1>1, <1>4, <2>2, <2>3
<1>6. ASSUME NEW b \in 0 .. Room
      PROVE  Offset(s, a) < Offset(s, b) <=> a < b
  <2>1. P(s) \in Nat
    BY <1>1, <1>2
  <2> QED BY <1>1, <1>4, <2>1
<1>7. ASSUME NEW t \in Sectors, NEW b \in Units, Offset(s, a) = Offset(t, b)
      PROVE  s = t /\ a = b
  <2>1. t \in Nat /\ b \in Nat /\ b < Room
    BY Numbers
  <2>2. P(s) + a = P(t) + b /\ P(s) \in Nat /\ P(t) \in Nat
    BY <1>1, <1>2, <1>4, <1>7, <2>1
  <2>3. ASSUME s < t PROVE FALSE
    <3>1. P(s + 1) <= P(t) /\ P(s + 1) = P(s) + Room
      BY <1>1, <1>2, <1>3, <2>1, <2>3
    <3> QED BY <1>1, <2>1, <2>2, <3>1
  <2>4. ASSUME t < s PROVE FALSE
    <3>1. P(t + 1) <= P(s) /\ P(t + 1) = P(t) + Room
      BY <1>1, <1>2, <1>3, <2>1, <2>4
    <3> QED BY <1>1, <2>1, <2>2, <3>1
  <2>5. s = t
    BY <1>1, <2>1, <2>3, <2>4
  <2> QED BY <1>1, <2>1, <2>2, <2>5
<1> QED BY <1>5, <1>6, <1>7

\* What the records of a sector are up to.
LEMMA EndOfRun ==
    ASSUME NEW e \in [Units -> Cells], NEW l \in Nat, NEW u \in Nat,
           NEW w \in 0 .. Room, RunOf(e, l, u), EndAt(e, w)
    PROVE  /\ u <= l + w
           /\ \A b \in Units : Holds(e, b) =>
                After(e, b) <= w /\ e[b].id + 1 <= u
           /\ w # 0 => \E b \in Units : Holds(e, b) /\ After(e, b) = w
                                        /\ e[b].id + 1 = u
           /\ w = 0 => u = l /\ \A b : ~Holds(e, b)
<1>1. ASSUME w = 0 PROVE u = l /\ \A b : ~Holds(e, b)
  BY <1>1, Numbers DEF EndAt, RunOf, Holds
<1>2. ASSUME w # 0
      PROVE  /\ \E b \in Units : Holds(e, b) /\ After(e, b) = w
                                 /\ e[b].id + 1 = u
             /\ u <= l + w
             /\ \A b \in Units : Holds(e, b) => After(e, b) <= w
  <2>1. PICK b \in Units : Holds(e, b) /\ After(e, b) = w
    BY <1>2 DEF EndAt
  <2>2. ~Holds(e, After(e, b))
    BY <2>1 DEF EndAt
  <2>3. u = e[b].id + 1 /\ e[b].id <= l + b /\ 0 < e[b].size
    BY <2>1, <2>2 DEF RunOf
  <2>4. u <= l + w
    BY <2>1, <2>3, CellParts DEF After
  <2>5. ASSUME NEW a \in Units, Holds(e, a) PROVE After(e, a) <= w
    <3>1. CASE a < b
      <4>1. After(e, a) <= b
        BY <2>1, <2>5, <3>1 DEF RunOf
      <4> QED BY <2>1, <2>3, <4>1, CellParts DEF After
    <3>2. CASE b < a
      <4>1. w <= a
        BY <2>1, <2>5, <3>2 DEF RunOf
      <4>2. a < w
        BY <2>5 DEF EndAt
      <4> QED BY <4>1, <4>2, CellParts
    <3>3. CASE a = b
      BY <2>1, <3>3
    <3>4. a \in Nat /\ b \in Nat
      BY CellParts
    <3> QED BY <3>1, <3>2, <3>3, <3>4
  <2> QED BY <2>1, <2>3, <2>4, <2>5
<1>3. \A b \in Units : Holds(e, b) => e[b].id + 1 <= u
  BY CellParts DEF RunOf
<1>4. w = 0 => u <= l + w
  BY <1>1
<1> QED BY <1>1, <1>2, <1>3, <1>4, Numbers

\* A record written at the end of a sector.
LEMMA RunGrows ==
    ASSUME NEW e \in [Units -> Cells], NEW f \in [Units -> Cells],
           NEW l \in Nat, NEW u \in Nat, NEW w \in Units,
           RunOf(e, l, u), EndAt(e, w), Holds(f, w), 0 < f[w].size, f[w].id = u,
           \A a : a # w => (Holds(f, a) <=> Holds(e, a)),
           \A a : Holds(e, a) => f[a] = e[a]
    PROVE  RunOf(f, l, u + 1) /\ EndAt(f, After(f, w))
<1>1. w \in Nat /\ w < Room /\ f[w].size \in Nat /\ Room \in Nat
  BY Numbers, CellParts
<1>2. After(f, w) = w + f[w].size /\ w < After(f, w) /\ After(f, w) <= Room
  BY <1>1 DEF After, Holds
<1>3. /\ u <= l + w
      /\ \A b \in Units : Holds(e, b) => After(e, b) <= w /\ e[b].id + 1 <= u
      /\ w # 0 => \E b \in Units : Holds(e, b) /\ After(e, b) = w
                                   /\ e[b].id + 1 = u
      /\ w = 0 => u = l /\ \A b : ~Holds(e, b)
  BY <1>1, EndOfRun
<1>4. \A a \in Units : Holds(e, a) => a < w /\ After(f, a) = After(e, a)
  BY DEF EndAt, After
<1>5. \A a : Holds(f, a) => a = w \/ (Holds(e, a) /\ a \in Units)
  BY DEF Holds
<1>6. ~Holds(f, After(f, w))
  <2>1. ASSUME Holds(f, After(f, w)) PROVE FALSE
    <3>1. Holds(e, After(f, w)) /\ After(f, w) \in Units
      BY <1>1, <1>2, <1>5, <2>1
    <3> QED BY <1>1, <1>2, <1>4, <3>1
  <2> QED BY <2>1
<1>7. \A b \in Units : Holds(f, b) => b < After(f, w)
  <2> TAKE b \in Units
  <2> HAVE Holds(f, b)
  <2> QED BY <1>1, <1>2, <1>4, <1>5, CellParts
<1>8. EndAt(f, After(f, w))
  BY <1>6, <1>7 DEF EndAt
<1>9. /\ Holds(f, 0) => f[0].id = l
      /\ ~Holds(f, 0) => u + 1 = l
      /\ l <= u + 1 /\ u + 1 <= l + Room
  <2>1. CASE w = 0
    BY <1>1, <1>3, <2>1
  <2>2. CASE w # 0
    <3>1. Holds(e, 0)
      <4>1. PICK b \in Units : Holds(e, b) /\ e[b].id + 1 = u
        BY <1>3, <2>2
      <4>2. l <= e[b].id /\ e[b].id \in Nat
        BY <4>1, CellParts DEF RunOf
      <4>3. u # l
        BY <4>1, <4>2
      <4> QED BY <4>3 DEF RunOf
    <3> QED BY <1>1, <1>3, <2>2, <3>1 DEF RunOf
  <2> QED BY <2>1, <2>2
<1>10. ASSUME NEW a \in Units, Holds(f, a)
       PROVE  /\ 0 < f[a].size
              /\ l <= f[a].id /\ f[a].id < u + 1 /\ f[a].id <= l + a
              /\ a > 0 => \E b \in Units : Holds(f, b) /\ After(f, b) = a
              /\ Holds(f, After(f, a)) => f[After(f, a)].id = f[a].id + 1
              /\ ~Holds(f, After(f, a)) => u + 1 = f[a].id + 1
              /\ \A b \in Units : Holds(f, b) /\ a < b =>
                    After(f, a) <= b /\ f[a].id < f[b].id
  <2>1. CASE a = w
    <3>1. w > 0 => \E b \in Units : Holds(f, b) /\ After(f, b) = w
      <4>1. ASSUME w # 0
            PROVE  \E b \in Units : Holds(f, b) /\ After(f, b) = w
        <5>1. PICK b \in Units : Holds(e, b) /\ After(e, b) = w
          BY <1>3, <4>1
        <5>2. b # w /\ After(f, b) = w
          BY <1>1, <1>4, <5>1
        <5> QED BY <5>1, <5>2
      <4> QED BY <1>1, <4>1
    <3>2. \A b \in Units : Holds(f, b) => ~(w < b)
      BY <1>1, <1>4, <1>5, CellParts
    <3>3. l <= u
      BY DEF RunOf
    <3> QED BY <1>1, <1>3, <1>6, <2>1, <3>1, <3>2, <3>3
  <2>2. CASE a # w
    <3>1. Holds(e, a) /\ f[a] = e[a] /\ After(f, a) = After(e, a) /\ a < w
      BY <1>4, <1>10, <2>2
    <3>2. /\ 0 < e[a].size
          /\ l <= e[a].id /\ e[a].id < u /\ e[a].id <= l + a
          /\ a > 0 => \E b \in Units : Holds(e, b) /\ After(e, b) = a
          /\ Holds(e, After(e, a)) => e[After(e, a)].id = e[a].id + 1
          /\ ~Holds(e, After(e, a)) => u = e[a].id + 1
          /\ \A b \in Units : Holds(e, b) /\ a < b =>
                After(e, a) <= b /\ e[a].id < e[b].id
      BY <3>1 DEF RunOf
    <3>3. a > 0 => \E b \in Units : Holds(f, b) /\ After(f, b) = a
      <4>1. ASSUME NEW b \in Units, Holds(e, b), After(e, b) = a
            PROVE  Holds(f, b) /\ After(f, b) = a
        <5>1. b # w
          BY <1>1, <1>4, <4>1
        <5> QED BY <1>4, <4>1, <5>1
      <4> QED BY <3>2, <4>1
    <3>4. /\ Holds(f, After(f, a)) => f[After(f, a)].id = f[a].id + 1
          /\ ~Holds(f, After(f, a)) => u + 1 = f[a].id + 1
      <4>1. CASE After(e, a) = w
        <5>1. ~Holds(e, w) /\ u = e[a].id + 1
          BY <3>2, <4>1 DEF EndAt
        <5> QED BY <3>1, <4>1, <5>1
      <4>2. CASE After(e, a) # w
        <5>1. Holds(f, After(f, a)) <=> Holds(e, After(e, a))
          BY <3>1, <4>2
        <5>2. Holds(e, After(e, a))
          <6>1. ASSUME ~Holds(e, After(e, a)) PROVE FALSE
            <7>1. u = e[a].id + 1
              BY <3>2, <6>1
            <7>2. PICK b \in Units : Holds(e, b) /\ After(e, b) = w
                                     /\ e[b].id + 1 = u
              BY <1>1, <1>3, <3>1, CellParts
            <7>3. a # b /\ e[a].id = e[b].id
              <8>1. e[a].id \in Nat /\ e[b].id \in Nat
                BY CellParts
              <8> QED BY <3>1, <4>2, <7>1, <7>2, <8>1
            <7>4. a < b => e[a].id < e[b].id
              BY <3>2, <7>2
            <7>5. b < a => e[b].id < e[a].id
              BY <3>1, <7>2 DEF RunOf
            <7>6. a \in Nat /\ b \in Nat /\ e[a].id \in Nat
              BY CellParts
            <7> QED BY <7>3, <7>4, <7>5, <7>6
          <6> QED BY <6>1
        <5> QED BY <3>1, <3>2, <5>1, <5>2
      <4> QED BY <4>1, <4>2
    <3>5. ASSUME NEW b \in Units, Holds(f, b), a < b
          PROVE  After(f, a) <= b /\ f[a].id < f[b].id
      <4>1. CASE b = w
        <5>1. After(e, a) <= w /\ e[a].id + 1 <= u
          BY <1>3, <3>1
        <5> QED BY <3>1, <4>1, <5>1, CellParts
      <4>2. CASE b # w
        <5>1. Holds(e, b) /\ f[b] = e[b]
          BY <1>5, <3>5, <4>2
        <5> QED BY <3>1, <3>2, <3>5, <5>1
      <4> QED BY <4>1, <4>2
    <3>6. f[a].id < u + 1
      BY <3>1, <3>2, CellParts
    <3> QED BY <3>1, <3>2, <3>3, <3>4, <3>5, <3>6
  <2> QED BY <2>1, <2>2
<1>11. RunOf(f, l, u + 1)
  <2>1. ~Holds(f, 0) => u + 1 = l
    BY <1>9
  <2> HIDE DEF RunOf
  <2> QED BY <1>9, <1>10, <2>1 DEF RunOf
<1> QED BY <1>8, <1>11

\* Orders of ids between sectors.
LEMMA SectorOrder ==
    ASSUME NEW V, NEW h, NEW d, ViewType(V, h, d), NEW c \in Sectors,
           NEW lo \in [Sectors -> Nat], NEW hi \in [Sectors -> Nat],
           RingAt(V, h, c), RunsAt(V, d, c, lo, hi)
    PROVE  /\ \A s \in V : /\ s \in Sectors /\ lo[s] \in Nat /\ hi[s] \in Nat
                           /\ RunOf(d[s], lo[s], hi[s])
                           /\ lo[s] <= hi[s] /\ hi[s] <= hi[c]
                           /\ Age(c, s) \in Nat
                           /\ s # c => 0 < Age(c, s) /\ hi[s] <= lo[c]
           /\ \A s \in V, a \in Units : Holds(d[s], a) =>
                d[s][a].id \in Nat /\ d[s][a].id < hi[s] /\ d[s][a].id < hi[c]
           /\ c \in V
<1>1. c \in V /\ V \subseteq Sectors
  BY DEF RingAt, ViewType
<1>2. ASSUME NEW s \in V
      PROVE  /\ s \in Sectors /\ lo[s] \in Nat /\ hi[s] \in Nat
             /\ RunOf(d[s], lo[s], hi[s]) /\ lo[s] <= hi[s]
             /\ Age(c, s) \in Nat
             /\ s # c => 0 < Age(c, s) /\ hi[s] <= lo[c]
  <2>1. s \in Sectors /\ Age(c, s) \in 0 .. (SectorCount - 1)
        /\ (Age(c, s) = 0 <=> s = c) /\ Age(c, c) = 0
    BY <1>1, Ages
  <2>2. Age(c, s) \in Nat /\ s # c => 0 < Age(c, s)
    BY <2>1, Numbers
  <2>3. Age(c, s) \in Nat
    BY <2>1, Numbers
  <2>4. s # c => hi[s] <= lo[c]
    BY <1>1, <2>1, <2>2, <2>3 DEF RunsAt
  <2>5. RunOf(d[s], lo[s], hi[s])
    BY DEF RunsAt
  <2>6. lo[s] <= hi[s]
    BY <2>5 DEF RunOf
  <2> QED BY <2>1, <2>2, <2>3, <2>4, <2>5, <2>6
<1>3. ASSUME NEW s \in V PROVE hi[s] <= hi[c]
  <2>1. lo[c] <= hi[c] /\ lo[c] \in Nat /\ hi[c] \in Nat /\ hi[s] \in Nat
    BY <1>1, <1>2
  <2> QED BY <1>2, <2>1
<1>4. ASSUME NEW s \in V, NEW a \in Units, Holds(d[s], a)
      PROVE  d[s][a].id \in Nat /\ d[s][a].id < hi[s] /\ d[s][a].id < hi[c]
  <2>1. d[s] \in [Units -> Cells]
    BY <1>1 DEF ViewType
  <2>2. d[s][a].id \in Nat
    BY <2>1, CellParts
  <2>3. d[s][a].id < hi[s]
    BY <1>2, <1>4 DEF RunOf
  <2> QED BY <1>1, <1>2, <1>3, <2>2, <2>3
<1> QED BY <1>1, <1>2, <1>3, <1>4

\* A sector's sequence number by its age; sequence numbers tell sectors apart.
LEMMA SeqOf ==
    ASSUME NEW V, NEW h, NEW d, ViewType(V, h, d), NEW c \in Sectors,
           RingAt(V, h, c), NEW s \in V
    PROVE  /\ h[s].seq \in Sequence /\ h[c].seq \in Sequence
           /\ h[s].seq = SeqBack(h[c].seq, Age(c, s))
           /\ \A n \in Nat : Age(c, s) + n < SeqMod =>
                SeqBack(h[s].seq, n) = SeqBack(h[c].seq, Age(c, s) + n)
           /\ \A n \in Nat : Age(c, s) + n < SeqMod =>
                (SeqBack(h[s].seq, n) = h[c].seq <=> s = c /\ n = 0)
<1>1. s \in Sectors /\ h[s] \in Headers /\ h[c] \in Headers
  BY DEF ViewType
<1>2. h[s].seq \in Sequence /\ h[c].seq \in Sequence
  BY <1>1 DEF Headers
<1>3. h[s].seq = SeqBack(h[c].seq, Age(c, s))
  BY DEF RingAt
<1>4. /\ Age(c, s) \in 0 .. (SectorCount - 1)
      /\ Age(c, s) = 0 <=> s = c
  BY <1>1, Ages
<1>5. Age(c, s) \in 0 .. (SeqMod - 1)
  BY <1>4, Numbers
<1>6. ASSUME NEW n \in Nat, Age(c, s) + n < SeqMod
      PROVE  SeqBack(h[s].seq, n) = SeqBack(h[c].seq, Age(c, s) + n)
  <2>1. n \in 0 .. (SeqMod - 1)
    BY <1>5, <1>6, Numbers
  <2> QED BY <1>2, <1>3, <1>5, <1>6, <2>1, Backs
<1>7. ASSUME NEW n \in Nat, Age(c, s) + n < SeqMod
      PROVE  SeqBack(h[s].seq, n) = h[c].seq <=> s = c /\ n = 0
  <2>1. SeqBack(h[s].seq, n) = SeqBack(h[c].seq, Age(c, s) + n)
    BY <1>6, <1>7
  <2>2. Age(c, s) + n \in 0 .. (SeqMod - 1) /\ 0 \in 0 .. (SeqMod - 1)
    BY <1>5, <1>7, Numbers
  <2>3. SeqBack(h[c].seq, 0) = h[c].seq
    BY <1>2, <2>2, Backs
  <2>4. SeqBack(h[c].seq, Age(c, s) + n) = SeqBack(h[c].seq, 0)
            <=> Age(c, s) + n = 0
    BY <1>2, <2>2, Backs
  <2>5. Age(c, s) + n = 0 <=> Age(c, s) = 0 /\ n = 0
    BY <1>5
  <2> QED BY <1>4, <2>1, <2>3, <2>4, <2>5
<1> QED BY <1>2, <1>3, <1>6, <1>7

\* The records of e are those of f besides the one at w.
AddedAt(e, f, w) ==
    /\ \A a : a # w => (Holds(f, a) <=> Holds(e, a))
    /\ \A a : Holds(e, a) => f[a] = e[a]

\* nlog3_append() adds the record with the next id.
LEMMA AddRecord ==
    ASSUME NEW V, NEW h, NEW d, ViewType(V, h, d), NEW f \in [Units -> Cells],
           NEW c \in Sectors, NEW w \in Units, NEW E \in Nat,
           E + SectorCount < SeqMod,
           NEW lo \in [Sectors -> Nat], NEW hi \in [Sectors -> Nat],
           LogAt(V, h, d, c, lo, hi, E), EndAt(d[c], w),
           Names(V, h, d, f[w].prev, f[w].pseq, hi[c]),
           Near(h, f[w].prev, f[w].pseq, c, w, E),
           Holds(f, w), 0 < f[w].size, f[w].id = hi[c], AddedAt(d[c], f, w)
    PROVE  /\ LogAt(V, h, [d EXCEPT ![c] = f], c, lo,
                    [hi EXCEPT ![c] = hi[c] + 1], E)
           /\ Names(V, h, [d EXCEPT ![c] = f], Offset(c, w), h[c].seq, hi[c] + 1)
           /\ Near(h, Offset(c, w), h[c].seq, c, After(f, w), E)
           /\ EndAt(f, After(f, w))
<1> USE DEF AddedAt
<1> DEFINE d2 == [d EXCEPT ![c] = f]
           hi2 == [hi EXCEPT ![c] = hi[c] + 1]
<1>1. RingAt(V, h, c) /\ RunsAt(V, d, c, lo, hi) /\ LinksAt(V, h, d, E)
  BY DEF LogAt
<1>2. /\ \A s \in V : /\ s \in Sectors /\ lo[s] \in Nat /\ hi[s] \in Nat
                      /\ RunOf(d[s], lo[s], hi[s])
                      /\ lo[s] <= hi[s] /\ hi[s] <= hi[c]
                      /\ Age(c, s) \in Nat
                      /\ s # c => 0 < Age(c, s) /\ hi[s] <= lo[c]
      /\ \A s \in V, a \in Units : Holds(d[s], a) =>
            d[s][a].id \in Nat /\ d[s][a].id < hi[s] /\ d[s][a].id < hi[c]
      /\ c \in V
  BY <1>1, SectorOrder
<1>3. /\ d2[c] = f /\ \A s \in V \ {c} : d2[s] = d[s]
      /\ hi2[c] = hi[c] + 1 /\ \A s \in V \ {c} : hi2[s] = hi[s]
      /\ d[c] \in [Units -> Cells]
  BY <1>2 DEF ViewType
<1>4. RunOf(f, lo[c], hi[c] + 1) /\ EndAt(f, After(f, w))
  BY <1>2, <1>3, RunGrows
<1> HIDE DEF d2, hi2
<1>5. \A a \in Units : Holds(f, a) => a = w \/ (Holds(d[c], a) /\ a < w)
  BY DEF EndAt
<1>6. RunsAt(V, d2, c, lo, hi2)
  <2> SUFFICES ASSUME NEW s \in V
               PROVE  /\ RunOf(d2[s], lo[s], hi2[s])
                      /\ s # c => lo[SectorNext(s)] = hi2[s]
                      /\ lo[c] <= lo[s] + Span(Age(c, s))
                      /\ \A t \in V : Age(c, t) < Age(c, s) => hi2[s] <= lo[t]
    BY DEF RunsAt
  <2>1. /\ RunOf(d[s], lo[s], hi[s])
        /\ s # c => lo[SectorNext(s)] = hi[s]
        /\ lo[c] <= lo[s] + Span(Age(c, s))
        /\ \A t \in V : Age(c, t) < Age(c, s) => hi[s] <= lo[t]
    BY <1>1 DEF RunsAt
  <2>2. CASE s # c
    BY <1>3, <2>1, <2>2
  <2>3. CASE s = c
    <3>1. Age(c, c) = 0
      BY Ages
    <3>2. \A t \in V : ~(Age(c, t) < Age(c, s))
      BY <1>2, <2>3, <3>1
    <3> QED BY <1>3, <1>4, <2>1, <2>3, <3>2
  <2> QED BY <2>2, <2>3
<1>7. NewestAt(V, d2, hi2[c])
  <2>1. Holds(d2[c], w) /\ d2[c][w].id + 1 = hi2[c]
    BY <1>3
  <2> QED BY <1>2, <2>1 DEF NewestAt
<1>8. ASSUME NEW t \in V, NEW b \in Units, Holds(d2[t], b)
      PROVE  \/ t = c /\ b = w /\ d2[t][b].id = hi[c]
             \/ /\ Holds(d[t], b) /\ d2[t][b] = d[t][b]
                /\ t = c => b < w
                /\ d[t][b].id \in Nat /\ d[t][b].id < hi[c]
  <2>1. CASE t = c
    <3>1. CASE b = w
      BY <1>3, <2>1, <3>1
    <3>2. CASE b # w
      <4>1. Holds(d[t], b) /\ d2[t][b] = d[t][b] /\ b < w
        BY <1>3, <1>5, <1>8, <2>1, <3>2
      <4> QED BY <1>2, <4>1
    <3> QED BY <3>1, <3>2
  <2>2. CASE t # c
    <3>1. Holds(d[t], b) /\ d2[t][b] = d[t][b]
      BY <1>3, <1>8, <2>2
    <3> QED BY <1>2, <2>2, <3>1
  <2> QED BY <2>1, <2>2
<1>9. hi[c] \in Nat
  BY <1>2
<1>10. Names(V, h, d2, f[w].prev, f[w].pseq, hi[c])
  <2> SUFFICES ASSUME NEW t \in V, NEW b \in Units, Holds(d2[t], b)
               PROVE  f[w].prev = Offset(t, b) /\ f[w].pseq = h[t].seq
                        <=> d2[t][b].id + 1 = hi[c]
    BY DEF Names
  <2>1. CASE t = c /\ b = w /\ d2[t][b].id = hi[c]
    <3>1. ASSUME f[w].prev = Offset(c, w), f[w].pseq = h[c].seq
          PROVE  FALSE
      <4>1. f[w].prev # NoOffset
        BY <3>1, Offsets
      <4>2. PICK n \in 0 .. E : /\ f[w].pseq = SeqBack(h[c].seq, n)
                                /\ n = 0 => f[w].prev < Offset(c, w)
        BY <4>1 DEF Near
      <4>3. Age(c, c) = 0 /\ n \in Nat /\ n < SeqMod
        BY Ages, Numbers
      <4>4. n = 0
        <5>1. \A k \in Nat : Age(c, c) + k < SeqMod =>
                (SeqBack(h[c].seq, k) = h[c].seq <=> c = c /\ k = 0)
          BY <1>1, <1>2, SeqOf
        <5> QED BY <3>1, <4>2, <4>3, <5>1
      <4>5. Offset(c, w) \in Nat /\ f[w].prev < Offset(c, w)
        BY <4>2, <4>4, Offsets
      <4> QED BY <3>1, <4>5
    <3> QED BY <1>9, <2>1, <3>1
  <2>2. CASE Holds(d[t], b) /\ d2[t][b] = d[t][b]
    BY <2>2 DEF Names
  <2> QED BY <1>8, <2>1, <2>2
<1>11. ASSUME NEW s \in V, NEW a \in Units, Holds(d[s], a),
              s = c => a < w
       PROVE  Names(V, h, d2, d[s][a].prev, d[s][a].pseq, d[s][a].id)
  <2>1. /\ Names(V, h, d, d[s][a].prev, d[s][a].pseq, d[s][a].id)
        /\ Near(h, d[s][a].prev, d[s][a].pseq, s, a, E)
    BY <1>1, <1>11 DEF LinksAt
  <2> SUFFICES ASSUME NEW t \in V, NEW b \in Units, Holds(d2[t], b)
               PROVE  d[s][a].prev = Offset(t, b) /\ d[s][a].pseq = h[t].seq
                        <=> d2[t][b].id + 1 = d[s][a].id
    BY DEF Names
  <2>2. CASE t = c /\ b = w /\ d2[t][b].id = hi[c]
    <3>1. d2[t][b].id + 1 # d[s][a].id
      BY <1>2, <1>9, <1>11, <2>2
    <3>2. ASSUME d[s][a].prev = Offset(c, w), d[s][a].pseq = h[c].seq
          PROVE  FALSE
      <4>1. d[s][a].prev # NoOffset
        BY <3>2, Offsets
      <4>2. PICK n \in 0 .. E : /\ d[s][a].pseq = SeqBack(h[s].seq, n)
                                /\ n = 0 => d[s][a].prev < Offset(s, a)
        BY <2>1, <4>1 DEF Near
      <4>3. Age(c, s) + n < SeqMod /\ n \in Nat
        <5>1. s \in Sectors /\ n \in 0 .. E
          BY <1>2, <1>11, <4>2
        <5> QED BY <5>1, AgeBelow
      <4>4. s = c /\ n = 0
        <5>1. \A k \in Nat : Age(c, s) + k < SeqMod =>
                (SeqBack(h[s].seq, k) = h[c].seq <=> s = c /\ k = 0)
          BY <1>1, SeqOf
        <5> QED BY <3>2, <4>2, <4>3, <5>1
      <4>5. Offset(c, w) < Offset(c, a) /\ a < w
        BY <1>11, <3>2, <4>2, <4>4
      <4>6. a \in Nat /\ w \in Nat /\ w \in 0 .. Room
        BY Numbers
      <4>7. Offset(c, w) < Offset(c, a) <=> w < a
        BY <4>6, Offsets
      <4> QED BY <4>5, <4>6, <4>7
    <3> QED BY <2>2, <3>1, <3>2
  <2>3. CASE Holds(d[t], b) /\ d2[t][b] = d[t][b]
    BY <2>1, <2>3 DEF Names
  <2> QED BY <1>8, <2>2, <2>3
<1>12. LinksAt(V, h, d2, E)
  <2> SUFFICES ASSUME NEW s \in V, NEW a \in Units, Holds(d2[s], a)
               PROVE  /\ Names(V, h, d2, d2[s][a].prev, d2[s][a].pseq,
                               d2[s][a].id)
                      /\ Near(h, d2[s][a].prev, d2[s][a].pseq, s, a, E)
    BY DEF LinksAt
  <2>1. CASE s = c /\ a = w
    BY <1>3, <1>10, <2>1
  <2>2. CASE Holds(d[s], a) /\ d2[s][a] = d[s][a] /\ (s = c => a < w)
    <3>1. Names(V, h, d2, d[s][a].prev, d[s][a].pseq, d[s][a].id)
      BY <1>11, <2>2
    <3>2. Near(h, d[s][a].prev, d[s][a].pseq, s, a, E)
      BY <1>1, <2>2 DEF LinksAt
    <3> QED BY <2>2, <3>1, <3>2
  <2> QED BY <1>8, <2>1, <2>2
<1>13. LogAt(V, h, d2, c, lo, hi2, E)
  BY <1>1, <1>6, <1>7, <1>12 DEF LogAt
<1>14. Names(V, h, d2, Offset(c, w), h[c].seq, hi[c] + 1)
  <2> SUFFICES ASSUME NEW t \in V, NEW b \in Units, Holds(d2[t], b)
               PROVE  Offset(c, w) = Offset(t, b) /\ h[c].seq = h[t].seq
                        <=> d2[t][b].id + 1 = hi[c] + 1
    BY DEF Names
  <2>1. CASE t = c /\ b = w /\ d2[t][b].id = hi[c]
    BY <2>1
  <2>2. CASE /\ t = c => b < w
             /\ d2[t][b].id \in Nat /\ d2[t][b].id < hi[c]
    <3>1. Offset(c, w) # Offset(t, b)
      <4>1. t \in Sectors
        BY <1>2
      <4>2. Offset(c, w) = Offset(t, b) => c = t /\ w = b
        BY <4>1, Offsets
      <4> QED BY <2>2, <4>2, Numbers
    <3> QED BY <1>9, <2>2, <3>1
  <2> QED BY <1>8, <2>1, <2>2
<1>15. Near(h, Offset(c, w), h[c].seq, c, After(f, w), E)
  <2>1. h[c].seq = SeqBack(h[c].seq, 0)
    <3>1. h[c].seq \in Sequence /\ 0 \in 0 .. (SeqMod - 1)
      BY <1>1, <1>2, SeqOf, Numbers
    <3> QED BY <3>1, Backs
  <2>2. After(f, w) \in 0 .. Room /\ w < After(f, w)
    <3>1. w \in Nat /\ f[w].size \in Nat
      BY CellParts
    <3>2. w + f[w].size <= Room /\ 0 < f[w].size /\ Room \in Nat
      BY Numbers DEF Holds
    <3> DEFINE z == f[w].size
    <3>3. After(f, w) = w + z
      BY DEF After
    <3> HIDE DEF z
    <3>4. z \in Nat /\ w \in Nat /\ w + z <= Room /\ 0 < z /\ Room \in Nat
      BY <3>1, <3>2 DEF z
    <3> QED BY <3>3, <3>4
  <2>3. Offset(c, w) < Offset(c, After(f, w))
    BY <2>2, Offsets
  <2>4. 0 \in 0 .. E
    OBVIOUS
  <2> QED BY <2>1, <2>3, <2>4 DEF Near
<1> QED BY <1>4, <1>13, <1>14, <1>15 DEF d2, hi2

\* The sectors V stay as they are; and nothing is in a data area.
Keeps(V, h, d, h2, d2) == \A s \in V : h2[s].seq = h[s].seq /\ d2[s] = d[s]
Bare(e) == \A a : ~Holds(e, a)

\* A sector is begun after the newest one.
LEMMA AddSector ==
    ASSUME NEW V, NEW h, NEW d, ViewType(V, h, d), NEW c \in Sectors,
           NEW n \in Sectors, n = SectorNext(c), n \notin V, NEW E \in Nat,
           NEW lo \in [Sectors -> Nat], NEW hi \in [Sectors -> Nat],
           LogAt(V, h, d, c, lo, hi, E),
           NEW h2, NEW d2, ViewType(V \union {n}, h2, d2),
           Keeps(V, h, d, h2, d2),
           h2[n].seq = (h[c].seq + 1) % SeqMod, Bare(d2[n])
    PROVE  /\ LogAt(V \union {n}, h2, d2, n, [lo EXCEPT ![n] = hi[c]],
                    [hi EXCEPT ![n] = hi[c]], E)
           /\ \A o, q, k : Names(V, h, d, o, q, k) =>
                Names(V \union {n}, h2, d2, o, q, k)
           /\ \A o, q, a, F, G : /\ F \in Nat /\ G \in Nat /\ F < G /\ F < SeqMod - 1
                                 /\ Near(h, o, q, c, a, F)
                => Near(h2, o, q, n, 0, G)
<1> USE DEF Keeps, Bare
<1> DEFINE W == V \union {n}
           lo2 == [lo EXCEPT ![n] = hi[c]]
           hi2 == [hi EXCEPT ![n] = hi[c]]
<1>1. /\ RingAt(V, h, c) /\ RunsAt(V, d, c, lo, hi) /\ LinksAt(V, h, d, E)
      /\ NewestAt(V, d, hi[c]) /\ FullAt(V, c, lo)
  BY DEF LogAt
<1>2. /\ \A s \in V : /\ s \in Sectors /\ lo[s] \in Nat /\ hi[s] \in Nat
                      /\ RunOf(d[s], lo[s], hi[s])
                      /\ lo[s] <= hi[s] /\ hi[s] <= hi[c]
                      /\ Age(c, s) \in Nat
                      /\ s # c => 0 < Age(c, s) /\ hi[s] <= lo[c]
      /\ \A s \in V, a \in Units : Holds(d[s], a) =>
            d[s][a].id \in Nat /\ d[s][a].id < hi[s] /\ d[s][a].id < hi[c]
      /\ c \in V
  BY <1>1, SectorOrder
<1>3. /\ \A s \in V : s # n /\ lo2[s] = lo[s] /\ hi2[s] = hi[s]
      /\ lo2[n] = hi[c] /\ hi2[n] = hi[c]
  BY <1>2
<1> HIDE DEF lo2, hi2
<1>4. \A s \in Sectors : /\ Age(c, s) \in 0 .. (SectorCount - 1)
                         /\ s # c => Age(c, SectorNext(s)) = Age(c, s) - 1
                         /\ s # n => Age(n, s) = Age(c, s) + 1
  BY Ages
<1>5. Age(n, n) = 0 /\ Age(c, n) = SectorCount - 1 /\ Age(c, c) = 0
  BY Ages
<1>6. h[c].seq \in Sequence
  BY <1>1, <1>2, SeqOf
<1>7. \A m \in 0 .. (SeqMod - 1) : m + 1 < SeqMod =>
            SeqBack(h2[n].seq, m + 1) = SeqBack(h[c].seq, m)
  BY <1>6, Backs
<1>8. h2[n].seq \in Sequence
  BY <1>6, NextSequence
<1>9. RingAt(W, h2, n)
  <2>1. ASSUME NEW s \in W PROVE h2[s].seq = SeqBack(h2[n].seq, Age(n, s))
    <3>1. CASE s = n
      <4>1. 0 \in 0 .. (SeqMod - 1)
        BY Numbers
      <4>2. SeqBack(h2[n].seq, 0) = h2[n].seq
        BY <1>8, <4>1, Backs
      <4> QED BY <1>5, <3>1, <4>2
    <3>2. CASE s \in V
      <4>1. Age(n, s) = Age(c, s) + 1 /\ Age(c, s) \in 0 .. (SectorCount - 1)
        BY <1>2, <1>3, <1>4, <3>2
      <4>2. Age(c, s) \in 0 .. (SeqMod - 1) /\ Age(c, s) + 1 < SeqMod
        <5>1. \A x \in 0 .. (SectorCount - 1) :
                x \in 0 .. (SeqMod - 1) /\ x + 1 < SeqMod
          BY Numbers
        <5> QED BY <4>1, <5>1
      <4>3. SeqBack(h2[n].seq, Age(c, s) + 1) = SeqBack(h[c].seq, Age(c, s))
        BY <1>7, <4>2
      <4> QED BY <1>1, <3>2, <4>1, <4>3 DEF RingAt
    <3> QED BY <3>1, <3>2
  <2>2. ASSUME NEW s \in W, NEW t \in Sectors, Age(n, t) <= Age(n, s)
        PROVE  t \in W
    <3>1. CASE t = n
      BY <3>1
    <3>2. CASE t # n /\ s = n
      <4>1. Age(n, t) = Age(c, t) + 1 /\ Age(c, t) \in Nat
        BY <1>4, <3>2, Numbers
      <4> QED BY <1>5, <2>2, <3>2, <4>1
    <3>3. CASE t # n /\ s \in V
      <4>1. /\ Age(n, t) = Age(c, t) + 1 /\ Age(n, s) = Age(c, s) + 1
            /\ Age(c, t) \in Nat /\ Age(c, s) \in Nat
        BY <1>2, <1>3, <1>4, <3>3, Numbers
      <4>2. Age(c, t) <= Age(c, s)
        BY <2>2, <4>1
      <4> QED BY <1>1, <3>3, <4>2 DEF RingAt
    <3> QED BY <3>1, <3>2, <3>3
  <2> QED BY <2>1, <2>2 DEF RingAt
<1>10. RunOf(d2[n], hi[c], hi[c])
  <2>1. hi[c] <= hi[c] /\ hi[c] <= hi[c] + Room /\ 0 \in Units
    <3>1. \A k \in Nat : k <= k /\ k <= k + Room
      BY Numbers
    <3>2. hi[c] \in Nat
      BY <1>2
    <3>3. 0 \in Units
      BY Numbers
    <3> QED BY <3>1, <3>2, <3>3
  <2>2. \A a \in Units : ~Holds(d2[n], a)
    OBVIOUS
  <2> QED BY <2>1, <2>2 DEF RunOf
<1>11. RunsAt(W, d2, n, lo2, hi2)
  <2>1. ASSUME NEW s \in V
        PROVE  /\ RunOf(d2[s], lo2[s], hi2[s])
               /\ lo2[SectorNext(s)] = hi2[s]
               /\ lo2[n] <= lo2[s] + Span(Age(n, s))
               /\ \A t \in W : Age(n, t) < Age(n, s) => hi2[s] <= lo2[t]
    <3>1. RunOf(d2[s], lo2[s], hi2[s])
      BY <1>2, <1>3
    <3>2. lo2[SectorNext(s)] = hi2[s]
      <4>1. CASE s = c
        BY <1>3, <4>1
      <4>2. CASE s # c
        <5>1. lo[SectorNext(s)] = hi[s]
          BY <1>1, <4>2 DEF RunsAt
        <5>2. SectorNext(s) # n
          <6>1. Age(c, SectorNext(s)) = Age(c, s) - 1
                /\ Age(c, s) \in 0 .. (SectorCount - 1)
            BY <1>2, <1>4, <4>2
          <6> QED BY <1>5, <6>1, Numbers
        <5>3. lo2[SectorNext(s)] = lo[SectorNext(s)]
          BY <5>2 DEF lo2
        <5> QED BY <1>3, <5>1, <5>3
      <4> QED BY <4>1, <4>2
    <3>3. lo2[n] <= lo2[s] + Span(Age(n, s))
      <4>1. lo[c] <= lo[s] + Span(Age(c, s))
        BY <1>1 DEF RunsAt
      <4>2. hi[c] <= lo[c] + Room
        BY <1>2 DEF RunOf
      <4>3. Age(n, s) = Age(c, s) + 1 /\ Age(c, s) \in Nat
        BY <1>2, <1>3, <1>4
      <4>4. Span(Age(n, s)) = Span(Age(c, s)) + Room /\ Span(Age(c, s)) \in Nat
        BY <4>3, Spans
      <4>5. /\ hi[c] \in Nat /\ lo[c] \in Nat /\ lo[s] \in Nat
        BY <1>2
      <4>6. hi[c] <= lo[s] + Span(Age(n, s))
        <5> DEFINE x == Span(Age(c, s))
                   y == Span(Age(n, s))
        <5>1. /\ lo[c] <= lo[s] + x /\ y = x + Room /\ x \in Nat
              /\ Room \in Nat
          BY <4>1, <4>4, Numbers
        <5> HIDE DEF x, y
        <5>2. hi[c] <= lo[s] + y
          BY <4>2, <4>5, <5>1
        <5> QED BY <5>2 DEF y
      <4> QED BY <1>3, <4>6
    <3>4. ASSUME NEW t \in W, Age(n, t) < Age(n, s) PROVE hi2[s] <= lo2[t]
      <4>1. CASE t = n
        BY <1>2, <1>3, <4>1
      <4>2. CASE t \in V
        <5>1. /\ Age(n, s) = Age(c, s) + 1 /\ Age(n, t) = Age(c, t) + 1
              /\ Age(c, s) \in Nat /\ Age(c, t) \in Nat
          BY <1>2, <1>3, <1>4, <4>2
        <5>2. Age(c, t) < Age(c, s)
          BY <3>4, <5>1
        <5> QED BY <1>1, <1>3, <4>2, <5>2 DEF RunsAt
      <4> QED BY <4>1, <4>2
    <3> QED BY <3>1, <3>2, <3>3, <3>4
  <2>2. /\ RunOf(d2[n], lo2[n], hi2[n])
        /\ lo2[n] <= lo2[n] + Span(Age(n, n))
        /\ \A t \in W : ~(Age(n, t) < Age(n, n))
    <3>1. \A t \in W : t # n => Age(n, t) = Age(c, t) + 1 /\ Age(c, t) \in Nat
      BY <1>2, <1>4
    <3>2. lo2[n] \in Nat /\ Span(Age(n, n)) = 0
      BY <1>2, <1>3, <1>5, Spans
    <3> QED BY <1>3, <1>5, <1>10, <3>1, <3>2
  <2> QED BY <2>1, <2>2 DEF RunsAt
<1>12. \A t \in W : \A b : Holds(d2[t], b) => t \in V /\ Holds(d[t], b) /\ d2[t] = d[t]
                                               /\ h2[t].seq = h[t].seq
  BY <1>3
<1>13. NewestAt(W, d2, hi2[n])
  <2> SUFFICES ASSUME NEW s \in W, NEW a \in Units, Holds(d2[s], a)
               PROVE  \E t \in W, b \in Units :
                        Holds(d2[t], b) /\ d2[t][b].id + 1 = hi2[n]
    BY DEF NewestAt
  <2>1. s \in V /\ Holds(d[s], a)
    BY <1>12
  <2>2. PICK t \in V, b \in Units : Holds(d[t], b) /\ d[t][b].id + 1 = hi[c]
    BY <1>1, <2>1 DEF NewestAt
  <2>3. Holds(d2[t], b) /\ d2[t][b].id + 1 = hi2[n]
    BY <1>3, <2>2
  <2> QED BY <2>3
<1>14. ASSUME NEW o, NEW q, NEW k, Names(V, h, d, o, q, k)
       PROVE  Names(W, h2, d2, o, q, k)
  <2> SUFFICES ASSUME NEW t \in W, NEW b \in Units, Holds(d2[t], b)
               PROVE  o = Offset(t, b) /\ q = h2[t].seq <=> d2[t][b].id + 1 = k
    BY DEF Names
  <2>1. t \in V /\ Holds(d[t], b) /\ d2[t] = d[t] /\ h2[t].seq = h[t].seq
    BY <1>12
  <2> QED BY <1>14, <2>1 DEF Names
<1>15. LinksAt(W, h2, d2, E)
  <2> SUFFICES ASSUME NEW s \in W, NEW a \in Units, Holds(d2[s], a)
               PROVE  /\ Names(W, h2, d2, d2[s][a].prev, d2[s][a].pseq,
                               d2[s][a].id)
                      /\ Near(h2, d2[s][a].prev, d2[s][a].pseq, s, a, E)
    BY DEF LinksAt
  <2>1. s \in V /\ Holds(d[s], a) /\ d2[s] = d[s] /\ h2[s].seq = h[s].seq
    BY <1>12
  <2>2. /\ Names(V, h, d, d[s][a].prev, d[s][a].pseq, d[s][a].id)
        /\ Near(h, d[s][a].prev, d[s][a].pseq, s, a, E)
    BY <1>1, <2>1 DEF LinksAt
  <2>3. Names(W, h2, d2, d[s][a].prev, d[s][a].pseq, d[s][a].id)
    BY <1>14, <2>2
  <2>4. Near(h2, d[s][a].prev, d[s][a].pseq, s, a, E)
    BY <2>1, <2>2 DEF Near
  <2> QED BY <2>1, <2>3, <2>4
<1>16. FullAt(W, n, lo2)
  <2>1. CASE \A t \in Sectors : Age(c, t) <= SectorCount - 2 => t \in V
    <3>1. ASSUME NEW t \in Sectors, Age(n, t) <= SectorCount - 2 PROVE t \in W
      <4>1. t # n => Age(n, t) = Age(c, t) + 1 /\ Age(c, t) \in Nat
        BY <1>4, Numbers
      <4> QED BY <2>1, <3>1, <4>1, Numbers
    <3> QED BY <3>1 DEF FullAt
  <2>2. CASE \A s \in V : (\A t \in V : Age(c, t) <= Age(c, s)) => lo[s] = 0
    <3>1. ASSUME NEW s \in W, \A t \in W : Age(n, t) <= Age(n, s)
          PROVE  lo2[s] = 0
      <4>1. c \in W /\ Age(n, c) = 1
        <5>1. c # n
          BY <1>2, <1>3
        <5> QED BY <1>2, <1>4, <1>5, <5>1
      <4>2. s # n /\ s \in V
        <5>1. 1 <= Age(n, s)
          BY <3>1, <4>1
        <5> QED BY <1>5, <5>1
      <4>3. ASSUME NEW t \in V PROVE Age(c, t) <= Age(c, s)
        <5>1. /\ Age(n, s) = Age(c, s) + 1 /\ Age(n, t) = Age(c, t) + 1
              /\ Age(c, s) \in Nat /\ Age(c, t) \in Nat
          BY <1>2, <1>3, <1>4, <4>2
        <5>2. Age(n, t) <= Age(n, s)
          BY <3>1
        <5> QED BY <5>1, <5>2
      <4> QED BY <1>3, <2>2, <4>2, <4>3
    <3> QED BY <3>1 DEF FullAt
  <2> QED BY <1>1, <2>1, <2>2 DEF FullAt
<1>17. ASSUME NEW o, NEW q, NEW a, NEW F \in Nat, NEW G \in Nat, F < G,
              F < SeqMod - 1, Near(h, o, q, c, a, F)
       PROVE  Near(h2, o, q, n, 0, G)
  <2> SUFFICES ASSUME o # NoOffset
               PROVE  \E m \in 0 .. G : /\ q = SeqBack(h2[n].seq, m)
                                        /\ m = 0 => o < Offset(n, 0)
    BY DEF Near
  <2>1. PICK m \in 0 .. F : q = SeqBack(h[c].seq, m)
    BY <1>17 DEF Near
  <2>2. m \in 0 .. (SeqMod - 1) /\ m + 1 < SeqMod /\ m + 1 \in 0 .. G /\ m + 1 # 0
    BY <1>17, Numbers, OneMore
  <2>3. q = SeqBack(h2[n].seq, m + 1)
    BY <1>7, <2>1, <2>2
  <2> QED BY <2>2, <2>3
<1>18. LogAt(W, h2, d2, n, lo2, hi2, E)
  BY <1>9, <1>11, <1>13, <1>15, <1>16 DEF LogAt
<1> QED BY <1>14, <1>17, <1>18 DEF lo2, hi2

\* The records of the oldest sector are given up, when all are in use.
LEMMA DropOldest ==
    ASSUME NEW V, NEW h, NEW d, ViewType(V, h, d), NEW c \in Sectors,
           NEW n \in Sectors, n = SectorNext(c), n \in V, NEW E \in Nat,
           NEW lo \in [Sectors -> Nat], NEW hi \in [Sectors -> Nat],
           LogAt(V, h, d, c, lo, hi, E)
    PROVE  LogAt(V \ {n}, h, d, c, lo, hi, E)
<1> DEFINE W == V \ {n}
<1>1. /\ RingAt(V, h, c) /\ RunsAt(V, d, c, lo, hi) /\ LinksAt(V, h, d, E)
      /\ NewestAt(V, d, hi[c])
  BY DEF LogAt
<1>2. /\ \A s \in V : /\ s \in Sectors /\ lo[s] \in Nat /\ hi[s] \in Nat
                      /\ RunOf(d[s], lo[s], hi[s])
      /\ \A s \in V, a \in Units : Holds(d[s], a) =>
            d[s][a].id \in Nat /\ d[s][a].id < hi[s] /\ d[s][a].id < hi[c]
      /\ c \in V
  BY <1>1, SectorOrder
<1>3. /\ c # n /\ Age(c, n) = SectorCount - 1
      /\ \A s \in Sectors : /\ Age(c, s) \in 0 .. (SectorCount - 1)
                            /\ Age(c, s) = Age(c, n) => s = n
  BY Ages, NextSector
<1>4. \A s \in Sectors : s # n => Age(c, s) < Age(c, n)
                                  /\ Age(c, s) <= SectorCount - 2
  <2> TAKE s \in Sectors
  <2>1. Age(c, s) \in 0 .. (SectorCount - 1)
    BY <1>3
  <2>2. s # n => Age(c, s) # SectorCount - 1
    BY <1>3
  <2> DEFINE x == Age(c, s)
  <2>3. Age(c, n) = SectorCount - 1 /\ SectorCount \in Nat
    BY <1>3, Numbers
  <2>4. x \in 0 .. (SectorCount - 1) /\ (s # n => x # SectorCount - 1)
    BY <2>1, <2>2
  <2> HIDE DEF x
  <2>5. s # n => x < SectorCount - 1 /\ x <= SectorCount - 2
    BY <2>3, <2>4
  <2> QED BY <2>3, <2>5 DEF x
<1>5. V = Sectors
  <2>1. \A t \in Sectors : Age(c, t) <= Age(c, n)
    BY <1>3, <1>4, Numbers
  <2>2. \A t \in Sectors : Age(c, t) <= Age(c, n) => t \in V
    BY <1>1 DEF RingAt
  <2> QED BY <2>1, <2>2 DEF ViewType
<1>6. RingAt(W, h, c)
  <2>1. ASSUME NEW s \in W, NEW t \in Sectors, Age(c, t) <= Age(c, s)
        PROVE  t \in W
    <3>1. Age(c, s) < Age(c, n) /\ Age(c, s) \in Nat /\ Age(c, n) \in Nat
      BY <1>2, <1>3, <1>4
    <3>2. t # n
      BY <2>1, <3>1
    <3>3. t \in V
      BY <1>1, <2>1 DEF RingAt
    <3> QED BY <3>2, <3>3
  <2>2. c \in W /\ \A s \in W : h[s].seq = SeqBack(h[c].seq, Age(c, s))
    BY <1>1, <1>2, <1>3 DEF RingAt
  <2> QED BY <2>1, <2>2 DEF RingAt
<1>7. RunsAt(W, d, c, lo, hi)
  BY <1>1 DEF RunsAt
<1>8. NewestAt(W, d, hi[c])
  <2> SUFFICES ASSUME NEW s \in W, NEW a \in Units, Holds(d[s], a)
               PROVE  \E t \in W, b \in Units :
                        Holds(d[t], b) /\ d[t][b].id + 1 = hi[c]
    BY DEF NewestAt
  <2>1. PICK t \in V, b \in Units : Holds(d[t], b) /\ d[t][b].id + 1 = hi[c]
    BY <1>1 DEF NewestAt
  <2>2. ASSUME t = n PROVE FALSE
    <3>1. hi[n] <= lo[s]
      BY <1>1, <1>4, <1>5 DEF RunsAt
    <3>2. lo[s] <= d[s][a].id
      BY <1>2 DEF RunOf
    <3>3. /\ d[n][b].id < hi[n] /\ d[s][a].id < hi[c]
          /\ d[n][b].id \in Nat /\ d[s][a].id \in Nat
      BY <1>2, <2>1, <2>2
    <3>4. lo[s] \in Nat /\ hi[n] \in Nat /\ hi[c] \in Nat
      BY <1>2
    <3> QED BY <2>1, <2>2, <3>1, <3>2, <3>3, <3>4
  <2> QED BY <2>1, <2>2
<1>9. LinksAt(W, h, d, E)
  BY <1>1 DEF LinksAt, Names
<1>10. FullAt(W, c, lo)
  BY <1>3, <1>5, Numbers DEF FullAt
<1> QED BY <1>6, <1>7, <1>8, <1>9, <1>10 DEF LogAt

\* A ring without records, of which the ids may start at 0.
LEMMA NoRecords ==
    ASSUME NEW V, NEW h, NEW d, ViewType(V, h, d), NEW c \in Sectors,
           RingAt(V, h, c), \A s \in V, a \in Units : ~Holds(d[s], a), NEW E
    PROVE  /\ LogAt(V, h, d, c, [s \in Sectors |-> 0], [s \in Sectors |-> 0], E)
           /\ \A o, q, k : Names(V, h, d, o, q, k)
<1> DEFINE z == [s \in Sectors |-> 0]
<1>1. \A s \in Sectors : z[s] = 0 /\ SectorNext(s) \in Sectors
                         /\ Age(c, s) \in Nat
  <2> TAKE s \in Sectors
  <2>1. Age(c, s) \in 0 .. (SectorCount - 1) /\ SectorNext(s) \in Sectors
    BY Ages, NextSector
  <2>2. Age(c, s) \in Nat
    BY <2>1, Numbers
  <2> QED BY <2>1, <2>2
<1>2. \A s \in V : s \in Sectors
  BY DEF ViewType
<1> HIDE DEF z
<1>3. \A s \in V : RunOf(d[s], z[s], z[s])
  <2> TAKE s \in V
  <2>1. z[s] = 0 /\ \A a \in Units : ~Holds(d[s], a)
    BY <1>1, <1>2
  <2>2. ~Holds(d[s], 0)
    BY <2>1, Numbers
  <2> QED BY <2>1, <2>2, Numbers DEF RunOf
<1>4. \A s \in V : Span(Age(c, s)) \in Nat
  BY <1>1, <1>2, Spans
<1>5. RunsAt(V, d, c, z, z)
  <2>1. c \in V
    BY DEF RingAt
  <2> QED BY <1>1, <1>2, <1>3, <1>4, <2>1 DEF RunsAt
<1>6. NewestAt(V, d, z[c]) /\ LinksAt(V, h, d, E) /\ FullAt(V, c, z)
  BY <1>1, <1>2 DEF NewestAt, LinksAt, FullAt
<1>7. \A o, q, k : Names(V, h, d, o, q, k)
  BY DEF Names
<1> QED BY <1>5, <1>6, <1>7 DEF LogAt, z

----------------------------------------------------------------------------
(* The loops over the sectors.                                             *)

LEMMA LeastOf ==
    ASSUME NEW S, S \subseteq Nat, S # {}
    PROVE  \E n \in S : \A m \in S : n <= m
<1>1. PICK n \in S : \A m \in S : <<m, n>> \notin OpToRel(<, Nat)
  BY NatLessThanWellFounded, WFMin
<1>2. OpToRel(<, Nat) = {p \in Nat \X Nat : p[1] < p[2]}
  BY DEF OpToRel
<1>3. n \in Nat /\ \A m \in S : m \in Nat /\ ~(m < n)
  BY <1>1, <1>2
<1>4. \A m \in S : n <= m
  BY <1>3
<1> QED BY <1>4

LEMMA GreatestOf ==
    ASSUME NEW N \in Nat, NEW S, S \subseteq 0 .. N, S # {}
    PROVE  \E n \in S : \A m \in S : m <= n
<1> DEFINE T == {n \in Nat : N - n \in S}
<1>1. \A n \in S : N - n \in T /\ N - (N - n) = n
  OBVIOUS
<1>2. T \subseteq Nat /\ T # {}
  BY <1>1
<1>3. PICK n \in T : \A m \in T : n <= m
  BY <1>2, LeastOf
<1>4. \A m \in S : N - m \in T /\ n <= N - m
  BY <1>1, <1>3
<1>5. \A m \in S : m <= N - n
  BY <1>3, <1>4
<1> QED BY <1>3, <1>5

\* f[m] .. f[N] are given by recursion from x.
Follows(f, x, step, m, N) ==
    f[m] = x /\ \A n \in (m + 1) .. N : f[n] = step[n - 1][f[n - 1]]

LEMMA Loop ==
    ASSUME NEW m \in Nat, NEW N \in Nat, NEW x, NEW step, NEW g, NEW f,
           Follows(g, x, step, m, N), Follows(f, x, step, m, N)
    PROVE  \A n \in m .. N : f[n] = g[n]
<1> DEFINE B == {n \in m .. N : f[n] # g[n]}
<1>1. B = {}
  <2> SUFFICES ASSUME B # {} PROVE FALSE
    OBVIOUS
  <2>1. B \subseteq Nat
    OBVIOUS
  <2>2. PICK n \in B : \A j \in B : n <= j
    BY <2>1, LeastOf
  <2>3. n \in m .. N /\ f[n] # g[n]
    OBVIOUS
  <2>4. n # m
    BY <2>3 DEF Follows
  <2>5. n \in (m + 1) .. N /\ n - 1 \in m .. N
    BY <2>3, <2>4
  <2>6. n - 1 \notin B
    BY <2>1, <2>2
  <2>7. f[n - 1] = g[n - 1]
    BY <2>5, <2>6
  <2>8. f[n] = step[n - 1][f[n - 1]] /\ g[n] = step[n - 1][g[n - 1]]
    BY <2>5 DEF Follows
  <2> QED BY <2>3, <2>7, <2>8
<1> QED BY <1>1

\* The member of T with the least key.
LeastBy(k, T) == CHOOSE s \in T : \A t \in T : k[s] <= k[t]

LEMMA LeastByIs ==
    ASSUME NEW k \in [Sectors -> Nat], NEW T \in SUBSET Sectors, T # {}
    PROVE  /\ LeastBy(k, T) \in T
           /\ \A t \in T : k[LeastBy(k, T)] <= k[t]
<1> DEFINE K == {k[t] : t \in T}
<1>1. K \subseteq Nat /\ K # {}
  OBVIOUS
<1>2. PICK m \in K : \A n \in K : m <= n
  BY <1>1, LeastOf
<1>3. \E s \in T : \A t \in T : k[s] <= k[t]
  BY <1>2
<1> QED BY <1>3 DEF LeastBy

\* A search of S takes the sectors with the lesser keys.
Takes(taken, k, S) ==
    /\ \A s, t \in S : k[s] = k[t] => s = t
    /\ \A s \in Sectors : \A b \in S \union {NoSector} :
            taken[s][b] = IF s \in S /\ (b = NoSector \/ k[s] < k[b])
                          THEN s ELSE b

BestBy(taken) ==
    LET best[n \in 0 .. SectorCount] ==
            IF n = 0 THEN NoSector ELSE taken[n - 1][best[n - 1]]
    IN  best[SectorCount]

LEMMA BestIs ==
    ASSUME NEW k \in [Sectors -> Nat], NEW S \in SUBSET Sectors, NEW taken,
           Takes(taken, k, S)
    PROVE  BestBy(taken) = IF S = {} THEN NoSector ELSE LeastBy(k, S)
<1> DEFINE N == SectorCount
           T(n) == {s \in S : s < n}
           b(n) == IF T(n) = {} THEN NoSector ELSE LeastBy(k, T(n))
           g == [n \in 0 .. N |-> b(n)]
<1>1. /\ N \in Nat /\ NoSector = N /\ Sectors = 0 .. (N - 1)
      /\ \A s \in S : s \in Nat /\ s < N
  BY Numbers DEF NoSector
<1>2. \A n \in 0 .. N : /\ T(n) \in SUBSET S
                        /\ T(n) = {} => b(n) = NoSector
                        /\ T(n) # {} => b(n) \in T(n)
                        /\ T(n) # {} => \A t \in T(n) : k[b(n)] <= k[t]
  BY LeastByIs
<1>3. \A n \in 1 .. N : T(n) = IF n - 1 \in S THEN T(n - 1) \union {n - 1}
                               ELSE T(n - 1)
  <2> TAKE n \in 1 .. N
  <2>1. \A s \in S : s < n <=> s < n - 1 \/ s = n - 1
    BY <1>1
  <2>2. ~(n - 1 < n - 1)
    OBVIOUS
  <2> QED BY <2>1, <2>2
<1>4. T(0) = {} /\ T(N) = S
  <2>1. \A s \in S : ~(s < 0) /\ s < N
    BY <1>1
  <2> QED BY <2>1
<1> HIDE DEF T
<1>5. ASSUME NEW n \in 1 .. N
      PROVE  b(n) = taken[n - 1][b(n - 1)]
  <2> DEFINE m == n - 1
  <2>1. m \in 0 .. N /\ n \in 0 .. N /\ m \in Sectors
    BY <1>1
  <2>2. b(m) \in S \union {NoSector} /\ (b(m) \in S <=> T(m) # {})
    <3>1. NoSector \notin S
      BY <1>1
    <3> QED BY <1>2, <2>1, <3>1
  <2>3. taken[m][b(m)] = IF m \in S /\ (b(m) = NoSector \/ k[m] < k[b(m)])
                         THEN m ELSE b(m)
    BY <2>1, <2>2 DEF Takes
  <2>4. T(n) = IF m \in S THEN T(m) \union {m} ELSE T(m)
    BY <1>3
  <2>5. b(m) = NoSector <=> T(m) = {}
    BY <1>1, <2>2
  <2>6. \A s \in S : k[s] \in Nat
    OBVIOUS
  <2>7. T(n) # {} => b(n) \in T(n) /\ b(n) \in S /\ \A t \in T(n) : k[b(n)] <= k[t]
    BY <1>2, <2>1
  <2>8. T(m) # {} => b(m) \in T(m) /\ \A t \in T(m) : k[b(m)] <= k[t]
    BY <1>2, <2>1
  <2>9. T(n) = {} => b(n) = NoSector
    BY <1>2, <2>1
  <2> DEFINE x == b(n)  y == b(m)
  <2>10. \A s \in T(n) : (\A t \in T(n) : k[s] <= k[t]) => s = x
    <3> SUFFICES ASSUME NEW s \in T(n), \A t \in T(n) : k[s] <= k[t]
                 PROVE  s = x
      OBVIOUS
    <3>1. x \in T(n) /\ s \in S /\ x \in S /\ k[x] <= k[s] /\ k[s] <= k[x]
      BY <1>2, <2>1, <2>7
    <3>2. k[s] = k[x]
      BY <2>6, <3>1
    <3> QED BY <3>1, <3>2 DEF Takes
  <2> HIDE DEF m, x, y, b
  <2>11. CASE m \notin S
    <3>1. taken[m][y] = y /\ T(n) = T(m)
      BY <2>3, <2>4, <2>11 DEF y
    <3>2. CASE T(m) = {}
      BY <2>5, <2>9, <3>1, <3>2 DEF x, y, m
    <3>3. CASE T(m) # {}
      BY <2>8, <2>10, <3>1, <3>3 DEF x, y, m
    <3> QED BY <3>2, <3>3
  <2>12. CASE m \in S /\ T(m) = {}
    <3>1. taken[m][y] = m /\ T(n) = {m} /\ k[m] \in Nat
      BY <2>3, <2>4, <2>5, <2>6, <2>12 DEF y
    <3>2. m = x
      BY <2>10, <3>1
    <3> QED BY <3>1, <3>2 DEF x, y, m
  <2>13. CASE m \in S /\ T(m) # {}
    <3>1. T(n) = T(m) \union {m} /\ y \in T(m) /\ y \in S
          /\ (\A t \in T(m) : k[y] <= k[t])
          /\ taken[m][y] = IF k[m] < k[y] THEN m ELSE y
      BY <2>2, <2>3, <2>4, <2>5, <2>8, <2>13 DEF y
    <3>2. k[m] \in Nat /\ k[y] \in Nat /\ \A t \in T(m) : k[t] \in Nat
      BY <1>2, <2>1, <2>6, <2>13, <3>1 DEF m
    <3>3. CASE k[m] < k[y]
      <4>1. \A t \in T(n) : k[m] <= k[t]
        BY <3>1, <3>2, <3>3
      <4> QED BY <2>10, <3>1, <3>3, <4>1 DEF x, y, m
    <3>4. CASE ~(k[m] < k[y])
      <4>1. \A t \in T(n) : k[y] <= k[t]
        BY <3>1, <3>2, <3>4
      <4> QED BY <2>10, <3>1, <3>4, <4>1 DEF x, y, m
    <3> QED BY <3>3, <3>4
  <2> QED BY <2>11, <2>12, <2>13
<1>6. b(0) = NoSector /\ b(N) = IF S = {} THEN NoSector ELSE LeastBy(k, S)
  BY <1>4
<1> HIDE DEF b
<1> DEFINE body(h) == [n \in 0 .. N |-> IF n = 0 THEN NoSector
                                        ELSE taken[n - 1][h[n - 1]]]
           f == CHOOSE h : h = body(h)
<1>7. g[0] = NoSector /\ \A n \in 1 .. N : g[n] = taken[n - 1][g[n - 1]]
  <2>1. \A n \in 1 .. N : g[n] = b(n) /\ g[n - 1] = b(n - 1)
    BY <1>1
  <2> QED BY <1>1, <1>5, <1>6, <2>1
<1>8. g = body(g)
  <2>1. DOMAIN g = 0 .. N /\ g = [n \in 0 .. N |-> g[n]]
    OBVIOUS
  <2>2. \A n \in 0 .. N : n # 0 => n \in 1 .. N
    BY <1>1
  <2> HIDE DEF g
  <2>3. \A n \in 0 .. N : g[n] = IF n = 0 THEN NoSector
                                 ELSE taken[n - 1][g[n - 1]]
    BY <1>7, <2>2
  <2> QED BY <2>1, <2>3
<1>9. f = body(f)
  <2> HIDE DEF g
  <2> QED BY <1>8
<1>10. g[N] = IF S = {} THEN NoSector ELSE LeastBy(k, S)
  BY <1>1, <1>6
<1> HIDE DEF g, f
<1>11. f[N] = g[N]
  <2>1. \A n \in 0 .. N : f[n] = IF n = 0 THEN NoSector
                                 ELSE taken[n - 1][f[n - 1]]
    BY <1>9
  <2>2. /\ 0 \in 0 .. N /\ 0 + 1 = 1
        /\ \A n \in 1 .. N : n \in 0 .. N /\ n # 0
    BY <1>1
  <2>3. Follows(f, NoSector, taken, 0, N) /\ Follows(g, NoSector, taken, 0, N)
    BY <1>7, <2>1, <2>2 DEF Follows
  <2>4. \A n \in 0 .. N : f[n] = g[n]
    BY <1>1, <2>3, Loop
  <2> QED BY <1>1, <2>4
<1>12. BestBy(taken) = f[N]
  BY DEF f, BestBy
<1> QED BY <1>10, <1>11, <1>12

----------------------------------------------------------------------------
(* The searches in a ring.                                                 *)

LEMMA RingOrder ==
    ASSUME FlashType, NEW c \in Sectors, RingAt(ValidSectors, hdr, c),
           NEW s \in ValidSectors, NEW t \in ValidSectors
    PROVE  SeqAfter(hdr[s].seq, hdr[t].seq) <=> Age(c, s) < Age(c, t)
<1>1. /\ hdr[s].seq = SeqBack(hdr[c].seq, Age(c, s))
      /\ hdr[t].seq = SeqBack(hdr[c].seq, Age(c, t))
  BY DEF RingAt
<1>2. s \in Sectors /\ t \in Sectors /\ hdr[c].seq \in Sequence
  BY DEF FlashType, Headers, ValidSectors
<1>3. Age(c, s) \in 0 .. SectorCount /\ Age(c, t) \in 0 .. SectorCount
  <2>1. Age(c, s) \in 0 .. (SectorCount - 1) /\ Age(c, t) \in 0 .. (SectorCount - 1)
    BY <1>2, Ages
  <2> QED BY <2>1, Numbers
<1> QED BY <1>1, <1>2, <1>3, SeqOrder

LEMMA NewestIs ==
    ASSUME FlashType, NEW c \in Sectors, RingAt(ValidSectors, hdr, c),
           NEW S \in SUBSET ValidSectors
    PROVE  /\ S = {} => NewestOf(S) = NoSector
           /\ S # {} => /\ NewestOf(S) \in S
                        /\ \A t \in S : Age(c, NewestOf(S)) <= Age(c, t)
<1> DEFINE k == [s \in Sectors |-> Age(c, s)]
           taken == [s \in Sectors |-> [b \in 0 .. SectorCount |->
                        IF s \in S /\ (b = NoSector
                                       \/ SeqAfter(hdr[s].seq, hdr[b].seq))
                        THEN s ELSE b]]
<1>1. \A s \in Sectors : k[s] = Age(c, s) /\ Age(c, s) \in Nat
  <2> TAKE s \in Sectors
  <2>1. Age(c, s) \in 0 .. (SectorCount - 1)
    BY Ages
  <2> QED BY <2>1, Numbers
<1>2. S \in SUBSET Sectors
  BY DEF ValidSectors
<1>3. k \in [Sectors -> Nat]
  BY <1>1
<1>4. /\ NoSector \in 0 .. SectorCount /\ NoSector \notin Sectors
      /\ \A s \in Sectors : s \in 0 .. SectorCount
  BY Numbers DEF NoSector
<1>5. Takes(taken, k, S)
  <2>1. \A s, t \in S : k[s] = k[t] => s = t
    BY <1>1, <1>2, Ages
  <2>2. ASSUME NEW s \in Sectors, NEW b \in S \union {NoSector}
        PROVE  taken[s][b] = IF s \in S /\ (b = NoSector \/ k[s] < k[b])
                             THEN s ELSE b
    <3>1. b \in 0 .. SectorCount
      BY <1>2, <1>4
    <3>2. s \in S /\ b # NoSector =>
            (SeqAfter(hdr[s].seq, hdr[b].seq) <=> Age(c, s) < Age(c, b))
      BY RingOrder
    <3>3. b # NoSector => k[b] = Age(c, b)
      BY <1>1, <1>2
    <3>4. k[s] = Age(c, s)
      BY <1>1
    <3> HIDE DEF k
    <3>5. taken[s][b] = IF s \in S /\ (b = NoSector
                                       \/ SeqAfter(hdr[s].seq, hdr[b].seq))
                        THEN s ELSE b
      BY <3>1
    <3> QED BY <3>2, <3>3, <3>4, <3>5
  <2> HIDE DEF k, taken
  <2> QED BY <2>1, <2>2 DEF Takes
<1>6. NewestOf(S) = IF S = {} THEN NoSector ELSE LeastBy(k, S)
  <2>1. NewestOf(S) = BestBy(taken)
    BY DEF NewestOf, BestOf, BestBy
  <2> HIDE DEF k, taken
  <2> QED BY <1>2, <1>3, <1>5, <2>1, BestIs
<1>7. S # {} => /\ NewestOf(S) \in S
                /\ \A t \in S : k[NewestOf(S)] <= k[t]
  <2> HIDE DEF k
  <2> QED BY <1>2, <1>3, <1>6, LeastByIs
<1> HIDE DEF k
<1> QED BY <1>1, <1>2, <1>6, <1>7

LEMMA OldestIs ==
    ASSUME FlashType, NEW c \in Sectors, RingAt(ValidSectors, hdr, c),
           NEW S \in SUBSET ValidSectors
    PROVE  /\ S = {} => OldestOf(S) = NoSector
           /\ S # {} => /\ OldestOf(S) \in S
                        /\ \A t \in S : Age(c, t) <= Age(c, OldestOf(S))
<1> DEFINE k == [s \in Sectors |-> SectorCount - 1 - Age(c, s)]
           taken == [s \in Sectors |-> [b \in 0 .. SectorCount |->
                        IF s \in S /\ (b = NoSector
                                       \/ SeqBefore(hdr[s].seq, hdr[b].seq))
                        THEN s ELSE b]]
<1>1. \A s \in Sectors : /\ k[s] = SectorCount - 1 - Age(c, s)
                         /\ Age(c, s) \in Nat /\ Age(c, s) <= SectorCount - 1
  <2> TAKE s \in Sectors
  <2>1. Age(c, s) \in 0 .. (SectorCount - 1)
    BY Ages
  <2> QED BY <2>1, Numbers
<1>2. S \in SUBSET Sectors
  BY DEF ValidSectors
<1>3. k \in [Sectors -> Nat]
  BY <1>1, Numbers
<1>4. /\ NoSector \in 0 .. SectorCount /\ NoSector \notin Sectors
      /\ \A s \in Sectors : s \in 0 .. SectorCount
  BY Numbers DEF NoSector
<1>5. \A s, t \in Sectors : /\ k[s] < k[t] <=> Age(c, t) < Age(c, s)
                            /\ k[s] <= k[t] <=> Age(c, t) <= Age(c, s)
                            /\ k[s] = k[t] => Age(c, s) = Age(c, t)
  BY <1>1, Numbers
<1>6. Takes(taken, k, S)
  <2>1. \A s, t \in S : k[s] = k[t] => s = t
    BY <1>2, <1>5, Ages
  <2>2. ASSUME NEW s \in Sectors, NEW b \in S \union {NoSector}
        PROVE  taken[s][b] = IF s \in S /\ (b = NoSector \/ k[s] < k[b])
                             THEN s ELSE b
    <3>1. b \in 0 .. SectorCount
      BY <1>2, <1>4
    <3>2. s \in S /\ b # NoSector =>
            (SeqBefore(hdr[s].seq, hdr[b].seq) <=> Age(c, b) < Age(c, s))
      BY RingOrder DEF SeqBefore
    <3>3. b # NoSector => (k[s] < k[b] <=> Age(c, b) < Age(c, s))
      BY <1>2, <1>5
    <3> HIDE DEF k
    <3>5. taken[s][b] = IF s \in S /\ (b = NoSector
                                       \/ SeqBefore(hdr[s].seq, hdr[b].seq))
                        THEN s ELSE b
      BY <3>1
    <3> QED BY <3>2, <3>3, <3>5
  <2> HIDE DEF k, taken
  <2> QED BY <2>1, <2>2 DEF Takes
<1>7. OldestOf(S) = IF S = {} THEN NoSector ELSE LeastBy(k, S)
  <2>1. OldestOf(S) = BestBy(taken)
    BY DEF OldestOf, BestOf, BestBy
  <2> HIDE DEF k, taken
  <2> QED BY <1>2, <1>3, <1>6, <2>1, BestIs
<1>8. S # {} => /\ OldestOf(S) \in S
                /\ \A t \in S : k[OldestOf(S)] <= k[t]
  <2> HIDE DEF k
  <2> QED BY <1>2, <1>3, <1>7, LeastByIs
<1> HIDE DEF k
<1> QED BY <1>2, <1>5, <1>7, <1>8

\* The sector after s is the next one in the ring, up to the newest.
LEMMA SectorAfterIs ==
    ASSUME FlashType, NEW c \in Sectors, RingAt(ValidSectors, hdr, c),
           NEW s \in ValidSectors
    PROVE  SectorAfter(hdr[s].seq) = IF s = c THEN NoSector ELSE SectorNext(s)
<1> DEFINE S == {t \in ValidSectors : SeqAfter(hdr[t].seq, hdr[s].seq)}
           n == SectorNext(s)
<1>1. /\ S = {t \in ValidSectors : Age(c, t) < Age(c, s)}
      /\ SectorAfter(hdr[s].seq) = OldestOf(S)
  BY RingOrder DEF SectorAfter
<1>2. s \in Sectors /\ \A t \in ValidSectors : t \in Sectors
  BY DEF ValidSectors
<1>3. \A t \in Sectors : Age(c, t) \in Nat /\ (Age(c, t) = 0 <=> t = c)
  <2> TAKE t \in Sectors
  <2>1. Age(c, t) \in 0 .. (SectorCount - 1) /\ (Age(c, t) = 0 <=> t = c)
    BY Ages
  <2> QED BY <2>1, Numbers
<1>4. CASE s = c
  <2>1. S = {}
    BY <1>1, <1>2, <1>3, <1>4
  <2> QED BY <1>1, <1>4, <2>1, OldestIs
<1>5. CASE s # c
  <2>1. n \in Sectors /\ Age(c, n) = Age(c, s) - 1
    BY <1>2, <1>5, Ages, NextSector
  <2>2. Age(c, s) \in Nat /\ Age(c, n) \in Nat
    BY <1>2, <1>3, <2>1
  <2>3. n \in ValidSectors
    <3>1. Age(c, n) <= Age(c, s)
      BY <2>1, <2>2
    <3> QED BY <2>1, <3>1 DEF RingAt
  <2>4. n \in S
    BY <1>1, <2>1, <2>2, <2>3
  <2> DEFINE o == OldestOf(S)
  <2>5. o \in S /\ Age(c, n) <= Age(c, o)
    BY <2>4, OldestIs
  <2>6. Age(c, o) < Age(c, s) /\ o \in Sectors
    BY <1>1, <1>2, <2>5
  <2>7. Age(c, o) = Age(c, n)
    BY <1>3, <2>1, <2>2, <2>5, <2>6
  <2>8. o = n
    BY <2>1, <2>6, <2>7, Ages
  <2> QED BY <1>1, <1>5, <2>8
<1> QED BY <1>4, <1>5

----------------------------------------------------------------------------
(* Scanning a sector that holds a run of records, and the start of the log *)
(* from what is on FLASH.                                                  *)

LEMMA ScanIs ==
    ASSUME FlashType, NEW s \in Sectors, NEW l \in Nat, NEW u \in Nat,
           RunOf(cell[s], l, u)
    PROVE  /\ \A a : a \in RecordsOf(s) <=> Holds(cell[s], a)
           /\ \A a : IsEnd(s, a) => EndAt(cell[s], a)
           /\ \A a : IsLast(s, a) => Holds(cell[s], a) /\ cell[s][a].id + 1 = u
<1> DEFINE e == cell[s]
           P == {a \in 0 .. Room :
                    a = 0 \/ \E b \in Units : Holds(e, b) /\ After(e, b) = a}
<1>1. e \in [Units -> Cells]
  BY DEF FlashType
<1>2. /\ Room \in Nat /\ 0 < Room
      /\ \A a \in Units : a \in Nat /\ a < Room /\ a \in 0 .. Room
  BY Numbers
<1>3. \A a : /\ IsRecord(s, a) <=> Holds(e, a)
             /\ Holds(e, a) => /\ a \in Units /\ After(e, a) \in 0 .. Room
                               /\ a + cell[s][a].size = After(e, a)
                               /\ a < After(e, a)
  <2> TAKE a
  <2>1. IsRecord(s, a) <=> Holds(e, a)
    BY DEF IsRecord, Holds
  <2>2. ASSUME Holds(e, a)
        PROVE  /\ a \in Units /\ After(e, a) \in 0 .. Room
               /\ a < After(e, a)
    <3>1. a \in Units /\ After(e, a) = a + e[a].size /\ After(e, a) <= Room
      BY <2>2 DEF Holds, After
    <3>2. 0 < e[a].size /\ e[a].size \in Nat /\ a \in Nat
      BY <1>1, <2>2, <3>1, CellParts DEF RunOf
    <3> QED BY <1>2, <3>1, <3>2
  <2> QED BY <2>1, <2>2 DEF After
<1>4. Scanned(s) \subseteq P
  <2>1. P \in SUBSET (0 .. Room) /\ 0 \in P
    BY <1>2
  <2>2. \A b \in P : IsRecord(s, b) => b + cell[s][b].size \in P
    BY <1>3
  <2> HIDE DEF P
  <2> QED BY <2>1, <2>2 DEF Scanned
<1>5. 0 \in Scanned(s)
  BY <1>2 DEF Scanned
<1>6. \A b \in Scanned(s) : Holds(e, b) => After(e, b) \in Scanned(s)
  <2> SUFFICES ASSUME NEW b \in Scanned(s), Holds(e, b)
               PROVE  After(e, b) \in Scanned(s)
    OBVIOUS
  <2>1. IsRecord(s, b) /\ After(e, b) \in 0 .. Room
        /\ b + cell[s][b].size = After(e, b)
    BY <1>3
  <2>2. ASSUME NEW S \in SUBSET (0 .. Room), 0 \in S,
               \A x \in S : IsRecord(s, x) => x + cell[s][x].size \in S
        PROVE  After(e, b) \in S
    <3>1. b \in S
      BY <2>2 DEF Scanned
    <3> QED BY <2>1, <2>2, <3>1
  <2> QED BY <2>1, <2>2 DEF Scanned
<1>7. \A a : Holds(e, a) => a \in Scanned(s)
  <2> DEFINE B == {a \in Units : Holds(e, a) /\ a \notin Scanned(s)}
  <2>1. B = {}
    <3> SUFFICES ASSUME B # {} PROVE FALSE
      OBVIOUS
    <3>1. B \subseteq Nat
      BY <1>2
    <3>2. PICK a \in B : \A b \in B : a <= b
      BY <3>1, LeastOf
    <3>3. a \in Units /\ Holds(e, a) /\ a \notin Scanned(s) /\ a \in Nat
      BY <1>2
    <3>4. a > 0
      BY <1>5, <3>3
    <3>5. PICK b \in Units : Holds(e, b) /\ After(e, b) = a
      BY <3>3, <3>4 DEF RunOf
    <3>6. b < a /\ b \in Nat
      BY <1>2, <1>3, <3>5
    <3>7. b \in Scanned(s)
      BY <3>2, <3>3, <3>5, <3>6
    <3> QED BY <1>6, <3>3, <3>5, <3>7
  <2> QED BY <1>3, <2>1
<1>8. \A a : a \in RecordsOf(s) <=> Holds(e, a)
  BY <1>3, <1>7 DEF RecordsOf
<1>9. ASSUME NEW a, IsEnd(s, a) PROVE EndAt(e, a)
  <2>1. a \in P /\ ~Holds(e, a)
    BY <1>3, <1>4, <1>9 DEF IsEnd
  <2>2. a = 0 \/ \E b \in Units : Holds(e, b) /\ After(e, b) = a
    BY <2>1
  <2>3. ASSUME NEW b \in Units, Holds(e, b) PROVE b < a
    <3>1. l <= e[b].id /\ e[b].id < u /\ e[b].id \in Nat
      BY <1>1, <2>3, CellParts DEF RunOf
    <3>2. a # 0
      <4>1. ASSUME ~Holds(e, 0) PROVE FALSE
        <5>1. u = l
          BY <4>1 DEF RunOf
        <5> QED BY <3>1, <5>1
      <4> QED BY <2>1, <4>1
    <3>3. PICK x \in Units : Holds(e, x) /\ After(e, x) = a
      BY <2>2, <3>2
    <3>4. u = e[x].id + 1
      BY <2>1, <3>3 DEF RunOf
    <3>5. x < b => e[x].id < e[b].id
      BY <2>3, <3>3 DEF RunOf
    <3>6. e[x].id \in Nat
      BY <1>1, CellParts
    <3>7. ~(x < b)
      BY <3>1, <3>4, <3>5, <3>6
    <3> QED BY <1>2, <1>3, <3>3, <3>7
  <2> QED BY <2>1, <2>2, <2>3 DEF EndAt
<1>10. ASSUME NEW a, IsLast(s, a) PROVE Holds(e, a) /\ e[a].id + 1 = u
  <2>1. Holds(e, a) /\ \A b : Holds(e, b) => b <= a
    BY <1>8, <1>10 DEF IsLast
  <2>2. a \in Units /\ After(e, a) \in Nat /\ a \in Nat /\ a < After(e, a)
    BY <1>2, <1>3, <2>1
  <2>3. ~Holds(e, After(e, a))
    BY <2>1, <2>2
  <2> QED BY <2>1, <2>2, <2>3 DEF RunOf
<1> QED BY <1>8, <1>9, <1>10

\* An id is that of one record.
LEMMA OnePlace ==
    ASSUME NEW V, NEW h, NEW d, ViewType(V, h, d), NEW c \in Sectors,
           NEW lo \in [Sectors -> Nat], NEW hi \in [Sectors -> Nat],
           RingAt(V, h, c), RunsAt(V, d, c, lo, hi),
           NEW s \in V, NEW a \in Units, Holds(d[s], a),
           NEW t \in V, NEW b \in Units, Holds(d[t], b),
           d[s][a].id = d[t][b].id
    PROVE  s = t /\ a = b
<1>1. s \in Sectors /\ t \in Sectors
  BY DEF ViewType
<1>2. d[s] \in [Units -> Cells] /\ d[t] \in [Units -> Cells]
  BY <1>1 DEF ViewType
<1>3. /\ lo[s] \in Nat /\ hi[s] \in Nat /\ lo[t] \in Nat /\ hi[t] \in Nat
      /\ RunOf(d[s], lo[s], hi[s]) /\ RunOf(d[t], lo[t], hi[t])
      /\ Age(c, s) \in Nat /\ Age(c, t) \in Nat
  BY SectorOrder
<1>4. d[s][a].id \in Nat /\ d[t][b].id \in Nat /\ a \in Nat /\ b \in Nat
  BY <1>2, CellParts
<1>5. /\ lo[s] <= d[s][a].id /\ d[s][a].id < hi[s]
      /\ lo[t] <= d[t][b].id /\ d[t][b].id < hi[t]
  BY <1>3 DEF RunOf
<1>6. Age(c, s) = Age(c, t)
  <2>1. ~(Age(c, s) < Age(c, t))
    <3>1. Age(c, s) < Age(c, t) => hi[t] <= lo[s]
      BY DEF RunsAt
    <3> QED BY <1>3, <1>4, <1>5, <3>1
  <2>2. ~(Age(c, t) < Age(c, s))
    <3>1. Age(c, t) < Age(c, s) => hi[s] <= lo[t]
      BY DEF RunsAt
    <3> QED BY <1>3, <1>4, <1>5, <3>1
  <2> QED BY <1>3, <2>1, <2>2
<1>7. s = t
  BY <1>1, <1>6, Ages
<1>8. /\ a < b => d[s][a].id < d[s][b].id
      /\ b < a => d[s][b].id < d[s][a].id
  BY <1>3, <1>7 DEF RunOf
<1>9. a = b
  BY <1>4, <1>7, <1>8
<1> QED BY <1>7, <1>9

LEMMA NamesOf ==
    ASSUME NEW V, NEW h, NEW d, ViewType(V, h, d), NEW c \in Sectors,
           NEW lo \in [Sectors -> Nat], NEW hi \in [Sectors -> Nat],
           RingAt(V, h, c), RunsAt(V, d, c, lo, hi),
           NEW s \in V, NEW a \in Units, Holds(d[s], a)
    PROVE  Names(V, h, d, Offset(s, a), h[s].seq, d[s][a].id + 1)
<1> SUFFICES ASSUME NEW t \in V, NEW b \in Units, Holds(d[t], b)
             PROVE  Offset(s, a) = Offset(t, b) /\ h[s].seq = h[t].seq
                    <=> d[t][b].id + 1 = d[s][a].id + 1
  BY DEF Names
<1>1. s \in Sectors /\ t \in Sectors
  BY DEF ViewType
<1>2. Offset(s, a) = Offset(t, b) => s = t /\ a = b
  BY <1>1, Offsets
<1>3. d[t][b].id = d[s][a].id => s = t /\ a = b
  BY OnePlace
<1>4. d[t][b].id \in Nat /\ d[s][a].id \in Nat
  BY SectorOrder
<1> QED BY <1>2, <1>3, <1>4

LEMMA NearMore ==
    ASSUME NEW h, NEW o, NEW q, NEW s, NEW a, NEW E \in Int, NEW F \in Int,
           E <= F, Near(h, o, q, s, a, E)
    PROVE  Near(h, o, q, s, a, F)
<1>1. \A n \in 0 .. E : n \in 0 .. F
  OBVIOUS
<1> QED BY <1>1 DEF Near

\* What syslog_start() finds in a log: the end of its records and the newest.
LEMMA RecoverIs ==
    ASSUME FlashType, NEW c \in Sectors, NEW E,
           NEW lo \in [Sectors -> Nat], NEW hi \in [Sectors -> Nat],
           LogAt(ValidSectors, hdr, cell, c, lo, hi, E), Recover(c)
    PROVE  /\ current_sector' = c /\ current_sequence' = hdr[c].seq
           /\ write_addr' \in 0 .. Room /\ EndAt(cell[c], write_addr')
           /\ Names(ValidSectors, hdr, cell, last_record_offset',
                    last_record_sequence', hi[c])
           /\ Near(hdr, last_record_offset', last_record_sequence', c,
                   write_addr', SectorCount - 1)
<1> DEFINE V == ValidSectors
           o == last_record_offset'
           q == last_record_sequence'
           w == write_addr'
<1>1. /\ RingAt(V, hdr, c) /\ RunsAt(V, cell, c, lo, hi)
      /\ NewestAt(V, cell, hi[c])
  BY DEF LogAt
<1>2. ViewType(V, hdr, cell)
  BY DEF FlashType, ViewType, ValidSectors
<1>3. /\ \A s \in V : /\ s \in Sectors /\ lo[s] \in Nat /\ hi[s] \in Nat
                      /\ RunOf(cell[s], lo[s], hi[s]) /\ hi[s] <= hi[c]
                      /\ Age(c, s) \in Nat
      /\ \A s \in V, a \in Units : Holds(cell[s], a) =>
            cell[s][a].id \in Nat /\ cell[s][a].id < hi[s]
      /\ c \in V
  BY <1>1, <1>2, SectorOrder
<1>4. \A s \in V : /\ \A a : a \in RecordsOf(s) <=> Holds(cell[s], a)
                   /\ \A a : IsEnd(s, a) => EndAt(cell[s], a)
                   /\ \A a : IsLast(s, a) =>
                        Holds(cell[s], a) /\ cell[s][a].id + 1 = hi[s]
  BY <1>3, ScanIs
<1>5. /\ current_sector' = c /\ current_sequence' = hdr[c].seq
      /\ w \in 0 .. Room /\ EndAt(cell[c], w)
  BY <1>3, <1>4 DEF Recover
<1>6. RecoverNewest
  BY DEF Recover
<1>7. \A a : \A s : Holds(cell[s], a) => a \in Units
  BY DEF Holds
<1>8. WithRecords = {s \in V : \E a \in Units : Holds(cell[s], a)}
  BY <1>4, <1>7 DEF WithRecords
<1> HIDE DEF V, o, q, w
<1>9. CASE WithRecords = {} /\ RecoverNone
  <2>1. o = NoOffset
    BY <1>9 DEF RecoverNone, o
  <2>2. \A s \in V, a \in Units : ~Holds(cell[s], a)
    BY <1>8, <1>9
  <2>3. Names(V, hdr, cell, o, q, hi[c]) /\ Near(hdr, o, q, c, w, SectorCount - 1)
    BY <2>1, <2>2 DEF Names, Near
  <2> QED BY <1>5, <2>3 DEF V, o, q, w
<1>10. ASSUME NEW tail \in WithRecords, tail = NewestOf(WithRecords),
              RecoverLast(tail)
       PROVE  /\ Names(V, hdr, cell, o, q, hi[c])
              /\ Near(hdr, o, q, c, w, SectorCount - 1)
  <2>1. /\ tail \in V /\ WithRecords \subseteq V
        /\ \A t \in WithRecords : Age(c, tail) <= Age(c, t)
    BY <1>1, <1>8, <1>10, NewestIs DEF V
  <2>2. PICK a \in Units : IsLast(tail, a) /\ o = Offset(tail, a)
                           /\ q = hdr[tail].seq
    BY <1>10 DEF RecoverLast, o, q
  <2>3. Holds(cell[tail], a) /\ cell[tail][a].id + 1 = hi[tail]
    BY <1>4, <2>1, <2>2
  <2>4. PICK t \in V, b \in Units : Holds(cell[t], b) /\ cell[t][b].id + 1 = hi[c]
    BY <1>1, <2>1, <2>3 DEF NewestAt
  <2>5. t \in WithRecords
    BY <1>8, <2>4
  <2>6. /\ cell[t][b].id \in Nat /\ cell[t][b].id < hi[t] /\ hi[t] \in Nat
        /\ cell[tail][a].id \in Nat /\ hi[tail] <= hi[c] /\ hi[c] \in Nat
        /\ Age(c, t) \in Nat /\ Age(c, tail) \in Nat /\ lo[tail] \in Nat
        /\ hi[tail] \in Nat
    BY <1>3, <2>1, <2>3, <2>4
  <2>7. lo[tail] <= cell[tail][a].id
    BY <1>3, <2>1, <2>3 DEF RunOf
  <2>8. hi[tail] = hi[c]
    <3>1. CASE t = tail
      BY <2>4, <2>6, <3>1
    <3>2. CASE t # tail
      <4>1. Age(c, tail) # Age(c, t)
        BY <1>3, <2>1, <3>2, Ages
      <4>2. Age(c, tail) < Age(c, t)
        BY <2>1, <2>5, <2>6, <4>1
      <4>3. hi[t] <= lo[tail]
        BY <1>1, <2>1, <4>2 DEF RunsAt
      <4> QED BY <2>3, <2>4, <2>6, <2>7, <4>3
    <3> QED BY <3>1, <3>2
  <2>9. Names(V, hdr, cell, o, q, hi[c])
    BY <1>1, <1>2, <2>1, <2>2, <2>3, <2>8, NamesOf
  <2>10. Near(hdr, o, q, c, w, SectorCount - 1)
    <3>1. q = SeqBack(hdr[c].seq, Age(c, tail))
      BY <1>1, <2>1, <2>2 DEF RingAt
    <3>2. Age(c, tail) \in 0 .. (SectorCount - 1)
          /\ (Age(c, tail) = 0 => tail = c)
      BY <1>3, <2>1, Ages
    <3>3. tail = c => o < Offset(c, w)
      <4>1. ASSUME tail = c PROVE a < w
        BY <1>5, <2>3, <4>1 DEF EndAt
      <4> QED BY <1>5, <2>2, <4>1, Offsets
    <3> QED BY <3>1, <3>2, <3>3 DEF Near
  <2> QED BY <2>9, <2>10
<1> QED BY <1>5, <1>6, <1>9, <1>10 DEF RecoverNewest, V, o, q, w

----------------------------------------------------------------------------
(* Every id from the first of the oldest sector to the newest is there.    *)

Oldest(V, c, o) == o \in V /\ \A t \in V : Age(c, t) <= Age(c, o)

LEMMA RunHas ==
    ASSUME NEW e \in [Units -> Cells], NEW l \in Nat, NEW u \in Nat,
           RunOf(e, l, u), NEW k \in l .. (u - 1)
    PROVE  \E a \in Units : Holds(e, a) /\ e[a].id = k
<1>1. /\ Room \in Nat /\ 0 < Room /\ Units = 0 .. (Room - 1)
      /\ \A a \in Units : a \in Nat /\ e[a].id \in Nat /\ After(e, a) \in Nat
  BY Numbers, CellParts
<1> DEFINE B == {a \in Units : Holds(e, a) /\ e[a].id <= k}
<1>2. 0 \in B
  <2>1. Holds(e, 0)
    <3>1. ASSUME ~Holds(e, 0) PROVE FALSE
      <4>1. u = l
        BY <3>1 DEF RunOf
      <4> QED BY <4>1
    <3> QED BY <3>1
  <2>2. e[0].id = l
    BY <2>1 DEF RunOf
  <2> QED BY <1>1, <2>1, <2>2
<1>3. B \subseteq 0 .. (Room - 1) /\ B # {} /\ Room - 1 \in Nat
  <2>1. Room - 1 \in Nat
    BY <1>1
  <2>2. B \subseteq Units
    OBVIOUS
  <2>3. B # {}
    BY <1>2
  <2> QED BY <1>1, <2>1, <2>2, <2>3
<1>4. PICK a \in B : \A b \in B : b <= a
  BY <1>3, GreatestOf
<1>5. a \in Units /\ Holds(e, a) /\ e[a].id <= k /\ e[a].id \in Nat
      /\ a \in Nat
  BY <1>1
<1>6. a < After(e, a)
  <2>1. 0 < e[a].size /\ e[a].size \in Nat
    BY <1>5, CellParts DEF RunOf
  <2> QED BY <1>5, <2>1 DEF After
<1>7. After(e, a) \notin B
  BY <1>1, <1>4, <1>5, <1>6
<1>8. ASSUME e[a].id < k PROVE FALSE
  <2>1. CASE Holds(e, After(e, a))
    <3>1. e[After(e, a)].id = e[a].id + 1 /\ After(e, a) \in Units
      BY <1>5, <2>1 DEF RunOf, Holds
    <3>2. e[a].id + 1 <= k
      BY <1>5, <1>8
    <3> QED BY <1>7, <2>1, <3>1, <3>2
  <2>2. CASE ~Holds(e, After(e, a))
    <3>1. u = e[a].id + 1
      BY <1>5, <2>2 DEF RunOf
    <3> QED BY <1>5, <1>8, <3>1
  <2> QED BY <2>1, <2>2
<1> HIDE DEF B
<1>9. e[a].id = k
  BY <1>5, <1>8
<1> QED BY <1>5, <1>9

LEMMA LogHas ==
    ASSUME NEW V, NEW h, NEW d, ViewType(V, h, d), NEW c \in Sectors,
           NEW lo \in [Sectors -> Nat], NEW hi \in [Sectors -> Nat],
           RingAt(V, h, c), RunsAt(V, d, c, lo, hi), NEW o, Oldest(V, c, o)
    PROVE  /\ \A k \in lo[o] .. (hi[c] - 1) :
                \E s \in V, a \in Units : Holds(d[s], a) /\ d[s][a].id = k
           /\ \A s \in V, a \in Units : Holds(d[s], a) =>
                d[s][a].id \in lo[o] .. (hi[c] - 1)
           /\ \A s \in V : lo[o] <= lo[s]
           /\ lo[o] <= hi[c]
<1>1. /\ \A s \in V : /\ s \in Sectors /\ lo[s] \in Nat /\ hi[s] \in Nat
                      /\ RunOf(d[s], lo[s], hi[s])
                      /\ lo[s] <= hi[s] /\ hi[s] <= hi[c]
                      /\ Age(c, s) \in Nat
      /\ \A s \in V, a \in Units : Holds(d[s], a) =>
            d[s][a].id \in Nat /\ d[s][a].id < hi[s] /\ d[s][a].id < hi[c]
      /\ c \in V
  BY SectorOrder
<1>2. o \in V
  BY DEF Oldest
<1>3. ASSUME NEW s \in V PROVE lo[o] <= lo[s]
  <2>1. CASE s = o
    BY <1>1, <2>1
  <2>2. CASE s # o
    <3>1. Age(c, s) # Age(c, o)
      BY <1>1, <1>2, <2>2, Ages
    <3>2. Age(c, s) <= Age(c, o)
      BY DEF Oldest
    <3>3. Age(c, s) < Age(c, o)
      BY <1>1, <1>2, <3>1, <3>2
    <3>4. hi[o] <= lo[s]
      BY <1>2, <3>3 DEF RunsAt
    <3>5. lo[o] <= hi[o]
      BY <1>1, <1>2
    <3> QED BY <1>1, <1>2, <3>4, <3>5
  <2> QED BY <2>1, <2>2
<1>4. ASSUME NEW s \in V, NEW a \in Units, Holds(d[s], a)
      PROVE  d[s][a].id \in lo[o] .. (hi[c] - 1)
  <2>1. lo[s] <= d[s][a].id
    BY <1>1, <1>4 DEF RunOf
  <2> QED BY <1>1, <1>2, <1>3, <1>4, <2>1
<1>5. ASSUME NEW k \in lo[o] .. (hi[c] - 1)
      PROVE  \E s \in V, a \in Units : Holds(d[s], a) /\ d[s][a].id = k
  <2> DEFINE A == {Age(c, s) : s \in {x \in V : lo[x] <= k}}
  <2>1. A \subseteq Nat /\ A # {} /\ k \in Nat
    BY <1>1, <1>2
  <2>2. PICK m \in A : \A n \in A : m <= n
    BY <2>1, LeastOf
  <2>3. PICK s \in V : lo[s] <= k /\ m = Age(c, s)
    OBVIOUS
  <2>4. k < hi[s]
    <3>1. CASE s = c
      BY <1>1, <2>1, <3>1
    <3>2. CASE s # c
      <4> DEFINE n == SectorNext(s)
      <4>1. n \in Sectors /\ Age(c, n) = Age(c, s) - 1
        BY <1>1, <3>2, Ages, NextSector
      <4>2. Age(c, n) < Age(c, s)
        BY <1>1, <4>1
      <4>3. n \in V
        <5>1. Age(c, n) <= Age(c, s)
          BY <1>1, <4>1
        <5> QED BY <4>1, <5>1 DEF RingAt
      <4>4. lo[n] = hi[s]
        BY <3>2 DEF RunsAt
      <4>5. ~(lo[n] <= k)
        <5>1. ASSUME lo[n] <= k PROVE FALSE
          <6>1. Age(c, n) \in A
            BY <4>3, <5>1
          <6>2. m <= Age(c, n) /\ Age(c, n) \in Nat
            BY <1>1, <2>2, <4>3, <6>1
          <6> QED BY <1>1, <2>3, <4>2, <6>2
        <5> QED BY <5>1
      <4> HIDE DEF n
      <4> QED BY <1>1, <2>1, <4>3, <4>4, <4>5
    <3> QED BY <3>1, <3>2
  <2>5. d[s] \in [Units -> Cells]
    BY <1>1 DEF ViewType
  <2>6. k \in lo[s] .. (hi[s] - 1)
    BY <1>1, <2>1, <2>3, <2>4
  <2> QED BY <1>1, <2>5, <2>6, RunHas
<1>6. lo[o] <= hi[c]
  <2>1. lo[o] <= hi[o] /\ hi[o] <= hi[c] /\ hi[o] \in Nat
    BY <1>1, <1>2
  <2> QED BY <1>1, <1>2, <2>1
<1> QED BY <1>3, <1>4, <1>5, <1>6

\* The sector that is n before c in the ring.
AtAge(c, n) == IF n <= c THEN c - n ELSE c - n + SectorCount

LEMMA AtAges ==
    ASSUME NEW c \in Sectors
    PROVE  /\ \A n \in 0 .. (SectorCount - 1) :
                AtAge(c, n) \in Sectors /\ Age(c, AtAge(c, n)) = n
           /\ \A s \in Sectors : AtAge(c, Age(c, s)) = s
           /\ \A n \in 1 .. (SectorCount - 1) :
                SectorNext(AtAge(c, n)) = AtAge(c, n - 1)
<1>1. SectorCount \in Nat /\ 3 <= SectorCount /\ Sectors = 0 .. (SectorCount - 1)
  BY Numbers
<1>2. \A n \in 0 .. (SectorCount - 1) :
            AtAge(c, n) \in Sectors /\ Age(c, AtAge(c, n)) = n
  BY <1>1 DEF AtAge, Age
<1>3. \A s \in Sectors : AtAge(c, Age(c, s)) = s
  BY <1>1 DEF AtAge, Age
<1>4. ASSUME NEW n \in 1 .. (SectorCount - 1)
      PROVE  SectorNext(AtAge(c, n)) = AtAge(c, n - 1)
  <2> DEFINE s == AtAge(c, n)
  <2>1. s \in Sectors
    BY <1>1, <1>2
  <2>2. SectorNext(s) = IF s = SectorCount - 1 THEN 0 ELSE s + 1
    BY <2>1, NextSectorIs
  <2> QED BY <1>1, <2>2 DEF AtAge
<1> QED BY <1>2, <1>3, <1>4

\* The first record in sector t or in those after it.
LEMMA FirstFrom ==
    ASSUME FlashType, NEW c \in Sectors, RingAt(ValidSectors, hdr, c),
           NEW t \in ValidSectors
    PROVE  LET S == {u \in ValidSectors :
                        Age(c, u) <= Age(c, t) /\ Holds(cell[u], 0)}
           IN  /\ S = {} => FirstRecordFrom(t) = NoIt
               /\ \A u \in S : (\A x \in S : Age(c, x) <= Age(c, u)) =>
                    FirstRecordFrom(t) = At(u, hdr[u].seq, 0)
<1> DEFINE V == ValidSectors
           N == SectorCount
           A == Age(c, t)
           S == {u \in V : Age(c, u) <= A /\ Holds(cell[u], 0)}
           onward == [x \in Sectors \union {NoSector} |->
                        IF x = NoSector \/ IsRecord(x, 0) THEN x
                        ELSE SectorAfter(hdr[x].seq)]
           body(f) == [n \in 1 .. N |-> IF n = 1 THEN t ELSE onward[f[n - 1]]]
           sector == CHOOSE f : f = body(f)
           first == [x \in Sectors \union {NoSector} |->
                        IF x # NoSector /\ IsRecord(x, 0)
                        THEN At(x, hdr[x].seq, 0) ELSE NoIt]
           G(j) == IF j = -1 THEN NoSector ELSE AtAge(c, j)
<1>1. FirstRecordFrom(t) = first[sector[N]]
  BY DEF FirstRecordFrom
<1>2. /\ N \in Nat /\ 3 <= N /\ NoSector \notin Sectors
  BY Numbers DEF NoSector
<1>3. /\ t \in Sectors /\ A \in 0 .. (N - 1)
      /\ \A x \in V : x \in Sectors /\ Age(c, x) \in 0 .. (N - 1)
  BY Ages DEF ValidSectors
<1>4. \A x : IsRecord(x, 0) <=> Holds(cell[x], 0)
  BY DEF IsRecord, Holds
<1>5. \A j \in 0 .. A : G(j) \in V /\ G(j) \in Sectors /\ Age(c, G(j)) = j
  <2> TAKE j \in 0 .. A
  <2>1. j \in 0 .. (N - 1) /\ j <= A /\ G(j) = AtAge(c, j)
    BY <1>2, <1>3
  <2>2. AtAge(c, j) \in Sectors /\ Age(c, AtAge(c, j)) = j
    BY <2>1, AtAges
  <2>3. G(j) \in V
    BY <2>1, <2>2 DEF RingAt
  <2> QED BY <2>1, <2>2, <2>3
<1>6. G(A) = t /\ G(-1) = NoSector
  <2>1. A # -1
    BY <1>3
  <2> QED BY <1>3, <2>1, AtAges
<1>7. \A j \in 0 .. A : ~Holds(cell[G(j)], 0) => onward[G(j)] = G(j - 1)
  <2> TAKE j \in 0 .. A
  <2> HAVE ~Holds(cell[G(j)], 0)
  <2>1. G(j) \in V /\ G(j) \in Sectors /\ Age(c, G(j)) = j
    BY <1>5
  <2>2. onward[G(j)] = IF G(j) = c THEN NoSector ELSE SectorNext(G(j))
    <3>1. onward[G(j)] = SectorAfter(hdr[G(j)].seq)
      BY <1>2, <1>4, <2>1
    <3> QED BY <2>1, <3>1, SectorAfterIs
  <2>3. G(j) = c <=> j = 0
    BY <2>1, Ages
  <2>4. CASE j = 0
    BY <1>6, <2>2, <2>3, <2>4
  <2>5. CASE j # 0
    <3>1. j \in 1 .. (N - 1) /\ j - 1 # -1 /\ j # -1
      BY <1>2, <1>3, <2>5
    <3>2. SectorNext(AtAge(c, j)) = AtAge(c, j - 1)
      BY <3>1, AtAges
    <3> QED BY <2>2, <2>3, <2>5, <3>1, <3>2
  <2> QED BY <2>4, <2>5
<1>8. \A x \in V : Holds(cell[x], 0) => onward[x] = x /\ first[x] = At(x, hdr[x].seq, 0)
  BY <1>2, <1>3, <1>4
<1>9. onward[NoSector] = NoSector /\ first[NoSector] = NoIt
      /\ \A x \in V : ~Holds(cell[x], 0) => first[x] = NoIt
  BY <1>2, <1>3, <1>4
<1> HIDE DEF G, onward, first, A
<1>10. ASSUME NEW y \in -1 .. A, y = -1 \/ Holds(cell[G(y)], 0),
              \A j \in (y + 1) .. A : ~Holds(cell[G(j)], 0)
       PROVE  sector[N] = G(IF A - N + 1 >= y THEN A - N + 1 ELSE y)
  <2> DEFINE g == [n \in 1 .. N |-> G(IF A - n + 1 >= y THEN A - n + 1 ELSE y)]
             step == [n \in 1 .. N |-> onward]
  <2>1. g[1] = t /\ A - 1 + 1 = A /\ A >= y /\ 1 \in 1 .. N
    BY <1>2, <1>3, <1>6
  <2>2. onward[G(y)] = G(y)
    <3>1. CASE y = -1
      BY <1>6, <1>9, <3>1
    <3>2. CASE y # -1
      <4>1. y \in 0 .. A
        BY <1>3, <3>2
      <4> QED BY <1>5, <1>8, <1>10, <3>2, <4>1
    <3> QED BY <3>1, <3>2
  <2>3. ASSUME NEW n \in 2 .. N PROVE g[n] = onward[g[n - 1]]
    <3> DEFINE j == A - (n - 1) + 1
    <3>1. /\ j \in Int /\ A - n + 1 = j - 1 /\ j <= A
          /\ n \in 1 .. N /\ n - 1 \in 1 .. N /\ y \in Int /\ -1 <= y
      BY <1>2, <1>3
    <3>2. /\ g[n] = G(IF j - 1 >= y THEN j - 1 ELSE y)
          /\ g[n - 1] = G(IF j >= y THEN j ELSE y)
      BY <3>1
    <3> HIDE DEF j, g
    <3>3. CASE j <= y
      <4>1. ~(j - 1 >= y)
        BY <3>1, <3>3
      <4>2. (IF j >= y THEN j ELSE y) = y
        BY <3>1, <3>3
      <4> QED BY <2>2, <3>2, <4>1, <4>2
    <3>4. CASE y < j
      <4>1. j \in (y + 1) .. A /\ j \in 0 .. A /\ j - 1 >= y /\ j >= y
        BY <1>3, <3>1, <3>4
      <4>2. onward[G(j)] = G(j - 1)
        BY <1>7, <1>10, <4>1
      <4> QED BY <3>2, <4>1, <4>2
    <3> QED BY <3>1, <3>3, <3>4
  <2>4. g = body(g)
    <3>1. DOMAIN g = 1 .. N /\ g = [n \in 1 .. N |-> g[n]]
      OBVIOUS
    <3>2. \A n \in 1 .. N : n # 1 => n \in 2 .. N
      BY <1>2
    <3> HIDE DEF g
    <3>3. \A n \in 1 .. N : g[n] = IF n = 1 THEN t ELSE onward[g[n - 1]]
      BY <2>1, <2>3, <3>2
    <3> QED BY <3>1, <3>3
  <2>5. sector = body(sector)
    <3> HIDE DEF g
    <3> QED BY <2>4
  <2>6. g[N] = G(IF A - N + 1 >= y THEN A - N + 1 ELSE y)
    BY <1>2
  <2> HIDE DEF g, sector
  <2>7. \A n \in 1 .. N : sector[n] = IF n = 1 THEN t ELSE onward[sector[n - 1]]
    BY <2>5
  <2>8. \A n \in (1 + 1) .. N : /\ n \in 1 .. N /\ n # 1 /\ n \in 2 .. N
                                /\ step[n - 1] = onward
    BY <1>2
  <2> HIDE DEF step
  <2>9. Follows(sector, t, step, 1, N) /\ Follows(g, t, step, 1, N)
    BY <2>1, <2>3, <2>7, <2>8 DEF Follows
  <2>10. \A n \in 1 .. N : sector[n] = g[n]
    BY <1>2, <2>9, Loop
  <2> QED BY <1>2, <2>6, <2>10
<1> HIDE DEF sector
<1>11. ASSUME S = {} PROVE FirstRecordFrom(t) = NoIt
  <2>1. \A j \in 0 .. A : ~Holds(cell[G(j)], 0)
    <3> SUFFICES ASSUME NEW j \in 0 .. A, Holds(cell[G(j)], 0) PROVE FALSE
      OBVIOUS
    <3>1. G(j) \in V /\ Age(c, G(j)) = j /\ j <= A
      BY <1>3, <1>5
    <3> QED BY <1>11, <3>1 DEF A
  <2>2. A \in Int /\ 0 <= A /\ A <= N - 1 /\ -1 \in -1 .. A /\ -1 + 1 = 0
    BY <1>2, <1>3
  <2>3. sector[N] = G(IF A - N + 1 >= -1 THEN A - N + 1 ELSE -1)
    <3>1. \A j \in (-1 + 1) .. A : ~Holds(cell[G(j)], 0)
      BY <2>1, <2>2
    <3> QED BY <1>10, <2>2, <3>1
  <2>4. CASE A = N - 1
    <3>1. (IF A - N + 1 >= -1 THEN A - N + 1 ELSE -1) = 0 /\ 0 \in 0 .. A
      BY <1>2, <2>2, <2>4
    <3>2. sector[N] = G(0) /\ G(0) \in V /\ ~Holds(cell[G(0)], 0)
      BY <1>5, <2>1, <2>3, <3>1
    <3> QED BY <1>1, <1>9, <3>2
  <2>5. CASE A # N - 1
    <3>1. (IF A - N + 1 >= -1 THEN A - N + 1 ELSE -1) = -1
      BY <1>2, <2>2, <2>5
    <3> QED BY <1>1, <1>6, <1>9, <2>3, <3>1
  <2> QED BY <2>4, <2>5
<1>12. ASSUME NEW u \in S, \A x \in S : Age(c, x) <= Age(c, u)
       PROVE  FirstRecordFrom(t) = At(u, hdr[u].seq, 0)
  <2> DEFINE y == Age(c, u)
  <2>1. /\ u \in V /\ u \in Sectors /\ y \in 0 .. A /\ Holds(cell[u], 0)
        /\ A \in Int /\ A <= N - 1
    BY <1>2, <1>3 DEF A
  <2>2. G(y) = u
    <3>1. AtAge(c, y) = u /\ y # -1
      BY <2>1, AtAges
    <3> QED BY <3>1 DEF G
  <2>3. \A j \in (y + 1) .. A : ~Holds(cell[G(j)], 0)
    <3> SUFFICES ASSUME NEW j \in (y + 1) .. A, Holds(cell[G(j)], 0) PROVE FALSE
      OBVIOUS
    <3>1. j \in 0 .. A /\ j <= A /\ ~(j <= y)
      BY <2>1
    <3>2. G(j) \in V /\ Age(c, G(j)) = j
      BY <1>5, <3>1
    <3>3. G(j) \in S
      BY <3>1, <3>2 DEF A
    <3> QED BY <1>12, <3>1, <3>2, <3>3
  <2> HIDE DEF y
  <2>4. y \in -1 .. A /\ (IF A - N + 1 >= y THEN A - N + 1 ELSE y) = y
    BY <1>2, <2>1
  <2>5. sector[N] = G(y)
    BY <1>10, <2>1, <2>2, <2>3, <2>4
  <2> QED BY <1>1, <1>8, <2>1, <2>2, <2>5
<1> QED BY <1>11, <1>12 DEF A

LEMMA FirstFromNone == FirstRecordFrom(NoSector) = NoIt
<1> DEFINE N == SectorCount
           onward == [x \in Sectors \union {NoSector} |->
                        IF x = NoSector \/ IsRecord(x, 0) THEN x
                        ELSE SectorAfter(hdr[x].seq)]
           body(f) == [n \in 1 .. N |->
                        IF n = 1 THEN NoSector ELSE onward[f[n - 1]]]
           sector == CHOOSE f : f = body(f)
           first == [x \in Sectors \union {NoSector} |->
                        IF x # NoSector /\ IsRecord(x, 0)
                        THEN At(x, hdr[x].seq, 0) ELSE NoIt]
           g == [n \in 1 .. N |-> NoSector]
           step == [n \in 1 .. N |-> onward]
<1>1. FirstRecordFrom(NoSector) = first[sector[N]]
  BY DEF FirstRecordFrom
<1>2. N \in Nat /\ 3 <= N /\ N \in 1 .. N /\ 1 \in 1 .. N
  BY Numbers
<1>3. onward[NoSector] = NoSector /\ first[NoSector] = NoIt
  OBVIOUS
<1> HIDE DEF onward, first
<1>4. g = body(g)
  <2>1. \A n \in 1 .. N : n # 1 => n - 1 \in 1 .. N
    BY <1>2
  <2> QED BY <1>3, <2>1
<1>5. sector = body(sector)
  <2> HIDE DEF g
  <2> QED BY <1>4
<1> HIDE DEF sector
<1>6. \A n \in 1 .. N : sector[n] = IF n = 1 THEN NoSector
                                    ELSE onward[sector[n - 1]]
  BY <1>5
<1>7. \A n \in (1 + 1) .. N : /\ n \in 1 .. N /\ n # 1 /\ n - 1 \in 1 .. N
                              /\ step[n - 1] = onward
  BY <1>2
<1>8. \A n \in 1 .. N : g[n] = NoSector
  OBVIOUS
<1> HIDE DEF step, g
<1>9. Follows(sector, NoSector, step, 1, N) /\ Follows(g, NoSector, step, 1, N)
  BY <1>2, <1>3, <1>6, <1>7, <1>8 DEF Follows
<1>10. \A n \in 1 .. N : sector[n] = g[n]
  BY <1>2, <1>9, Loop
<1> QED BY <1>1, <1>2, <1>3, <1>8, <1>10

----------------------------------------------------------------------------
(* Iterators on the log.                                                   *)

TheLog(c, lo, hi, E) ==
    /\ c \in Sectors /\ lo \in [Sectors -> Nat] /\ hi \in [Sectors -> Nat]
    /\ LogAt(ValidSectors, hdr, cell, c, lo, hi, E)

LEMMA LogFacts ==
    ASSUME FlashType, NEW c, NEW lo, NEW hi, NEW E, TheLog(c, lo, hi, E)
    PROVE  /\ ViewType(ValidSectors, hdr, cell)
           /\ c \in Sectors /\ lo \in [Sectors -> Nat] /\ hi \in [Sectors -> Nat]
           /\ RingAt(ValidSectors, hdr, c)
           /\ RunsAt(ValidSectors, cell, c, lo, hi)
           /\ NewestAt(ValidSectors, cell, hi[c])
           /\ LinksAt(ValidSectors, hdr, cell, E)
           /\ FullAt(ValidSectors, c, lo)
           /\ c \in ValidSectors
           /\ hi[c] \in Nat
           /\ \A s \in ValidSectors :
                /\ s \in Sectors /\ lo[s] \in Nat /\ hi[s] \in Nat
                /\ RunOf(cell[s], lo[s], hi[s])
                /\ lo[s] <= hi[s] /\ hi[s] <= hi[c]
                /\ Age(c, s) \in Nat
                /\ cell[s] \in [Units -> Cells]
           /\ \A s \in ValidSectors, a \in Units : Holds(cell[s], a) =>
                /\ cell[s][a].id \in Nat /\ lo[s] <= cell[s][a].id
                /\ cell[s][a].id < hi[s] /\ cell[s][a].id < hi[c]
<1>1. ViewType(ValidSectors, hdr, cell)
  BY DEF FlashType, ViewType, ValidSectors
<1>2. /\ c \in Sectors /\ lo \in [Sectors -> Nat] /\ hi \in [Sectors -> Nat]
      /\ RingAt(ValidSectors, hdr, c)
      /\ RunsAt(ValidSectors, cell, c, lo, hi)
      /\ NewestAt(ValidSectors, cell, hi[c])
      /\ LinksAt(ValidSectors, hdr, cell, E)
      /\ FullAt(ValidSectors, c, lo)
  BY DEF TheLog, LogAt
<1>3. /\ \A s \in ValidSectors :
            /\ s \in Sectors /\ lo[s] \in Nat /\ hi[s] \in Nat
            /\ RunOf(cell[s], lo[s], hi[s])
            /\ lo[s] <= hi[s] /\ hi[s] <= hi[c]
            /\ Age(c, s) \in Nat
      /\ \A s \in ValidSectors, a \in Units : Holds(cell[s], a) =>
            /\ cell[s][a].id \in Nat
            /\ cell[s][a].id < hi[s] /\ cell[s][a].id < hi[c]
      /\ c \in ValidSectors
  BY <1>1, <1>2, SectorOrder
<1>4. \A s \in ValidSectors : cell[s] \in [Units -> Cells]
  BY <1>3 DEF FlashType
<1>5. \A s \in ValidSectors, a \in Units : Holds(cell[s], a) =>
            lo[s] <= cell[s][a].id
  BY <1>3 DEF RunOf
<1> QED BY <1>1, <1>2, <1>3, <1>4, <1>5

LEMMA Divided ==
    ASSUME NEW m \in Nat, 0 < m, NEW n \in Nat
    PROVE  n = m * (n \div m) + (n % m) /\ n \div m \in Int
OBVIOUS

LEMMA NoOffsetType == NoOffset \in Nat
<1>1. SectorCount \in Nat /\ Room \in Nat
  BY Numbers
<1> QED BY <1>1 DEF NoOffset

LEMMA OffsetParts ==
    ASSUME NEW s \in Sectors, NEW a \in Units
    PROVE  /\ Offset(s, a) # NoOffset
           /\ Offset(s, a) \div Room = s /\ Offset(s, a) % Room = a
<1> DEFINE o == Offset(s, a)
           t == o \div Room
           b == o % Room
<1>1. Room \in Nat /\ 0 < Room /\ Units = 0 .. (Room - 1)
  BY Numbers
<1>2. o \in Nat /\ o < NoOffset /\ o # NoOffset
  BY Offsets, NoOffsetType
<1>3. t \in Sectors
  BY <1>2, OffsetSector, NoOffsetType
<1> HIDE DEF o
<1>4. b \in Units /\ o = Room * t + b
  BY <1>1, <1>2
<1>5. t \in Int /\ t * Room = Room * t
  BY <1>1, <1>3, Numbers
<1> HIDE DEF t, b
<1>6. o = Offset(t, b)
  BY <1>4, <1>5 DEF Offset
<1>7. s = t /\ a = b
  BY <1>3, <1>4, <1>6, Offsets DEF o
<1> QED BY <1>2, <1>7 DEF o, t, b

\* Following an offset comes to the record it names, or to none.
LEMMA SetOffsetIs ==
    ASSUME FlashType, NEW o \in 0 .. NoOffset, NEW q, NEW k \in Nat,
           Names(ValidSectors, hdr, cell, o, q, k),
           \A s \in ValidSectors, a \in Units : Holds(cell[s], a) =>
                cell[s][a].id \in Nat
    PROVE  /\ (\A s \in ValidSectors, a \in Units : Holds(cell[s], a) =>
                    cell[s][a].id + 1 # k)
                => IteratorSetOffset(o, q, FALSE) = NoIt
           /\ \A s \in ValidSectors, a \in Units :
                Holds(cell[s], a) /\ cell[s][a].id + 1 = k
                => IteratorSetOffset(o, q, FALSE) = At(s, hdr[s].seq, a)
<1> DEFINE s0 == o \div Room
           a0 == o % Room
           Found == /\ o # NoOffset
                    /\ Readable(s0)
                    /\ hdr[s0].state = "VALID"
                    /\ hdr[s0].seq = q
                    /\ IsRecord(s0, a0)
<1>1. IteratorSetOffset(o, q, FALSE) = IF Found THEN At(s0, q, a0) ELSE NoIt
  BY DEF IteratorSetOffset
<1>2. ASSUME Found
      PROVE  /\ s0 \in ValidSectors /\ a0 \in Units /\ Holds(cell[s0], a0)
             /\ cell[s0][a0].id + 1 = k
  <2>1. s0 \in Sectors
    BY <1>2, OffsetSector
  <2>2. s0 \in ValidSectors /\ a0 \in Units /\ Holds(cell[s0], a0)
    BY <1>2, <2>1 DEF ValidSectors, Readable, IsRecord, Holds
  <2>3. o = Offset(s0, a0)
    <3>1. Room \in Nat /\ 0 < Room /\ o \in Nat
      BY Numbers, NoOffsetType
    <3>2. o = Room * s0 + a0 /\ s0 \in Int
      BY <3>1, Divided
    <3>3. s0 * Room = Room * s0
      BY <3>1, <3>2
    <3> HIDE DEF s0, a0
    <3> QED BY <3>2, <3>3 DEF Offset
  <2> QED BY <1>2, <2>2, <2>3 DEF Names
<1>3. ASSUME NEW s \in ValidSectors, NEW a \in Units,
             Holds(cell[s], a), cell[s][a].id + 1 = k
      PROVE  IteratorSetOffset(o, q, FALSE) = At(s, hdr[s].seq, a)
  <2>1. o = Offset(s, a) /\ q = hdr[s].seq /\ s \in Sectors
    BY <1>3 DEF Names, ValidSectors
  <2>2. o # NoOffset /\ s0 = s /\ a0 = a
    BY <2>1, OffsetParts
  <2>3. Readable(s) /\ hdr[s].state = "VALID" /\ IsRecord(s, a)
    BY <1>3 DEF Readable, ValidSectors, IsRecord, Holds
  <2> HIDE DEF s0, a0
  <2> QED BY <1>1, <2>1, <2>2, <2>3
<1> HIDE DEF Found, s0, a0
<1> QED BY <1>1, <1>2, <1>3

\* From the record of an id to that of the next.
LEMMA NextIs ==
    ASSUME FlashType, NEW c, NEW lo, NEW hi, NEW E, TheLog(c, lo, hi, E),
           NEW s \in ValidSectors, NEW a \in Units, Holds(cell[s], a)
    PROVE  /\ cell[s][a].id + 1 = hi[c]
                => IteratorNext(At(s, hdr[s].seq, a)) = NoIt
           /\ \A t \in ValidSectors, b \in Units :
                Holds(cell[t], b) /\ cell[t][b].id = cell[s][a].id + 1
                => IteratorNext(At(s, hdr[s].seq, a)) = At(t, hdr[t].seq, b)
<1> DEFINE V == ValidSectors
           k == cell[s][a].id
           p == At(s, hdr[s].seq, a)
           inside == SectorFindFirst(p.sector, p.seq, p.addr + p.rec.size)
           n == SectorNext(s)
           S == {u \in V : Age(c, u) <= Age(c, n) /\ Holds(cell[u], 0)}
<1>1. /\ ViewType(V, hdr, cell)
      /\ c \in Sectors /\ lo \in [Sectors -> Nat] /\ hi \in [Sectors -> Nat]
      /\ RingAt(V, hdr, c) /\ RunsAt(V, cell, c, lo, hi) /\ c \in V
      /\ hi[c] \in Nat
      /\ \A x \in V : /\ x \in Sectors /\ lo[x] \in Nat /\ hi[x] \in Nat
                      /\ RunOf(cell[x], lo[x], hi[x])
                      /\ lo[x] <= hi[x] /\ hi[x] <= hi[c]
                      /\ Age(c, x) \in Nat
                      /\ cell[x] \in [Units -> Cells]
      /\ \A x \in V, b \in Units : Holds(cell[x], b) =>
            /\ cell[x][b].id \in Nat /\ lo[x] <= cell[x][b].id
            /\ cell[x][b].id < hi[x] /\ cell[x][b].id < hi[c]
  BY LogFacts
<1>2. /\ p.sector = s /\ p.seq = hdr[s].seq /\ p.addr + p.rec.size = After(cell[s], a)
      /\ \A t \in V : \A b : At(t, hdr[t].seq, b) # NoIt
  <2>1. \A t \in V : t # NoSector
    BY <1>1, Numbers DEF NoSector
  <2> QED BY <2>1 DEF At, After, NoIt
<1>3. \A b : IsRecord(s, b) <=> Holds(cell[s], b)
  BY DEF IsRecord, Holds
<1>4. inside = IF Holds(cell[s], After(cell[s], a))
               THEN At(s, hdr[s].seq, After(cell[s], a)) ELSE NoIt
  BY <1>2, <1>3 DEF SectorFindFirst
<1>5. IteratorNext(p) = IF inside # NoIt THEN inside
                        ELSE FirstRecordFrom(SectorAfter(hdr[s].seq))
  BY <1>2 DEF IteratorNext
<1> HIDE DEF inside, p
<1>6. k \in Nat /\ k < hi[s] /\ lo[s] <= k /\ k < hi[c]
  BY <1>1
<1>7. CASE Holds(cell[s], After(cell[s], a))
  <2> DEFINE b0 == After(cell[s], a)
  <2>1. b0 \in Units /\ cell[s][b0].id = k + 1
    BY <1>1, <1>7 DEF RunOf, Holds
  <2>2. IteratorNext(p) = At(s, hdr[s].seq, b0)
    BY <1>2, <1>4, <1>5, <1>7
  <2> HIDE DEF b0
  <2>3. k + 1 < hi[c]
    BY <1>1, <1>7, <2>1 DEF b0
  <2>4. ASSUME NEW t \in V, NEW b \in Units, Holds(cell[t], b),
               cell[t][b].id = k + 1
        PROVE  t = s /\ b = b0
    BY <1>1, <1>7, <2>1, <2>4, OnePlace DEF b0
  <2> HIDE DEF k
  <2>5. k + 1 # hi[c]
    BY <1>1, <1>6, <2>3
  <2> QED BY <2>2, <2>4, <2>5 DEF p, k
<1>8. CASE ~Holds(cell[s], After(cell[s], a))
  <2>1. hi[s] = k + 1
    BY <1>1, <1>8 DEF RunOf
  <2>2. IteratorNext(p) = FirstRecordFrom(SectorAfter(hdr[s].seq))
    BY <1>4, <1>5, <1>8
  <2>3. SectorAfter(hdr[s].seq) = IF s = c THEN NoSector ELSE n
    BY <1>1, SectorAfterIs
  <2>4. ASSUME NEW t \in V, NEW b \in Units, Holds(cell[t], b),
               cell[t][b].id = k + 1
        PROVE  Age(c, t) < Age(c, s) /\ b = 0 /\ lo[t] = k + 1
    <3>1. lo[t] <= k + 1 /\ k + 1 < hi[t]
      BY <1>1, <2>4
    <3>2. t # s
      BY <1>6, <2>1, <3>1
    <3>3. Age(c, t) # Age(c, s)
      BY <1>1, <3>2, Ages
    <3>4. ~(Age(c, s) < Age(c, t))
      <4>1. Age(c, s) < Age(c, t) => hi[t] <= lo[s]
        BY <1>1 DEF RunsAt
      <4> QED BY <1>1, <1>6, <3>1, <4>1
    <3>5. Age(c, t) < Age(c, s)
      BY <1>1, <3>3, <3>4
    <3>6. hi[s] <= lo[t]
      BY <1>1, <3>5 DEF RunsAt
    <3>7. lo[t] = k + 1
      BY <1>1, <1>6, <2>1, <3>1, <3>6
    <3>8. b = 0
      <4>1. cell[t][0].id = lo[t] /\ Holds(cell[t], 0) /\ 0 \in Units
        <5>1. ASSUME ~Holds(cell[t], 0) PROVE FALSE
          <6>1. hi[t] = lo[t]
            BY <1>1, <5>1 DEF RunOf
          <6> QED BY <1>1, <1>6, <3>1, <3>7, <6>1
        <5>2. RunOf(cell[t], lo[t], hi[t]) /\ 0 \in Units
          BY <1>1, Numbers
        <5> QED BY <5>1, <5>2 DEF RunOf
      <4> QED BY <1>1, <2>4, <3>7, <4>1, OnePlace
    <3> QED BY <3>5, <3>7, <3>8
  <2>5. CASE s = c
    <3>1. IteratorNext(p) = FirstRecordFrom(NoSector)
      BY <2>2, <2>3, <2>5
    <3>2. FirstRecordFrom(NoSector) = NoIt
      BY FirstFromNone
    <3>3. \A t \in V, b \in Units : Holds(cell[t], b) => cell[t][b].id # k + 1
      BY <1>1, <1>6, <2>1, <2>5
    <3> QED BY <3>1, <3>2, <3>3 DEF p
  <2>6. CASE s # c
    <3>1. n \in Sectors /\ Age(c, n) = Age(c, s) - 1
      BY <1>1, <2>6, Ages, NextSector
    <3>2. n \in V
      <4>1. Age(c, n) <= Age(c, s)
        BY <1>1, <3>1
      <4> QED BY <1>1, <3>1, <4>1 DEF RingAt
    <3>3. IteratorNext(p) = FirstRecordFrom(n)
      BY <2>2, <2>3, <2>6
    <3>4. /\ S = {} => FirstRecordFrom(n) = NoIt
          /\ \A u \in S : (\A x \in S : Age(c, x) <= Age(c, u)) =>
                FirstRecordFrom(n) = At(u, hdr[u].seq, 0)
      BY <1>1, <3>2, FirstFrom
    <3>5. ASSUME NEW x \in S
          PROVE  /\ x \in V /\ x \in Sectors /\ Age(c, x) \in Nat
                 /\ k + 1 <= lo[x] /\ lo[x] < hi[x] /\ hi[x] <= hi[c]
                 /\ lo[x] \in Nat /\ hi[x] \in Nat
      <4>1. /\ x \in V /\ Age(c, x) <= Age(c, n) /\ Holds(cell[x], 0)
            /\ Age(c, x) < Age(c, s)
        BY <1>1, <3>1, <3>2
      <4>2. hi[s] <= lo[x]
        BY <1>1, <4>1 DEF RunsAt
      <4>3. cell[x][0].id = lo[x] /\ 0 \in Units
        BY <1>1, <4>1, Numbers DEF RunOf
      <4>4. lo[x] < hi[x]
        BY <1>1, <4>1, <4>3
      <4> QED BY <1>1, <2>1, <4>1, <4>2, <4>4
    <3>6. ASSUME k + 1 = hi[c] PROVE IteratorNext(p) = NoIt
      <4>1. S = {}
        <5> SUFFICES ASSUME NEW x \in S PROVE FALSE
          OBVIOUS
        <5>1. k + 1 <= lo[x] /\ lo[x] < hi[x] /\ hi[x] <= hi[c]
              /\ lo[x] \in Nat /\ hi[x] \in Nat
          BY <3>5
        <5> HIDE DEF S, k
        <5> QED BY <1>1, <1>6, <3>6, <5>1
      <4> QED BY <3>3, <3>4, <4>1
    <3>7. ASSUME NEW t \in V, NEW b \in Units, Holds(cell[t], b),
                 cell[t][b].id = k + 1
          PROVE  IteratorNext(p) = At(t, hdr[t].seq, b)
      <4>1. Age(c, t) < Age(c, s) /\ b = 0 /\ lo[t] = k + 1
        BY <2>4, <3>7
      <4>2. t \in S
        BY <1>1, <3>1, <3>7, <4>1
      <4>3. ASSUME NEW x \in S PROVE Age(c, x) <= Age(c, t)
        <5>1. ASSUME Age(c, t) < Age(c, x) PROVE FALSE
          <6>1. hi[x] <= lo[t]
            BY <1>1, <3>5, <5>1 DEF RunsAt
          <6>2. k + 1 <= lo[x] /\ lo[x] < hi[x]
                /\ lo[x] \in Nat /\ hi[x] \in Nat
            BY <3>5
          <6> HIDE DEF S, k
          <6> QED BY <1>6, <4>1, <6>1, <6>2
        <5> QED BY <1>1, <3>5, <5>1
      <4> HIDE DEF S
      <4> QED BY <3>3, <3>4, <4>1, <4>2, <4>3
    <3> QED BY <3>6, <3>7 DEF p
  <2> QED BY <2>5, <2>6
<1> QED BY <1>7, <1>8

\* The iterator on the record of id k.
On(k) == CHOOSE p : \E s \in ValidSectors, a \in Units :
            /\ Holds(cell[s], a) /\ cell[s][a].id = k
            /\ p = At(s, hdr[s].seq, a)

LEMMA OnIs ==
    ASSUME FlashType, NEW c, NEW lo, NEW hi, NEW E, TheLog(c, lo, hi, E),
           NEW s \in ValidSectors, NEW a \in Units, Holds(cell[s], a)
    PROVE  /\ On(cell[s][a].id) = At(s, hdr[s].seq, a)
           /\ At(s, hdr[s].seq, a) \in Iterators
           /\ At(s, hdr[s].seq, a) # NoIt
           /\ At(s, hdr[s].seq, a).rec.id = cell[s][a].id
<1> DEFINE k == cell[s][a].id
<1>1. On(k) = At(s, hdr[s].seq, a)
  <2>1. PICK t \in ValidSectors, b \in Units :
            /\ Holds(cell[t], b) /\ cell[t][b].id = k
            /\ On(k) = At(t, hdr[t].seq, b)
    BY DEF On
  <2>2. t = s /\ b = a
    BY <2>1, LogFacts, OnePlace
  <2> QED BY <2>1, <2>2
<1>2. s \in Sectors /\ hdr[s] \in Headers /\ cell[s] \in [Units -> Cells]
  BY DEF FlashType, ValidSectors
<1>3. hdr[s].seq \in Sequence /\ cell[s][a] \in Cells
  BY <1>2 DEF Headers
<1>4. s # NoSector
  BY <1>2, Numbers DEF NoSector
<1> QED BY <1>1, <1>2, <1>3, <1>4 DEF At, Iterators, NoIt

\* The ids of the log, and where iterators on them go.
Chain(l, u) ==
    /\ l \in Nat /\ u \in Nat /\ l <= u
    /\ \A k \in l .. (u - 1) :
        /\ On(k) \in Iterators /\ On(k) # NoIt /\ On(k).rec.id = k
        /\ IteratorNext(On(k)) = IF k + 1 = u THEN NoIt ELSE On(k + 1)
        /\ IteratorPrev(On(k)) = IF k = l THEN NoIt ELSE On(k - 1)
    /\ IteratorInitOldest = IF l = u THEN NoIt ELSE On(l)

LEMMA ChainIs ==
    ASSUME FlashType, NEW c, NEW lo, NEW hi, NEW E, TheLog(c, lo, hi, E),
           NEW o, Oldest(ValidSectors, c, o)
    PROVE  Chain(lo[o], hi[c])
<1> DEFINE V == ValidSectors
           l == lo[o]
           u == hi[c]
<1>1. /\ ViewType(V, hdr, cell)
      /\ c \in Sectors /\ lo \in [Sectors -> Nat] /\ hi \in [Sectors -> Nat]
      /\ RingAt(V, hdr, c) /\ RunsAt(V, cell, c, lo, hi) /\ c \in V
      /\ LinksAt(V, hdr, cell, E)
      /\ hi[c] \in Nat
      /\ \A x \in V : /\ x \in Sectors /\ lo[x] \in Nat /\ hi[x] \in Nat
                      /\ RunOf(cell[x], lo[x], hi[x])
                      /\ lo[x] <= hi[x] /\ hi[x] <= hi[c]
                      /\ Age(c, x) \in Nat
                      /\ cell[x] \in [Units -> Cells]
      /\ \A x \in V, b \in Units : Holds(cell[x], b) =>
            /\ cell[x][b].id \in Nat /\ lo[x] <= cell[x][b].id
            /\ cell[x][b].id < hi[x] /\ cell[x][b].id < hi[c]
  BY LogFacts
<1>2. o \in V /\ l \in Nat /\ u \in Nat
  BY <1>1 DEF Oldest
<1>3. /\ \A k \in l .. (u - 1) :
            \E s \in V, a \in Units : Holds(cell[s], a) /\ cell[s][a].id = k
      /\ \A s \in V, a \in Units : Holds(cell[s], a) =>
            cell[s][a].id \in l .. (u - 1)
      /\ l <= u
  BY <1>1, LogHas
<1>4. ASSUME NEW k \in l .. (u - 1)
      PROVE  /\ On(k) \in Iterators /\ On(k) # NoIt /\ On(k).rec.id = k
             /\ IteratorNext(On(k)) = IF k + 1 = u THEN NoIt ELSE On(k + 1)
             /\ IteratorPrev(On(k)) = IF k = l THEN NoIt ELSE On(k - 1)
  <2>1. PICK s \in V, a \in Units : Holds(cell[s], a) /\ cell[s][a].id = k
    BY <1>3
  <2> DEFINE p == At(s, hdr[s].seq, a)
  <2>2. /\ On(k) = p /\ p \in Iterators /\ p # NoIt /\ p.rec.id = k
    BY <2>1, OnIs
  <2>3. IteratorNext(p) = IF k + 1 = u THEN NoIt ELSE On(k + 1)
    <3>1. k + 1 = u => IteratorNext(p) = NoIt
      BY <2>1, NextIs
    <3>2. ASSUME k + 1 # u PROVE IteratorNext(p) = On(k + 1)
      <4>1. k + 1 \in l .. (u - 1)
        BY <1>2, <3>2
      <4>2. PICK t \in V, b \in Units : Holds(cell[t], b) /\ cell[t][b].id = k + 1
        BY <1>3, <4>1
      <4>3. On(k + 1) = At(t, hdr[t].seq, b)
        BY <4>2, OnIs
      <4>4. IteratorNext(p) = At(t, hdr[t].seq, b)
        BY <2>1, <4>2, NextIs
      <4> QED BY <4>3, <4>4
    <3> QED BY <3>1, <3>2
  <2>4. IteratorPrev(p) = IteratorSetOffset(cell[s][a].prev, cell[s][a].pseq, FALSE)
    <3>1. p.sector = s /\ p.rec = cell[s][a] /\ Readable(s)
          /\ hdr[s].state # "STAGED"
      BY DEF At, Readable, ValidSectors
    <3> QED BY <3>1 DEF IteratorPrev
  <2>5. /\ Names(V, hdr, cell, cell[s][a].prev, cell[s][a].pseq, k)
        /\ cell[s][a].prev \in 0 .. NoOffset /\ k \in Nat
    <3>1. cell[s][a] \in Cells
      BY <1>1
    <3>2. cell[s][a].prev \in 0 .. NoOffset
      BY <3>1 DEF Cells
    <3> QED BY <1>1, <1>2, <2>1, <3>2 DEF LinksAt
  <2>6. IteratorPrev(p) = IF k = l THEN NoIt ELSE On(k - 1)
    <3>1. ASSUME k = l PROVE IteratorPrev(p) = NoIt
      <4>1. \A t \in V, b \in Units : Holds(cell[t], b) => cell[t][b].id + 1 # k
        BY <1>2, <1>3, <3>1
      <4> QED BY <1>1, <2>4, <2>5, <4>1, SetOffsetIs
    <3>2. ASSUME k # l PROVE IteratorPrev(p) = On(k - 1)
      <4>1. k - 1 \in l .. (u - 1)
        BY <1>2, <3>2
      <4>2. PICK t \in V, b \in Units : Holds(cell[t], b) /\ cell[t][b].id = k - 1
        BY <1>3, <4>1
      <4>3. cell[t][b].id + 1 = k
        BY <1>2, <4>2
      <4>4. On(k - 1) = At(t, hdr[t].seq, b)
        BY <4>2, OnIs
      <4>5. \A x \in V, y \in Units : Holds(cell[x], y) /\ cell[x][y].id + 1 = k
                => IteratorPrev(p) = At(x, hdr[x].seq, y)
        BY <1>1, <2>4, <2>5, SetOffsetIs
      <4>6. IteratorPrev(p) = At(t, hdr[t].seq, b)
        BY <4>2, <4>3, <4>5
      <4> QED BY <4>4, <4>6
    <3> QED BY <3>1, <3>2
  <2> QED BY <2>2, <2>3, <2>6
<1>5. IteratorInitOldest = IF l = u THEN NoIt ELSE On(l)
  <2> DEFINE x0 == OldestOf(V)
             S == {x \in V : Age(c, x) <= Age(c, x0) /\ Holds(cell[x], 0)}
  <2>1. x0 = o
    <3>1. x0 \in V /\ Age(c, o) <= Age(c, x0)
      BY <1>1, <1>2, OldestIs
    <3>2. Age(c, x0) <= Age(c, o)
      BY <3>1 DEF Oldest
    <3>3. Age(c, x0) = Age(c, o)
      BY <1>1, <1>2, <3>1, <3>2
    <3> QED BY <1>1, <1>2, <3>1, <3>3, Ages
  <2>2. S = {x \in V : Holds(cell[x], 0)}
    BY <2>1 DEF Oldest
  <2>3. /\ S = {} => IteratorInitOldest = NoIt
        /\ \A x \in S : (\A y \in S : Age(c, y) <= Age(c, x)) =>
                IteratorInitOldest = At(x, hdr[x].seq, 0)
    BY <1>1, <1>2, <2>1, FirstFrom DEF IteratorInitOldest
  <2> HIDE DEF S
  <2>4. CASE l = u
    <3>1. 0 \in Units
      BY Numbers
    <3>2. S = {}
      BY <1>2, <1>3, <2>2, <2>4, <3>1
    <3> QED BY <2>3, <2>4, <3>2
  <2>5. CASE l # u
    <3>1. l \in l .. (u - 1)
      BY <1>2, <1>3, <2>5
    <3>2. PICK s \in V, a \in Units : Holds(cell[s], a) /\ cell[s][a].id = l
      BY <1>3, <3>1
    <3>3. a = 0
      <4>1. ASSUME a # 0 PROVE FALSE
        <5>1. a > 0
          BY <4>1, Numbers
        <5>2. PICK b \in Units : Holds(cell[s], b) /\ After(cell[s], b) = a
          BY <1>1, <3>2, <5>1 DEF RunOf
        <5>3. cell[s][a].id = cell[s][b].id + 1
          BY <1>1, <3>2, <5>2 DEF RunOf
        <5>4. cell[s][b].id \in l .. (u - 1)
          BY <1>3, <5>2
        <5> HIDE DEF l
        <5> QED BY <1>2, <3>2, <5>3, <5>4
      <4> QED BY <4>1
    <3>4. s \in S
      BY <2>2, <3>2, <3>3
    <3>5. ASSUME NEW y \in S PROVE Age(c, y) <= Age(c, s)
      <4>1. y \in V /\ Holds(cell[y], 0)
        BY <2>2
      <4>2. 0 \in Units
        BY Numbers
      <4>3. l <= cell[y][0].id /\ cell[y][0].id < hi[y] /\ cell[y][0].id \in Nat
        BY <1>1, <1>2, <1>3, <4>1, <4>2
      <4>4. lo[s] <= l
        BY <1>1, <3>2
      <4>5. Age(c, s) < Age(c, y) => hi[y] <= lo[s]
        BY <1>1, <4>1 DEF RunsAt
      <4>6. lo[s] \in Nat /\ hi[y] \in Nat /\ Age(c, s) \in Nat /\ Age(c, y) \in Nat
        BY <1>1, <4>1
      <4> HIDE DEF l
      <4> QED BY <1>2, <4>3, <4>4, <4>5, <4>6
    <3>6. IteratorInitOldest = At(s, hdr[s].seq, 0)
      BY <2>3, <3>4, <3>5
    <3>7. On(l) = At(s, hdr[s].seq, 0)
      BY <3>2, <3>3, OnIs
    <3> QED BY <2>5, <3>6, <3>7
  <2> QED BY <2>4, <2>5
<1> QED BY <1>2, <1>3, <1>4, <1>5 DEF Chain

\* The iterator that the log keeps of its newest record.
LEMMA InitIs ==
    ASSUME FlashType, NEW l, NEW u, Chain(l, u),
           last_record_offset \in 0 .. NoOffset,
           Names(ValidSectors, hdr, cell, last_record_offset,
                 last_record_sequence, u),
           NEW c, NEW lo, NEW hi, NEW E, TheLog(c, lo, hi, E), u = hi[c],
           NEW o, Oldest(ValidSectors, c, o), l = lo[o]
    PROVE  IteratorInit = IF l = u THEN NoIt ELSE On(u - 1)
<1>1. /\ \A k \in l .. (u - 1) : \E s \in ValidSectors, a \in Units :
            Holds(cell[s], a) /\ cell[s][a].id = k
      /\ \A s \in ValidSectors, a \in Units : Holds(cell[s], a) =>
            cell[s][a].id \in l .. (u - 1) /\ cell[s][a].id \in Nat
      /\ l \in Nat /\ u \in Nat /\ l <= u
  BY LogFacts, LogHas DEF Chain
<1>2. CASE l = u
  <2>1. \A s \in ValidSectors, a \in Units : ~Holds(cell[s], a)
    BY <1>1, <1>2
  <2> QED BY <1>1, <1>2, <2>1, SetOffsetIs DEF IteratorInit
<1>3. CASE l # u
  <2>1. u - 1 \in l .. (u - 1)
    BY <1>1, <1>3
  <2>2. PICK s \in ValidSectors, a \in Units :
            Holds(cell[s], a) /\ cell[s][a].id = u - 1
    BY <1>1, <2>1
  <2>3. cell[s][a].id + 1 = u
    BY <1>1, <2>2
  <2>4. On(u - 1) = At(s, hdr[s].seq, a)
    BY <2>2, OnIs
  <2>5. \A x \in ValidSectors, y \in Units :
            Holds(cell[x], y) /\ cell[x][y].id + 1 = u
            => IteratorInit = At(x, hdr[x].seq, y)
    <3>1. \A x \in ValidSectors, y \in Units : Holds(cell[x], y) =>
                cell[x][y].id \in Nat
      BY <1>1
    <3>2. u \in Nat
      BY <1>1
    <3> QED BY <3>1, <3>2, SetOffsetIs DEF IteratorInit
  <2>6. IteratorInit = At(s, hdr[s].seq, a)
    BY <2>2, <2>3, <2>5
  <2> QED BY <1>3, <2>4, <2>6
<1> QED BY <1>2, <1>3

----------------------------------------------------------------------------
(* The walks.                                                              *)

WalkBy(move, p) ==
    LET on[w \in Seq(Iterators)] ==
            IF w[Len(w)] = NoIt THEN w ELSE Append(w, move[w[Len(w)]])
        from[n \in 1 .. (SectorCount * Room)] ==
            IF n = 1 THEN <<p>> ELSE on[from[n - 1]]
        ids[w \in Seq(Iterators)] ==
            [n \in {m \in DOMAIN w : w[m] # NoIt} |-> w[n].rec.id]
    IN  ids[from[SectorCount * Room]]

\* The move goes from p along the L iterators of w and no further.
Along(move, p, w, L) ==
    /\ w \in [1 .. L -> Iterators \ {NoIt}]
    /\ p = IF L = 0 THEN NoIt ELSE w[1]
    /\ \A n \in 1 .. L : move[w[n]] = IF n = L THEN NoIt ELSE w[n + 1]

LEMMA WalkIs ==
    ASSUME NEW move, NEW p, NEW w, NEW L \in 0 .. (SectorCount * Room),
           Along(move, p, w, L)
    PROVE  WalkBy(move, p) = [n \in 1 .. L |-> w[n].rec.id]
<1> DEFINE M == SectorCount * Room
           on == [x \in Seq(Iterators) |->
                    IF x[Len(x)] = NoIt THEN x
                    ELSE Append(x, move[x[Len(x)]])]
           ids == [x \in Seq(Iterators) |->
                    [n \in {m \in DOMAIN x : x[m] # NoIt} |-> x[n].rec.id]]
           body(h) == [n \in 1 .. M |-> IF n = 1 THEN <<p>> ELSE on[h[n - 1]]]
           from == CHOOSE h : h = body(h)
           q(j) == IF j <= L THEN w[j] ELSE NoIt
           last(n) == IF n <= L THEN n ELSE L + 1
           f(n) == [j \in 1 .. last(n) |-> q(j)]
           g == [n \in 1 .. M |-> f(n)]
           step == [n \in 1 .. M |-> on]
<1>1. WalkBy(move, p) = ids[from[M]]
  BY DEF WalkBy
<1>2. M \in Nat /\ 0 < M /\ M \in 1 .. M /\ 1 \in 1 .. M /\ L \in Nat /\ L <= M
  <2>1. SectorCount \in Nat /\ 3 <= SectorCount /\ Room \in Nat /\ 1 <= Room
    BY Numbers
  <2>2. M \in Nat
    BY <2>1
  <2>3. 1 * Room <= SectorCount * Room
    BY <2>1, ProductGrows
  <2> QED BY <2>1, <2>2, <2>3
<1> HIDE DEF M
<1>3. \A j \in 1 .. (L + 1) : q(j) \in Iterators /\ (q(j) = NoIt <=> j = L + 1)
  BY <1>2, NoItType DEF Along
<1>4. ASSUME NEW n \in Nat \ {0}
      PROVE  /\ last(n) \in 1 .. (L + 1) /\ f(n) \in Seq(Iterators)
             /\ Len(f(n)) = last(n) /\ f(n)[Len(f(n))] = q(last(n))
             /\ DOMAIN f(n) = 1 .. last(n)
  <2>1. last(n) \in 1 .. (L + 1) /\ last(n) \in Nat
    BY <1>2
  <2> HIDE DEF last, q
  <2>2. \A j \in 1 .. last(n) : q(j) \in Iterators
    BY <1>2, <1>3, <2>1
  <2>3. f(n) \in Seq(Iterators) /\ Len(f(n)) = last(n)
    BY <2>1, <2>2
  <2>4. last(n) \in 1 .. last(n)
    BY <1>2, <2>1
  <2> QED BY <2>1, <2>3, <2>4
<1>5. ASSUME NEW n \in Nat \ {0} PROVE f(n + 1) = on[f(n)]
  <2>1. /\ last(n) \in 1 .. (L + 1) /\ f(n) \in Seq(Iterators)
        /\ Len(f(n)) = last(n) /\ f(n)[Len(f(n))] = q(last(n))
    BY <1>4
  <2>2. on[f(n)] = IF q(last(n)) = NoIt THEN f(n)
                   ELSE Append(f(n), move[q(last(n))])
    <3> HIDE DEF f, last, q
    <3> QED BY <2>1
  <2>3. CASE n <= L
    <3>1. last(n) = n /\ last(n + 1) = n + 1 /\ n \in 1 .. L /\ n \in 1 .. (L + 1)
          /\ n + 1 \in 1 .. (L + 1)
      BY <1>2, <2>3
    <3>2. q(n) = w[n] /\ q(n) # NoIt
      BY <1>2, <1>3, <2>3, <3>1
    <3>3. move[q(n)] = q(n + 1)
      BY <1>2, <3>1, <3>2 DEF Along
    <3>4. on[f(n)] = Append(f(n), q(n + 1))
      BY <2>2, <3>1, <3>2, <3>3
    <3> HIDE DEF q
    <3>5. f(n) = [j \in 1 .. n |-> q(j)] /\ f(n + 1) = [j \in 1 .. (n + 1) |-> q(j)]
      BY <3>1
    <3>6. f(n) \in Seq(Iterators) /\ Len(f(n)) = n
      BY <2>1, <3>1
    <3>7. f(n + 1) = Append(f(n), q(n + 1))
      <4> DEFINE x == f(n)
                 y == Append(x, q(n + 1))
                 z == f(n + 1)
      <4>1. /\ Len(x) = n /\ x \in Seq(Iterators)
            /\ \A j \in 1 .. n : x[j] = q(j)
            /\ z = [j \in 1 .. (n + 1) |-> q(j)]
        BY <3>5, <3>6
      <4> HIDE DEF x, z, f
      <4>2. DOMAIN y = 1 .. (n + 1)
        BY <4>1
      <4>3. \A j \in 1 .. (n + 1) : y[j] = q(j)
        <5> TAKE j \in 1 .. (n + 1)
        <5>1. j \in 1 .. n \/ j = n + 1
          OBVIOUS
        <5>2. j \in 1 .. n => y[j] = x[j]
          BY <4>1
        <5>3. y[n + 1] = q(n + 1)
          BY <4>1
        <5> QED BY <4>1, <5>1, <5>2, <5>3
      <4>4. y = [j \in DOMAIN y |-> y[j]]
        BY <4>1
      <4> HIDE DEF y
      <4>5. y = [j \in 1 .. (n + 1) |-> q(j)]
        BY <4>2, <4>3, <4>4
      <4> QED BY <4>1, <4>5 DEF x, y, z
    <3> QED BY <3>4, <3>7
  <2>4. CASE ~(n <= L)
    <3>1. last(n) = L + 1 /\ last(n + 1) = L + 1 /\ L + 1 \in 1 .. (L + 1)
      BY <1>2, <2>4
    <3>2. q(last(n)) = NoIt
      BY <1>3, <3>1
    <3>3. f(n + 1) = f(n)
      <4> HIDE DEF last, q
      <4> QED BY <3>1
    <3> HIDE DEF f
    <3> QED BY <2>2, <3>2, <3>3
  <2> QED BY <2>3, <2>4
<1>6. f(1) = <<p>>
  <2>1. last(1) = 1 /\ q(1) = p
    BY <1>2 DEF Along
  <2> HIDE DEF last, q
  <2> QED BY <2>1
<1> HIDE DEF f, on
<1>7. g[1] = <<p>> /\ \A n \in 2 .. M : g[n] = on[g[n - 1]]
  <2>1. \A n \in 2 .. M : /\ n - 1 \in Nat \ {0} /\ n - 1 + 1 = n
                          /\ n \in 1 .. M /\ n - 1 \in 1 .. M
    BY <1>2
  <2>2. \A n \in 2 .. M : f(n) = on[f(n - 1)]
    BY <1>5, <2>1
  <2> QED BY <1>2, <1>6, <2>1, <2>2
<1>8. g = body(g)
  <2>1. DOMAIN g = 1 .. M /\ g = [n \in 1 .. M |-> g[n]]
    OBVIOUS
  <2>2. \A n \in 1 .. M : n # 1 => n \in 2 .. M
    BY <1>2
  <2> HIDE DEF g
  <2>3. \A n \in 1 .. M : g[n] = IF n = 1 THEN <<p>> ELSE on[g[n - 1]]
    BY <1>7, <2>2
  <2> QED BY <2>1, <2>3
<1>9. from = body(from)
  <2> HIDE DEF g
  <2> QED BY <1>8
<1>10. g[M] = f(M)
  BY <1>2
<1> HIDE DEF g, from
<1>11. from[M] = f(M)
  <2>1. \A n \in 1 .. M : from[n] = IF n = 1 THEN <<p>> ELSE on[from[n - 1]]
    BY <1>9
  <2>2. \A n \in (1 + 1) .. M : /\ n \in 1 .. M /\ n # 1 /\ n - 1 \in 1 .. M
                                /\ n \in 2 .. M /\ step[n - 1] = on
    BY <1>2
  <2> HIDE DEF step
  <2>3. Follows(from, <<p>>, step, 1, M) /\ Follows(g, <<p>>, step, 1, M)
    BY <1>2, <1>7, <2>1, <2>2 DEF Follows
  <2>4. \A n \in 1 .. M : from[n] = g[n]
    BY <1>2, <2>3, Loop
  <2> QED BY <1>2, <1>10, <2>4
<1>12. ids[f(M)] = [n \in 1 .. L |-> w[n].rec.id]
  <2>1. /\ last(M) \in 1 .. (L + 1) /\ f(M) \in Seq(Iterators)
        /\ DOMAIN f(M) = 1 .. last(M) /\ L <= last(M)
    BY <1>2, <1>4
  <2>2. \A j \in 1 .. last(M) : f(M)[j] = q(j)
    BY DEF f
  <2> HIDE DEF q, last
  <2>3. \A j \in 1 .. last(M) : j \in 1 .. (L + 1) /\ (j # L + 1 <=> j \in 1 .. L)
    BY <1>2, <2>1
  <2>4. {m \in DOMAIN f(M) : f(M)[m] # NoIt} = 1 .. L
    <3>1. \A j \in 1 .. L : j \in 1 .. last(M)
      BY <1>2, <2>1
    <3>2. \A j \in 1 .. last(M) : q(j) # NoIt <=> j \in 1 .. L
      BY <1>3, <2>3
    <3> QED BY <2>1, <2>2, <3>1, <3>2
  <2>5. \A j \in 1 .. L : f(M)[j] = w[j]
    <3>1. \A j \in 1 .. L : j \in 1 .. last(M) /\ j <= L
      BY <1>2, <2>1
    <3>2. \A j \in 1 .. L : q(j) = w[j]
      BY <3>1 DEF q
    <3> QED BY <2>2, <3>1, <3>2
  <2>6. ids[f(M)] = [n \in {m \in DOMAIN f(M) : f(M)[m] # NoIt} |->
                        f(M)[n].rec.id]
    BY <2>1
  <2> QED BY <2>4, <2>5, <2>6
<1> QED BY <1>1, <1>11, <1>12

\* The ids from l up to u - 1, one after the other.
IdsOf(l, u) == [n \in 1 .. (u - l) |-> l + n - 1]

LEMMA ForwardIs ==
    ASSUME NEW l, NEW u, Chain(l, u), u - l <= SectorCount * Room
    PROVE  Forward = IdsOf(l, u)
<1> DEFINE move == [q \in Iterators |-> IteratorNext(q)]
           L == u - l
           w == [n \in 1 .. L |-> On(l + n - 1)]
<1>1. Forward = WalkBy(move, IteratorInitOldest)
  BY DEF Forward, Walk, WalkBy
<1>2. l \in Nat /\ u \in Nat /\ L \in Nat /\ L <= SectorCount * Room
  BY DEF Chain
<1>3. L \in 0 .. (SectorCount * Room)
  BY <1>2, Numbers
<1>4. \A n \in 1 .. L :
        /\ l + n - 1 \in l .. (u - 1)
        /\ l + n - 1 + 1 = l + (n + 1) - 1
        /\ n = L <=> l + n - 1 + 1 = u
        /\ n # L => n + 1 \in 1 .. L
  BY <1>2
<1>5. \A k \in l .. (u - 1) :
        /\ On(k) \in Iterators /\ On(k) # NoIt /\ On(k).rec.id = k
        /\ IteratorNext(On(k)) = IF k + 1 = u THEN NoIt ELSE On(k + 1)
  BY DEF Chain
<1>6. IteratorInitOldest = IF L = 0 THEN NoIt ELSE w[1]
  <2>1. IteratorInitOldest = IF l = u THEN NoIt ELSE On(l)
    BY DEF Chain
  <2>2. L = 0 <=> l = u
    BY <1>2
  <2>3. L # 0 => w[1] = On(l)
    <3>1. L # 0 => 1 \in 1 .. L /\ l + 1 - 1 = l
      BY <1>2
    <3> QED BY <3>1
  <2> QED BY <2>1, <2>2, <2>3
<1>7. ASSUME NEW n \in 1 .. L
      PROVE  /\ w[n] \in Iterators \ {NoIt} /\ w[n].rec.id = l + n - 1
             /\ move[w[n]] = IF n = L THEN NoIt ELSE w[n + 1]
  <2> DEFINE k == l + n - 1
  <2>1. k \in l .. (u - 1) /\ (n = L <=> k + 1 = u) /\ k + 1 = l + (n + 1) - 1
    BY <1>4
  <2>2. w[n] = On(k)
    OBVIOUS
  <2>3. n # L => w[n + 1] = On(k + 1)
    BY <1>4, <2>1
  <2> HIDE DEF w, k
  <2>4. /\ On(k) \in Iterators /\ On(k) # NoIt /\ On(k).rec.id = k
        /\ IteratorNext(On(k)) = IF k + 1 = u THEN NoIt ELSE On(k + 1)
    BY <1>5, <2>1
  <2>5. move[On(k)] = IteratorNext(On(k))
    BY <2>4
  <2> QED BY <2>1, <2>2, <2>3, <2>4, <2>5 DEF k
<1>8. w \in [1 .. L -> Iterators \ {NoIt}]
  BY <1>7
<1>9. Along(move, IteratorInitOldest, w, L)
  BY <1>6, <1>7, <1>8 DEF Along
<1>10. WalkBy(move, IteratorInitOldest) = [n \in 1 .. L |-> w[n].rec.id]
  <2> HIDE DEF move, w, L
  <2> QED BY <1>3, <1>9, WalkIs
<1>11. [n \in 1 .. L |-> w[n].rec.id] = IdsOf(l, u)
  <2>1. \A n \in 1 .. L : w[n].rec.id = l + n - 1
    BY <1>7
  <2> HIDE DEF w
  <2> QED BY <2>1 DEF IdsOf
<1> QED BY <1>1, <1>10, <1>11

LEMMA BackwardIs ==
    ASSUME NEW l, NEW u, Chain(l, u), u - l <= SectorCount * Room,
           IteratorInit = IF l = u THEN NoIt ELSE On(u - 1)
    PROVE  Backward = [n \in 1 .. (u - l) |-> u - n]
<1> DEFINE move == [q \in Iterators |-> IteratorPrev(q)]
           L == u - l
           w == [n \in 1 .. L |-> On(u - n)]
<1>1. Backward = WalkBy(move, IteratorInit)
  BY DEF Backward, Walk, WalkBy
<1>2. l \in Nat /\ u \in Nat /\ L \in Nat /\ L <= SectorCount * Room
  BY DEF Chain
<1>3. L \in 0 .. (SectorCount * Room)
  BY <1>2, Numbers
<1>4. \A n \in 1 .. L :
        /\ u - n \in l .. (u - 1)
        /\ u - n - 1 = u - (n + 1)
        /\ n = L <=> u - n = l
        /\ n # L => n + 1 \in 1 .. L
  BY <1>2
<1>5. \A k \in l .. (u - 1) :
        /\ On(k) \in Iterators /\ On(k) # NoIt /\ On(k).rec.id = k
        /\ IteratorPrev(On(k)) = IF k = l THEN NoIt ELSE On(k - 1)
  BY DEF Chain
<1>6. IteratorInit = IF L = 0 THEN NoIt ELSE w[1]
  <2>2. L = 0 <=> l = u
    BY <1>2
  <2>3. L # 0 => w[1] = On(u - 1)
    <3>1. L # 0 => 1 \in 1 .. L
      BY <1>2
    <3> QED BY <3>1
  <2> QED BY <2>2, <2>3
<1>7. ASSUME NEW n \in 1 .. L
      PROVE  /\ w[n] \in Iterators \ {NoIt} /\ w[n].rec.id = u - n
             /\ move[w[n]] = IF n = L THEN NoIt ELSE w[n + 1]
  <2> DEFINE k == u - n
  <2>1. k \in l .. (u - 1) /\ (n = L <=> k = l) /\ k - 1 = u - (n + 1)
    BY <1>4
  <2>2. w[n] = On(k)
    OBVIOUS
  <2>3. n # L => w[n + 1] = On(k - 1)
    BY <1>4, <2>1
  <2> HIDE DEF w, k
  <2>4. /\ On(k) \in Iterators /\ On(k) # NoIt /\ On(k).rec.id = k
        /\ IteratorPrev(On(k)) = IF k = l THEN NoIt ELSE On(k - 1)
    BY <1>5, <2>1
  <2>5. move[On(k)] = IteratorPrev(On(k))
    BY <2>4
  <2> QED BY <2>1, <2>2, <2>3, <2>4, <2>5 DEF k
<1>8. w \in [1 .. L -> Iterators \ {NoIt}]
  BY <1>7
<1>9. Along(move, IteratorInit, w, L)
  BY <1>6, <1>7, <1>8 DEF Along
<1>10. WalkBy(move, IteratorInit) = [n \in 1 .. L |-> w[n].rec.id]
  <2> HIDE DEF move, w, L
  <2> QED BY <1>3, <1>9, WalkIs
<1>11. [n \in 1 .. L |-> w[n].rec.id] = [n \in 1 .. L |-> u - n]
  <2>1. \A n \in 1 .. L : w[n].rec.id = u - n
    BY <1>7
  <2> HIDE DEF w
  <2> QED BY <2>1
<1> QED BY <1>1, <1>10, <1>11

\* A ring has an oldest sector, and the log fits in it.
LEMMA OldestThere ==
    ASSUME FlashType, NEW c, NEW lo, NEW hi, NEW E, TheLog(c, lo, hi, E)
    PROVE  \E o \in ValidSectors :
            Oldest(ValidSectors, c, o) /\ hi[c] - lo[o] <= SectorCount * Room
<1>1. /\ c \in ValidSectors /\ c \in Sectors
      /\ \A s \in ValidSectors :
            s \in Sectors /\ Age(c, s) \in 0 .. (SectorCount - 1)
  BY LogFacts, Ages
<1> DEFINE S == {Age(c, s) : s \in ValidSectors}
<1>2. S \subseteq 0 .. (SectorCount - 1) /\ S # {} /\ SectorCount - 1 \in Nat
  BY <1>1, Numbers
<1>3. \E n \in S : \A m \in S : m <= n
  <2> HIDE DEF S
  <2> QED BY <1>2, GreatestOf
<1>4. PICK o \in ValidSectors : \A t \in ValidSectors : Age(c, t) <= Age(c, o)
  BY <1>3
<1>5. hi[c] - lo[o] <= SectorCount * Room
  <2>1. /\ lo[c] <= lo[o] + Span(Age(c, o))
        /\ RunOf(cell[c], lo[c], hi[c])
    BY <1>1, LogFacts DEF RunsAt
  <2>2. hi[c] <= lo[c] + Room
    BY <2>1 DEF RunOf
  <2>3. /\ lo[c] \in Nat /\ lo[o] \in Nat /\ hi[c] \in Nat
    BY <1>1, LogFacts
  <2>4. Span(Age(c, o)) <= Span(SectorCount - 1)
    BY <1>1, Numbers, ProductGrows DEF Span
  <2>5. SectorCount - 1 \in Nat /\ SectorCount - 1 + 1 = SectorCount
    BY Numbers
  <2>6. Span(SectorCount) = Span(SectorCount - 1) + Room
    BY <2>5, Spans
  <2>7. Span(SectorCount) \in Nat /\ Span(SectorCount - 1) \in Nat
        /\ Span(Age(c, o)) \in Nat
    <3>1. SectorCount \in Nat /\ SectorCount - 1 \in Nat /\ Age(c, o) \in Nat
      BY <1>1, Numbers
    <3>2. \A n \in Nat : Span(n) \in Nat
      BY Spans
    <3> HIDE DEF S
    <3> QED BY <3>1, <3>2
  <2> DEFINE x == Span(SectorCount)  y == Span(SectorCount - 1)
             z == Span(Age(c, o))
  <2>8. hi[c] - lo[o] <= x
    <3> HIDE DEF x, y, z
    <3>1. x = y + Room /\ z <= y /\ lo[c] <= lo[o] + z
          /\ x \in Nat /\ y \in Nat /\ z \in Nat
      BY <2>1, <2>4, <2>6, <2>7 DEF x, y, z
    <3> QED BY <2>2, <2>3, <3>1, Numbers
  <2> QED BY <2>8 DEF Span
<1> QED BY <1>4, <1>5 DEF Oldest

\* The iterators go over the records of the log, one by one.
LEMMA LogForward ==
    ASSUME FlashType, NEW c, NEW lo, NEW hi, NEW E, TheLog(c, lo, hi, E),
           NEW o, Oldest(ValidSectors, c, o)
    PROVE  /\ lo[o] \in Nat /\ hi[c] \in Nat /\ lo[o] <= hi[c]
           /\ Forward = IdsOf(lo[o], hi[c])
<1>1. Chain(lo[o], hi[c])
  BY ChainIs
<1>2. PICK p \in ValidSectors :
        Oldest(ValidSectors, c, p) /\ hi[c] - lo[p] <= SectorCount * Room
  BY OldestThere
<1>3. p = o
  <2>1. /\ o \in ValidSectors /\ o \in Sectors /\ p \in Sectors /\ c \in Sectors
        /\ Age(c, o) <= Age(c, p) /\ Age(c, p) <= Age(c, o)
    BY <1>2, LogFacts DEF Oldest
  <2> QED BY <2>1, Ages
<1> QED BY <1>1, <1>2, <1>3, ForwardIs DEF Chain

LEMMA LogBackward ==
    ASSUME FlashType, last_record_offset \in 0 .. NoOffset,
           NEW c, NEW lo, NEW hi, NEW E, TheLog(c, lo, hi, E),
           NEW o, Oldest(ValidSectors, c, o),
           Names(ValidSectors, hdr, cell, last_record_offset,
                 last_record_sequence, hi[c])
    PROVE  /\ Backward = [n \in 1 .. (hi[c] - lo[o]) |-> hi[c] - n]
           /\ IteratorInit = IF lo[o] = hi[c] THEN NoIt ELSE On(hi[c] - 1)
           /\ lo[o] # hi[c] => On(hi[c] - 1).rec.id = hi[c] - 1
<1>1. Chain(lo[o], hi[c])
  BY ChainIs
<1>2. PICK p \in ValidSectors :
        Oldest(ValidSectors, c, p) /\ hi[c] - lo[p] <= SectorCount * Room
  BY OldestThere
<1>3. p = o
  <2>1. /\ o \in ValidSectors /\ o \in Sectors /\ p \in Sectors /\ c \in Sectors
        /\ Age(c, o) <= Age(c, p) /\ Age(c, p) <= Age(c, o)
    BY <1>2, LogFacts DEF Oldest
  <2> QED BY <2>1, Ages
<1>4. IteratorInit = IF lo[o] = hi[c] THEN NoIt ELSE On(hi[c] - 1)
  BY <1>1, InitIs
<1>5. lo[o] # hi[c] => On(hi[c] - 1).rec.id = hi[c] - 1
  BY <1>1 DEF Chain
<1> QED BY <1>1, <1>2, <1>3, <1>4, <1>5, BackwardIs

\* Where no sector is valid there is no record.
LEMMA NoLogWalks ==
    ASSUME FlashType, ValidSectors = {}
    PROVE  /\ Forward = <<>>
           /\ last_record_offset = NoOffset => Backward = <<>>
                                               /\ IteratorInit = NoIt
<1>1. OldestOf(ValidSectors) = NoSector
  <2> DEFINE taken == [s \in Sectors |-> [b \in 0 .. SectorCount |->
                IF s \in ValidSectors /\
                   (b = NoSector \/ SeqBefore(hdr[s].seq, hdr[b].seq))
                THEN s ELSE b]]
             k == [s \in Sectors |-> 0]
  <2>1. OldestOf(ValidSectors) = BestBy(taken)
    BY DEF OldestOf, BestOf, BestBy
  <2>2. NoSector \in 0 .. SectorCount
    BY Numbers DEF NoSector
  <2>3. Takes(taken, k, ValidSectors)
    BY <2>2 DEF Takes
  <2>4. k \in [Sectors -> Nat] /\ ValidSectors \in SUBSET Sectors
    BY DEF ValidSectors
  <2> HIDE DEF taken, k
  <2> QED BY <2>1, <2>3, <2>4, BestIs
<1>2. IteratorInitOldest = NoIt
  BY <1>1, FirstFromNone DEF IteratorInitOldest
<1>3. last_record_offset = NoOffset => IteratorInit = NoIt
  BY DEF IteratorInit, IteratorSetOffset
<1> DEFINE none == [n \in 1 .. 0 |-> NoIt]
<1>4. ASSUME NEW move PROVE WalkBy(move, NoIt) = <<>>
  <2>1. Along(move, NoIt, none, 0)
    BY DEF Along
  <2>2. 0 \in 0 .. (SectorCount * Room)
    BY Numbers
  <2>3. WalkBy(move, NoIt) = [n \in 1 .. 0 |-> none[n].rec.id]
    <3> HIDE DEF none
    <3> QED BY <2>1, <2>2, WalkIs
  <2> QED BY <2>3
<1>5. Forward = WalkBy([q \in Iterators |-> IteratorNext(q)], IteratorInitOldest)
  BY DEF Forward, Walk, WalkBy
<1>6. Backward = WalkBy([q \in Iterators |-> IteratorPrev(q)], IteratorInit)
  BY DEF Backward, Walk, WalkBy
<1> QED BY <1>2, <1>3, <1>4, <1>5, <1>6

----------------------------------------------------------------------------
(* FLASH operations and the log.                                           *)

\* How many sectors before it the record is at most that a record follows,
\* after n failures; and the newest one before the sector of the writer, by
\* whether that is closed.
Back(n) == SectorCount + n
NewestBack(n, closed) == IF closed THEN Back(n) - 1 ELSE Back(n)

LEMMA BackIs ==
    ASSUME NEW m \in Nat, NEW n \in Nat, m <= n, NEW b \in BOOLEAN
    PROVE  /\ Back(m) \in Nat /\ Back(n) \in Nat /\ Back(m) <= Back(n)
           /\ NewestBack(m, b) \in Nat /\ NewestBack(n, b) \in Nat
           /\ NewestBack(m, b) <= NewestBack(n, b)
           /\ NewestBack(m, b) <= Back(m)
           /\ SectorCount - 1 <= NewestBack(m, b)
           /\ NewestBack(m, TRUE) < Back(m)
           /\ m < n => Back(m) <= NewestBack(n, b)
           /\ SectorCount - 1 \in Nat
BY Numbers DEF Back, NewestBack

LEMMA ClosedBack ==
    ASSUME NEW m \in Nat
    PROVE  NewestBack(m, TRUE) \in Nat /\ NewestBack(m, TRUE) \in Int
BY Numbers DEF Back, NewestBack

\* At most the oldest sector of the ring up to c is given up.
Less(c) ==
    /\ ValidSectors' \in {ValidSectors, ValidSectors \ {SectorNext(c)}}
    /\ SameView(ValidSectors', hdr, cell, hdr', cell')
    /\ faults <= faults'

LEMMA ViewIs == FlashType => ViewType(ValidSectors, hdr, cell)
BY DEF FlashType, ViewType, ValidSectors

LEMMA LessLog ==
    ASSUME FlashType, FlashType', NEW c, NEW lo, NEW hi,
           TheLog(c, lo, hi, Back(faults)), Less(c)
    PROVE  /\ TheLog(c, lo, hi, Back(faults))'
           /\ ValidSectors' \subseteq ValidSectors
           /\ c \in ValidSectors'
           /\ hdr'[c].seq = hdr[c].seq
           /\ \A o, q, k : Names(ValidSectors, hdr, cell, o, q, k) =>
                                Names(ValidSectors', hdr', cell', o, q, k)
           /\ \A w : EndAt(cell[c], w) => EndAt(cell'[c], w)
           /\ \A o, q, w, F, G :
                F \in Int /\ G \in Int /\ F <= G /\ Near(hdr, o, q, c, w, F)
                => Near(hdr', o, q, c, w, G)
<1> DEFINE V == ValidSectors  W == ValidSectors'
           E == Back(faults)  F == Back(faults')
<1>1. /\ ViewType(V, hdr, cell) /\ ViewType(W, hdr', cell')
      /\ E \in Nat /\ F \in Nat /\ E <= F
  <2>1. ViewType(V, hdr, cell) /\ ViewType(W, hdr', cell')
    BY DEF FlashType, ViewType, ValidSectors
  <2>2. faults \in Nat /\ faults' \in Nat /\ faults <= faults'
    BY ConstantsAssumption DEF FlashType, Less
  <2>3. E \in Nat /\ F \in Nat /\ E <= F
    BY <2>2, BackIs
  <2> QED BY <2>1, <2>3
<1>2. /\ c \in Sectors /\ lo \in [Sectors -> Nat] /\ hi \in [Sectors -> Nat]
      /\ LogAt(V, hdr, cell, c, lo, hi, E) /\ c \in V
  BY LogFacts DEF TheLog
<1>3. SectorNext(c) \in Sectors \ {c}
  BY <1>2, NextSector
<1>4. W \subseteq V /\ c \in W
  BY <1>2, <1>3 DEF Less
<1>5. LogAt(W, hdr, cell, c, lo, hi, E)
  <2>1. CASE W = V
    BY <2>1, <1>2
  <2>2. CASE W # V
    <3> DEFINE n == SectorNext(c)
    <3>1. W = V \ {n} /\ n \in V /\ n \in Sectors /\ n = SectorNext(c)
      BY <2>2, <1>3 DEF Less
    <3> HIDE DEF V, W, n, E
    <3>2. LogAt(V \ {n}, hdr, cell, c, lo, hi, E)
      BY <1>1, <1>2, <3>1, DropOldest
    <3> QED BY <3>1, <3>2
  <2> QED BY <2>1, <2>2
<1>6. SameView(W, hdr, cell, hdr', cell')
  BY DEF Less
<1>7. LogAt(W, hdr', cell', c, lo, hi, F)
  <2>1. ViewType(W, hdr, cell)
    BY <1>1, <1>4 DEF ViewType
  <2> HIDE DEF V, W, E, F
  <2> QED BY <1>1, <1>5, <1>6, <2>1, SameLog
<1>8. ASSUME NEW o, NEW q, NEW k, Names(V, hdr, cell, o, q, k)
      PROVE  Names(W, hdr', cell', o, q, k)
  <2> HIDE DEF V, W
  <2> QED BY <1>4, <1>6, <1>8 DEF Names, SameView
<1>9. ASSUME NEW w, EndAt(cell[c], w) PROVE EndAt(cell'[c], w)
  <2>1. /\ \A a : Holds(cell'[c], a) <=> Holds(cell[c], a)
        /\ \A a : Holds(cell[c], a) => cell'[c][a] = cell[c][a]
    BY <1>4, <1>6 DEF SameView
  <2>2. \A a : Holds(cell[c], a) => After(cell'[c], a) = After(cell[c], a)
    BY <2>1 DEF After
  <2> DEFINE e == cell[c]  f == cell'[c]
  <2>3. EndAt(e, w) /\ (\A a : Holds(f, a) <=> Holds(e, a))
        /\ \A a : Holds(e, a) => After(f, a) = After(e, a)
    BY <1>9, <2>1, <2>2
  <2> HIDE DEF e, f
  <2>4. EndAt(f, w)
    BY <2>3 DEF EndAt
  <2> QED BY <2>4 DEF f
<1>10. hdr'[c].seq = hdr[c].seq
  BY <1>4, <1>6 DEF SameView
<1>11. ASSUME NEW o, NEW q, NEW w, NEW M \in Int, NEW N \in Int, M <= N,
              Near(hdr, o, q, c, w, M)
       PROVE  Near(hdr', o, q, c, w, N)
  <2>1. Near(hdr, o, q, c, w, N)
    BY <1>11, NearMore
  <2> QED BY <2>1, <1>10 DEF Near
<1>12. TheLog(c, lo, hi, Back(faults))'
  BY <1>2, <1>7 DEF TheLog
<1> QED BY <1>4, <1>8, <1>9, <1>10, <1>11, <1>12

\* Nothing but sector s changes.
Only(s) == \A t \in Sectors \ {s} : hdr'[t] = hdr[t] /\ cell'[t] = cell[t]

LEMMA OnlyLess ==
    ASSUME NEW s \in Sectors, Only(s), s \notin ValidSectors', NEW c,
           s \notin ValidSectors \/ s = SectorNext(c), faults <= faults'
    PROVE  Less(c)
<1>1. ValidSectors' = ValidSectors \ {s}
  BY DEF Only, ValidSectors
<1>2. SameView(ValidSectors', hdr, cell, hdr', cell')
  <2>1. \A t \in ValidSectors' : t \in Sectors \ {s}
    BY DEF ValidSectors
  <2>2. \A t \in ValidSectors' : hdr'[t] = hdr[t] /\ cell'[t] = cell[t]
    BY <2>1 DEF Only
  <2> QED BY <2>2 DEF SameView
<1>3. ValidSectors' \in {ValidSectors, ValidSectors \ {SectorNext(c)}}
  BY <1>1
<1> QED BY <1>2, <1>3 DEF Less

LEMMA SameLess ==
    ASSUME NEW c, UNCHANGED flash, faults <= faults'
    PROVE  Less(c) /\ ValidSectors' = ValidSectors
BY DEF flash, Less, SameView, ValidSectors

\* What is left of a fault.
LEMMA MoreFaults ==
    ASSUME FlashType,
           \/ UNCHANGED faults
           \/ \E f : Fault(f)
    PROVE  faults <= faults'
<1>1. faults \in Nat
  BY ConstantsAssumption DEF FlashType
<1> QED BY <1>1 DEF Fault

LEMMA CutEraseOnly ==
    ASSUME FlashType, NEW s \in Sectors, CutErase(s)
    PROVE  Only(s) /\ s \notin ValidSectors'
BY DEF FlashType, CutErase, Only, ValidSectors

LEMMA TryEraseOnly ==
    ASSUME FlashType, NEW s \in Sectors, s \notin ValidSectors, NEW good,
           TryErase(s, good)
    PROVE  Only(s) /\ s \notin ValidSectors' /\ faults <= faults'
<1>1. CASE good /\ EraseSector(s) /\ UNCHANGED faults
  <2>1. faults <= faults'
    BY <1>1, MoreFaults
  <2>2. Only(s) /\ s \notin ValidSectors'
    BY <1>1 DEF FlashType, EraseSector, NoHeader, Only, ValidSectors
  <2> QED BY <2>1, <2>2
<1>2. CASE ~good /\ Fault("erase") /\ UNCHANGED flash
  BY <1>2, MoreFaults DEF flash, Only, ValidSectors
<1>3. CASE ~good /\ Fault("erase") /\ CutErase(s)
  BY <1>3, MoreFaults, CutEraseOnly
<1> QED BY <1>1, <1>2, <1>3 DEF TryErase

LEMMA SetHeaderOnly ==
    ASSUME FlashType, NEW s \in Sectors, NEW h, SetHeader(s, h)
    PROVE  /\ Only(s) /\ hdr'[s] = h
           /\ h.state # "VALID" => s \notin ValidSectors'
BY DEF FlashType, SetHeader, Only, ValidSectors

LEMMA CutHeaderOnly ==
    ASSUME FlashType, "torn_word" \notin Faults, NEW s \in Sectors, NEW h,
           CutHeader(s, h)
    PROVE  Only(s) /\ s \notin ValidSectors'
<1>1. SetHeader(s, [state |-> "PENDING", seq |-> h.seq, ok |-> FALSE])
  BY DEF CutHeader
<1> QED BY <1>1, SetHeaderOnly

LEMMA TryHeaderOnly ==
    ASSUME FlashType, "torn_word" \notin Faults, NEW s \in Sectors, NEW h,
           NEW good \in BOOLEAN, TryHeader(s, h, good)
    PROVE  /\ faults <= faults'
           /\ Only(s)
           /\ good => hdr'[s] = h
           /\ \/ ~good /\ UNCHANGED flash
              \/ ~good /\ s \notin ValidSectors'
              \/ good /\ (h.state # "VALID" => s \notin ValidSectors')
<1>1. CASE good /\ SetHeader(s, h) /\ UNCHANGED faults
  BY <1>1, MoreFaults, SetHeaderOnly
<1>2. CASE ~good /\ Fault("write") /\ UNCHANGED flash
  BY <1>2, MoreFaults DEF flash, Only
<1>3. CASE ~good /\ Fault("write") /\ CutHeader(s, h)
  BY <1>3, MoreFaults, CutHeaderOnly
<1> QED BY <1>1, <1>2, <1>3 DEF TryHeader

\* A header write to a sector that is the oldest one or not valid.
LEMMA TryHeaderLess ==
    ASSUME FlashType, "torn_word" \notin Faults, NEW s \in Sectors, NEW h,
           NEW good \in BOOLEAN, TryHeader(s, h, good), NEW c,
           s \notin ValidSectors \/ s = SectorNext(c),
           good => h.state # "VALID"
    PROVE  /\ Less(c)
           /\ s \notin ValidSectors => s \notin ValidSectors'
           /\ good => s \notin ValidSectors' /\ hdr'[s] = h
<1>1. CASE s \notin ValidSectors'
  BY <1>1, TryHeaderOnly, OnlyLess
<1>2. CASE UNCHANGED flash /\ ~good
  <2>1. faults <= faults'
    BY TryHeaderOnly
  <2> QED BY <1>2, <2>1, SameLess
<1> QED BY <1>1, <1>2, TryHeaderOnly

LEMMA TryEraseLess ==
    ASSUME FlashType, NEW s \in Sectors, s \notin ValidSectors, NEW good,
           TryErase(s, good), NEW c
    PROVE  Less(c) /\ s \notin ValidSectors'
BY TryEraseOnly, OnlyLess

----------------------------------------------------------------------------
(* The invariant: what is on FLASH is a log, and the writer is at its end. *)

\* A log that is not reset, on FLASH that programs a state word at once or not
\* at all, with sequence numbers for twice around the ring and one more for
\* each failure of a FLASH operation (the code has 2^32 of them): how far back
\* the record before another one can be.
Plain ==
    /\ "reset" \notin Ops
    /\ "torn_word" \notin Faults
    /\ 2 * SectorCount + MaxFaults < SeqMod

\* The writer is after the records of sector c, and knows the newest record,
\* that before u.
Cursor(c, u) ==
    /\ c = current_sector
    /\ hdr[c].seq = current_sequence
    /\ Names(ValidSectors, hdr, cell, last_record_offset,
             last_record_sequence, u)
    /\ Near(hdr, last_record_offset, last_record_sequence, c, write_addr,
            NewestBack(faults, current_closed))
    /\ EndAt(cell[c], write_addr)
    /\ staged_sector \in {NoSector, SectorNext(c)} \ ValidSectors

\* What the call in progress has done.
Progress(c) ==
    /\ op # "reset"
    /\ pc # "reset_erase"
    /\ pc \in {"stage_erase", "stage_header", "stage_commit"} \union SectorInit
            => SectorNext(c) \notin ValidSectors
    /\ pc \in StageSector /\ then = "sector_erase" => current_closed
    /\ pc \in SectorInit => /\ op = "append"
                            /\ current_closed
                            /\ staged_sector = SectorNext(c)
    /\ pc = "sector_commit" => hdr[SectorNext(c)] =
                                PendingHeader((current_sequence + 1) % SeqMod)
    /\ pc = "end_marker" => write_addr # 0
    /\ pc = "commit" => /\ ~current_closed
                        /\ cell[c][write_addr] = NewRecord

LogOf(c, lo, hi) ==
    /\ TheLog(c, lo, hi, Back(faults))
    /\ hi[c] = next_id
    /\ pc # "off" => Cursor(c, hi[c]) /\ Progress(c)

\* Before the first sector is begun.
NoLog ==
    /\ ValidSectors = {}
    /\ next_id = 0
    /\ pc # "off" =>
        /\ op = "init"
        /\ pc \in {"reset_erase"} \union SectorInit
        /\ last_record_offset = NoOffset
        /\ pc = "sector_commit" => hdr[0] = PendingHeader(0)

LogInv == NoLog \/ \E c, lo, hi : LogOf(c, lo, hi)

LEMMA LogParts ==
    ASSUME TypeInv, NEW c, NEW lo, NEW hi, LogOf(c, lo, hi)
    PROVE  /\ FlashType /\ TheLog(c, lo, hi, Back(faults))
           /\ c \in ValidSectors /\ c \in Sectors
           /\ SectorNext(c) \in Sectors \ {c}
           /\ faults \in Nat /\ current_closed \in BOOLEAN
           /\ write_addr \in 0 .. Room
           /\ last_record_offset \in 0 .. NoOffset
           /\ hi[c] \in Nat /\ hi[c] = next_id
<1>1. FlashType /\ TheLog(c, lo, hi, Back(faults))
  BY TypeParts DEF TypeInv, LogOf
<1>2. c \in ValidSectors /\ c \in Sectors /\ hi[c] \in Nat
  BY <1>1, LogFacts
<1>3. SectorNext(c) \in Sectors \ {c}
  BY <1>2, NextSector
<1>4. faults \in Nat
  BY <1>1, ConstantsAssumption DEF FlashType
<1>5. hi[c] = next_id
  BY DEF LogOf
<1> QED BY <1>1, <1>2, <1>3, <1>4, <1>5 DEF TypeInv, TypeOK

\* Where a valid sector is not the one after the newest.
LEMMA StagedOut == NoSector \notin Sectors
BY Numbers DEF NoSector

\* The writer stays where it is, while at most the oldest records are given up.
LEMMA CursorStays ==
    ASSUME TypeInv, TypeInv', NEW c, NEW lo, NEW hi, LogOf(c, lo, hi), Less(c),
           Cursor(c, hi[c]),
           UNCHANGED <<current_sector, current_sequence, write_addr,
                       last_record_offset, last_record_sequence>>,
           \/ current_closed' = current_closed
           \/ ~current_closed'
           \/ faults < faults',
           staged_sector' \in {staged_sector, NoSector, SectorNext(c)},
           staged_sector' # staged_sector => staged_sector' \notin ValidSectors'
    PROVE  Cursor(c, hi[c])'
<1>1. /\ FlashType /\ FlashType' /\ TheLog(c, lo, hi, Back(faults))
      /\ faults \in Nat /\ faults' \in Nat /\ faults <= faults'
      /\ current_closed \in BOOLEAN /\ current_closed' \in BOOLEAN
  <2>1. FlashType' /\ faults' \in Nat
    <3>1. FlashType'
      BY DEF TypeInv, TypeOK, FlashType
    <3> QED BY <3>1, ConstantsAssumption DEF FlashType
  <2>2. current_closed' \in BOOLEAN
    BY DEF TypeInv, TypeOK
  <2>3. faults <= faults'
    BY DEF Less
  <2> QED BY <2>1, <2>2, <2>3, LogParts
<1>2. NewestBack(faults, current_closed) \in Int
      /\ NewestBack(faults', current_closed') \in Int
      /\ NewestBack(faults, current_closed) <= NewestBack(faults', current_closed')
  <2>1. /\ NewestBack(faults, current_closed) \in Nat
        /\ NewestBack(faults', current_closed) \in Nat
        /\ NewestBack(faults', current_closed') \in Nat
        /\ NewestBack(faults, current_closed) <= NewestBack(faults', current_closed)
        /\ NewestBack(faults, current_closed) <= Back(faults)
        /\ Back(faults) <= Back(faults')
        /\ Back(faults) \in Nat /\ Back(faults') \in Nat
        /\ faults < faults' => Back(faults) <= NewestBack(faults', current_closed')
    BY <1>1, BackIs
  <2>2. ~current_closed' => NewestBack(faults', current_closed') = Back(faults')
    BY DEF NewestBack
  <2>3. CASE current_closed' = current_closed
    BY <2>1, <2>3
  <2>4. CASE ~current_closed'
    <3> DEFINE x == NewestBack(faults, current_closed)  y == Back(faults)
               z == Back(faults')  v == NewestBack(faults', current_closed')
    <3> HIDE DEF x, y, z, v
    <3>1. x \in Nat /\ y \in Nat /\ z \in Nat /\ v = z /\ x <= y /\ y <= z
      BY <2>1, <2>2, <2>4 DEF x, y, z, v
    <3>2. x \in Int /\ v \in Int /\ x <= v
      BY <3>1
    <3> QED BY <3>2 DEF x, v
  <2>5. CASE faults < faults'
    <3> DEFINE x == NewestBack(faults, current_closed)  y == Back(faults)
               v == NewestBack(faults', current_closed')
    <3> HIDE DEF x, y, v
    <3>1. x \in Nat /\ y \in Nat /\ v \in Nat /\ x <= y /\ y <= v
      BY <2>1, <2>5 DEF x, y, v
    <3>2. x \in Int /\ v \in Int /\ x <= v
      BY <3>1
    <3> QED BY <3>2 DEF x, v
  <2> QED BY <2>3, <2>4, <2>5
<1>3. /\ ValidSectors' \subseteq ValidSectors
      /\ hdr'[c].seq = hdr[c].seq
      /\ \A o, q, k : Names(ValidSectors, hdr, cell, o, q, k) =>
                            Names(ValidSectors', hdr', cell', o, q, k)
      /\ \A w : EndAt(cell[c], w) => EndAt(cell'[c], w)
      /\ \A o, q, w, F, G :
            F \in Int /\ G \in Int /\ F <= G /\ Near(hdr, o, q, c, w, F)
            => Near(hdr', o, q, c, w, G)
  BY <1>1, LessLog
<1>4. Names(ValidSectors', hdr', cell', last_record_offset',
            last_record_sequence', hi[c])
  BY <1>3 DEF Cursor
<1>5. Near(hdr', last_record_offset', last_record_sequence', c, write_addr',
           NewestBack(faults', current_closed'))
  BY <1>2, <1>3 DEF Cursor
<1>6. EndAt(cell'[c], write_addr')
  BY <1>3 DEF Cursor
<1>7. staged_sector' \in {NoSector, SectorNext(c)} \ ValidSectors'
  <2>1. NoSector \notin ValidSectors'
    BY StagedOut DEF ValidSectors
  <2> QED BY <1>3, <2>1 DEF Cursor
<1> QED BY <1>3, <1>4, <1>5, <1>6, <1>7 DEF Cursor

\* A step of a call, of which the writer stays where it is.
LEMMA LogStays ==
    ASSUME TypeInv, TypeInv', NEW c, NEW lo, NEW hi, LogOf(c, lo, hi), Less(c),
           pc # "off",
           UNCHANGED <<current_sector, current_sequence, write_addr,
                       last_record_offset, last_record_sequence>>,
           \/ current_closed' = current_closed
           \/ ~current_closed'
           \/ faults < faults',
           staged_sector' \in {staged_sector, NoSector, SectorNext(c)},
           staged_sector' # staged_sector => staged_sector' \notin ValidSectors'
    PROVE  /\ TheLog(c, lo, hi, Back(faults))'
           /\ Cursor(c, hi[c])'
           /\ Progress(c)' /\ next_id' = next_id => LogOf(c, lo, hi)'
<1>1. Cursor(c, hi[c])
  BY DEF LogOf
<1>2. Cursor(c, hi[c])'
  BY <1>1, CursorStays
<1>3. FlashType /\ FlashType' /\ TheLog(c, lo, hi, Back(faults))
  BY LogParts DEF TypeInv, TypeOK, FlashType
<1>4. TheLog(c, lo, hi, Back(faults))'
  BY <1>3, LessLog
<1>5. hi[c] = next_id
  BY DEF LogOf
<1> QED BY <1>2, <1>4, <1>5 DEF LogOf

\* A call that fails.
LEMMA FailLog ==
    ASSUME TypeInv, TypeInv', NEW c, NEW lo, NEW hi, LogOf(c, lo, hi), Less(c),
           pc # "off", Fail, next_id' = next_id,
           UNCHANGED <<current_sector, current_sequence, write_addr,
                       last_record_offset, last_record_sequence, staged_sector>>,
           current_closed' = current_closed \/ faults < faults'
    PROVE  LogOf(c, lo, hi)'
<1>1. /\ TheLog(c, lo, hi, Back(faults))'
      /\ Cursor(c, hi[c])'
      /\ Progress(c)' => LogOf(c, lo, hi)'
      /\ hi[c] = next_id'
  BY LogStays, LogParts
<1>2. CASE op = "init"
  <2>1. pc' = "off"
    BY <1>2 DEF Fail
  <2> QED BY <1>1, <2>1 DEF LogOf
<1>3. CASE op # "init"
  <2>1. pc' = "idle" /\ op' = "none"
    BY <1>3 DEF Fail
  <2>2. Progress(c)'
    BY <2>1 DEF Progress, StageSector, SectorInit
  <2> QED BY <1>1, <2>2
<1> QED BY <1>2, <1>3

\* Power failure leaves what is on FLASH.
LEMMA OffLog ==
    ASSUME TypeInv, TypeInv', NEW c, NEW lo, NEW hi, LogOf(c, lo, hi), Less(c),
           pc' = "off", next_id' = next_id
    PROVE  LogOf(c, lo, hi)'
<1>1. FlashType /\ FlashType' /\ TheLog(c, lo, hi, Back(faults))
  BY LogParts DEF TypeInv, TypeOK, FlashType
<1>2. TheLog(c, lo, hi, Back(faults))'
  BY <1>1, LessLog
<1>3. hi[c] = next_id
  BY LogParts
<1> QED BY <1>2, <1>3 DEF LogOf

----------------------------------------------------------------------------
(* The steps.                                                              *)

\* The log after a step: the records that are left go up to the same one, or
\* there are none.
Shorter(c, lo, hi, c2, lo2, hi2) ==
    \/ /\ hi2[c2] = hi[c]
       /\ \A s \in ValidSectors' : \E t \in ValidSectors : lo[t] <= lo2[s]
    \/ hi2[c2] = 0 /\ \A s \in ValidSectors' : lo2[s] = 0

Kept(c, lo, hi) ==
    \E c2, lo2, hi2 : LogOf(c2, lo2, hi2)' /\ Shorter(c, lo, hi, c2, lo2, hi2)

LEMMA SameKept ==
    ASSUME TypeInv, NEW c, NEW lo, NEW hi, LogOf(c, lo, hi),
           ValidSectors' \subseteq ValidSectors, LogOf(c, lo, hi)'
    PROVE  Kept(c, lo, hi)
<1>1. \A s \in ValidSectors : lo[s] \in Nat
  BY LogParts, LogFacts
<1>2. \A s \in ValidSectors' : s \in ValidSectors /\ lo[s] <= lo[s]
  BY <1>1
<1>3. Shorter(c, lo, hi, c, lo, hi)
  BY <1>2 DEF Shorter
<1> QED BY <1>3 DEF Kept

LEMMA LessSubset ==
    ASSUME NEW c, Less(c)
    PROVE  ValidSectors' \subseteq ValidSectors /\ faults <= faults'
BY DEF Less

\* A sector without a header of the log is not one of its sectors.
LEMMA NotReadable ==
    ASSUME NEW s \in Sectors
    PROVE  /\ s \in ValidSectors <=> Readable(s) /\ hdr[s].state = "VALID"
           /\ Readable(s) /\ hdr[s].state = "STAGED" => s \notin ValidSectors
           /\ ~Readable(s) => s \notin ValidSectors
BY DEF Readable, ValidSectors

\* The id that syslog.c goes on with, of a log with a writer.
LEMMA NextIdOf ==
    ASSUME FlashType, last_record_offset \in 0 .. NoOffset,
           NEW c, NEW lo, NEW hi, NEW E, TheLog(c, lo, hi, E),
           Names(ValidSectors, hdr, cell, last_record_offset,
                 last_record_sequence, hi[c])
    PROVE  \/ SyslogNextId = hi[c]
           \/ /\ SyslogNextId = 0
              /\ \A s \in ValidSectors, a \in Units : ~Holds(cell[s], a)
<1>1. PICK o \in ValidSectors : Oldest(ValidSectors, c, o)
  BY OldestThere
<1>2. /\ IteratorInit = IF lo[o] = hi[c] THEN NoIt ELSE On(hi[c] - 1)
      /\ lo[o] # hi[c] => On(hi[c] - 1).rec.id = hi[c] - 1
  BY <1>1, LogBackward
<1>3. /\ lo[o] \in Nat /\ hi[c] \in Nat
      /\ \A s \in ValidSectors, a \in Units : Holds(cell[s], a) =>
            cell[s][a].id \in lo[o] .. (hi[c] - 1)
  <2>1. /\ ViewType(ValidSectors, hdr, cell) /\ c \in Sectors
        /\ lo \in [Sectors -> Nat] /\ hi \in [Sectors -> Nat]
        /\ RingAt(ValidSectors, hdr, c) /\ RunsAt(ValidSectors, cell, c, lo, hi)
    BY LogFacts
  <2>2. \A s \in ValidSectors, a \in Units : Holds(cell[s], a) =>
            cell[s][a].id \in lo[o] .. (hi[c] - 1)
    BY <1>1, <2>1, LogHas
  <2> QED BY <1>1, <2>2, LogFacts
<1>4. CASE lo[o] = hi[c]
  <2>1. SyslogNextId = 0
    BY <1>2, <1>4 DEF SyslogNextId
  <2>2. lo[o] .. (hi[c] - 1) = {}
    BY <1>3, <1>4
  <2> QED BY <1>3, <2>1, <2>2
<1>5. CASE lo[o] # hi[c]
  <2>1. IteratorInit = On(hi[c] - 1) /\ IteratorInit.rec.id = hi[c] - 1
    BY <1>2, <1>5
  <2>2. IteratorInit # NoIt
    <3>1. Chain(lo[o], hi[c])
      BY <1>1, ChainIs
    <3>2. hi[c] - 1 \in lo[o] .. (hi[c] - 1)
      BY <1>3, <1>5, <3>1 DEF Chain
    <3> QED BY <2>1, <3>1, <3>2 DEF Chain
  <2>3. SyslogNextId = hi[c] - 1 + 1
    BY <2>1, <2>2 DEF SyslogNextId
  <2> QED BY <1>3, <2>3
<1> QED BY <1>4, <1>5

NextIdsRight ==
    \A e, l, h, E :
        /\ FlashType /\ last_record_offset \in 0 .. NoOffset
        /\ TheLog(e, l, h, E)
        /\ Names(ValidSectors, hdr, cell, last_record_offset,
                 last_record_sequence, h[e])
        => \/ SyslogNextId = h[e]
           \/ /\ SyslogNextId = 0
              /\ \A s \in ValidSectors, a \in Units : ~Holds(cell[s], a)

LEMMA NextIds == NextIdsRight
BY NextIdOf DEF NextIdsRight

\* nlog3_stage_sector() succeeds.
LEMMA StagedLog ==
    ASSUME Plain, TypeInv, TypeInv', NEW c, NEW lo, NEW hi, LogOf(c, lo, hi),
           pc \in StageSector, Less(c), SectorNext(c) \notin ValidSectors',
           Staged(SectorNext(c))
    PROVE  Kept(c, lo, hi)
<1>1. pc # "off" /\ Progress(c) /\ Cursor(c, hi[c])
  BY DEF LogOf, StageSector
<1>2. /\ TheLog(c, lo, hi, Back(faults))'
      /\ Cursor(c, hi[c])'
      /\ Progress(c)' /\ next_id' = next_id => LogOf(c, lo, hi)'
      /\ hi[c] = next_id
  BY <1>1, LogStays, LogParts DEF Staged
<1>3. ValidSectors' \subseteq ValidSectors
  BY LessSubset
<1>4. ASSUME op # "init", then = "done" PROVE FALSE
  BY <1>1, <1>4 DEF TypeInv, TypeOK, ControlInv, Progress, StageSector
<1>5. CASE then # "done"
  <2>1. pc' = then /\ op' = op /\ then' = then /\ next_id' = next_id
    BY <1>5 DEF Staged, request
  <2>2. op = "append" /\ then \in {"record", "sector_erase"}
    BY <1>5 DEF TypeInv, ControlInv, TypeOK, StageSector
  <2>3. current_closed' = current_closed /\ staged_sector' = SectorNext(c)
    BY DEF Staged
  <2>4. Progress(c)'
    <3>1. pc' = "sector_erase" => current_closed'
      BY <1>1, <2>1, <2>3 DEF Progress
    <3> QED BY <2>1, <2>2, <2>3, <3>1
            DEF Progress, StageSector, SectorInit
  <2> QED BY <1>2, <1>3, <2>1, <2>4, SameKept
<1>6. CASE then = "done"
  <2>1. /\ pc' = "idle" /\ op' = "none" /\ op = "init"
        /\ next_id' = SyslogNextId'
    BY <1>4, <1>6 DEF Staged, Return
  <2>2. \/ SyslogNextId' = hi[c]
        \/ /\ SyslogNextId' = 0
           /\ \A s \in ValidSectors', a \in Units : ~Holds(cell'[s], a)
    <3>1. FlashType' /\ (last_record_offset \in 0 .. NoOffset)'
      BY DEF TypeInv, TypeOK, FlashType
    <3>2. Names(ValidSectors, hdr, cell, last_record_offset,
                last_record_sequence, hi[c])'
      BY <1>2 DEF Cursor
    <3>3. NextIdsRight'
      BY NextIds, PTL
    <3> QED BY <1>2, <3>1, <3>2, <3>3 DEF NextIdsRight
  <2>3. CASE SyslogNextId' = hi[c]
    <3>1. Progress(c)'
      BY <2>1, <2>3 DEF Progress, StageSector, SectorInit
    <3> QED BY <1>2, <1>3, <2>1, <2>3, <3>1, SameKept
  <2>4. CASE /\ SyslogNextId' = 0
             /\ \A s \in ValidSectors', a \in Units : ~Holds(cell'[s], a)
    <3> DEFINE zero == [s \in Sectors |-> 0]
    <3>1. FlashType' /\ RingAt(ValidSectors', hdr', c) /\ c \in Sectors
      BY <1>2 DEF TheLog, LogAt, TypeInv, TypeOK, FlashType
    <3>2. ViewType(ValidSectors', hdr', cell')
      BY <3>1 DEF FlashType, ViewType, ValidSectors
    <3>3. /\ LogAt(ValidSectors', hdr', cell', c, zero, zero, Back(faults'))
          /\ \A o, q, k : Names(ValidSectors', hdr', cell', o, q, k)
      BY <2>4, <3>1, <3>2, NoRecords
    <3>4. TheLog(c, zero, zero, Back(faults))'
      BY <3>1, <3>3 DEF TheLog
    <3>5. zero[c] = 0
      BY <3>1
    <3>6. Cursor(c, 0)'
      BY <1>2, <3>3 DEF Cursor
    <3>7. Progress(c)'
      BY <2>1, <2>4 DEF Progress, StageSector, SectorInit
    <3>8. LogOf(c, zero, zero)'
      BY <2>1, <2>4, <3>4, <3>5, <3>6, <3>7 DEF LogOf
    <3>9. \A s \in ValidSectors' : zero[s] = 0
      BY DEF ValidSectors
    <3>10. Shorter(c, lo, hi, c, zero, zero)
      <4> HIDE DEF zero
      <4> QED BY <3>5, <3>9 DEF Shorter
    <3> QED BY <3>8, <3>10 DEF Kept
  <2> QED BY <2>2, <2>3, <2>4
<1> QED BY <1>5, <1>6

LEMMA StageLog ==
    ASSUME Plain, TypeInv, TypeInv', NEW c, NEW lo, NEW hi, LogOf(c, lo, hi),
           Stage
    PROVE  Kept(c, lo, hi)
<1> DEFINE s == SectorNext(c)
<1>1. pc = "stage" /\ pc # "off" /\ pc \in StageSector
  BY DEF Stage, StageSector
<1>2. /\ Cursor(c, hi[c]) /\ Progress(c) /\ c = current_sector
  BY <1>1 DEF LogOf, Cursor
<1>3. FlashType /\ s \in Sectors \ {c} /\ faults \in Nat
  BY LogParts
<1>4. CASE /\ Readable(s) /\ hdr[s].state = "STAGED"
           /\ UNCHANGED <<flash, faults>> /\ Staged(s)
  <2>1. Less(c) /\ ValidSectors' = ValidSectors
    BY <1>3, <1>4, SameLess, MoreFaults
  <2>2. s \notin ValidSectors'
    BY <1>3, <1>4, <2>1, NotReadable
  <2> QED BY <1>1, <1>4, <2>1, <2>2, StagedLog
<1>5. ASSUME NEW good \in BOOLEAN, TryHeader(s, HeaderWith(s, "STAGED"), good),
             IF good THEN Staged(s) ELSE Fail /\ UNCHANGED <<plog, next_id>>
      PROVE  Kept(c, lo, hi)
  <2>1. HeaderWith(s, "STAGED").state # "VALID"
    BY DEF HeaderWith
  <2>2. /\ Less(c)
        /\ good => s \notin ValidSectors'
    BY <1>3, <1>5, <2>1, TryHeaderLess DEF Plain
  <2>3. CASE good
    BY <1>1, <1>5, <2>2, <2>3, StagedLog
  <2>4. CASE ~good
    <3>1. LogOf(c, lo, hi)'
      BY <1>1, <1>5, <2>2, <2>4, FailLog DEF plog
    <3> QED BY <2>2, <3>1, SameKept, LessSubset
  <2> QED BY <2>3, <2>4
<1>6. CASE /\ ~Readable(s) /\ Goto("stage_erase")
           /\ UNCHANGED <<flash, plog, next_id, faults>>
  <2>1. Less(c) /\ ValidSectors' = ValidSectors
    BY <1>3, <1>6, SameLess, MoreFaults
  <2>2. s \notin ValidSectors'
    BY <1>3, <1>6, <2>1, NotReadable
  <2>3. Progress(c)'
    BY <1>1, <1>2, <1>6, <2>2
       DEF Progress, Goto, request, plog, StageSector, SectorInit
  <2>4. LogOf(c, lo, hi)'
    BY <1>1, <1>6, <2>1, <2>3, LogStays DEF plog
  <2> QED BY <2>1, <2>4, SameKept
<1> QED BY <1>2, <1>4, <1>5, <1>6 DEF Stage

\* The steps of staging and of nlog3_sector_init() that write where no sector
\* of the log is, and go on or fail.
LEMMA TryLog ==
    ASSUME Plain, TypeInv, TypeInv', NEW c, NEW lo, NEW hi, LogOf(c, lo, hi),
           pc # "off", Less(c), NEW good, NEW l,
           IF good THEN Goto(l) ELSE Fail,
           UNCHANGED <<plog, next_id>>,
           SectorNext(c) \notin ValidSectors,
           \/ pc \in StageSector /\ l \in StageSector
           \/ pc \in SectorInit /\ l \in SectorInit,
           good /\ l = "sector_commit" =>
            hdr'[SectorNext(c)] = PendingHeader((current_sequence + 1) % SeqMod)
    PROVE  Kept(c, lo, hi)
<1>1. Progress(c) /\ ValidSectors' \subseteq ValidSectors
  BY LessSubset DEF LogOf
<1>2. CASE good
  <2>1. /\ pc' = l /\ op' = op /\ then' = then /\ next_id' = next_id
        /\ current_closed' = current_closed /\ staged_sector' = staged_sector
        /\ current_sequence' = current_sequence
    BY <1>2 DEF Goto, request, plog
  <2>2. Progress(c)'
    <3>1. CASE pc \in StageSector /\ l \in StageSector
      BY <1>1, <2>1, <3>1 DEF Progress, StageSector, SectorInit
    <3>2. CASE pc \in SectorInit /\ l \in SectorInit
      BY <1>1, <1>2, <2>1, <3>2 DEF Progress, StageSector, SectorInit
    <3> QED BY <3>1, <3>2
  <2>3. LogOf(c, lo, hi)'
    BY <2>2, LogStays DEF plog
  <2> QED BY <1>1, <2>3, SameKept
<1>3. CASE ~good
  <2>1. LogOf(c, lo, hi)'
    BY <1>3, FailLog DEF plog
  <2> QED BY <1>1, <2>1, SameKept
<1> QED BY <1>2, <1>3

LEMMA StageStepsLog ==
    ASSUME Plain, TypeInv, TypeInv', NEW c, NEW lo, NEW hi, LogOf(c, lo, hi),
           StageErase \/ StageHeader \/ StageCommit
    PROVE  Kept(c, lo, hi)
<1> DEFINE s == SectorNext(c)
<1>1. /\ pc # "off" /\ pc \in StageSector /\ pc \notin SectorInit
      /\ pc \in {"stage_erase", "stage_header", "stage_commit"}
  BY DEF StageErase, StageHeader, StageCommit, StageSector, SectorInit
<1>2. /\ Cursor(c, hi[c]) /\ Progress(c) /\ c = current_sector
      /\ s \notin ValidSectors
  BY <1>1 DEF LogOf, Cursor, Progress
<1>3. FlashType /\ s \in Sectors \ {c}
  BY LogParts
<1>4. CASE StageErase
  <2>1. PICK good \in BOOLEAN :
            TryErase(s, good) /\ IF good THEN Goto("stage_header") ELSE Fail
    BY <1>2, <1>4 DEF StageErase
  <2>2. Less(c)
    BY <1>2, <1>3, <2>1, TryEraseLess
  <2>3. UNCHANGED <<plog, next_id>>
    BY <1>4 DEF StageErase
  <2>4. "stage_header" \in StageSector
    BY DEF StageSector
  <2> QED BY <1>1, <1>2, <2>1, <2>2, <2>3, <2>4, TryLog
<1>5. CASE StageHeader
  <2> DEFINE h == PendingHeader((current_sequence + 1) % SeqMod)
  <2>1. PICK good \in BOOLEAN :
            TryHeader(s, h, good) /\ IF good THEN Goto("stage_commit") ELSE Fail
    BY <1>2, <1>5 DEF StageHeader
  <2>2. h.state # "VALID"
    BY DEF PendingHeader
  <2>3. Less(c)
    BY <1>2, <1>3, <2>1, <2>2, TryHeaderLess DEF Plain
  <2>4. UNCHANGED <<plog, next_id>>
    BY <1>5 DEF StageHeader
  <2>5. "stage_commit" \in StageSector
    BY DEF StageSector
  <2> QED BY <1>1, <1>2, <2>1, <2>3, <2>4, <2>5, TryLog
<1>6. CASE StageCommit
  <2>1. PICK good \in BOOLEAN :
            /\ TryHeader(s, HeaderWith(s, "STAGED"), good)
            /\ IF good THEN Staged(s) ELSE Fail /\ UNCHANGED <<plog, next_id>>
    BY <1>2, <1>6 DEF StageCommit
  <2>2. HeaderWith(s, "STAGED").state # "VALID"
    BY DEF HeaderWith
  <2>3. Less(c) /\ s \notin ValidSectors'
    BY <1>2, <1>3, <2>1, <2>2, TryHeaderLess DEF Plain
  <2>4. CASE good
    BY <1>1, <2>1, <2>3, <2>4, StagedLog
  <2>5. CASE ~good
    <3>1. LogOf(c, lo, hi)'
      BY <1>1, <2>1, <2>3, <2>5, FailLog DEF plog
    <3> QED BY <2>3, <3>1, SameKept, LessSubset
  <2> QED BY <2>4, <2>5
<1> QED BY <1>4, <1>5, <1>6

LEMMA SectorStepsLog ==
    ASSUME Plain, TypeInv, TypeInv', NEW c, NEW lo, NEW hi, LogOf(c, lo, hi),
           SectorErase \/ SectorHeader
    PROVE  Kept(c, lo, hi)
<1> DEFINE s == SectorNext(c)
<1>1. pc # "off" /\ pc \in SectorInit
  BY DEF SectorErase, SectorHeader, SectorInit
<1>2. /\ Progress(c) /\ s \notin ValidSectors
      /\ op = "append" /\ staged_sector = s
  BY <1>1 DEF LogOf, Progress
<1>3. FlashType /\ s \in Sectors \ {c}
  BY LogParts
<1>4. /\ InitSector = s
      /\ InitSequence = (current_sequence + 1) % SeqMod
  BY <1>2 DEF InitSector, InitSequence
<1>5. CASE SectorErase
  <2>1. PICK good \in BOOLEAN :
            TryErase(s, good) /\ IF good THEN Goto("sector_header") ELSE Fail
    BY <1>4, <1>5 DEF SectorErase
  <2>2. Less(c)
    BY <1>2, <1>3, <2>1, TryEraseLess
  <2>3. UNCHANGED <<plog, next_id>>
    BY <1>5 DEF SectorErase
  <2>4. "sector_header" \in SectorInit
    BY DEF SectorInit
  <2> QED BY <1>1, <1>2, <2>1, <2>2, <2>3, <2>4, TryLog
<1>6. CASE SectorHeader
  <2> DEFINE h == PendingHeader((current_sequence + 1) % SeqMod)
  <2>1. PICK good \in BOOLEAN :
            TryHeader(s, h, good) /\ IF good THEN Goto("sector_commit") ELSE Fail
    BY <1>4, <1>6 DEF SectorHeader
  <2>2. h.state # "VALID"
    BY DEF PendingHeader
  <2>3. Less(c) /\ (good => hdr'[s] = h)
    BY <1>2, <1>3, <2>1, <2>2, TryHeaderLess DEF Plain
  <2>4. UNCHANGED <<plog, next_id>>
    BY <1>6 DEF SectorHeader
  <2>5. "sector_commit" \in SectorInit
    BY DEF SectorInit
  <2> QED BY <1>1, <1>2, <2>1, <2>3, <2>4, <2>5, TryLog
<1> QED BY <1>5, <1>6

LEMMA SectorCommitLog ==
    ASSUME Plain, TypeInv, TypeInv', BlankInv, NEW c, NEW lo, NEW hi,
           LogOf(c, lo, hi), SectorCommit
    PROVE  Kept(c, lo, hi)
<1> DEFINE n == SectorNext(c)  V == ValidSectors
           lo2 == [lo EXCEPT ![n] = hi[c]]
           hi2 == [hi EXCEPT ![n] = hi[c]]
<1>1. pc = "sector_commit" /\ pc # "off" /\ pc \in SectorInit
  BY DEF SectorCommit, SectorInit
<1>2. /\ Cursor(c, hi[c]) /\ Progress(c) /\ n \notin V
      /\ op = "append" /\ staged_sector = n /\ current_closed
      /\ hdr[n] = PendingHeader((current_sequence + 1) % SeqMod)
      /\ hi[c] = next_id
  BY <1>1 DEF LogOf, Progress
<1>3. /\ FlashType /\ n \in Sectors \ {c} /\ c \in V /\ c \in Sectors
      /\ TheLog(c, lo, hi, Back(faults)) /\ faults \in Nat /\ hi[c] \in Nat
  BY LogParts
<1>4. /\ InitSector = n
      /\ InitSequence = (current_sequence + 1) % SeqMod
  BY <1>2 DEF InitSector, InitSequence
<1>5. PICK good \in BOOLEAN :
        /\ TryHeader(n, HeaderWith(n, "VALID"), good)
        /\ IF good
           THEN /\ current_sector' = n
                /\ current_sequence' = (current_sequence + 1) % SeqMod
                /\ staged_sector' = NoSector
                /\ write_addr' = 0
                /\ current_closed' = FALSE
                /\ pc' = "stage"
                /\ then' = "record"
                /\ UNCHANGED <<op, size, i, ret>>
           ELSE /\ Fail
                /\ UNCHANGED <<current_sector, current_sequence, staged_sector,
                               write_addr, current_closed>>
  BY <1>2, <1>4 DEF SectorCommit
<1>6. UNCHANGED <<last_record_offset, last_record_sequence, next_id>>
  BY DEF SectorCommit
<1>7. CASE ~good
  <2>1. Less(c)
    BY <1>2, <1>3, <1>5, <1>7, TryHeaderLess DEF Plain
  <2>2. LogOf(c, lo, hi)'
    BY <1>1, <1>5, <1>6, <1>7, <2>1, FailLog
  <2> QED BY <2>1, <2>2, SameKept, LessSubset
<1>8. CASE good
  <2>1. SetHeader(n, HeaderWith(n, "VALID")) /\ faults' = faults
    BY <1>5, <1>8 DEF TryHeader
  <2>2. /\ hdr'[n] = HeaderWith(n, "VALID") /\ cell' = cell
        /\ \A s \in Sectors \ {n} : hdr'[s] = hdr[s]
    BY <1>3, <2>1 DEF SetHeader, FlashType
  <2>3. /\ hdr'[n].state = "VALID" /\ hdr'[n].ok
        /\ hdr'[n].seq = (current_sequence + 1) % SeqMod
    BY <1>2, <2>2 DEF HeaderWith, PendingHeader
  <2>4. ValidSectors' = V \union {n}
    BY <1>3, <2>2, <2>3 DEF ValidSectors
  <2>5. cell[n] = Erased
    BY <1>1, <1>4 DEF BlankInv
  <2>6. \A a : ~Holds(cell'[n], a)
    BY <2>2, <2>5 DEF Holds, Erased, Blank, Unit
  <2>7. /\ ViewType(V, hdr, cell) /\ ViewType(V \union {n}, hdr', cell')
        /\ Back(faults) \in Nat
    <3>1. hdr' \in [Sectors -> Headers] /\ cell' \in [Sectors -> [Units -> Cells]]
      BY DEF TypeInv, TypeOK
    <3>2. V \subseteq Sectors
      BY DEF ValidSectors
    <3>3. ViewType(V, hdr, cell)
      BY <1>3, ViewIs
    <3>4. Back(faults) \in Nat
      BY <1>3, Numbers DEF Back
    <3> QED BY <1>3, <3>1, <3>2, <3>3, <3>4 DEF ViewType
  <2>8. \A s \in V : hdr'[s].seq = hdr[s].seq /\ cell'[s] = cell[s]
    BY <1>2, <2>2 DEF ValidSectors
  <2>9. hdr'[n].seq = (hdr[c].seq + 1) % SeqMod
    BY <1>2, <2>3 DEF Cursor
  <2>10. /\ lo \in [Sectors -> Nat] /\ hi \in [Sectors -> Nat]
         /\ LogAt(V, hdr, cell, c, lo, hi, Back(faults))
    BY <1>3 DEF TheLog
  <2>11. n = SectorNext(c)
    OBVIOUS
  <2>12. /\ LogAt(V \union {n}, hdr', cell', n, lo2, hi2, Back(faults))
         /\ \A o, q, k : Names(V, hdr, cell, o, q, k) =>
                Names(V \union {n}, hdr', cell', o, q, k)
         /\ \A o, q, a, F, G : /\ F \in Nat /\ G \in Nat /\ F < G
                               /\ F < SeqMod - 1 /\ Near(hdr, o, q, c, a, F)
                => Near(hdr', o, q, n, 0, G)
    <3>1. Keeps(V, hdr, cell, hdr', cell') /\ Bare(cell'[n])
      BY <2>6, <2>8 DEF Keeps, Bare
    <3> HIDE DEF n, V
    <3> QED BY <1>2, <1>3, <3>1, <2>7, <2>9, <2>10, <2>11, AddSector
  <2>13. lo2 \in [Sectors -> Nat] /\ hi2 \in [Sectors -> Nat]
         /\ hi2[n] = hi[c] /\ lo2[n] = hi[c] /\ \A s \in V : lo2[s] = lo[s]
    BY <1>2, <1>3, <2>10 DEF ValidSectors
  <2>14. TheLog(n, lo2, hi2, Back(faults))'
    BY <1>3, <2>1, <2>4, <2>12, <2>13 DEF TheLog
  <2>15. Cursor(n, hi[c])'
    <3>1. Names(ValidSectors', hdr', cell', last_record_offset',
                last_record_sequence', hi[c])
      BY <1>2, <1>6, <2>4, <2>12 DEF Cursor
    <3>2. /\ NewestBack(faults, TRUE) \in Nat /\ Back(faults) \in Nat
          /\ NewestBack(faults, TRUE) < Back(faults)
          /\ NewestBack(faults, TRUE) < SeqMod - 1
      <4>1. faults \in 0 .. MaxFaults /\ SectorCount + MaxFaults < SeqMod
        BY <1>3, Numbers, ConstantsAssumption DEF FlashType, Plain
      <4>2. /\ SectorCount \in Nat /\ MaxFaults \in Nat /\ SeqMod \in Nat
            /\ 3 <= SectorCount
        BY Numbers, ConstantsAssumption
      <4>3. faults \in Nat
        BY <1>3
      <4> QED BY <4>1, <4>2, <4>3 DEF Back, NewestBack
    <3>3. Near(hdr, last_record_offset, last_record_sequence, c, write_addr,
               NewestBack(faults, TRUE))
      BY <1>2 DEF Cursor
    <3>4. Near(hdr', last_record_offset, last_record_sequence, n, 0, Back(faults))
      BY <2>12, <3>2, <3>3
    <3>5. Near(hdr', last_record_offset', last_record_sequence', n, write_addr',
               NewestBack(faults', current_closed'))
      BY <1>5, <1>6, <1>8, <2>1, <3>4 DEF NewestBack
    <3>6. EndAt(cell'[n], write_addr')
      BY <1>5, <1>8, <2>6 DEF EndAt
    <3>7. staged_sector' \in {NoSector, SectorNext(n)} \ ValidSectors'
      BY <1>5, <1>8, StagedOut DEF ValidSectors
    <3> QED BY <1>5, <1>8, <2>3, <3>1, <3>5, <3>6, <3>7 DEF Cursor
  <2>16. Progress(n)'
    BY <1>2, <1>5, <1>6, <1>8 DEF Progress, StageSector, SectorInit
  <2>17. LogOf(n, lo2, hi2)'
    BY <1>2, <1>6, <2>13, <2>14, <2>15, <2>16 DEF LogOf
  <2>18. Shorter(c, lo, hi, n, lo2, hi2)
    <3>1. lo[c] \in Nat /\ lo[c] <= hi[c]
      BY <1>3, LogFacts
    <3>2. \A s \in V : lo[s] \in Nat
      BY <1>3, LogFacts
    <3> HIDE DEF n, V, lo2, hi2
    <3>3. \A s \in V \union {n} : \E t \in V : lo[t] <= lo2[s]
      BY <1>3, <2>13, <3>1, <3>2
    <3> QED BY <2>4, <2>13, <3>3 DEF Shorter, V
  <2> QED BY <2>17, <2>18 DEF Kept
<1> QED BY <1>7, <1>8

LEMMA AppendLog ==
    ASSUME Plain, TypeInv, TypeInv', NEW c, NEW lo, NEW hi, LogOf(c, lo, hi),
           NEW m \in Sizes, LogAppend(m)
    PROVE  Kept(c, lo, hi)
<1>1. /\ pc = "idle" /\ pc # "off" /\ op = "none"
      /\ UNCHANGED <<flash, plog, next_id, faults>>
      /\ op' = "append" /\ then' = "sector_erase"
  BY DEF LogAppend, env, TypeInv, ControlInv
<1>2. FlashType /\ m \in 1 .. Room /\ Room \in Nat /\ write_addr \in 0 .. Room
  BY LogParts, ConstantsAssumption
<1>3. Less(c) /\ ValidSectors' = ValidSectors
  BY <1>1, <1>2, SameLess, MoreFaults
<1>4. Cursor(c, hi[c]) /\ Progress(c) /\ hi[c] = next_id
  BY <1>1 DEF LogOf, Progress
<1>5. Advance = "sector_erase" =>
        staged_sector = SectorNext(c) /\ SectorNext(c) \notin ValidSectors
  BY <1>4, StagedOut DEF Advance, HaveStaged, Cursor
<1>6. Progress(c)'
  <2>1. CASE current_closed /\ pc' = Advance
    <3>1. Advance \in {"sector_erase", "stage"}
      BY DEF Advance
    <3> QED BY <1>1, <1>3, <1>4, <1>5, <2>1, <3>1
            DEF Progress, StageSector, SectorInit, plog
  <2>2. CASE pc' = "record"
    BY <1>1, <1>4, <2>2 DEF Progress, StageSector, SectorInit, plog
  <2>3. CASE pc' = "end_marker" /\ ~(write_addr + m <= Room)
    <3>1. write_addr # 0
      BY <1>2, <2>3
    <3> QED BY <1>1, <1>4, <2>3, <3>1 DEF Progress, StageSector, SectorInit, plog
  <2> QED BY <2>1, <2>2, <2>3 DEF LogAppend
<1>7. LogOf(c, lo, hi)'
  BY <1>1, <1>3, <1>6, LogStays DEF plog
<1> QED BY <1>3, <1>7, SameKept

\* Programming units that were blank adds no record before its state word.
LEMMA BlankLess ==
    ASSUME FlashType, NEW c \in Sectors, NEW e, SetCells(c, e),
           \A u \in Units : e[u] # cell[c][u] =>
                cell[c][u] = Blank /\ e[u].state # "VALID",
           faults <= faults'
    PROVE  Less(c) /\ ValidSectors' = ValidSectors
<1>1. /\ hdr' = hdr /\ cell'[c] = e
      /\ \A s \in Sectors \ {c} : cell'[s] = cell[s]
  BY DEF SetCells, FlashType
<1>2. ValidSectors' = ValidSectors
  BY <1>1 DEF ValidSectors
<1>3. \A u \in Units : e[u] # cell[c][u] =>
            cell[c][u].state # "VALID" /\ e[u].state # "VALID"
  BY DEF Blank, Unit
<1>4. /\ \A a : Holds(e, a) <=> Holds(cell[c], a)
      /\ \A a : Holds(cell[c], a) => e[a] = cell[c][a]
  BY <1>3 DEF Holds
<1>5. SameView(ValidSectors', hdr, cell, hdr', cell')
  <2>1. \A s \in ValidSectors' : s \in Sectors
    BY DEF ValidSectors
  <2> QED BY <1>1, <1>4, <2>1 DEF SameView
<1> QED BY <1>2, <1>5 DEF Less

\* Where the writer is, the sector is blank.
LEMMA MarkLess ==
    ASSUME TypeInv, BlankInv, NEW c, NEW lo, NEW hi, LogOf(c, lo, hi),
           c = current_sector, pc = "end_marker", write_addr # Room,
           NEW st \in {"END", "PENDING"},
           SetCells(c, StateAt(c, write_addr, st)), faults <= faults'
    PROVE  Less(c) /\ ValidSectors' = ValidSectors
<1>1. FlashType /\ c \in Sectors /\ write_addr \in 0 .. Room
  BY LogParts
<1>2. BlankFrom(cell[c], write_addr)
  BY WriterReady
<1>3. write_addr \in Units
  BY <1>1, Numbers
<1>4. /\ StateAt(c, write_addr, st) \in [Units -> Cells]
      /\ cell[c][write_addr] = Blank
      /\ \A u \in Units \ {write_addr} :
            StateAt(c, write_addr, st)[u] = cell[c][u]
  BY <1>1, <1>2, <1>3, MarkShape
<1>5. StateAt(c, write_addr, st)[write_addr].state # "VALID"
  <2>1. cell[c] \in [Units -> Cells]
    BY <1>1 DEF FlashType
  <2>2. cell[c][write_addr] \in Cells
    BY <1>3, <2>1
  <2> QED BY <1>3, <2>1, <2>2 DEF StateAt, Cells
<1>6. \A u \in Units : StateAt(c, write_addr, st)[u] # cell[c][u] =>
        cell[c][u] = Blank /\ StateAt(c, write_addr, st)[u].state # "VALID"
  BY <1>4, <1>5
<1> DEFINE e == StateAt(c, write_addr, st)
<1>7. /\ SetCells(c, e)
      /\ \A u \in Units : e[u] # cell[c][u] =>
            cell[c][u] = Blank /\ e[u].state # "VALID"
  BY <1>6
<1> HIDE DEF e
<1> QED BY <1>1, <1>7, BlankLess

\* An offset to a record in the sector itself is near.
LEMMA NewestHere ==
    ASSUME TypeInv, NEW c, NEW lo, NEW hi, LogOf(c, lo, hi), pc # "off",
           write_addr # 0, NEW F \in Nat
    PROVE  Near(hdr, last_record_offset, last_record_sequence, c, write_addr, F)
<1>1. /\ FlashType /\ c \in Sectors /\ write_addr \in 0 .. Room
      /\ TheLog(c, lo, hi, Back(faults)) /\ Cursor(c, hi[c]) /\ c \in ValidSectors
  BY LogParts DEF LogOf
<1>2. /\ cell[c] \in [Units -> Cells] /\ lo[c] \in Nat /\ hi[c] \in Nat
      /\ RunOf(cell[c], lo[c], hi[c]) /\ EndAt(cell[c], write_addr)
  BY <1>1, LogFacts DEF Cursor
<1>3. PICK b \in Units :
        /\ Holds(cell[c], b) /\ After(cell[c], b) = write_addr
        /\ cell[c][b].id + 1 = hi[c]
  BY <1>1, <1>2, EndOfRun
<1>4. last_record_offset = Offset(c, b) /\ last_record_sequence = hdr[c].seq
  BY <1>1, <1>3 DEF Cursor, Names
<1>5. b < write_addr
  BY <1>2, <1>3 DEF EndAt
<1>6. Offset(c, b) < Offset(c, write_addr)
  BY <1>1, <1>5, Offsets
<1>7. hdr[c].seq = SeqBack(hdr[c].seq, 0)
  <2>1. hdr[c].seq \in Sequence
    BY <1>1 DEF FlashType, Headers
  <2>2. 0 \in 0 .. (SeqMod - 1)
    BY Numbers
  <2> QED BY <2>1, <2>2, Backs
<1>8. 0 \in 0 .. F
  OBVIOUS
<1> QED BY <1>4, <1>6, <1>7, <1>8 DEF Near

\* A closed sector keeps the newest record as near as one that is not.
LEMMA EndMarkerLog ==
    ASSUME Plain, TypeInv, TypeInv', BlankInv, NEW c, NEW lo, NEW hi,
           LogOf(c, lo, hi), EndMarker
    PROVE  Kept(c, lo, hi)
<1>1. pc = "end_marker" /\ pc # "off"
  BY DEF EndMarker
<1>2. /\ Cursor(c, hi[c]) /\ Progress(c) /\ c = current_sector
      /\ write_addr # 0
  BY <1>1 DEF LogOf, Cursor, Progress
<1>3. /\ FlashType /\ c \in Sectors /\ write_addr \in 0 .. Room
      /\ TheLog(c, lo, hi, Back(faults)) /\ FlashType'
      /\ faults \in Nat /\ faults' \in Nat
  BY LogParts, ConstantsAssumption DEF TypeInv, TypeOK, FlashType
<1>4. PICK good \in BOOLEAN :
        /\ IF write_addr = Room
           THEN good /\ UNCHANGED <<flash, faults>>
           ELSE TryCells(StateAt(c, write_addr, "END"),
                         StateAt(c, write_addr, "PENDING"), good)
        /\ IF good THEN Goto(Advance) ELSE Fail
  BY <1>2 DEF EndMarker
<1>5. /\ current_closed'
      /\ UNCHANGED <<current_sector, current_sequence, staged_sector, write_addr,
                     last_record_offset, last_record_sequence, next_id>>
  BY DEF EndMarker
<1>6. /\ Less(c) /\ ValidSectors' = ValidSectors
      /\ ~good => faults' = faults + 1
  <2>1. CASE UNCHANGED <<flash, faults>>
    BY <1>3, <1>4, <2>1, SameLess, MoreFaults DEF TryCells, Fault
  <2>2. CASE /\ good /\ UNCHANGED faults /\ write_addr # Room
             /\ SetCells(c, StateAt(c, write_addr, "END"))
    BY <1>1, <1>2, <1>3, <2>2, MarkLess, MoreFaults
  <2>3. CASE ~good /\ Fault("write") /\ UNCHANGED flash
    BY <1>3, <2>3, SameLess, MoreFaults DEF Fault
  <2>4. CASE /\ ~good /\ Fault("write") /\ write_addr # Room
             /\ SetCells(c, StateAt(c, write_addr, "PENDING"))
    BY <1>1, <1>2, <1>3, <2>4, MarkLess, MoreFaults DEF Fault
  <2> QED BY <1>2, <1>4, <2>1, <2>2, <2>3, <2>4 DEF TryCells
<1>7. CASE ~good
  <2>1. faults < faults'
    BY <1>3, <1>6, <1>7
  <2>2. LogOf(c, lo, hi)'
    BY <1>1, <1>4, <1>5, <1>6, <1>7, <2>1, FailLog
  <2> QED BY <1>6, <2>2, SameKept
<1>8. CASE good
  <2>1. /\ pc' = Advance /\ op' = op /\ then' = then
    BY <1>4, <1>8 DEF Goto, request
  <2>2. op = "append" /\ then = "sector_erase"
    BY <1>1 DEF TypeInv, ControlInv, CursorInv
  <2>3. /\ TheLog(c, lo, hi, Back(faults))'
        /\ hdr'[c].seq = hdr[c].seq
        /\ Names(ValidSectors', hdr', cell', last_record_offset',
                 last_record_sequence', hi[c])
        /\ EndAt(cell'[c], write_addr')
        /\ \A F \in Int :
            Near(hdr, last_record_offset, last_record_sequence, c, write_addr, F)
            => Near(hdr', last_record_offset', last_record_sequence', c,
                    write_addr', F)
    <3>1. /\ TheLog(c, lo, hi, Back(faults))'
          /\ hdr'[c].seq = hdr[c].seq
          /\ \A o, q, k : Names(ValidSectors, hdr, cell, o, q, k) =>
                                Names(ValidSectors', hdr', cell', o, q, k)
          /\ \A w : EndAt(cell[c], w) => EndAt(cell'[c], w)
          /\ \A o, q, w, F, G :
                F \in Int /\ G \in Int /\ F <= G /\ Near(hdr, o, q, c, w, F)
                => Near(hdr', o, q, c, w, G)
      BY <1>3, <1>6, LessLog
    <3>2. ASSUME NEW F \in Int,
                 Near(hdr, last_record_offset, last_record_sequence, c,
                      write_addr, F)
          PROVE  Near(hdr', last_record_offset', last_record_sequence', c,
                      write_addr', F)
      <4>1. F <= F
        OBVIOUS
      <4> QED BY <1>5, <3>1, <3>2, <4>1
    <3> QED BY <1>2, <1>5, <3>1, <3>2 DEF Cursor
  <2>4. NewestBack(faults', TRUE) \in Nat /\ NewestBack(faults', TRUE) \in Int
    BY <1>3, ClosedBack
  <2>5. Near(hdr, last_record_offset, last_record_sequence, c, write_addr,
             NewestBack(faults', TRUE))
    BY <1>1, <1>2, <2>4, NewestHere
  <2>6. Near(hdr', last_record_offset', last_record_sequence', c, write_addr',
             NewestBack(faults', current_closed'))
    <3>1. current_closed' = TRUE
      BY DEF EndMarker
    <3>2. NewestBack(faults', current_closed') = NewestBack(faults', TRUE)
      BY <3>1
    <3>3. Near(hdr', last_record_offset', last_record_sequence', c, write_addr',
               NewestBack(faults', TRUE))
      BY <2>3, <2>4, <2>5
    <3> QED BY <3>2, <3>3
  <2>7. Cursor(c, hi[c])'
    BY <1>2, <1>5, <1>6, <2>3, <2>6 DEF Cursor
  <2>8. Advance = "sector_erase" =>
        staged_sector = SectorNext(c) /\ SectorNext(c) \notin ValidSectors
    BY <1>2, StagedOut DEF Advance, HaveStaged, Cursor
  <2>9. Advance \in {"sector_erase", "stage"}
    BY DEF Advance
  <2>10. Progress(c)'
    BY <1>2, <1>5, <1>6, <2>1, <2>2, <2>8, <2>9
       DEF Progress, StageSector, SectorInit
  <2>11. LogOf(c, lo, hi)'
    BY <1>5, <2>3, <2>7, <2>10, LogParts DEF LogOf
  <2> QED BY <1>6, <2>11, SameKept
<1> QED BY <1>7, <1>8

\* The record that is being written is not one of the log yet.
LEMMA RecordLess ==
    ASSUME TypeInv, BlankInv, NEW c, NEW lo, NEW hi, LogOf(c, lo, hi),
           c = current_sector, pc = "record", SetCells(c, WithRecord),
           faults <= faults'
    PROVE  /\ Less(c) /\ ValidSectors' = ValidSectors
           /\ cell'[c][write_addr] = NewRecord
<1>1. FlashType /\ c \in Sectors /\ write_addr \in 0 .. Room
  BY LogParts
<1>2. BlankFrom(cell[c], write_addr)
  BY WriterReady
<1>3. /\ NewRecord \in Cells /\ NewRecord.state = "PENDING" /\ 1 <= NewRecord.size
      /\ write_addr \in Units
  <2>1. /\ size \in Sizes /\ size \in 1 .. Room /\ next_id \in Ids
        /\ last_record_offset \in 0 .. NoOffset
        /\ last_record_sequence \in Sequence
        /\ write_addr + size <= Room
    BY ConstantsAssumption
       DEF TypeInv, TypeOK, ControlInv, CursorInv, Ids
  <2>2. write_addr \in Units
    BY <1>1, <2>1, Numbers
  <2>3. NewRecord \in Cells
    BY <2>1, Numbers DEF NewRecord, Cells, CellStates
  <2> QED BY <2>1, <2>2, <2>3, Numbers DEF NewRecord
<1> DEFINE e == WithRecord
<1>4. e[write_addr] = NewRecord
      /\ \A u \in Units : e[u] # cell[c][u] => cell[c][u] = Blank
  BY <1>1, <1>2, <1>3, ProgrammedShape DEF WithRecord
<1>5. \A u \in Units : e[u] # cell[c][u] => e[u].state # "VALID"
  <2>1. \A u \in Units : e[u] \in {cell[c][u], NewRecord, Unit("BODY")}
    BY DEF WithRecord, Programmed
  <2> HIDE DEF e
  <2> QED BY <1>3, <2>1 DEF Unit
<1>6. /\ SetCells(c, e)
      /\ \A u \in Units : e[u] # cell[c][u] =>
            cell[c][u] = Blank /\ e[u].state # "VALID"
  BY <1>4, <1>5
<1>7. cell'[c] = e
  BY <1>1, <1>6 DEF SetCells, FlashType
<1> HIDE DEF e
<1> QED BY <1>1, <1>4, <1>6, <1>7, BlankLess

LEMMA RecordLog ==
    ASSUME Plain, TypeInv, TypeInv', BlankInv, NEW c, NEW lo, NEW hi,
           LogOf(c, lo, hi), Record
    PROVE  Kept(c, lo, hi)
<1>1. pc = "record" /\ pc # "off" /\ ~current_closed
  BY DEF Record, TypeInv, CursorInv
<1>2. /\ Cursor(c, hi[c]) /\ Progress(c) /\ c = current_sector
  BY <1>1 DEF LogOf, Cursor
<1>3. /\ FlashType /\ faults \in Nat
  BY LogParts
<1>4. PICK good \in BOOLEAN :
        /\ TryCells(WithRecord, WithRecord, good)
        /\ current_closed' = (current_closed \/ ~good)
        /\ IF good THEN Goto("commit") ELSE Fail
  BY DEF Record
<1>5. UNCHANGED <<current_sector, current_sequence, staged_sector, write_addr,
                  last_record_offset, last_record_sequence, next_id>>
  BY DEF Record
<1>6. /\ Less(c) /\ ValidSectors' = ValidSectors
      /\ ~good => faults' = faults + 1
      /\ good => cell'[c][write_addr] = NewRecord
  <2>1. CASE good /\ SetCells(c, WithRecord) /\ UNCHANGED faults
    BY <1>1, <1>2, <1>3, <2>1, RecordLess, MoreFaults
  <2>2. CASE ~good /\ Fault("write") /\ UNCHANGED flash
    BY <1>3, <2>2, SameLess, MoreFaults DEF Fault
  <2>3. CASE ~good /\ Fault("write") /\ SetCells(c, WithRecord)
    BY <1>1, <1>2, <1>3, <2>3, RecordLess, MoreFaults DEF Fault
  <2> QED BY <1>2, <1>4, <2>1, <2>2, <2>3 DEF TryCells
<1>7. CASE ~good
  <2>1. faults < faults'
    BY <1>3, <1>6, <1>7
  <2>2. LogOf(c, lo, hi)'
    BY <1>1, <1>4, <1>5, <1>6, <1>7, <2>1, FailLog
  <2> QED BY <1>6, <2>2, SameKept
<1>8. CASE good
  <2>1. /\ pc' = "commit" /\ op' = op /\ then' = then /\ size' = size
        /\ current_closed' = FALSE
    BY <1>1, <1>4, <1>8 DEF Goto, request
  <2>2. NewRecord' = NewRecord
    BY <1>5, <2>1 DEF NewRecord
  <2>3. Progress(c)'
    BY <1>2, <1>5, <1>6, <1>8, <2>1, <2>2
       DEF Progress, StageSector, SectorInit
  <2>4. LogOf(c, lo, hi)'
    BY <1>1, <1>5, <1>6, <2>1, <2>3, LogStays
  <2> QED BY <1>6, <2>4, SameKept
<1> QED BY <1>7, <1>8

\* nlog3_append() has added its record.
LEMMA CommitLog ==
    ASSUME Plain, TypeInv, TypeInv', BlankInv, NEW c, NEW lo, NEW hi,
           LogOf(c, lo, hi), Commit
    PROVE  \/ ret' = "FAIL" /\ next_id' = next_id /\ Kept(c, lo, hi)
           \/ /\ ret' = "EOK" /\ next_id' = next_id + 1
              /\ op = "append" /\ hi[c] = next_id
              /\ ValidSectors' = ValidSectors
              /\ LogOf(c, lo, [hi EXCEPT ![c] = hi[c] + 1])'
<1>1. pc = "commit" /\ pc # "off" /\ op = "append" /\ write_addr + size <= Room
  BY DEF Commit, TypeInv, ControlInv, CursorInv
<1>2. /\ Cursor(c, hi[c]) /\ Progress(c) /\ c = current_sector
      /\ hi[c] = next_id /\ ~current_closed
      /\ cell[c][write_addr] = NewRecord
  BY <1>1 DEF LogOf, Cursor, Progress
<1>3. /\ FlashType /\ c \in Sectors /\ c \in ValidSectors
      /\ write_addr \in 0 .. Room /\ faults \in Nat
      /\ TheLog(c, lo, hi, Back(faults)) /\ FlashType' /\ hi[c] \in Nat
  BY LogParts DEF TypeInv, TypeOK, FlashType
<1>4. PICK good \in BOOLEAN :
        /\ TryCells(StateAt(c, write_addr, "VALID"), cell[c], good)
        /\ current_closed' = ~good
        /\ IF good
           THEN /\ last_record_offset' = Offset(c, write_addr)
                /\ last_record_sequence' = current_sequence
                /\ write_addr' = write_addr + size
                /\ next_id' = next_id + 1
                /\ Return("EOK")
           ELSE /\ Fail
                /\ UNCHANGED <<last_record_offset, last_record_sequence,
                               write_addr, next_id>>
  BY <1>2 DEF Commit
<1>5. UNCHANGED <<current_sector, current_sequence, staged_sector>>
  BY DEF Commit
<1>6. CASE ~good
  <2>1. faults' = faults + 1 /\ UNCHANGED flash
    <3>1. SetCells(c, cell[c]) => cell' = cell /\ hdr' = hdr
      BY <1>3 DEF SetCells, FlashType
    <3> QED BY <1>2, <1>4, <1>6, <3>1 DEF TryCells, Fault, flash
  <2>2. faults < faults'
    BY <1>3, <2>1
  <2>3. Less(c) /\ ValidSectors' = ValidSectors
    <3>1. faults <= faults'
      BY <1>3, <2>1
    <3> QED BY <2>1, <3>1, SameLess
  <2>4. LogOf(c, lo, hi)'
    BY <1>1, <1>4, <1>5, <1>6, <2>2, <2>3, FailLog
  <2>5. ret' = "FAIL" /\ next_id' = next_id
    BY <1>4, <1>6 DEF Fail
  <2> QED BY <2>3, <2>4, <2>5, SameKept
<1>7. CASE good
  <2> DEFINE w == write_addr  e == cell[c]
             f == StateAt(c, write_addr, "VALID")
             hi2 == [hi EXCEPT ![c] = hi[c] + 1]
  <2>1. /\ SetCells(c, f) /\ faults' = faults
    BY <1>2, <1>4, <1>7 DEF TryCells
  <2>2. /\ size \in Nat /\ 0 < size /\ size <= Room
    <3>1. size \in 1 .. Room
      BY <1>1, ConstantsAssumption DEF TypeInv, TypeOK, ControlInv
    <3> QED BY <3>1, Numbers
  <2>3. w \in Units
    BY <1>1, <1>3, <2>2, Numbers
  <2>4. e \in [Units -> Cells] /\ f \in [Units -> Cells]
    <3>1. "VALID" \in CellStates
      BY DEF CellStates
    <3> QED BY <1>3, <2>3, <3>1, StateAtType DEF FlashType
  <2>5. /\ f[w] = [e[w] EXCEPT !.state = "VALID"]
        /\ \A a \in Units \ {w} : f[a] = e[a]
    BY <2>3, <2>4 DEF StateAt
  <2>6. /\ e[w] = NewRecord /\ e[w] \in Cells
    BY <1>2, <2>3, <2>4
  <2>7. /\ f[w].state = "VALID" /\ f[w].id = hi[c] /\ f[w].size = size
        /\ f[w].prev = last_record_offset /\ f[w].pseq = last_record_sequence
    BY <1>2, <2>5, <2>6 DEF NewRecord
  <2>8. Holds(f, w) /\ After(f, w) = write_addr + size
    BY <1>1, <2>3, <2>7 DEF Holds, After
  <2>9. ~Holds(e, w)
    BY <2>6 DEF NewRecord, Holds
  <2>10. AddedAt(e, f, w)
    <3>1. \A a : a # w => (Holds(f, a) <=> Holds(e, a))
      BY <2>5 DEF Holds
    <3>2. \A a : Holds(e, a) => f[a] = e[a]
      BY <2>5, <2>9 DEF Holds
    <3> QED BY <3>1, <3>2 DEF AddedAt
  <2>11. /\ ViewType(ValidSectors, hdr, cell)
         /\ lo \in [Sectors -> Nat] /\ hi \in [Sectors -> Nat]
         /\ LogAt(ValidSectors, hdr, cell, c, lo, hi, Back(faults))
    BY <1>3, ViewIs DEF TheLog
  <2>12. Back(faults) \in Nat /\ Back(faults) + SectorCount < SeqMod
    <3>1. faults \in 0 .. MaxFaults /\ 2 * SectorCount + MaxFaults < SeqMod
      BY <1>3 DEF FlashType, Plain
    <3>2. SectorCount \in Nat /\ MaxFaults \in Nat /\ SeqMod \in Nat
      BY Numbers, ConstantsAssumption
    <3> QED BY <1>3, <3>1, <3>2 DEF Back
  <2>13. /\ EndAt(cell[c], w)
         /\ Names(ValidSectors, hdr, cell, f[w].prev, f[w].pseq, hi[c])
         /\ Near(hdr, f[w].prev, f[w].pseq, c, w, Back(faults))
    <3>1. NewestBack(faults, current_closed) = Back(faults)
      BY <1>2 DEF NewestBack
    <3>2. Near(hdr, last_record_offset, last_record_sequence, c, write_addr,
               Back(faults))
      BY <1>2, <3>1 DEF Cursor
    <3> QED BY <1>2, <2>7, <3>2 DEF Cursor
  <2>14. 0 < f[w].size
    BY <2>2, <2>7
  <2>15. /\ LogAt(ValidSectors, hdr, [cell EXCEPT ![c] = f], c, lo, hi2,
                  Back(faults))
         /\ Names(ValidSectors, hdr, [cell EXCEPT ![c] = f], Offset(c, w),
                  hdr[c].seq, hi[c] + 1)
         /\ Near(hdr, Offset(c, w), hdr[c].seq, c, After(f, w), Back(faults))
         /\ EndAt(f, After(f, w))
    <3>1. AddedAt(cell[c], f, w)
      BY <2>10
    <3> HIDE DEF w, f, e
    <3> QED BY <1>3, <2>3, <2>4, <2>7, <2>8, <2>11, <2>12, <2>13, <2>14,
               <3>1, AddRecord
  <2>16. /\ hdr' = hdr /\ cell' = [cell EXCEPT ![c] = f] /\ cell'[c] = f
         /\ ValidSectors' = ValidSectors
    <3>1. hdr' = hdr /\ cell' = [cell EXCEPT ![c] = f]
      BY <2>1 DEF SetCells
    <3> HIDE DEF f
    <3> QED BY <1>3, <3>1 DEF FlashType, ValidSectors
  <2>17. hi2 \in [Sectors -> Nat] /\ hi2[c] = hi[c] + 1
    BY <1>3, <2>11
  <2>18. TheLog(c, lo, hi2, Back(faults))'
    BY <1>3, <2>1, <2>11, <2>15, <2>16, <2>17 DEF TheLog
  <2>19. Cursor(c, hi[c] + 1)'
    <3>1. NewestBack(faults', current_closed') = Back(faults)
      BY <1>4, <1>7, <2>1 DEF NewestBack
    <3>2. current_sequence = hdr[c].seq
      BY <1>2 DEF Cursor
    <3> HIDE DEF f
    <3>3. /\ Names(ValidSectors', hdr', cell', last_record_offset',
                   last_record_sequence', hi[c] + 1)
          /\ Near(hdr', last_record_offset', last_record_sequence', c,
                  write_addr', NewestBack(faults', current_closed'))
          /\ EndAt(cell'[c], write_addr')
      BY <1>4, <1>7, <2>8, <2>15, <2>16, <3>1, <3>2
    <3> QED BY <1>2, <1>5, <2>16, <3>2, <3>3 DEF Cursor
  <2>20. pc' = "idle" /\ op' = "none" /\ ret' = "EOK" /\ next_id' = next_id + 1
    BY <1>4, <1>7 DEF Return
  <2>21. Progress(c)'
    BY <1>2, <2>20 DEF Progress, StageSector, SectorInit
  <2>22. LogOf(c, lo, hi2)'
    <3> HIDE DEF hi2
    <3> QED BY <1>2, <2>17, <2>18, <2>19, <2>20, <2>21 DEF LogOf
  <2> QED BY <1>1, <1>2, <2>16, <2>20, <2>22
<1> QED BY <1>6, <1>7

\* Power failure leaves the log, but for the sector that is being given up.
LEMMA PowerFailureLog ==
    ASSUME Plain, TypeInv, TypeInv', BlankInv, NEW c, NEW lo, NEW hi,
           LogOf(c, lo, hi), PowerFailure
    PROVE  Kept(c, lo, hi)
<1> DEFINE s == SectorNext(c)
<1>1. /\ PowerOff /\ pc # "off" /\ pc' = "off" /\ faults' = faults
  BY DEF PowerFailure, Crash, CrashInErase, CrashInHeader, CrashInRecord, PowerOff
<1>2. /\ Cursor(c, hi[c]) /\ Progress(c) /\ c = current_sector
  BY <1>1 DEF LogOf, Cursor
<1>3. /\ FlashType /\ s \in Sectors \ {c} /\ faults <= faults'
      /\ write_addr \in 0 .. Room
  BY <1>1, LogParts, MoreFaults
<1>4. pc \in SectorInit => /\ InitSector = s /\ s \notin ValidSectors
  BY <1>2 DEF Progress, InitSector
<1>5. pc \in {"stage_erase", "stage_header", "stage_commit"} =>
        s \notin ValidSectors
  BY <1>2 DEF Progress
<1>6. Less(c)
  <2>1. CASE Crash
    BY <1>3, <2>1, SameLess DEF Crash
  <2>2. CASE CrashInErase
    <3>1. CutErase(s) /\ s \notin ValidSectors
      BY <1>2, <1>4, <1>5, <2>2 DEF CrashInErase, Progress, SectorInit
    <3> QED BY <1>3, <3>1, CutEraseOnly, OnlyLess
  <2>3. CASE CrashInHeader
    <3>1. \E h : CutHeader(s, h)
      BY <1>2, <1>4, <2>3 DEF CrashInHeader, SectorInit
    <3>2. Only(s) /\ s \notin ValidSectors'
      BY <1>3, <3>1, CutHeaderOnly DEF Plain
    <3> QED BY <1>3, <3>2, OnlyLess
  <2>4. CASE pc = "record" /\ SetCells(c, WithRecord)
    BY <1>2, <1>3, <2>4, RecordLess
  <2>5. CASE /\ pc = "end_marker" /\ write_addr < Room
             /\ SetCells(c, StateAt(c, write_addr, "PENDING"))
    <3>1. write_addr # Room
      BY <1>3, <2>5, Numbers
    <3> QED BY <1>2, <1>3, <2>5, <3>1, MarkLess
  <2> QED BY <1>2, <2>1, <2>2, <2>3, <2>4, <2>5 DEF PowerFailure, CrashInRecord
<1>7. LogOf(c, lo, hi)'
  BY <1>1, <1>6, OffLog DEF PowerOff
<1> QED BY <1>6, <1>7, SameKept, LessSubset

\* syslog_start() finds the log that there is.
LEMMA StartLog ==
    ASSUME Plain, TypeInv, TypeInv', NEW c, NEW lo, NEW hi, LogOf(c, lo, hi),
           Start
    PROVE  Kept(c, lo, hi)
<1>1. /\ FlashType /\ c \in Sectors /\ c \in ValidSectors /\ faults \in Nat
      /\ TheLog(c, lo, hi, Back(faults)) /\ hi[c] \in Nat
      /\ current_closed' \in BOOLEAN
  BY LogParts DEF TypeInv, TypeOK
<1>2. /\ pc' = "stage" /\ op' = "init" /\ then' = "done"
      /\ staged_sector' = NoSector
      /\ UNCHANGED <<flash, next_id, faults>>
      /\ Recover(NewestOf(ValidSectors))
  BY <1>1 DEF Start, env
<1>3. /\ RingAt(ValidSectors, hdr, c)
      /\ LogAt(ValidSectors, hdr, cell, c, lo, hi, Back(faults))
      /\ lo \in [Sectors -> Nat] /\ hi \in [Sectors -> Nat]
  BY <1>1 DEF TheLog, LogAt
<1>4. NewestOf(ValidSectors) = c
  <2>1. /\ NewestOf(ValidSectors) \in ValidSectors
        /\ Age(c, NewestOf(ValidSectors)) <= Age(c, c)
    BY <1>1, <1>3, NewestIs
  <2>2. NewestOf(ValidSectors) \in Sectors
    BY <2>1 DEF ValidSectors
  <2>3. /\ Age(c, c) = 0 /\ Age(c, NewestOf(ValidSectors)) \in Nat
        /\ Age(c, NewestOf(ValidSectors)) = 0 => NewestOf(ValidSectors) = c
    BY <1>1, <2>2, Ages, Numbers
  <2> QED BY <2>1, <2>3
<1>5. /\ current_sector' = c /\ current_sequence' = hdr[c].seq
      /\ EndAt(cell[c], write_addr')
      /\ Names(ValidSectors, hdr, cell, last_record_offset',
               last_record_sequence', hi[c])
      /\ Near(hdr, last_record_offset', last_record_sequence', c,
              write_addr', SectorCount - 1)
  BY <1>1, <1>2, <1>3, <1>4, RecoverIs
<1>6. hdr' = hdr /\ cell' = cell /\ ValidSectors' = ValidSectors
      /\ faults' = faults
  BY <1>2 DEF flash, ValidSectors
<1>7. TheLog(c, lo, hi, Back(faults))'
  BY <1>1, <1>6 DEF TheLog
<1>8. Near(hdr', last_record_offset', last_record_sequence', c, write_addr',
           NewestBack(faults', current_closed'))
  <2>1. /\ SectorCount - 1 \in Int /\ NewestBack(faults, current_closed') \in Int
        /\ SectorCount - 1 <= NewestBack(faults, current_closed')
    <3> DEFINE b == current_closed'
    <3> HIDE DEF b
    <3>1. b \in BOOLEAN /\ faults <= faults
      BY <1>1 DEF b
    <3>2. /\ SectorCount - 1 \in Nat /\ NewestBack(faults, b) \in Nat
          /\ SectorCount - 1 <= NewestBack(faults, b)
      BY <1>1, <3>1, BackIs
    <3> QED BY <3>2 DEF b
  <2>2. Near(hdr, last_record_offset', last_record_sequence', c, write_addr',
             NewestBack(faults, current_closed'))
    BY <1>5, <2>1, NearMore
  <2> QED BY <1>6, <2>2
<1>9. staged_sector' \in {NoSector, SectorNext(c)} \ ValidSectors'
  BY <1>2, StagedOut DEF ValidSectors
<1>10. Cursor(c, hi[c])'
  BY <1>5, <1>6, <1>8, <1>9 DEF Cursor
<1>11. Progress(c)'
  BY <1>2 DEF Progress, StageSector, SectorInit
<1>12. LogOf(c, lo, hi)'
  BY <1>2, <1>7, <1>10, <1>11, LogParts DEF LogOf
<1> QED BY <1>6, <1>12, SameKept

\* Where there is no log yet.
LEMMA NoneLeft ==
    ASSUME ValidSectors = {},
           \/ UNCHANGED flash
           \/ \E s \in Sectors : Only(s) /\ s \notin ValidSectors'
    PROVE  ValidSectors' = {}
<1>1. CASE UNCHANGED flash
  BY <1>1 DEF flash, ValidSectors
<1>2. CASE \E s \in Sectors : Only(s) /\ s \notin ValidSectors'
  BY <1>2 DEF Only, ValidSectors
<1> QED BY <1>1, <1>2

LEMMA NoneOff ==
    ASSUME NoLog, ValidSectors' = {}, pc' = "off", next_id' = next_id
    PROVE  NoLog'
BY DEF NoLog

LEMMA NoLogFail ==
    ASSUME NoLog, pc # "off", ValidSectors' = {}, Fail, next_id' = next_id
    PROVE  NoLog'
BY NoneOff DEF NoLog, Fail

\* A first step of nlog3_sector_init(), or of the erases before it.
LEMMA NoLogTry ==
    ASSUME NoLog, pc # "off", ValidSectors' = {}, NEW good,
           NEW l \in {"reset_erase"} \union SectorInit,
           IF good THEN Goto(l) ELSE Fail, next_id' = next_id,
           last_record_offset' = last_record_offset,
           good /\ l = "sector_commit" => hdr'[0] = PendingHeader(0)
    PROVE  NoLog'
<1>1. CASE good
  BY <1>1 DEF NoLog, Goto, request, SectorInit
<1>2. CASE ~good
  BY <1>2, NoLogFail
<1> QED BY <1>1, <1>2

LEMMA NoLogSector ==
    ASSUME Plain, TypeInv, NoLog, SectorErase \/ SectorHeader
    PROVE  NoLog'
<1>1. /\ FlashType /\ ValidSectors = {} /\ pc # "off" /\ InitSector = 0
      /\ InitSequence = 0 /\ 0 \in Sectors
  BY TypeParts, Numbers
     DEF TypeInv, NoLog, SectorErase, SectorHeader, InitSector, InitSequence
<1>2. last_record_offset' = last_record_offset /\ next_id' = next_id
  BY DEF SectorErase, SectorHeader, plog
<1>3. CASE SectorErase
  <2>1. PICK good \in BOOLEAN :
            TryErase(0, good) /\ IF good THEN Goto("sector_header") ELSE Fail
    BY <1>1, <1>3 DEF SectorErase
  <2>2. Only(0) /\ 0 \notin ValidSectors'
    BY <1>1, <2>1, TryEraseOnly
  <2>3. ValidSectors' = {}
    BY <1>1, <2>2, NoneLeft
  <2>4. "sector_header" \in {"reset_erase"} \union SectorInit
    BY DEF SectorInit
  <2> QED BY <1>1, <1>2, <2>1, <2>3, <2>4, NoLogTry
<1>4. CASE SectorHeader
  <2> DEFINE h == PendingHeader(0)
  <2>1. PICK good \in BOOLEAN :
            TryHeader(0, h, good) /\ IF good THEN Goto("sector_commit") ELSE Fail
    BY <1>1, <1>4 DEF SectorHeader
  <2>2. h.state # "VALID"
    BY DEF PendingHeader
  <2>3. /\ \/ UNCHANGED flash
           \/ Only(0) /\ 0 \notin ValidSectors'
        /\ good => hdr'[0] = h
    BY <1>1, <2>1, <2>2, TryHeaderOnly DEF Plain
  <2>4. ValidSectors' = {}
    BY <1>1, <2>3, NoneLeft
  <2>5. "sector_commit" \in {"reset_erase"} \union SectorInit
    BY DEF SectorInit
  <2> QED BY <1>1, <1>2, <2>1, <2>3, <2>4, <2>5, NoLogTry
<1> QED BY <1>3, <1>4

LEMMA NoLogErase ==
    ASSUME Plain, TypeInv, NoLog, ResetErase
    PROVE  NoLog'
<1>1. /\ FlashType /\ ValidSectors = {} /\ pc = "reset_erase" /\ i \in Sectors
      /\ op = "init" /\ last_record_offset = NoOffset /\ next_id = 0
  BY TypeParts DEF TypeInv, TypeOK, NoLog, ResetErase
<1>2. PICK good \in BOOLEAN :
        /\ TryErase(i, good)
        /\ \/ /\ good /\ i < SectorCount - 1
              /\ UNCHANGED <<pc, op, last_record_offset>>
           \/ /\ good /\ i = SectorCount - 1
              /\ pc' = "sector_erase"
              /\ last_record_offset' = NoOffset
              /\ UNCHANGED op
           \/ ~good /\ Fail
        /\ next_id' = next_id
  BY DEF ResetErase
<1>3. ValidSectors' = {}
  BY <1>1, <1>2, TryEraseOnly, NoneLeft
<1>4. CASE Fail
  BY <1>1, <1>2, <1>3, <1>4, NoLogFail
<1> QED BY <1>1, <1>2, <1>3, <1>4 DEF NoLog, SectorInit

\* The first sector.
LEMMA NoLogCommit ==
    ASSUME Plain, TypeInv, TypeInv', BlankInv, NoLog, SectorCommit
    PROVE  \/ NoLog'
           \/ LogOf(0, [s \in Sectors |-> 0], [s \in Sectors |-> 0])'
<1> DEFINE zero == [s \in Sectors |-> 0]
<1>1. /\ FlashType /\ ValidSectors = {} /\ pc = "sector_commit" /\ pc # "off"
      /\ op = "init" /\ last_record_offset = NoOffset /\ next_id = 0
      /\ InitSector = 0 /\ InitSequence = 0 /\ 0 \in Sectors
      /\ hdr[0] = PendingHeader(0) /\ faults \in Nat
  BY TypeParts, Numbers, ConstantsAssumption
     DEF TypeInv, NoLog, SectorCommit, InitSector, InitSequence, FlashType
<1>2. PICK good \in BOOLEAN :
        /\ TryHeader(0, HeaderWith(0, "VALID"), good)
        /\ IF good
           THEN /\ current_sector' = 0
                /\ current_sequence' = 0
                /\ staged_sector' = NoSector
                /\ write_addr' = 0
                /\ current_closed' = FALSE
                /\ pc' = "stage"
                /\ then' = "done"
                /\ UNCHANGED <<op, size, i, ret>>
           ELSE Fail
  BY <1>1 DEF SectorCommit
<1>3. UNCHANGED <<last_record_offset, last_record_sequence, next_id>>
  BY DEF SectorCommit
<1>4. CASE ~good
  <2>1. \/ UNCHANGED flash
        \/ Only(0) /\ 0 \notin ValidSectors'
    BY <1>1, <1>2, <1>4, TryHeaderOnly DEF Plain
  <2>2. ValidSectors' = {}
    BY <1>1, <2>1, NoneLeft
  <2> QED BY <1>1, <1>2, <1>3, <1>4, <2>2, NoLogFail
<1>5. CASE good
  <2>1. SetHeader(0, HeaderWith(0, "VALID")) /\ faults' = faults
    BY <1>2, <1>5 DEF TryHeader
  <2>2. /\ hdr'[0] = HeaderWith(0, "VALID") /\ cell' = cell
        /\ \A s \in Sectors \ {0} : hdr'[s] = hdr[s]
    BY <1>1, <2>1 DEF SetHeader, FlashType
  <2>3. hdr'[0].state = "VALID" /\ hdr'[0].ok /\ hdr'[0].seq = 0
    BY <1>1, <2>2 DEF HeaderWith, PendingHeader
  <2>4. ValidSectors' = {0}
    BY <1>1, <2>2, <2>3 DEF ValidSectors
  <2>5. cell[0] = Erased
    BY <1>1 DEF BlankInv
  <2>6. \A a : ~Holds(cell'[0], a)
    BY <2>2, <2>5 DEF Holds, Erased, Blank, Unit
  <2>7. ViewType(ValidSectors', hdr', cell')
    BY DEF TypeInv, TypeOK, ViewType, ValidSectors
  <2>8. RingAt(ValidSectors', hdr', 0)
    <3>1. Age(0, 0) = 0 /\ \A t \in Sectors : Age(0, t) <= 0 => t = 0
      <4>1. \A t \in Sectors : Age(0, t) \in Nat /\ (Age(0, t) = 0 <=> t = 0)
        BY <1>1, Ages, Numbers
      <4> QED BY <1>1, <4>1
    <3>2. SeqBack(hdr'[0].seq, 0) = hdr'[0].seq
      BY <2>3 DEF SeqBack
    <3> QED BY <2>4, <3>1, <3>2 DEF RingAt
  <2>9. \A s \in ValidSectors', a \in Units : ~Holds(cell'[s], a)
    BY <2>4, <2>6
  <2>10. /\ LogAt(ValidSectors', hdr', cell', 0, zero, zero, Back(faults'))
         /\ \A o, q, k : Names(ValidSectors', hdr', cell', o, q, k)
    BY <1>1, <2>7, <2>8, <2>9, NoRecords
  <2>11. TheLog(0, zero, zero, Back(faults))'
    BY <1>1, <2>10 DEF TheLog
  <2>12. Near(hdr', last_record_offset', last_record_sequence', 0, write_addr',
              NewestBack(faults', current_closed'))
    BY <1>1, <1>3 DEF Near
  <2>13. EndAt(cell'[0], write_addr')
    BY <1>2, <1>5, <2>6 DEF EndAt
  <2>14. staged_sector' \in {NoSector, SectorNext(0)} \ ValidSectors'
    BY <1>2, <1>5, StagedOut DEF ValidSectors
  <2>15. Cursor(0, 0)'
    BY <1>2, <1>5, <2>3, <2>10, <2>12, <2>13, <2>14 DEF Cursor
  <2>16. Progress(0)'
    BY <1>1, <1>2, <1>5 DEF Progress, StageSector, SectorInit
  <2>17. zero[0] = 0
    BY <1>1
  <2>18. LogOf(0, zero, zero)'
    <3> HIDE DEF zero
    <3> QED BY <1>1, <1>3, <2>11, <2>15, <2>16, <2>17 DEF LogOf
  <2> QED BY <2>18
<1> QED BY <1>4, <1>5

LEMMA NoLogCrash ==
    ASSUME Plain, TypeInv, NoLog, PowerFailure
    PROVE  NoLog'
<1>1. /\ PowerOff /\ pc # "off" /\ pc' = "off" /\ next_id' = next_id
  BY DEF PowerFailure, Crash, CrashInErase, CrashInHeader, CrashInRecord, PowerOff
<1>2. /\ FlashType /\ ValidSectors = {} /\ InitSector = 0 /\ 0 \in Sectors
      /\ pc \in {"reset_erase"} \union SectorInit /\ i \in Sectors
  BY <1>1, TypeParts, Numbers DEF TypeInv, TypeOK, NoLog, InitSector
<1>3. ValidSectors' = {}
  <2>1. CASE Crash
    BY <1>2, <2>1, NoneLeft DEF Crash
  <2>2. CASE CrashInErase
    <3>1. \E s \in Sectors : CutErase(s)
      BY <1>2, <2>2 DEF CrashInErase, SectorInit
    <3> QED BY <1>2, <3>1, CutEraseOnly, NoneLeft
  <2>3. CASE CrashInHeader
    <3>1. \E h : CutHeader(0, h)
      BY <1>2, <2>3 DEF CrashInHeader, SectorInit
    <3> QED BY <1>2, <3>1, CutHeaderOnly, NoneLeft DEF Plain
  <2>4. ~CrashInRecord
    BY <1>2 DEF CrashInRecord, SectorInit
  <2> QED BY <2>1, <2>2, <2>3, <2>4 DEF PowerFailure
<1> QED BY <1>1, <1>3, NoneOff

LEMMA NoLogStart ==
    ASSUME NoLog, Start
    PROVE  NoLog'
<1>1. /\ ValidSectors = {} /\ next_id = 0 /\ UNCHANGED <<flash, next_id>>
      /\ pc' = "reset_erase" /\ op' = "init" /\ RecoverNone
  BY DEF NoLog, Start
<1>2. ValidSectors' = {}
  BY <1>1, NoneLeft
<1> QED BY <1>1, <1>2 DEF NoLog, RecoverNone

LEMMA NoLogNext ==
    ASSUME Plain, TypeInv, TypeInv', BlankInv, NoLog, [Next]_vars
    PROVE  \/ NoLog'
           \/ /\ SectorCommit
              /\ LogOf(0, [s \in Sectors |-> 0], [s \in Sectors |-> 0])'
<1>1. pc \in {"off", "reset_erase", "sector_erase", "sector_header",
              "sector_commit"}
  BY DEF NoLog, SectorInit
<1>2. ~Call
  BY <1>1 DEF Call, LogAppend, Reset
<1>3. ~(\/ Stage \/ StageErase \/ StageHeader \/ StageCommit
        \/ EndMarker \/ Record \/ Commit)
  BY <1>1 DEF Stage, StageErase, StageHeader, StageCommit, EndMarker, Record,
              Commit
<1>4. CASE UNCHANGED vars
  <2>1. UNCHANGED <<flash, next_id, pc, op, last_record_offset>>
    BY <1>4 DEF vars, plog, request
  <2>2. ValidSectors' = {} /\ hdr' = hdr
    BY <2>1, NoneLeft DEF NoLog, flash
  <2> QED BY <2>1, <2>2 DEF NoLog
<1> QED BY <1>2, <1>3, <1>4, NoLogStart, NoLogSector, NoLogCommit, NoLogErase,
           NoLogCrash DEF Next, Step

LEMMA LogSame ==
    ASSUME TypeInv, TypeInv', NEW c, NEW lo, NEW hi, LogOf(c, lo, hi),
           UNCHANGED vars
    PROVE  Kept(c, lo, hi)
<1>1. /\ UNCHANGED <<flash, plog, next_id, pc, op, size, then, faults>>
  BY DEF vars, request, env
<1>2. Less(c) /\ ValidSectors' = ValidSectors
  BY <1>1, LogParts, MoreFaults, SameLess
<1>3. CASE pc = "off"
  <2>1. LogOf(c, lo, hi)'
    BY <1>1, <1>2, <1>3, OffLog
  <2> QED BY <1>2, <2>1, SameKept
<1>4. CASE pc # "off"
  <2>1. Progress(c)
    BY <1>4 DEF LogOf
  <2>2. NewRecord' = NewRecord
    BY <1>1 DEF NewRecord, plog
  <2>3. Progress(c)'
    BY <1>1, <1>2, <2>1, <2>2 DEF Progress, plog, flash
  <2>4. LogOf(c, lo, hi)'
    BY <1>1, <1>2, <1>4, <2>3, LogStays DEF plog
  <2> QED BY <1>2, <2>4, SameKept
<1> QED BY <1>3, <1>4

\* What is on FLASH stays a log, of which only the oldest records are given up
\* but for the one that an append adds.
LEMMA LogNext ==
    ASSUME Plain, TypeInv, TypeInv', BlankInv, NEW c, NEW lo, NEW hi,
           LogOf(c, lo, hi), [Next]_vars
    PROVE  \/ Kept(c, lo, hi)
           \/ /\ Commit /\ ret' = "EOK" /\ next_id' = next_id + 1
              /\ op = "append" /\ hi[c] = next_id
              /\ ValidSectors' = ValidSectors
              /\ LogOf(c, lo, [hi EXCEPT ![c] = hi[c] + 1])'
<1>1. ~Reset
  BY DEF Reset, Plain
<1>2. ~ResetErase
  BY DEF ResetErase, LogOf, Progress
<1>3. ASSUME NEW m \in Sizes, LogAppend(m) PROVE Kept(c, lo, hi)
  BY <1>3, AppendLog
<1>4. CASE Commit
  BY <1>4, CommitLog
<1> QED BY <1>1, <1>2, <1>3, <1>4, StartLog, StageLog, StageStepsLog,
           SectorStepsLog, SectorCommitLog, EndMarkerLog, RecordLog,
           PowerFailureLog, LogSame
        DEF Next, Call, Step

LEMMA LogInit == Init => NoLog
BY DEF Init, NoLog, ValidSectors, NoHeader

RingInv == TypeInv /\ BlankInv /\ LogInv

LEMMA RingNext ==
    ASSUME Plain, RingInv, [Next]_vars
    PROVE  RingInv'
<1>1. TypeInv /\ BlankInv /\ TypeInv' /\ BlankInv'
  BY TypeNext, BlankNext DEF RingInv
<1>2. CASE NoLog
  BY <1>1, <1>2, NoLogNext DEF RingInv, LogInv
<1>3. ASSUME NEW c, NEW lo, NEW hi, LogOf(c, lo, hi) PROVE LogInv'
  <2>1. CASE Kept(c, lo, hi)
    BY <2>1 DEF Kept, LogInv
  <2>2. CASE LogOf(c, lo, [hi EXCEPT ![c] = hi[c] + 1])'
    BY <2>2 DEF LogInv
  <2> QED BY <1>1, <1>3, <2>1, <2>2, LogNext
<1> QED BY <1>1, <1>2, <1>3 DEF RingInv, LogInv

LEMMA RingHolds == Plain /\ Spec => []RingInv
<1> SUFFICES ASSUME Plain PROVE Spec => []RingInv
  OBVIOUS
<1>1. Init => RingInv
  BY TypeInit, BlankInit, LogInit DEF RingInv, LogInv
<1>2. RingInv /\ [Next]_vars => RingInv'
  BY RingNext
<1> QED BY <1>1, <1>2, PTL DEF Spec

----------------------------------------------------------------------------
(* What the iterators find.                                                *)

LEMMA IdsFacts ==
    ASSUME NEW l \in Nat, NEW u \in Nat, l <= u
    PROVE  /\ IdsOf(l, u) \in Seq(Nat) /\ Len(IdsOf(l, u)) = u - l
           /\ \A n \in 1 .. (u - l) : IdsOf(l, u)[n] = l + n - 1
           /\ IdsOf(l, u) = <<>> <=> l = u
<1>1. u - l \in Nat /\ \A n \in 1 .. (u - l) : l + n - 1 \in Nat
  OBVIOUS
<1>2. IdsOf(l, u) \in [1 .. (u - l) -> Nat]
  BY <1>1 DEF IdsOf
<1>3. IdsOf(l, u) \in Seq(Nat) /\ Len(IdsOf(l, u)) = u - l
  BY <1>1, <1>2
<1>4. l = u <=> u - l = 0
  OBVIOUS
<1>5. IdsOf(l, u) = <<>> <=> u - l = 0
  BY <1>3, EmptySeq
<1> QED BY <1>1, <1>3, <1>4, <1>5 DEF IdsOf

LEMMA IdsRest ==
    ASSUME NEW l \in Nat, NEW m \in Nat, NEW u \in Nat, l <= m, m <= u
    PROVE  IdsOf(m, u) = SubSeq(IdsOf(l, u), m - l + 1, Len(IdsOf(l, u)))
<1> DEFINE f == IdsOf(l, u)  g == IdsOf(m, u)  a == m - l + 1  b == u - l
           L == u - m  s == SubSeq(f, a, b)
<1>1. f \in Seq(Nat) /\ Len(f) = b /\ \A n \in 1 .. b : f[n] = l + n - 1
  <2>1. l <= u
    OBVIOUS
  <2> QED BY <2>1, IdsFacts
<1>2. g \in Seq(Nat) /\ Len(g) = L /\ \A n \in 1 .. L : g[n] = m + n - 1
  BY IdsFacts
<1>3. /\ a \in Int /\ b \in Int /\ L \in Nat
      /\ b - a + 1 = L
      /\ (IF a <= b THEN b - a + 1 ELSE 0) = L
  OBVIOUS
<1>4. \A n \in a .. b : n \in 1 .. b /\ l + n - 1 \in Nat
  OBVIOUS
<1>5. \A n \in 1 .. L : a + n - 1 \in 1 .. b
  OBVIOUS
<1>6. \A n \in 1 .. L : l + (a + n - 1) - 1 = m + n - 1
  OBVIOUS
<1> HIDE DEF f, g, a, b, L
<1>7. \A n \in a .. b : f[n] \in Nat
  BY <1>1, <1>4
<1>8. /\ s \in Seq(Nat)
      /\ Len(s) = IF a <= b THEN b - a + 1 ELSE 0
      /\ \A n \in 1 .. b - a + 1 : s[n] = f[a + n - 1]
  BY <1>3, <1>7, SubSeqProperties
<1> HIDE DEF s
<1>9. Len(s) = L /\ \A n \in 1 .. L : s[n] = f[a + n - 1]
  BY <1>3, <1>8
<1>10. ASSUME NEW n \in 1 .. L PROVE s[n] = g[n]
  <2>1. s[n] = f[a + n - 1] /\ a + n - 1 \in 1 .. b
    BY <1>5, <1>9
  <2>2. f[a + n - 1] = l + (a + n - 1) - 1
    BY <1>1, <2>1
  <2>3. g[n] = m + n - 1
    BY <1>2
  <2> QED BY <1>6, <2>1, <2>2, <2>3
<1>11. g = s
  BY <1>2, <1>8, <1>9, <1>10, SeqEqual
<1> QED BY <1>1, <1>11 DEF f, g, a, b, s

LEMMA IdsMore ==
    ASSUME NEW l \in Nat, NEW u \in Nat, l <= u
    PROVE  IdsOf(l, u + 1) = Append(IdsOf(l, u), u)
<1> DEFINE f == IdsOf(l, u)  g == IdsOf(l, u + 1)  L == u - l
           s == Append(f, u)
<1>1. f \in Seq(Nat) /\ Len(f) = L /\ \A n \in 1 .. L : f[n] = l + n - 1
  BY IdsFacts
<1>2. /\ g \in Seq(Nat) /\ Len(g) = L + 1
      /\ \A n \in 1 .. (L + 1) : g[n] = l + n - 1
  <2>1. u + 1 \in Nat /\ l <= u + 1 /\ u + 1 - l = L + 1
    OBVIOUS
  <2> QED BY <2>1, IdsFacts
<1>3. L \in Nat /\ l + (L + 1) - 1 = u
  OBVIOUS
<1> HIDE DEF f, g, L
<1>4. /\ s \in Seq(Nat) /\ Len(s) = L + 1
      /\ \A n \in 1 .. L : s[n] = f[n]
  BY <1>1, AppendProperties
<1>5. s[L + 1] = u
  BY <1>1, AppendProperties
<1> HIDE DEF s
<1>6. ASSUME NEW n \in 1 .. (L + 1) PROVE s[n] = g[n]
  <2>1. CASE n = L + 1
    BY <1>2, <1>3, <1>5, <2>1
  <2>2. CASE n \in 1 .. L
    BY <1>1, <1>2, <1>4, <2>2
  <2> QED BY <1>3, <2>1, <2>2
<1>7. g = s
  BY <1>2, <1>4, <1>6, SeqEqual
<1> QED BY <1>7 DEF f, g, s

\* The records, and the id after them.
ForwardRight ==
    /\ \A e, l, h, E, o :
        FlashType /\ TheLog(e, l, h, E) /\ Oldest(ValidSectors, e, o) =>
            /\ l[o] \in Nat /\ h[e] \in Nat /\ l[o] <= h[e]
            /\ Forward = IdsOf(l[o], h[e])
            /\ \A s \in ValidSectors : l[o] <= l[s]
            /\ o \in ValidSectors
    /\ FlashType /\ ValidSectors = {} => Forward = <<>>
    /\ \A e, l, h, E : FlashType /\ TheLog(e, l, h, E) =>
            \E o : Oldest(ValidSectors, e, o)

LEMMA ForwardAlways == ForwardRight
<1>1. ASSUME NEW e, NEW l, NEW h, NEW E, NEW o,
             FlashType /\ TheLog(e, l, h, E) /\ Oldest(ValidSectors, e, o)
      PROVE  /\ l[o] \in Nat /\ h[e] \in Nat /\ l[o] <= h[e]
             /\ Forward = IdsOf(l[o], h[e])
             /\ \A s \in ValidSectors : l[o] <= l[s]
             /\ o \in ValidSectors
  <2>1. /\ ViewType(ValidSectors, hdr, cell) /\ e \in Sectors
        /\ l \in [Sectors -> Nat] /\ h \in [Sectors -> Nat]
        /\ RingAt(ValidSectors, hdr, e) /\ RunsAt(ValidSectors, cell, e, l, h)
    BY <1>1, LogFacts
  <2>2. \A s \in ValidSectors : l[o] <= l[s]
    BY <1>1, <2>1, LogHas
  <2> QED BY <1>1, <2>2, LogForward DEF Oldest
<1>2. FlashType /\ ValidSectors = {} => Forward = <<>>
  BY NoLogWalks
<1>3. \A e, l, h, E : FlashType /\ TheLog(e, l, h, E) =>
            \E o : Oldest(ValidSectors, e, o)
  BY OldestThere
<1> QED BY <1>1, <1>2, <1>3 DEF ForwardRight

LEMMA WalkBack ==
    ASSUME RingInv, pc # "off", NEW c, NEW lo, NEW hi, LogOf(c, lo, hi)
    PROVE  \E l, u \in Nat :
            /\ l <= u /\ u = next_id
            /\ Forward = IdsOf(l, u)
            /\ Backward = [n \in 1 .. (u - l) |-> u - n]
            /\ SyslogNextId = IF Forward = <<>> THEN 0 ELSE u
<1>1. /\ FlashType /\ TheLog(c, lo, hi, Back(faults)) /\ hi[c] = next_id
      /\ last_record_offset \in 0 .. NoOffset
  BY LogParts DEF RingInv
<1>2. Names(ValidSectors, hdr, cell, last_record_offset, last_record_sequence,
            hi[c])
  BY DEF LogOf, Cursor
<1>3. PICK o : Oldest(ValidSectors, c, o)
  BY <1>1, ForwardAlways DEF ForwardRight
<1>4. /\ lo[o] \in Nat /\ hi[c] \in Nat /\ lo[o] <= hi[c]
      /\ Forward = IdsOf(lo[o], hi[c])
  BY <1>1, <1>3, LogForward
<1>5. /\ Backward = [n \in 1 .. (hi[c] - lo[o]) |-> hi[c] - n]
      /\ IteratorInit = IF lo[o] = hi[c] THEN NoIt ELSE On(hi[c] - 1)
      /\ lo[o] # hi[c] => On(hi[c] - 1).rec.id = hi[c] - 1
  BY <1>1, <1>2, <1>3, LogBackward
<1>6. Forward = <<>> <=> lo[o] = hi[c]
  BY <1>4, IdsFacts
<1>7. SyslogNextId = IF Forward = <<>> THEN 0 ELSE hi[c]
  <2>1. CASE lo[o] = hi[c]
    BY <1>5, <1>6, <2>1 DEF SyslogNextId
  <2>2. CASE lo[o] # hi[c]
    <3>1. IteratorInit # NoIt
      <4>1. Chain(lo[o], hi[c])
        BY <1>1, <1>3, ChainIs
      <4>2. hi[c] - 1 \in lo[o] .. (hi[c] - 1)
        BY <1>4, <2>2
      <4> QED BY <1>5, <2>2, <4>1, <4>2 DEF Chain
    <3>2. SyslogNextId = hi[c] - 1 + 1
      BY <1>5, <2>2, <3>1 DEF SyslogNextId
    <3> QED BY <1>4, <1>6, <2>2, <3>2
  <2> QED BY <2>1, <2>2
<1> QED BY <1>1, <1>4, <1>5, <1>7

\* Between calls, the way back along the offsets in the records is the way
\* forth along the sequence numbers of the sectors, reversed: whatever number
\* of sectors, appends, failed operations and power failures, but for resets
\* and words programmed byte by byte.
THEOREM WalksAreOneLog ==
    ASSUME Plain
    PROVE  Spec => []WalksAgree
<1>1. RingInv => WalksAgree
  <2> SUFFICES ASSUME RingInv, pc = "idle" PROVE
            /\ Len(Backward) = Len(Forward)
            /\ \A n \in 1 .. Len(Forward) :
                    Backward[n] = Forward[Len(Forward) + 1 - n]
    BY DEF WalksAgree
  <2>1. ~NoLog
    BY DEF NoLog, SectorInit
  <2>2. PICK c, lo, hi : LogOf(c, lo, hi)
    BY <2>1 DEF RingInv, LogInv
  <2>3. PICK l, u \in Nat :
            /\ l <= u /\ Forward = IdsOf(l, u)
            /\ Backward = [n \in 1 .. (u - l) |-> u - n]
    BY <2>2, WalkBack
  <2>4. /\ Len(Forward) = u - l
        /\ \A n \in 1 .. (u - l) : Forward[n] = l + n - 1
    BY <2>3, IdsFacts
  <2>5. Len(Backward) = u - l
    <3>1. Backward \in [1 .. (u - l) -> Int] /\ u - l \in Nat
      BY <2>3
    <3> QED BY <3>1
  <2>6. ASSUME NEW n \in 1 .. (u - l)
        PROVE  Backward[n] = Forward[u - l + 1 - n]
    <3>1. Backward[n] = u - n
      BY <2>3
    <3>2. u - l + 1 - n \in 1 .. (u - l) /\ l + (u - l + 1 - n) - 1 = u - n
      BY <2>3
    <3> QED BY <2>4, <3>1, <3>2
  <2> QED BY <2>4, <2>5, <2>6
<1> QED BY <1>1, RingHolds, PTL

----------------------------------------------------------------------------
(* The ring log.                                                           *)

Begins   == /\ op = "none" /\ op' \in {"append", "init"}
            /\ UNCHANGED <<flash, faults, next_id, ret>>
Goes     == op # "none" /\ UNCHANGED <<next_id, op, ret>>
Fails    == op # "none" /\ op' = "none" /\ ret' = "FAIL" /\ next_id' = next_id
Inits    == /\ op = "init" /\ pc \in StageSector
            /\ op' = "none" /\ pc' = "idle" /\ ret' = "EOK"
            /\ next_id' = SyslogNextId'
Commits  == Commit /\ op # "none" /\ op' = "none" /\ ret' = "EOK"
Stops    == op' = "none" /\ ret' = "none" /\ next_id' = next_id

\* What a step is to the caller.
LEMMA StepKinds ==
    ASSUME TypeInv, op # "reset", ~Reset, Next
    PROVE  Begins \/ Goes \/ Fails \/ Inits \/ Commits \/ Stops
<1>1. /\ op = "none" <=> pc \in {"off", "idle"}
      /\ pc \in StageSector /\ op # "append" => then = "done"
      /\ op = "append" => then \in {"record", "sector_erase"}
      /\ op \in {"none", "init", "append"}
  BY DEF TypeInv, TypeOK, ControlInv
<1>2. Fail /\ pc \notin {"off", "idle"} /\ next_id' = next_id => Fails
  BY <1>1 DEF Fail, Fails
<1>3. \A l : Goto(l) /\ pc \notin {"off", "idle"} /\ next_id' = next_id => Goes
  BY <1>1 DEF Goto, Goes, request
<1>4. ASSUME NEW s, Staged(s), pc \in StageSector PROVE Goes \/ Inits
  <2>1. pc \notin {"off", "idle"}
    BY <1>4 DEF StageSector
  <2> QED BY <1>1, <1>4, <2>1 DEF Staged, Return, Goes, Inits, request
<1>5. CASE Start
  BY <1>1, <1>5 DEF Start, Begins, flash, env
<1>6. CASE Call
  BY <1>1, <1>6 DEF Call, LogAppend, Begins, flash, env
<1>7. CASE Stage
  BY <1>2, <1>3, <1>4, <1>7 DEF Stage, StageSector
<1>8. CASE StageErase \/ StageHeader
  BY <1>2, <1>3, <1>8 DEF StageErase, StageHeader
<1>9. CASE StageCommit
  BY <1>2, <1>4, <1>9 DEF StageCommit, StageSector
<1>10. CASE SectorErase \/ SectorHeader
  BY <1>2, <1>3, <1>10 DEF SectorErase, SectorHeader
<1>11. CASE SectorCommit
  BY <1>1, <1>2, <1>11 DEF SectorCommit, Goes
<1>12. CASE EndMarker
  BY <1>2, <1>3, <1>12 DEF EndMarker
<1>13. CASE Record
  BY <1>2, <1>3, <1>13 DEF Record
<1>14. CASE Commit
  BY <1>1, <1>2, <1>14 DEF Commit, Commits, Return
<1>15. CASE ResetErase
  BY <1>1, <1>2, <1>15 DEF ResetErase, Goes
<1>16. CASE PowerFailure
  BY <1>16 DEF PowerFailure, Crash, CrashInErase, CrashInHeader,
              CrashInRecord, PowerOff, Stops
<1> QED BY <1>5, <1>6, <1>7, <1>8, <1>9, <1>10, <1>11, <1>12, <1>13, <1>14,
           <1>15, <1>16 DEF Next, Step

EndOf(g, f) == \E n \in 0 .. Len(f) : g = SubSeq(f, n + 1, Len(f))

\* What remains of the ids l .. u - 1.
LEMMA IdsRemain ==
    ASSUME NEW l \in Nat, NEW u \in Nat, l <= u,
           NEW m \in Nat, NEW v \in Nat, m <= v,
           (v = u /\ l <= m) \/ m = v
    PROVE  EndOf(IdsOf(m, v), IdsOf(l, u))
<1> DEFINE s == IdsOf(l, u)  t == IdsOf(m, v)
<1>1. Len(s) = u - l
  BY IdsFacts
<1>2. CASE v = u /\ l <= m
  <2>1. m - l \in 0 .. Len(s)
    BY <1>1, <1>2
  <2>2. t = SubSeq(s, m - l + 1, Len(s))
    BY <1>2, <2>1, IdsRest
  <2> HIDE DEF s, t
  <2>3. EndOf(t, s)
    BY <2>1, <2>2 DEF EndOf
  <2> QED BY <2>3 DEF s, t
<1>3. CASE m = v
  <2>1. u - l \in 0 .. Len(s) /\ u <= u
    BY <1>1
  <2>2. IdsOf(u, u) = SubSeq(s, u - l + 1, Len(s))
    BY <2>1, IdsRest
  <2>3. IdsOf(u, u) = <<>> /\ t = <<>>
    BY <1>3, <2>1, IdsFacts
  <2>4. t = SubSeq(s, u - l + 1, Len(s))
    BY <2>2, <2>3
  <2> HIDE DEF s, t
  <2>5. EndOf(t, s)
    BY <2>1, <2>4 DEF EndOf
  <2> QED BY <2>5 DEF s, t
<1> QED BY <1>2, <1>3

\* The ids that a step leaves.
LEMMA KeptRest ==
    ASSUME TypeInv, TypeInv', NEW c, NEW lo, NEW hi, LogOf(c, lo, hi),
           Kept(c, lo, hi)
    PROVE  Ring!Remains(Forward', Forward)
<1>1. PICK c2, lo2, hi2 : /\ LogOf(c2, lo2, hi2)'
                          /\ Shorter(c, lo, hi, c2, lo2, hi2)
  BY DEF Kept
<1>2. ForwardRight /\ ForwardRight'
  BY ForwardAlways, PTL
<1>3. FlashType /\ TheLog(c, lo, hi, Back(faults))
  BY LogParts
<1>4. FlashType' /\ TheLog(c2, lo2, hi2, Back(faults))'
  BY <1>1 DEF LogOf, TypeInv, TypeOK, FlashType
<1>5. PICK o : Oldest(ValidSectors, c, o)
  BY <1>2, <1>3 DEF ForwardRight
<1>6. /\ lo[o] \in Nat /\ hi[c] \in Nat /\ lo[o] <= hi[c]
      /\ Forward = IdsOf(lo[o], hi[c])
      /\ \A s \in ValidSectors : lo[o] <= lo[s]
  BY <1>2, <1>3, <1>5 DEF ForwardRight
<1>7. PICK p : Oldest(ValidSectors, c2, p)'
  BY <1>2, <1>4 DEF ForwardRight
<1>8. /\ lo2[p] \in Nat /\ hi2[c2] \in Nat /\ lo2[p] <= hi2[c2]
      /\ Forward' = IdsOf(lo2[p], hi2[c2])
      /\ p \in ValidSectors'
  BY <1>2, <1>4, <1>7 DEF ForwardRight
<1>9. (hi2[c2] = hi[c] /\ lo[o] <= lo2[p]) \/ lo2[p] = hi2[c2]
  <2>1. CASE /\ hi2[c2] = hi[c]
             /\ \A s \in ValidSectors' : \E t \in ValidSectors : lo[t] <= lo2[s]
    <3>1. PICK t \in ValidSectors : lo[t] <= lo2[p]
      BY <1>8, <2>1
    <3>2. lo[o] <= lo[t] /\ lo[t] \in Nat
      BY <1>3, <1>6, LogFacts
    <3> QED BY <1>6, <1>8, <2>1, <3>1, <3>2
  <2>2. CASE hi2[c2] = 0 /\ \A s \in ValidSectors' : lo2[s] = 0
    BY <1>8, <2>2
  <2> QED BY <1>1, <2>1, <2>2 DEF Shorter
<1> DEFINE f == Forward  l == lo[o]  u == hi[c]  m == lo2[p]  v == hi2[c2]
<1>10. \A g : g = IdsOf(m, v) => EndOf(g, f)
  <2> HIDE DEF f, l, u, m, v
  <2>1. /\ l \in Nat /\ u \in Nat /\ l <= u /\ m \in Nat /\ v \in Nat /\ m <= v
        /\ f = IdsOf(l, u)
        /\ (v = u /\ l <= m) \/ m = v
    BY <1>6, <1>8, <1>9 DEF f, l, u, m, v
  <2>2. EndOf(IdsOf(m, v), IdsOf(l, u))
    BY <2>1, IdsRemain
  <2> QED BY <2>1, <2>2
<1>11. \E n \in 0 .. Len(Forward) :
            Forward' = SubSeq(Forward, n + 1, Len(Forward))
  BY <1>8, <1>10 DEF EndOf
<1> QED BY <1>11 DEF Ring!Remains

LEMMA SameForward ==
    ASSUME TypeInv, TypeInv', LogInv, UNCHANGED flash, UNCHANGED faults
    PROVE  Forward' = Forward
<1>1. ForwardRight /\ ForwardRight'
  BY ForwardAlways, PTL
<1>2. FlashType /\ FlashType'
  BY DEF TypeInv, TypeOK, FlashType
<1>3. ValidSectors' = ValidSectors /\ UNCHANGED <<hdr, cell>>
  BY DEF ValidSectors, flash
<1>4. CASE NoLog
  BY <1>1, <1>2, <1>3, <1>4 DEF ForwardRight, NoLog
<1>5. ASSUME NEW c, NEW lo, NEW hi, LogOf(c, lo, hi)
      PROVE  Forward' = Forward
  <2>1. TheLog(c, lo, hi, Back(faults))
    BY <1>5 DEF LogOf
  <2>2. faults <= faults
    BY LogParts, <1>5
  <2>3. Less(c)
    BY <1>3, <2>2, SameLess DEF flash
  <2>4. TheLog(c, lo, hi, Back(faults))'
    BY <1>2, <2>1, <2>3, LessLog
  <2>5. PICK o : Oldest(ValidSectors, c, o)
    BY <1>1, <1>2, <2>1 DEF ForwardRight
  <2>6. Oldest(ValidSectors, c, o)'
    BY <1>3, <2>5 DEF Oldest
  <2>7. Forward = IdsOf(lo[o], hi[c])
    BY <1>1, <1>2, <2>1, <2>5 DEF ForwardRight
  <2>8. Forward' = IdsOf(lo[o], hi[c])
    BY <1>1, <1>2, <2>4, <2>6 DEF ForwardRight
  <2> QED BY <2>7, <2>8
<1> QED BY <1>4, <1>5 DEF LogInv

\* The id that a start goes on with is that after the newest record.
StartsAfter ==
    \A c, lo, hi : RingInv /\ pc # "off" /\ LogOf(c, lo, hi) =>
        SyslogNextId =
            IF Forward = <<>> THEN 0 ELSE Forward[Len(Forward)] + 1

LEMMA StartsAlways == StartsAfter
<1> SUFFICES ASSUME NEW c, NEW lo, NEW hi, RingInv, pc # "off",
                    LogOf(c, lo, hi)
    PROVE SyslogNextId =
            IF Forward = <<>> THEN 0 ELSE Forward[Len(Forward)] + 1
  BY DEF StartsAfter
<1>1. PICK l, u \in Nat :
        /\ l <= u /\ Forward = IdsOf(l, u)
        /\ SyslogNextId = IF Forward = <<>> THEN 0 ELSE u
  BY WalkBack
<1>2. /\ Len(Forward) = u - l
      /\ \A n \in 1 .. (u - l) : Forward[n] = l + n - 1
      /\ Forward = <<>> <=> l = u
  BY <1>1, IdsFacts
<1>3. l # u => u - l \in 1 .. (u - l) /\ l + (u - l) - 1 + 1 = u
  BY <1>1
<1> QED BY <1>1, <1>2, <1>3

LEMMA AddedForward ==
    ASSUME TypeInv, TypeInv', NEW c, NEW lo, NEW hi, LogOf(c, lo, hi),
           ValidSectors' = ValidSectors,
           LogOf(c, lo, [hi EXCEPT ![c] = hi[c] + 1])'
    PROVE  Forward' = Append(Forward, next_id)
<1> DEFINE h2 == [hi EXCEPT ![c] = hi[c] + 1]
<1>1. ForwardRight /\ ForwardRight'
  BY ForwardAlways, PTL
<1>2. FlashType /\ FlashType'
  BY DEF TypeInv, TypeOK, FlashType
<1>3. /\ TheLog(c, lo, hi, Back(faults)) /\ hi[c] = next_id
      /\ c \in Sectors /\ hi \in [Sectors -> Nat]
  BY <1>2, LogParts, LogFacts DEF LogOf
<1>4. TheLog(c, lo, h2, Back(faults))' /\ h2[c] = next_id + 1
  BY <1>3 DEF LogOf
<1> HIDE DEF h2
<1>5. PICK o : Oldest(ValidSectors, c, o)
  BY <1>1, <1>2, <1>3 DEF ForwardRight
<1>6. Oldest(ValidSectors, c, o)'
  BY <1>5 DEF Oldest
<1>7. /\ lo[o] \in Nat /\ next_id \in Nat /\ lo[o] <= next_id
      /\ Forward = IdsOf(lo[o], next_id)
  BY <1>1, <1>2, <1>3, <1>5 DEF ForwardRight
<1>8. Forward' = IdsOf(lo[o], next_id + 1)
  BY <1>1, <1>2, <1>4, <1>6 DEF ForwardRight
<1> QED BY <1>7, <1>8, IdsMore

LEMMA RingStep ==
    ASSUME Plain, RingInv, RingInv', Next
    PROVE  Ring!Next \/ UNCHANGED Ring!vars
<1>1. TypeInv /\ TypeInv' /\ BlankInv /\ LogInv
  BY DEF RingInv
<1>2. op # "reset" /\ ~Reset
  <2>1. pc = "off" => op = "none"
    BY <1>1 DEF TypeInv, ControlInv
  <2>2. NoLog => op # "reset"
    BY <2>1 DEF NoLog
  <2>3. \A c, lo, hi : LogOf(c, lo, hi) => op # "reset"
    BY <2>1 DEF LogOf, Progress
  <2> QED BY <1>1, <2>2, <2>3 DEF LogInv, Reset, Plain
<1>3. \/ Begins \/ Goes \/ Fails \/ Inits \/ Commits \/ Stops
  BY <1>1, <1>2, StepKinds
<1>4. CASE Begins
  <2>1. Forward' = Forward
    BY <1>1, <1>4, SameForward DEF Begins
  <2> QED BY <1>4, <2>1 DEF Begins, Ring!Next, Ring!Begin
<1>5. ASSUME Ring!Remains(Forward', Forward), Goes \/ Fails \/ Stops
      PROVE  Ring!Next
  <2>1. CASE Goes
    BY <1>5, <2>1 DEF Goes, Ring!Next, Ring!GiveUp
  <2>2. CASE Fails
    BY <1>5, <2>2 DEF Fails, Ring!Next, Ring!Failed
  <2>3. CASE Stops
    BY <1>5, <2>3 DEF Stops, Ring!Next, Ring!PowerFailure
  <2> QED BY <1>5, <2>1, <2>2, <2>3
<1>6. CASE NoLog /\ ~Begins
  <2>1. ForwardRight /\ ForwardRight' /\ FlashType /\ FlashType'
    BY <1>1, ForwardAlways, PTL DEF TypeInv, TypeOK, FlashType
  <2>2. Forward = <<>>
    BY <1>6, <2>1 DEF ForwardRight, NoLog
  <2>3. Forward' = <<>>
    <3>1. CASE NoLog'
      BY <2>1, <3>1 DEF ForwardRight, NoLog
    <3> DEFINE z == [s \in Sectors |-> 0]
    <3>2. CASE LogOf(0, z, z)'
      <4>1. 0 \in Sectors
        BY Numbers
      <4>2. TheLog(0, z, z, Back(faults))'
        BY <3>2 DEF LogOf
      <4>3. PICK o : Oldest(ValidSectors, 0, o)'
        BY <2>1, <4>2 DEF ForwardRight
      <4>4. Forward' = IdsOf(z[o], z[0]) /\ o \in ValidSectors'
        BY <2>1, <4>2, <4>3 DEF ForwardRight
      <4>5. z[o] = 0 /\ z[0] = 0
        BY <4>1, <4>4 DEF ValidSectors
      <4>6. IdsOf(0, 0) = <<>>
        BY IdsFacts
      <4> HIDE DEF z
      <4> QED BY <4>4, <4>5, <4>6
    <3>3. NoLog' \/ LogOf(0, z, z)'
      <4>1. NoLog
        BY <1>6
      <4>2. \/ NoLog'
            \/ /\ SectorCommit
               /\ LogOf(0, [s \in Sectors |-> 0], [s \in Sectors |-> 0])'
        BY <1>1, <4>1, NoLogNext
      <4> QED BY <4>2
    <3> QED BY <3>1, <3>2, <3>3
  <2>4. Ring!Remains(Forward', Forward)
    <3>1. Len(Forward) = 0
      BY <2>2
    <3>2. 0 \in 0 .. Len(Forward)
      BY <3>1
    <3>3. SubSeq(Forward, 0 + 1, Len(Forward)) = <<>>
      BY <2>2
    <3> QED BY <2>3, <3>2, <3>3 DEF Ring!Remains
  <2>5. ~Commits /\ ~Inits
    BY <1>6 DEF NoLog, Commits, Commit, Inits, StageSector, SectorInit
  <2> QED BY <1>3, <1>5, <1>6, <2>4, <2>5
<1>7. ASSUME NEW c, NEW lo, NEW hi, LogOf(c, lo, hi), ~Begins
      PROVE  Ring!Next
  <2>1. CASE Kept(c, lo, hi) /\ ~Commits
    <3>1. Ring!Remains(Forward', Forward)
      BY <1>1, <1>7, <2>1, KeptRest
    <3>2. CASE Inits
      <4>1. StartsAfter'
        BY StartsAlways, PTL
      <4>2. next_id' = IF Forward' = <<>> THEN 0
                       ELSE Forward'[Len(Forward')] + 1
        BY <2>1, <3>2, <4>1 DEF Kept, Inits, StartsAfter
      <4> QED BY <3>1, <3>2, <4>2 DEF Inits, Ring!Next, Ring!Done
    <3> QED BY <1>3, <1>5, <1>7, <2>1, <3>1, <3>2
  <2>2. CASE Commits
    <3>1. /\ op = "append" /\ next_id' = next_id + 1
          /\ Forward' = Append(Forward, next_id)
      BY <1>1, <1>7, <2>2, CommitLog, AddedForward DEF Commits
    <3> QED BY <2>2, <3>1 DEF Commits, Ring!Next, Ring!Done
  <2>3. Commits \/ Kept(c, lo, hi)
    <3>1. ASSUME Commit, ret' = "EOK" PROVE Commits
      BY <1>1, <3>1 DEF Commits, Commit, Return, Fail, TypeInv, ControlInv
    <3> QED BY <1>1, <1>7, <3>1, LogNext
  <2> QED BY <2>1, <2>2, <2>3
<1> QED BY <1>1, <1>4, <1>6, <1>7 DEF LogInv

LEMMA RingStart == Init => Ring!Init
<1> SUFFICES ASSUME Init PROVE Ring!Init
  OBVIOUS
<1>1. FlashType /\ ValidSectors = {}
  BY TypeInit, LogInit DEF NoLog, TypeInv, TypeOK, FlashType
<1>2. Forward = <<>>
  BY <1>1, NoLogWalks
<1> QED BY <1>2 DEF Init, Ring!Init

LEMMA RingStays ==
    ASSUME RingInv, RingInv', UNCHANGED vars
    PROVE  UNCHANGED Ring!vars
<1>1. UNCHANGED <<flash, faults, next_id, op, ret>>
  BY DEF vars, request, env
<1>2. Forward' = Forward
  BY <1>1, SameForward DEF RingInv
<1> QED BY <1>1, <1>2 DEF Ring!vars

\* On FLASH, as the iterators find it, there is always a circular log that
\* appending adds to in one step, that only ever gives up its oldest records,
\* and that every start takes up where it was, at whatever FLASH operation
\* power failed or one failed.
THEOREM ImplementsRing ==
    ASSUME Plain
    PROVE  Spec => ImplementsRingLog
<1>1. Init => Ring!Init
  BY RingStart
<1>2. RingInv /\ RingInv' /\ [Next]_vars => [Ring!Next]_(Ring!vars)
  BY RingStep, RingStays
<1>3. Plain /\ Spec => []RingInv
  BY RingHolds
<1> QED BY <1>1, <1>2, <1>3, PTL DEF Spec, ImplementsRingLog, Ring!Spec

----------------------------------------------------------------------------
(* Capacity.                                                               *)

\* Where no operation fails, a call that is done, or is about to write its
\* record, has left a sector staged.
StagedInv == pc \in {"idle", "end_marker", "record", "commit"} => HaveStaged

LEMMA StagedNext ==
    ASSUME Faults = {}, TypeInv, StagedInv, [Next]_vars
    PROVE  StagedInv'
<1>1. current_sector \in Sectors /\ SectorNext(current_sector) # current_sector
      /\ SectorNext(current_sector) \in Sectors
  BY NextSector DEF TypeInv, TypeOK
<1>2. \A f : ~Fault(f)
  BY DEF Fault
<1>3. /\ \A s, g : TryErase(s, g) => g
      /\ \A s, h, g : TryHeader(s, h, g) => g
      /\ \A a, b, g : TryCells(a, b, g) => g
  BY <1>2 DEF TryErase, TryHeader, TryCells
<1>4. ASSUME Staged(SectorNext(current_sector)) PROVE StagedInv'
  BY <1>1, <1>4 DEF Staged, StagedInv, HaveStaged
<1>5. CASE Start
  BY <1>5 DEF Start, StagedInv
<1>6. CASE Call
  BY <1>6 DEF Call, LogAppend, Reset, Advance, StagedInv, HaveStaged, plog
<1>7. CASE Stage
  BY <1>3, <1>4, <1>7 DEF Stage, Goto, StagedInv
<1>8. CASE StageErase \/ StageHeader
  BY <1>3, <1>8 DEF StageErase, StageHeader, Goto, StagedInv
<1>9. CASE StageCommit
  BY <1>3, <1>4, <1>9 DEF StageCommit
<1>10. CASE SectorErase \/ SectorHeader
  BY <1>3, <1>10 DEF SectorErase, SectorHeader, Goto, StagedInv
<1>11. CASE SectorCommit
  BY <1>3, <1>11 DEF SectorCommit, StagedInv
<1>12. CASE EndMarker
  BY <1>3, <1>12 DEF EndMarker, Goto, Advance, StagedInv, HaveStaged
<1>13. CASE Record
  BY <1>3, <1>13 DEF Record, Goto, StagedInv, HaveStaged
<1>14. CASE Commit
  BY <1>3, <1>14 DEF Commit, StagedInv, HaveStaged
<1>15. CASE ResetErase
  BY <1>3, <1>15 DEF ResetErase, StagedInv
<1>16. CASE PowerFailure
  BY <1>16 DEF PowerFailure, Crash, CrashInErase, CrashInHeader,
              CrashInRecord, PowerOff, StagedInv
<1>17. CASE UNCHANGED vars
  BY <1>17 DEF vars, plog, StagedInv, HaveStaged
<1> QED BY <1>5, <1>6, <1>7, <1>8, <1>9, <1>10, <1>11, <1>12, <1>13, <1>14,
           <1>15, <1>16, <1>17 DEF Next, Step

\* A log that has given up records is in every sector but the next.
LEMMA GivenUp ==
    ASSUME RingInv, NEW c, NEW lo, NEW hi, LogOf(c, lo, hi),
           Forward # <<>>, Forward[1] > 0
    PROVE  \A t \in Sectors : t # SectorNext(c) => t \in ValidSectors
<1>1. FlashType /\ TheLog(c, lo, hi, Back(faults)) /\ c \in Sectors
  BY LogParts DEF RingInv
<1>2. PICK o : Oldest(ValidSectors, c, o)
  BY <1>1, ForwardAlways DEF ForwardRight
<1>3. /\ lo[o] \in Nat /\ hi[c] \in Nat /\ lo[o] <= hi[c]
      /\ Forward = IdsOf(lo[o], hi[c])
  BY <1>1, <1>2, ForwardAlways DEF ForwardRight
<1>4. lo[o] > 0
  <2>1. lo[o] # hi[c]
    BY <1>3, IdsFacts
  <2>2. 1 \in 1 .. (hi[c] - lo[o]) /\ lo[o] + 1 - 1 = lo[o]
    BY <1>3, <2>1
  <2>3. Forward[1] = lo[o] + 1 - 1
    BY <1>3, <2>2, IdsFacts
  <2> QED BY <2>2, <2>3
<1>5. FullAt(ValidSectors, c, lo)
  BY <1>1, LogFacts
<1>6. \A t \in Sectors : Age(c, t) <= SectorCount - 2 => t \in ValidSectors
  BY <1>2, <1>4, <1>5 DEF FullAt, Oldest
<1>7. ASSUME NEW t \in Sectors, t # SectorNext(c)
      PROVE  Age(c, t) <= SectorCount - 2
  <2>1. /\ SectorNext(c) \in Sectors
        /\ Age(c, SectorNext(c)) = SectorCount - 1
    BY <1>1, Ages, NextSector
  <2>2. Age(c, t) # SectorCount - 1
    BY <1>1, <1>7, <2>1, Ages
  <2>3. Age(c, t) \in 0 .. (SectorCount - 1)
    BY <1>1, Ages
  <2> QED BY <2>2, <2>3, Numbers
<1> QED BY <1>6, <1>7

\* Capacity: without failing FLASH operations, but with power failures in the
\* middle of them, a log that has given up records is in all its sectors but
\* the staged one, which is where the next record that does not fit goes.
THEOREM RingStaysFull ==
    ASSUME Plain, Faults = {}
    PROVE  Spec => []FullRing
<1>1. Init => StagedInv
  BY DEF Init, StagedInv
<1>2. RingInv /\ StagedInv /\ [Next]_vars => StagedInv'
  BY StagedNext DEF RingInv
<1>3. RingInv /\ StagedInv => FullRing
  <2> SUFFICES ASSUME RingInv, StagedInv, pc = "idle", Forward # <<>>,
                      Forward[1] > 0
               PROVE  Cardinality(ValidSectors) = SectorCount - 1
    BY DEF FullRing
  <2>1. ~NoLog
    BY DEF NoLog, SectorInit
  <2>2. PICK c, lo, hi : LogOf(c, lo, hi)
    BY <2>1 DEF RingInv, LogInv
  <2>3. SectorNext(c) \in Sectors /\ SectorNext(c) \notin ValidSectors
    <3>1. staged_sector \in {NoSector, SectorNext(c)} \ ValidSectors
      BY <2>2 DEF LogOf, Cursor
    <3>2. staged_sector \in Sectors
      BY DEF StagedInv, HaveStaged
    <3> QED BY <3>1, <3>2, StagedOut
  <2>4. ValidSectors = Sectors \ {SectorNext(c)}
    BY <2>2, <2>3, GivenUp DEF ValidSectors
  <2>5. IsFiniteSet(Sectors) /\ Cardinality(Sectors) = SectorCount
    <3>1. 0 \in Int /\ SectorCount - 1 \in Int /\ ~(0 > SectorCount - 1)
          /\ SectorCount - 1 - 0 + 1 = SectorCount
      BY Numbers
    <3> QED BY <3>1, Numbers, FS_Interval
  <2> QED BY <2>3, <2>4, <2>5, FS_RemoveElement
<1>4. Plain /\ Spec => []RingInv
  BY RingHolds
<1> QED BY <1>1, <1>2, <1>3, <1>4, PTL DEF Spec

----------------------------------------------------------------------------
(* The newest record.                                                      *)

\* The failures, and the sector that an append has begun for its record.
Begun == IF op = "append" /\ then = "record" THEN 1 ELSE 0
Sum(a, b, e) == a + b + e
Failures == Sum(crashes, faults, Begun)

\* Fewer than the sectors besides the staged one.
Few(n) == n < SectorCount - 1

FailuresOK ==
    /\ Begun \in 0 .. 1 /\ crashes \in Nat /\ faults \in Nat
    /\ Failures \in Nat

LEMMA FailuresRight == TypeInv => FailuresOK
BY ConstantsAssumption
   DEF TypeInv, TypeOK, FailuresOK, Begun, Failures, Sum

LEMMA FailuresType == ASSUME TypeInv PROVE FailuresOK
BY FailuresRight

LEMMA FailuresTypeNext == ASSUME TypeInv' PROVE FailuresOK'
<1>1. (TypeInv => FailuresOK)'
  BY FailuresRight, PTL
<1> QED BY <1>1

LEMMA Sums ==
    ASSUME NEW a \in Nat, NEW b \in Nat, NEW e \in 0 .. 1,
           NEW a2 \in Nat, NEW b2 \in Nat, NEW e2 \in 0 .. 1,
           \/ (a2 = a + 1 /\ b2 = b) \/ (a2 = a /\ b2 = b + 1)
           \/ a2 = a /\ b2 = b /\ (e = 0 \/ e2 = e)
    PROVE  Sum(a, b, e) <= Sum(a2, b2, e2)
BY DEF Sum

\* The steps that do not add a sector or a record leave every sector but the
\* oldest one.
LEMMA OtherLess ==
    ASSUME Plain, TypeInv, TypeInv', BlankInv, NEW c, NEW lo, NEW hi,
           LogOf(c, lo, hi), Next, ~SectorCommit, ~Commit
    PROVE  Less(c)
<1> DEFINE s == SectorNext(c)
<1>1. /\ FlashType /\ s \in Sectors \ {c} /\ c \in Sectors
      /\ faults <= faults /\ write_addr \in 0 .. Room
  BY LogParts
<1>2. ASSUME UNCHANGED <<flash, faults>> PROVE Less(c)
  BY <1>1, <1>2, SameLess
<1>3. pc # "off" => /\ Progress(c) /\ c = current_sector
                    /\ pc \in SectorInit => InitSector = s
  BY DEF LogOf, Cursor, Progress, InitSector
<1>4. CASE Start
  BY <1>2, <1>4 DEF Start, env
<1>5. CASE Call
  BY <1>2, <1>5 DEF Call, LogAppend, Reset, env
<1>6. CASE Stage
  <2>1. pc = "stage"
    BY <1>6 DEF Stage
  <2>2. ASSUME NEW good \in BOOLEAN, TryHeader(s, HeaderWith(s, "STAGED"), good)
        PROVE  Less(c)
    <3>1. HeaderWith(s, "STAGED").state # "VALID"
      BY DEF HeaderWith
    <3> QED BY <1>1, <2>2, <3>1, TryHeaderLess DEF Plain
  <2> QED BY <1>2, <1>3, <1>6, <2>1, <2>2 DEF Stage
<1>7. ASSUME NEW good, TryErase(s, good), s \notin ValidSectors
      PROVE  Less(c)
  BY <1>1, <1>7, TryEraseLess
<1>8. ASSUME NEW good \in BOOLEAN, NEW h, h.state # "VALID",
             TryHeader(s, h, good), s \notin ValidSectors
      PROVE  Less(c)
  BY <1>1, <1>8, TryHeaderLess DEF Plain
<1>9. \A q : PendingHeader(q).state # "VALID"
  BY DEF PendingHeader
<1>10. HeaderWith(s, "STAGED").state # "VALID"
  BY DEF HeaderWith
<1>11. CASE StageErase \/ StageHeader \/ StageCommit
  <2>1. pc \in {"stage_erase", "stage_header", "stage_commit"}
    BY <1>11 DEF StageErase, StageHeader, StageCommit
  <2>2. s \notin ValidSectors /\ c = current_sector
    BY <1>3, <2>1 DEF Progress
  <2>3. CASE StageErase
    BY <1>7, <2>2, <2>3 DEF StageErase
  <2>4. CASE StageHeader
    BY <1>8, <1>9, <2>2, <2>4 DEF StageHeader
  <2>5. CASE StageCommit
    BY <1>8, <1>10, <2>2, <2>5 DEF StageCommit
  <2> QED BY <1>11, <2>3, <2>4, <2>5
<1>12. CASE SectorErase \/ SectorHeader
  <2>1. pc \in SectorInit /\ pc # "off"
    BY <1>12 DEF SectorErase, SectorHeader, SectorInit
  <2>2. s \notin ValidSectors /\ InitSector = s
    BY <1>3, <2>1 DEF Progress
  <2>3. CASE SectorErase
    BY <1>7, <2>2, <2>3 DEF SectorErase
  <2>4. CASE SectorHeader
    BY <1>8, <1>9, <2>2, <2>4 DEF SectorHeader
  <2> QED BY <1>12, <2>3, <2>4
<1>13. CASE EndMarker
  <2>1. pc = "end_marker" /\ c = current_sector
    BY <1>3, <1>13 DEF EndMarker
  <2>2. ASSUME NEW st \in {"END", "PENDING"}, write_addr # Room,
               SetCells(c, StateAt(c, write_addr, st)), faults <= faults'
        PROVE  Less(c)
    BY <2>1, <2>2, MarkLess
  <2>3. PICK good \in BOOLEAN :
            IF write_addr = Room
            THEN good /\ UNCHANGED <<flash, faults>>
            ELSE TryCells(StateAt(c, write_addr, "END"),
                          StateAt(c, write_addr, "PENDING"), good)
    BY <1>13, <2>1 DEF EndMarker
  <2>4. CASE write_addr = Room
    BY <1>2, <2>3, <2>4
  <2>5. CASE write_addr # Room
    <3>1. faults <= faults'
      BY <1>1, <2>3, <2>5, MoreFaults DEF TryCells
    <3>2. CASE UNCHANGED flash
      BY <3>1, <3>2, SameLess
    <3> QED BY <2>1, <2>2, <2>3, <2>5, <3>1, <3>2 DEF TryCells
  <2> QED BY <2>4, <2>5
<1>14. CASE Record
  <2>1. pc = "record" /\ c = current_sector
    BY <1>3, <1>14 DEF Record
  <2>2. PICK good \in BOOLEAN : TryCells(WithRecord, WithRecord, good)
    BY <1>14 DEF Record
  <2>3. faults <= faults'
    BY <1>1, <2>2, MoreFaults DEF TryCells
  <2>4. CASE UNCHANGED flash
    BY <2>3, <2>4, SameLess
  <2>5. CASE SetCells(c, WithRecord)
    BY <2>1, <2>3, <2>5, RecordLess
  <2> QED BY <2>1, <2>2, <2>4, <2>5 DEF TryCells
<1>15. ~ResetErase
  BY <1>3 DEF ResetErase, Progress
<1>16. CASE PowerFailure
  <2>1. pc # "off" /\ faults' = faults
    BY <1>16 DEF PowerFailure, Crash, CrashInErase, CrashInHeader,
                CrashInRecord, PowerOff
  <2>2. /\ pc \in {"stage_erase", "stage_header", "stage_commit"} \union SectorInit
            => s \notin ValidSectors
        /\ c = current_sector
    BY <1>3, <2>1 DEF Progress
  <2>3. CASE Crash
    BY <1>2, <2>1, <2>3 DEF Crash
  <2>4. CASE CrashInErase
    <3>1. CutErase(s) /\ s \notin ValidSectors
      BY <1>3, <2>1, <2>2, <2>4 DEF CrashInErase, Progress, SectorInit
    <3> QED BY <1>1, <2>1, <3>1, CutEraseOnly, OnlyLess
  <2>5. CASE CrashInHeader
    <3>1. \E h : CutHeader(s, h)
      BY <1>3, <2>1, <2>2, <2>5 DEF CrashInHeader, SectorInit
    <3>2. Only(s) /\ s \notin ValidSectors'
      BY <1>1, <3>1, CutHeaderOnly DEF Plain
    <3> QED BY <1>1, <2>1, <3>2, OnlyLess
  <2>6. CASE pc = "record" /\ SetCells(c, WithRecord)
    BY <1>1, <2>1, <2>2, <2>6, RecordLess
  <2>7. CASE /\ pc = "end_marker" /\ write_addr < Room
             /\ SetCells(c, StateAt(c, write_addr, "PENDING"))
    <3>1. write_addr # Room
      BY <1>1, <2>7, Numbers
    <3> QED BY <1>1, <2>1, <2>2, <2>7, <3>1, MarkLess
  <2> QED BY <1>16, <2>2, <2>3, <2>4, <2>5, <2>6, <2>7
          DEF PowerFailure, CrashInRecord
<1> QED BY <1>4, <1>5, <1>6, <1>11, <1>12, <1>13, <1>14, <1>15, <1>16
        DEF Next, Step

\* A failure takes the place of the sector begun.
LEMMA OtherFailures ==
    ASSUME TypeInv, TypeInv', Next, ~SectorCommit, ~Commit
    PROVE  Failures <= Failures'
<1>1. /\ Begun \in 0 .. 1 /\ crashes \in Nat /\ faults \in Nat
      /\ (Begun \in 0 .. 1 /\ crashes \in Nat /\ faults \in Nat)'
  BY ConstantsAssumption DEF TypeInv, TypeOK, Begun
<1>2. ASSUME \/ (crashes' = crashes + 1 /\ faults' = faults)
             \/ (crashes' = crashes /\ faults' = faults + 1)
      PROVE  Failures <= Failures'
  BY <1>1, <1>2, Sums DEF Failures
<1>3. ASSUME crashes' = crashes, faults' = faults, Begun = 0 \/ Begun' = Begun
      PROVE  Failures <= Failures'
  BY <1>1, <1>3, Sums DEF Failures
<1>4. \A f : Fault(f) => faults' = faults + 1
  BY DEF Fault
<1>5. /\ \A s, g : TryErase(s, g) => faults' = IF g THEN faults ELSE faults + 1
      /\ \A s, h, g : TryHeader(s, h, g) =>
            faults' = IF g THEN faults ELSE faults + 1
      /\ \A a, b, g : TryCells(a, b, g) =>
            faults' = IF g THEN faults ELSE faults + 1
  BY <1>4 DEF TryErase, TryHeader, TryCells
<1>6. op # "append" => Begun = 0
  BY DEF Begun
<1>7. UNCHANGED request => Begun' = Begun
  BY DEF Begun, request
<1>8. \A g, l : /\ IF g THEN Goto(l) ELSE Fail
                /\ faults' = IF g THEN faults ELSE faults + 1
                /\ crashes' = crashes
        => Failures <= Failures'
  BY <1>1, <1>2, <1>3, <1>7 DEF Goto
<1>9. ASSUME NEW s, Staged(s), pc \in StageSector, UNCHANGED <<crashes, faults>>
      PROVE  Failures <= Failures'
  <2>1. then = "done" => op # "append"
    BY DEF TypeInv, ControlInv
  <2> QED BY <1>3, <1>6, <1>7, <1>9, <2>1 DEF Staged
<1>10. \A g, s : /\ g \in BOOLEAN /\ (g => Staged(s)) /\ pc \in StageSector
                 /\ faults' = IF g THEN faults ELSE faults + 1
                 /\ crashes' = crashes
        => Failures <= Failures'
  BY <1>1, <1>2, <1>9
<1>11. CASE Start
  BY <1>3, <1>6, <1>11 DEF Start, env, TypeInv, ControlInv
<1>12. CASE Call
  BY <1>3, <1>6, <1>12 DEF Call, LogAppend, Reset, env, TypeInv, ControlInv
<1>13. CASE Stage
  <2>1. pc \in StageSector /\ crashes' = crashes
    BY <1>13 DEF Stage, StageSector
  <2>2. CASE UNCHANGED faults /\ Staged(SectorNext(current_sector))
    BY <1>9, <2>1, <2>2
  <2>3. CASE UNCHANGED faults /\ Goto("stage_erase")
    BY <1>3, <1>7, <2>1, <2>3 DEF Goto
  <2> QED BY <1>5, <1>10, <1>13, <2>1, <2>2, <2>3 DEF Stage
<1>14. CASE StageErase \/ StageHeader
  BY <1>5, <1>8, <1>14 DEF StageErase, StageHeader
<1>15. CASE StageCommit
  BY <1>5, <1>10, <1>15 DEF StageCommit, StageSector
<1>16. CASE SectorErase \/ SectorHeader
  BY <1>5, <1>8, <1>16 DEF SectorErase, SectorHeader
<1>17. CASE EndMarker
  BY <1>5, <1>8, <1>17 DEF EndMarker
<1>18. CASE Record
  BY <1>5, <1>8, <1>18 DEF Record
<1>19. CASE ResetErase
  <2>1. op # "append"
    BY <1>19 DEF ResetErase, TypeInv, ControlInv
  <2>2. crashes' = crashes /\ faults' \in {faults, faults + 1}
    BY <1>5, <1>19 DEF ResetErase
  <2> QED BY <1>1, <1>2, <1>3, <1>6, <2>1, <2>2
<1>20. CASE PowerFailure
  BY <1>1, <1>2, <1>20 DEF PowerFailure, Crash, CrashInErase, CrashInHeader,
                      CrashInRecord, PowerOff
<1> QED BY <1>11, <1>12, <1>13, <1>14, <1>15, <1>16, <1>17, <1>18, <1>19,
           <1>20 DEF Next, Step

\* A record in one of the n sectors before c, or in c.
Recent(c, n) ==
    \E t \in ValidSectors : /\ Age(c, t) <= n
                            /\ \E a \in Units : Holds(cell[t], a)

\* Each failure wastes at most one sector; and an append begins at most one.
NewestInv ==
    \A c, lo, hi :
        LogOf(c, lo, hi) /\ next_id > 0 /\ Few(Failures) => Recent(c, Failures)

BegunInv == pc \in SectorInit /\ op = "append" => then = "sector_erase"

LEMMA FewLess ==
    ASSUME NEW m \in Nat, NEW n \in Nat, m <= n, Few(n)
    PROVE  Few(m)
BY Numbers DEF Few

LEMMA RecentStays ==
    ASSUME TypeInv, NEW c \in Sectors, Less(c), NEW n \in Nat, Few(n),
           Recent(c, n)
    PROVE  \E t \in ValidSectors' : /\ Age(c, t) <= n
                                    /\ \E a \in Units : Holds(cell'[t], a)
<1>1. PICK t \in ValidSectors : /\ Age(c, t) <= n
                                /\ \E a \in Units : Holds(cell[t], a)
  BY DEF Recent
<1>2. PICK a \in Units : Holds(cell[t], a)
  BY <1>1
<1>3. t # SectorNext(c)
  <2>1. Age(c, SectorNext(c)) = SectorCount - 1
    BY Ages
  <2> QED BY <1>1, <2>1, Numbers DEF Few
<1>4. t \in ValidSectors'
  BY <1>3 DEF Less
<1>5. Holds(cell'[t], a)
  BY <1>2, <1>4 DEF Less, SameView
<1> QED BY <1>1, <1>4, <1>5

\* The newest sector is one, and no id is above the next one.
OneNewest ==
    /\ \A c, lo, hi, E, d, l, h, F :
        FlashType /\ TheLog(c, lo, hi, E) /\ TheLog(d, l, h, F) => c = d
    /\ \A c, lo, hi, E, t, a :
        /\ FlashType /\ TheLog(c, lo, hi, E)
        /\ t \in ValidSectors /\ a \in Units /\ Holds(cell[t], a)
        => /\ lo[t] \in Nat /\ hi[c] \in Nat /\ lo[t] < hi[c]
           /\ lo[c] \in Nat

LEMMA NewestAlone == OneNewest
<1>1. ASSUME FlashType, NEW c, NEW lo, NEW hi, NEW E, TheLog(c, lo, hi, E)
      PROVE  c = NewestOf(ValidSectors)
  <2>1. c \in Sectors /\ c \in ValidSectors /\ RingAt(ValidSectors, hdr, c)
    BY <1>1, LogFacts
  <2>2. /\ NewestOf(ValidSectors) \in ValidSectors
        /\ Age(c, NewestOf(ValidSectors)) <= Age(c, c)
    BY <1>1, <2>1, NewestIs
  <2>3. NewestOf(ValidSectors) \in Sectors
    BY <2>2 DEF ValidSectors
  <2>4. /\ Age(c, c) = 0 /\ Age(c, NewestOf(ValidSectors)) \in Nat
        /\ Age(c, NewestOf(ValidSectors)) = 0 => NewestOf(ValidSectors) = c
    BY <2>1, <2>3, Ages, Numbers
  <2> QED BY <2>2, <2>4
<1>2. ASSUME NEW c, NEW lo, NEW hi, NEW E, NEW t, NEW a,
             FlashType /\ TheLog(c, lo, hi, E),
             t \in ValidSectors /\ a \in Units /\ Holds(cell[t], a)
      PROVE  /\ lo[t] \in Nat /\ hi[c] \in Nat /\ lo[t] < hi[c]
             /\ lo[c] \in Nat
  <2>1. /\ RunOf(cell[t], lo[t], hi[t])
        /\ \A s \in ValidSectors : Age(c, s) < Age(c, t) => hi[t] <= lo[s]
        /\ RunOf(cell[c], lo[c], hi[c])
        /\ c \in ValidSectors /\ c \in Sectors /\ t \in Sectors
        /\ lo \in [Sectors -> Nat] /\ hi \in [Sectors -> Nat]
        /\ cell[t] \in [Units -> Cells]
    BY <1>2, LogFacts DEF RunsAt, FlashType, ValidSectors
  <2>2. /\ lo[t] \in Nat /\ hi[t] \in Nat /\ lo[c] \in Nat /\ hi[c] \in Nat
        /\ cell[t][a].id \in Nat
    BY <1>2, <2>1, CellParts
  <2>3. lo[t] <= cell[t][a].id /\ cell[t][a].id < hi[t] /\ lo[c] <= hi[c]
    BY <1>2, <2>1 DEF RunOf
  <2>4. t = c \/ hi[t] <= lo[c]
    <3>1. /\ Age(c, c) = 0 /\ Age(c, t) \in 0 .. (SectorCount - 1)
          /\ Age(c, t) = 0 <=> t = c
      BY <2>1, Ages
    <3>2. t # c => Age(c, c) < Age(c, t)
      BY <3>1, Numbers
    <3> QED BY <2>1, <3>2
  <2> QED BY <2>2, <2>3, <2>4
<1>3. ASSUME NEW c, NEW lo, NEW hi, NEW E, NEW d, NEW l, NEW h, NEW F,
             FlashType /\ TheLog(c, lo, hi, E) /\ TheLog(d, l, h, F)
      PROVE  c = d
  BY <1>1, <1>3
<1> QED BY <1>2, <1>3 DEF OneNewest

LEMMA BegunNext ==
    ASSUME TypeInv, BegunInv, [Next]_vars
    PROVE  BegunInv'
<1>1. CASE Start
  BY <1>1 DEF Start, BegunInv, SectorInit
<1>2. CASE Call
  BY <1>2 DEF Call, LogAppend, Reset, BegunInv
<1>3. ASSUME NEW s, Staged(s), pc \in StageSector PROVE BegunInv'
  BY <1>3 DEF Staged, Return, request, BegunInv, TypeInv, ControlInv, SectorInit
<1>4. Fail => BegunInv'
  BY DEF Fail, BegunInv
<1>5. CASE Stage
  BY <1>3, <1>4, <1>5 DEF Stage, Goto, StageSector, BegunInv, SectorInit
<1>6. CASE StageErase \/ StageHeader
  BY <1>4, <1>6 DEF StageErase, StageHeader, Goto, BegunInv, SectorInit
<1>7. CASE StageCommit
  BY <1>3, <1>4, <1>7 DEF StageCommit, StageSector
<1>8. CASE SectorErase \/ SectorHeader
  BY <1>4, <1>8 DEF SectorErase, SectorHeader, Goto, request, BegunInv,
                   SectorInit
<1>9. CASE SectorCommit
  BY <1>4, <1>9 DEF SectorCommit, BegunInv, SectorInit
<1>10. CASE EndMarker
  BY <1>4, <1>10 DEF EndMarker, Goto, request, BegunInv, TypeInv, CursorInv
<1>11. CASE Record
  BY <1>4, <1>11 DEF Record, Goto, BegunInv, SectorInit
<1>12. CASE Commit
  BY <1>4, <1>12 DEF Commit, Return, BegunInv
<1>13. CASE ResetErase
  BY <1>4, <1>13 DEF ResetErase, BegunInv, TypeInv, ControlInv
<1>14. CASE PowerFailure
  BY <1>14 DEF PowerFailure, Crash, CrashInErase, CrashInHeader,
              CrashInRecord, PowerOff, BegunInv
<1>15. CASE UNCHANGED vars
  BY <1>15 DEF vars, request, BegunInv
<1> QED BY <1>1, <1>2, <1>5, <1>6, <1>7, <1>8, <1>9, <1>10, <1>11, <1>12,
           <1>13, <1>14, <1>15 DEF Next, Step

\* The log after a step at the same sector, of which some records are left.
LEMMA SameNewest ==
    ASSUME TypeInv, TypeInv', NewestInv, NEW c, NEW lo, NEW hi,
           LogOf(c, lo, hi), Less(c), Failures <= Failures',
           next_id > 0, Few(Failures')
    PROVE  /\ TheLog(c, lo, hi, Back(faults))'
           /\ Recent(c, Failures)'
           /\ \E t \in ValidSectors', a \in Units : Holds(cell'[t], a)
<1>1. /\ FlashType /\ FlashType' /\ TheLog(c, lo, hi, Back(faults))
      /\ c \in Sectors
  BY LogParts DEF TypeInv, TypeOK, FlashType
<1>2. TheLog(c, lo, hi, Back(faults))'
  BY <1>1, LessLog
<1>3. Failures \in Nat /\ Failures' \in Nat
  BY FailuresType, FailuresTypeNext DEF FailuresOK
<1>4. Few(Failures)
  BY <1>3, FewLess
<1>5. Recent(c, Failures)
  BY <1>4 DEF NewestInv
<1>6. PICK t \in ValidSectors' : /\ Age(c, t) <= Failures
                                 /\ \E a \in Units : Holds(cell'[t], a)
  BY <1>1, <1>3, <1>4, <1>5, RecentStays
<1>7. t \in Sectors /\ Age(c, t) \in Nat
  <2>1. t \in Sectors
    BY <1>6 DEF ValidSectors
  <2> QED BY <1>1, <2>1, Ages, Numbers
<1>8. Age(c, t) <= Failures'
  BY <1>3, <1>6, <1>7
<1> QED BY <1>2, <1>6, <1>8 DEF Recent

\* The id that is next stays, or there are no records left.
LEMMA KeptId ==
    ASSUME TypeInv, TypeInv', NEW c, NEW lo, NEW hi, LogOf(c, lo, hi),
           Kept(c, lo, hi)
    PROVE  \/ next_id' = next_id
           \/ /\ next_id' = 0
              /\ \A t \in ValidSectors', a \in Units : ~Holds(cell'[t], a)
<1>1. PICK c2, lo2, hi2 : /\ LogOf(c2, lo2, hi2)'
                          /\ Shorter(c, lo, hi, c2, lo2, hi2)
  BY DEF Kept
<1>2. hi2[c2] = next_id' /\ hi[c] = next_id
  BY <1>1 DEF LogOf
<1>3. CASE hi2[c2] = 0
  <2>1. FlashType' /\ TheLog(c2, lo2, hi2, Back(faults))'
    BY <1>1 DEF LogOf, TypeInv, TypeOK, FlashType
  <2>2. OneNewest'
    BY NewestAlone, PTL
  <2>3. ASSUME NEW t \in ValidSectors', NEW a \in Units, Holds(cell'[t], a)
        PROVE  FALSE
    <3>1. lo2[t] \in Nat /\ lo2[t] < hi2[c2]
      BY <2>1, <2>2, <2>3 DEF OneNewest
    <3> QED BY <1>3, <3>1
  <2> QED BY <1>2, <1>3, <2>3
<1> QED BY <1>1, <1>2, <1>3 DEF Shorter

\* A sector begun has none of the records.
LEMMA BegunNewest ==
    ASSUME Plain, TypeInv, TypeInv', BegunInv, NewestInv,
           NEW c, NEW lo, NEW hi, LogOf(c, lo, hi), SectorCommit, pc' = "stage",
           next_id > 0, Few(Failures')
    PROVE  Recent(SectorNext(c), Failures)'
<1> DEFINE n == SectorNext(c)
<1>1. /\ FlashType /\ c \in Sectors /\ n \in Sectors /\ n # c
  BY LogParts
<1>2. pc = "sector_commit" /\ pc # "off" /\ pc \in SectorInit
  BY DEF SectorCommit, SectorInit
<1>3. /\ n \notin ValidSectors /\ op = "append" /\ InitSector = n
  BY <1>2 DEF LogOf, Progress, InitSector
<1>4. /\ TryHeader(n, HeaderWith(n, "VALID"), TRUE)
      /\ op' = op /\ then' = "record" /\ crashes' = crashes
  <2>1. PICK good \in BOOLEAN :
          /\ TryHeader(InitSector, HeaderWith(InitSector, "VALID"), good)
          /\ IF good THEN /\ then' = IF op = "append" THEN "record" ELSE "done"
                          /\ op' = op
             ELSE Fail
    BY DEF SectorCommit
  <2>2. good
    BY <2>1 DEF Fail
  <2>3. good = TRUE
    BY <2>2
  <2>4. crashes' = crashes
    BY DEF SectorCommit
  <2> QED BY <1>3, <2>1, <2>3, <2>4
<1>5. then = "sector_erase"
  BY <1>2, <1>3 DEF BegunInv
<1>6. /\ SetHeader(n, HeaderWith(n, "VALID")) /\ faults' = faults
  BY <1>4 DEF TryHeader
<1>7. cell' = cell /\ \A s \in Sectors \ {n} : hdr'[s] = hdr[s]
  BY <1>1, <1>6 DEF SetHeader, FlashType
<1>8. Begun = 0 /\ Begun' = 1
  BY <1>3, <1>4, <1>5 DEF Begun
<1>9. Failures \in Nat /\ Failures' = Failures + 1
  <2>1. crashes \in Nat /\ faults \in Nat
    BY FailuresType DEF FailuresOK
  <2>2. Sum(crashes, faults, 1) = Sum(crashes, faults, 0) + 1
        /\ Sum(crashes, faults, 0) \in Nat
    BY <2>1 DEF Sum
  <2>3. Failures = Sum(crashes, faults, 0)
    BY <1>8 DEF Failures
  <2>4. Failures' = Sum(crashes, faults, 1)
    BY <1>4, <1>6, <1>8 DEF Failures
  <2> QED BY <2>2, <2>3, <2>4
<1>10. Few(Failures)
  <2>1. Failures' \in Nat /\ Failures <= Failures'
    BY <1>9
  <2> QED BY <1>9, <2>1, FewLess
<1>11. PICK t \in ValidSectors : /\ Age(c, t) <= Failures
                                 /\ \E a \in Units : Holds(cell[t], a)
  BY <1>10 DEF NewestInv, Recent
<1>12. t \in Sectors /\ t # n /\ t \in ValidSectors'
  BY <1>3, <1>7, <1>11 DEF ValidSectors
<1>13. Age(n, t) <= Failures'
  <2>1. Age(n, t) = Age(c, t) + 1 /\ Age(c, t) \in 0 .. (SectorCount - 1)
    BY <1>1, <1>12, Ages
  <2>2. Age(c, t) \in Nat
    BY <2>1, Numbers
  <2> HIDE DEF n
  <2> QED BY <1>9, <1>11, <2>1, <2>2
<1> QED BY <1>7, <1>11, <1>12, <1>13 DEF Recent

\* A record appended is in the newest sector.
LEMMA AddedNewest ==
    ASSUME TypeInv, TypeInv', NEW c, NEW lo, NEW hi, LogOf(c, lo, hi),
           LogOf(c, lo, [hi EXCEPT ![c] = hi[c] + 1])'
    PROVE  Recent(c, Failures)'
<1> DEFINE h2 == [hi EXCEPT ![c] = hi[c] + 1]
<1>1. /\ FlashType /\ FlashType' /\ TheLog(c, lo, hi, Back(faults))
      /\ c \in Sectors /\ c \in ValidSectors
  BY LogParts DEF TypeInv, TypeOK, FlashType
<1>2. /\ hi \in [Sectors -> Nat] /\ lo[c] \in Nat /\ lo[c] <= hi[c]
      /\ hi[c] \in Nat
  BY <1>1, LogFacts
<1>3. h2[c] = hi[c] + 1
  BY <1>1, <1>2
<1> HIDE DEF h2
<1>4. c \in ValidSectors' /\ RunOf(cell'[c], lo[c], h2[c])
  <2>1. TheLog(c, lo, h2, Back(faults))'
    BY DEF LogOf, h2
  <2> QED BY <2>1 DEF TheLog, LogAt, RingAt, RunsAt
<1>5. Holds(cell'[c], 0)
  <2>1. ~Holds(cell'[c], 0) => h2[c] = lo[c]
    BY <1>4 DEF RunOf
  <2> QED BY <1>2, <1>3, <2>1
<1>6. 0 \in Units /\ Age(c, c) = 0
  BY <1>1, Ages, Numbers
<1>7. Failures' \in Nat
  BY FailuresTypeNext DEF FailuresOK
<1>8. Age(c, c) <= Failures'
  BY <1>6, <1>7
<1> QED BY <1>4, <1>5, <1>6, <1>8 DEF Recent

\* The kinds of steps, and what each leaves of the newest record.
LEMMA StepNewest ==
    ASSUME Plain, RingInv, RingInv', NEW c, NEW lo, NEW hi, LogOf(c, lo, hi),
           [Next]_vars
    PROVE  \/ Less(c) /\ Failures <= Failures' /\ Kept(c, lo, hi)
           \/ /\ SectorCommit /\ pc' = "stage"
              /\ next_id' = next_id /\ current_sector' = SectorNext(c)
           \/ /\ Commit /\ next_id' = next_id + 1
              /\ LogOf(c, lo, [hi EXCEPT ![c] = hi[c] + 1])'
<1>1. TypeInv /\ TypeInv' /\ BlankInv
  BY DEF RingInv
<1>2. FlashType /\ SectorNext(c) \in Sectors /\ faults <= faults
  BY <1>1, LogParts
<1>3. ASSUME Fail, crashes' = crashes, faults' = faults + 1
      PROVE  Failures <= Failures'
  BY <1>1, <1>3, FailuresType, FailuresTypeNext, Sums DEF Failures, FailuresOK
<1>4. CASE UNCHANGED vars
  <2>1. /\ UNCHANGED flash /\ faults' = faults
        /\ Sum(crashes', faults', Begun') = Sum(crashes, faults, Begun)
    BY <1>4 DEF vars, env, request, Begun
  <2>2. Less(c)
    BY <1>2, <2>1, SameLess
  <2>3. Failures' = Failures /\ Failures \in Nat
    BY <1>1, <2>1, FailuresType DEF Failures, FailuresOK
  <2>4. Kept(c, lo, hi)
    BY <1>1, <1>4, LogSame
  <2> QED BY <2>2, <2>3, <2>4
<1>5. CASE Next /\ ~SectorCommit /\ ~Commit
  BY <1>1, <1>5, OtherLess, OtherFailures, LogNext
<1>6. CASE SectorCommit
  <2> DEFINE n == SectorNext(c)
  <2>1. pc = "sector_commit" /\ pc # "off" /\ pc \in SectorInit
    BY <1>6 DEF SectorCommit, SectorInit
  <2>2. n \notin ValidSectors /\ op = "append" /\ InitSector = n
    BY <2>1 DEF LogOf, Progress, InitSector
  <2>3. PICK good \in BOOLEAN :
            /\ TryHeader(n, HeaderWith(n, "VALID"), good)
            /\ IF good THEN pc' = "stage" /\ current_sector' = n ELSE Fail
    BY <1>6, <2>2 DEF SectorCommit
  <2>4. next_id' = next_id /\ crashes' = crashes
    BY <1>6 DEF SectorCommit
  <2>5. CASE good
    BY <1>6, <2>3, <2>4, <2>5
  <2>6. CASE ~good
    <3>1. faults' = faults + 1
      BY <2>3, <2>6 DEF TryHeader, Fault
    <3>2. Less(c)
      BY <1>2, <2>2, <2>3, <2>6, TryHeaderLess DEF Plain
    <3>3. Kept(c, lo, hi)
      BY <1>1, <1>6, SectorCommitLog
    <3> QED BY <1>3, <2>3, <2>4, <2>6, <3>1, <3>2, <3>3
  <2> QED BY <2>5, <2>6
<1>7. CASE Commit
  <2>1. CASE ret' = "FAIL" /\ next_id' = next_id /\ Kept(c, lo, hi)
    <3>1. /\ pc = "commit" /\ pc # "off" /\ c = current_sector
          /\ cell \in [Sectors -> [Units -> Cells]] /\ c \in Sectors
      BY <1>1, <1>7, LogParts DEF Commit, LogOf, Cursor, FlashType
    <3>2. PICK good \in BOOLEAN :
            /\ TryCells(StateAt(c, write_addr, "VALID"), cell[c], good)
            /\ IF good THEN Return("EOK") ELSE Fail
      BY <1>7, <3>1 DEF Commit
    <3>3. ~good
      BY <2>1, <3>2 DEF Return
    <3>4. Fault("write") /\ UNCHANGED flash
      <4>1. [cell EXCEPT ![c] = cell[c]] = cell
        BY <3>1
      <4> QED BY <3>1, <3>2, <3>3, <4>1 DEF TryCells, SetCells, flash
    <3>5. Fail /\ crashes' = crashes /\ faults' = faults + 1
      BY <1>7, <3>2, <3>3, <3>4 DEF Commit, Fault
    <3>6. Less(c)
      BY <1>2, <3>4, MoreFaults, SameLess
    <3> QED BY <1>3, <2>1, <3>5, <3>6
  <2> QED BY <1>1, <1>7, <2>1, CommitLog
<1> QED BY <1>4, <1>5, <1>6, <1>7

LEMMA NewestNext ==
    ASSUME Plain, RingInv, RingInv', BegunInv, NewestInv, [Next]_vars
    PROVE  NewestInv'
<1>1. TypeInv /\ TypeInv' /\ BlankInv /\ LogInv
  BY DEF RingInv
<1>2. OneNewest'
  BY NewestAlone, PTL
<1> SUFFICES ASSUME NEW c2, NEW lo2, NEW hi2, LogOf(c2, lo2, hi2)',
                    next_id' > 0, Few(Failures')
             PROVE  Recent(c2, Failures)'
  BY DEF NewestInv
<1>3. FlashType' /\ TheLog(c2, lo2, hi2, Back(faults))'
  BY <1>1 DEF LogOf, TypeInv, TypeOK, FlashType
<1>4. CASE NoLog
  <2>1. ~NoLog'
    BY <1>3 DEF NoLog, TheLog, LogAt, RingAt
  <2>2. SectorCommit
    BY <1>1, <1>4, <2>1, NoLogNext
  <2> QED BY <1>4, <2>2 DEF NoLog, SectorCommit
<1>5. ASSUME NEW c, NEW lo, NEW hi, LogOf(c, lo, hi)
      PROVE  Recent(c2, Failures)'
  <2>1. next_id \in Nat
    BY <1>1, <1>5, LogParts
  <2>2. CASE Less(c) /\ Failures <= Failures' /\ Kept(c, lo, hi)
    <3>1. next_id > 0
      BY <1>1, <1>5, <2>2, KeptId
    <3>2. TheLog(c, lo, hi, Back(faults))' /\ Recent(c, Failures)'
      BY <1>1, <1>5, <2>2, <3>1, SameNewest
    <3>3. c2 = c
      BY <1>2, <1>3, <3>2 DEF OneNewest
    <3> QED BY <3>2, <3>3
  <2>3. CASE /\ SectorCommit /\ pc' = "stage"
             /\ next_id' = next_id /\ current_sector' = SectorNext(c)
    <3>1. Recent(SectorNext(c), Failures)'
      BY <1>1, <1>5, <2>3, BegunNewest
    <3>2. c2 = SectorNext(c)
      BY <2>3 DEF LogOf, Cursor
    <3> QED BY <3>1, <3>2
  <2>4. CASE LogOf(c, lo, [hi EXCEPT ![c] = hi[c] + 1])'
    <3>1. Recent(c, Failures)'
      BY <1>1, <1>5, <2>4, AddedNewest
    <3>2. TheLog(c, lo, [hi EXCEPT ![c] = hi[c] + 1], Back(faults))'
      BY <2>4 DEF LogOf
    <3>3. c2 = c
      BY <1>2, <1>3, <3>2 DEF OneNewest
    <3> QED BY <3>1, <3>3
  <2> QED BY <1>5, <2>2, <2>3, <2>4, StepNewest
<1> QED BY <1>1, <1>4, <1>5 DEF LogInv

\* Where there is a record, the newest one is that before the next id.
NewestThere ==
    \A c, lo, hi, t, a :
        /\ RingInv /\ LogOf(c, lo, hi)
        /\ t \in ValidSectors /\ a \in Units /\ Holds(cell[t], a)
        => Forward # <<>> /\ Forward[Len(Forward)] = next_id - 1

LEMMA NewestEnds == NewestThere
<1> SUFFICES ASSUME NEW c, NEW lo, NEW hi, NEW t, NEW a, RingInv,
                    LogOf(c, lo, hi), t \in ValidSectors, a \in Units,
                    Holds(cell[t], a)
             PROVE  Forward # <<>> /\ Forward[Len(Forward)] = next_id - 1
  BY DEF NewestThere
<1>1. /\ FlashType /\ TheLog(c, lo, hi, Back(faults)) /\ hi[c] = next_id
  BY LogParts DEF RingInv
<1>2. PICK o : Oldest(ValidSectors, c, o)
  BY <1>1, ForwardAlways DEF ForwardRight
<1>3. /\ lo[o] \in Nat /\ next_id \in Nat /\ lo[o] <= next_id
      /\ Forward = IdsOf(lo[o], next_id)
      /\ lo[o] <= lo[t]
  BY <1>1, <1>2, ForwardAlways DEF ForwardRight
<1>4. lo[t] \in Nat /\ lo[t] < next_id
  BY <1>1, NewestAlone DEF OneNewest
<1>5. lo[o] # next_id
  BY <1>3, <1>4
<1>6. /\ next_id - lo[o] \in 1 .. (next_id - lo[o])
      /\ lo[o] + (next_id - lo[o]) - 1 = next_id - 1
  BY <1>3, <1>5
<1> DEFINE f == IdsOf(lo[o], next_id)
<1>7. /\ Len(f) = next_id - lo[o]
      /\ \A n \in 1 .. (next_id - lo[o]) : f[n] = lo[o] + n - 1
      /\ f # <<>>
  BY <1>3, <1>5, IdsFacts
<1> HIDE DEF f
<1>8. f[Len(f)] = next_id - 1
  BY <1>6, <1>7
<1> QED BY <1>3, <1>7, <1>8 DEF f

LEMMA FewSum ==
    ASSUME NEW a \in Nat, NEW b \in Nat, a + b < SectorCount - 1
    PROVE  Few(Sum(a, b, 0))
BY Numbers DEF Few, Sum

LEMMA SurvivesStep ==
    ASSUME Plain, RingInv, RingInv', NewestInv, NewestInv', [Next]_vars,
           Few(Sum(crashes', faults', 0))
    PROVE  /\ next_id' >= next_id
           /\ pc' = "idle" /\ next_id' > 0 =>
                /\ Forward' # <<>>
                /\ Forward'[Len(Forward')] = next_id' - 1
<1>1. TypeInv /\ TypeInv' /\ BlankInv /\ LogInv /\ LogInv'
  BY DEF RingInv
<1>2. next_id \in Nat /\ next_id' \in Nat
  BY <1>1, ConstantsAssumption DEF TypeInv, TypeOK
<1>3. op' = "none" => Few(Failures')
  BY DEF Failures, Begun
<1>4. next_id' >= next_id
  <2>1. CASE NoLog
    BY <1>2, <2>1 DEF NoLog
  <2>2. ASSUME NEW c, NEW lo, NEW hi, LogOf(c, lo, hi), next_id' # next_id
        PROVE  next_id' >= next_id
    <3>1. CASE Kept(c, lo, hi) /\ ~SectorCommit /\ ~Commit
      <4>1. ~UNCHANGED vars
        BY <2>2 DEF vars
      <4>2. op # "reset" /\ ~Reset
        <5>1. pc = "off" => op = "none"
          BY <1>1 DEF TypeInv, ControlInv
        <5> QED BY <2>2, <5>1 DEF LogOf, Progress, Reset, Plain
      <4>3. Inits
        BY <1>1, <2>2, <3>1, <4>1, <4>2, StepKinds
           DEF Begins, Goes, Fails, Commits, Stops
      <4>4. Few(Failures')
        BY <1>3, <4>3 DEF Inits
      <4>5. Less(c) /\ Failures <= Failures'
        BY <1>1, <2>2, <3>1, <4>1, OtherLess, OtherFailures
      <4>6. CASE next_id > 0
        <5>1. \E t \in ValidSectors', a \in Units : Holds(cell'[t], a)
          BY <1>1, <2>2, <4>4, <4>5, <4>6, SameNewest
        <5> QED BY <1>1, <2>2, <3>1, <5>1, KeptId
      <4> QED BY <1>2, <4>6
    <3>2. CASE next_id' = next_id + 1
      BY <1>2, <3>2
    <3>3. SectorCommit => next_id' = next_id
      BY DEF SectorCommit
    <3>4. Commit => next_id' \in {next_id, next_id + 1}
      BY DEF Commit
    <3> QED BY <1>1, <2>2, <3>1, <3>2, <3>3, <3>4, LogNext
  <2> QED BY <1>1, <1>2, <2>1, <2>2 DEF LogInv
<1>5. ASSUME pc' = "idle", next_id' > 0
      PROVE  /\ Forward' # <<>>
             /\ Forward'[Len(Forward')] = next_id' - 1
  <2>1. Few(Failures')
    BY <1>1, <1>3, <1>5 DEF TypeInv, ControlInv
  <2>2. PICK c, lo, hi : LogOf(c, lo, hi)'
    BY <1>1, <1>5 DEF LogInv, NoLog
  <2>3. Recent(c, Failures)'
    BY <1>5, <2>1, <2>2 DEF NewestInv
  <2>4. NewestThere'
    BY NewestEnds, PTL
  <2> QED BY <2>2, <2>3, <2>4 DEF Recent, NewestThere
<1> QED BY <1>4, <1>5

\* The newest record is never lost to fewer failures than there are sectors
\* besides the staged one, and the ids never go back: at most one sector is
\* wasted by each failure, whatever it interrupts, and the sector given up is
\* always the one that is furthest from the newest record.
THEOREM NewestIsKept ==
    ASSUME Plain
    PROVE  Spec => NewestSurvives
<1>1. Init => RingInv /\ BegunInv /\ NewestInv
  <2> SUFFICES ASSUME Init PROVE RingInv /\ BegunInv /\ NewestInv
    OBVIOUS
  <2>1. RingInv
    BY TypeInit, BlankInit, LogInit DEF RingInv, LogInv
  <2>2. BegunInv
    BY DEF Init, BegunInv
  <2>3. NewestInv
    BY DEF Init, NewestInv
  <2> QED BY <2>1, <2>2, <2>3
<1>2. RingInv /\ BegunInv /\ NewestInv /\ [Next]_vars
        => (RingInv /\ BegunInv /\ NewestInv)'
  BY RingNext, BegunNext, NewestNext DEF RingInv
<1>3. RingInv /\ RingInv' /\ NewestInv /\ NewestInv' /\ [Next]_vars
        => [crashes' + faults' < SectorCount - 1 =>
              /\ next_id' >= next_id
              /\ pc' = "idle" /\ next_id' > 0 =>
                    /\ Forward' # <<>>
                    /\ Forward'[Len(Forward')] = next_id' - 1]_vars
  <2> SUFFICES ASSUME RingInv, RingInv', NewestInv, NewestInv', [Next]_vars,
                      crashes' + faults' < SectorCount - 1
               PROVE  /\ next_id' >= next_id
                      /\ pc' = "idle" /\ next_id' > 0 =>
                            /\ Forward' # <<>>
                            /\ Forward'[Len(Forward')] = next_id' - 1
    OBVIOUS
  <2>1. crashes' \in Nat /\ faults' \in Nat
    BY FailuresTypeNext DEF RingInv, FailuresOK
  <2>2. Few(Sum(crashes', faults', 0))
    BY <2>1, FewSum
  <2> QED BY <2>2, SurvivesStep
<1> QED BY <1>1, <1>2, <1>3, PTL DEF Spec, NewestSurvives
=============================================================================
