------------------------------ MODULE RingLog ------------------------------
(***************************************************************************)
(* What a circular log promises: records in the order of their ids without *)
(* a gap; appending is atomic, also when it fails or power does; only the  *)
(* oldest records are given up for it.                                     *)
(***************************************************************************)
EXTENDS Integers, Sequences

VARIABLES
    log,        \* the ids of the records kept, oldest first
    next,       \* the id of the next record
    busy,       \* the operation in progress
    result      \* result of the last operation

vars == <<log, next, busy, result>>

\* What may remain, t, of a log s: only its oldest records are given up; but a
\* reset that stops half way may have taken any.
Remains(t, s) ==
    \/ \E n \in 0 .. Len(s) : t = SubSeq(s, n + 1, Len(s))
    \/ /\ busy = "reset"
       /\ \A n \in DOMAIN t : \E m \in DOMAIN s : t[n] = s[m]
       /\ \A n \in DOMAIN t : n > 1 => t[n - 1] < t[n]

Init ==
    /\ log = <<>>
    /\ next = 0
    /\ busy = "none"
    /\ result = "none"

Begin ==
    /\ busy = "none"
    /\ busy' \in {"append", "init", "reset"}
    /\ UNCHANGED <<log, next, result>>

GiveUp ==
    /\ busy # "none"
    /\ Remains(log', log)
    /\ UNCHANGED <<next, busy, result>>

Done ==
    /\ busy # "none"
    /\ busy' = "none"
    /\ result' = "EOK"
    /\ \/ /\ busy = "append"
          /\ log' = Append(log, next)
          /\ next' = next + 1
       \/ /\ busy = "init"
          /\ Remains(log', log)
          /\ next' = IF log' = <<>> THEN 0 ELSE log'[Len(log')] + 1
       \/ /\ busy = "reset"
          /\ log' = <<>>
          /\ UNCHANGED next

Failed ==
    /\ busy # "none"
    /\ busy' = "none"
    /\ result' = "FAIL"
    /\ Remains(log', log)
    /\ UNCHANGED next

PowerFailure ==
    /\ busy' = "none"
    /\ result' = "none"
    /\ Remains(log', log)
    /\ UNCHANGED next

Next == Begin \/ GiveUp \/ Done \/ Failed \/ PowerFailure

Spec == Init /\ [][Next]_vars
=============================================================================
