--------------------------- MODULE TalliesProofs ---------------------------
(***************************************************************************)
(* Proofs about Tallies, for every set of blocks, every number of counters *)
(* and ids, every bound of a pass, and any number of failures.             *)
(***************************************************************************)
EXTENDS Tallies, TLAPS

----------------------------------------------------------------------------
(* Operators.                                                              *)

\* What the volume, a counter and the scratch record start from has its type.
LEMMA Zeroes ==
    /\ 0 \in Values
    /\ 0 \in Ids
    /\ Empty \in [Ids -> Records]
    /\ NoRecord \in Records
    /\ NoScratch \in [id: Ids, name: Entries \union {None}, value: Values]
<1>1. 0 \in Values /\ 0 \in Ids
  BY ConstantsAssumption DEF Values, Ids
<1>2. NoRecord \in Records
  BY <1>1 DEF NoRecord, Records
<1> QED BY <1>1, <1>2 DEF Empty, NoScratch

\* The ids of a block that is registered, or no longer is, are in range.
LEMMA IdInRange ==
    ASSUME TypeOK, BaseInv, NEW b \in Blocks, NEW n \in Locals
    PROVE  /\ <<b, n>> \in Entries
           /\ Id(<<b, n>>) \in Ids
<1>1. base[b] \in Nat /\ base[b] <= BaseNone
  BY ConstantsAssumption DEF TypeOK, ListTypes, BaseInv
<1>2. n \in Nat /\ n <= Count - 1
  BY ConstantsAssumption DEF Locals
<1>3. base[b] + n \in 0 .. (BaseNone + Count - 1)
  BY <1>1, <1>2, ConstantsAssumption
<1> QED BY <1>3 DEF Entries, Id, Ids

\* The counter that a thread is at is one.
LEMMA HereIsEntry ==
    ASSUME TypeInv, NEW t \in Threads,
           blk[t] \in Blocks, local[t] < Count
    PROVE  /\ local[t] \in Locals
           /\ Here(t) = <<blk[t], local[t]>>
           /\ Here(t) \in Entries
           /\ Id(Here(t)) \in Ids
<1>1. local[t] \in Locals
  BY ConstantsAssumption DEF TypeInv, TypeOK, ThreadTypes, Locals
<1> QED BY <1>1, IdInRange DEF TypeInv, Here

\* A flush leaves counts in range.
LEMMA FlushTypes ==
    ASSUME TypeOK, NEW wrote \in BOOLEAN, FlushDone(wrote)
    PROVE  /\ kept' \in [Ids -> Values]
           /\ owed' \in [Ids -> Values]
           /\ total' \in [Entries -> Values]
BY ConstantsAssumption DEF TypeOK, HistoryTypes, FlushDone, Values

LEMMA OweTypes ==
    ASSUME TypeOK, Owe
    PROVE  /\ kept' \in [Ids -> Values]
           /\ owed' \in [Ids -> Values]
           /\ total' \in [Entries -> Values]
<1> DEFINE mine(id) == {e \in Entries : Registered(e[1]) /\ Id(e) = id}
           owes(id) == IF mine(id) = {} THEN 0
                       ELSE entry[CHOOSE e \in mine(id) : TRUE]
<1>1. owed' = [id \in Ids |-> owes(id)]
  BY DEF Owe
<1>2. ASSUME NEW id \in Ids
      PROVE  owes(id) \in Values
  <2>1. CASE mine(id) = {}
    BY <2>1, ConstantsAssumption DEF Values
  <2>2. CASE mine(id) # {}
    <3>1. (CHOOSE e \in mine(id) : TRUE) \in mine(id)
      BY <2>2
    <3>2. (CHOOSE e \in mine(id) : TRUE) \in Entries
      BY <3>1
    <3> QED BY <2>2, <3>2 DEF TypeOK, ValueTypes
  <2> QED BY <2>1, <2>2
<1> HIDE DEF owes
<1>3. owed' \in [Ids -> Values]
  BY <1>1, <1>2
<1> QED BY <1>3 DEF Owe, TypeOK, HistoryTypes

\* A pass returns to its caller.
LEMMA ReturnTypes ==
    ASSUME TypeInv, NEW t \in Threads, NEW wrote \in BOOLEAN,
           PassReturn(t, wrote)
    PROVE  /\ \E l \in {"task_end", "stop_unload", "idle"} :
                pc' = [pc EXCEPT ![t] = l]
           /\ op' \in {"none", "start", "stop", "persist", "reset", "register"}
           /\ kept' \in [Ids -> Values]
           /\ owed' \in [Ids -> Values]
           /\ total' \in [Entries -> Values]
<1>1. CASE t = "task" /\ Goto(t, "task_end") /\ UNCHANGED <<op, history>>
  BY <1>1 DEF TypeInv, TypeOK, ThreadTypes, HistoryTypes, Goto, history
<1>2. CASE /\ t = "life"
           /\ FlushDone(wrote)
           /\ IF op = "stop" THEN Goto(t, "stop_unload") /\ UNCHANGED op
              ELSE Goto(t, "idle") /\ op' = "none"
  BY <1>2, FlushTypes DEF TypeInv, TypeOK, ThreadTypes, Goto
<1> QED BY <1>1, <1>2 DEF PassReturn

----------------------------------------------------------------------------
(* Types, the mutex and the loops.                                         *)

LEMMA TypeInit == Init => TypeInv
<1> SUFFICES ASSUME Init PROVE TypeInv
  OBVIOUS
<1> USE ConstantsAssumption
<1>1. ListTypes /\ ValueTypes
  BY DEF Init, ListTypes, ValueTypes, Values
<1>2. StoreTypes
  <2>1. 0 \in Values /\ 0 \in Ids
    BY DEF Values, Ids
  <2>2. NoRecord \in Records
    BY <2>1 DEF NoRecord, Records
  <2> QED BY <2>1, <2>2 DEF Init, StoreTypes, Empty, NoScratch
<1>3. ThreadTypes /\ HistoryTypes
  BY DEF Init, ThreadTypes, HistoryTypes, PcNames, Threads, Values
<1>4. BaseInv /\ MutexInv /\ CursorInv
  BY DEF Init, BaseInv, MutexInv, CursorInv, Using, Threads
<1> QED BY <1>1, <1>2, <1>3, <1>4 DEF TypeInv, TypeOK

LEMMA TypeNext == TypeInv /\ [Next]_vars => TypeInv'
<1> SUFFICES ASSUME TypeInv, [Next]_vars PROVE TypeInv'
  OBVIOUS
<1> USE ConstantsAssumption DEF TypeInv
<1>1. ASSUME NEW e \in Entries, Add(e)
      PROVE  TypeInv'
  <2>1. /\ ListTypes' /\ StoreTypes' /\ ThreadTypes'
        /\ BaseInv' /\ MutexInv' /\ CursorInv'
    BY <1>1
       DEF Add, list, store, task, cursor, TypeOK, ListTypes, StoreTypes,
           ThreadTypes, BaseInv, MutexInv, CursorInv
  <2>2. ValueTypes'
    BY <1>1 DEF Add, TypeOK, ValueTypes, Values
  <2>3. HistoryTypes'
    BY <1>1 DEF Add, env, TypeOK, HistoryTypes, Values
  <2> QED BY <2>1, <2>2, <2>3 DEF TypeOK
<1>2. ASSUME NEW e \in Entries, NEW v \in Values, Set(e, v)
      PROVE  TypeInv'
  <2>1. /\ ListTypes' /\ StoreTypes' /\ ThreadTypes'
        /\ BaseInv' /\ MutexInv' /\ CursorInv'
    BY <1>2
       DEF Set, list, store, task, cursor, TypeOK, ListTypes, StoreTypes,
           ThreadTypes, BaseInv, MutexInv, CursorInv
  <2>2. ValueTypes'
    BY <1>2 DEF Set, TypeOK, ValueTypes, Values
  <2>3. HistoryTypes'
    <3>1. 0 \in Values
      BY Zeroes
    <3> QED BY <1>2, <3>1 DEF Set, env, TypeOK, HistoryTypes, Values
  <2> QED BY <2>1, <2>2, <2>3 DEF TypeOK
<1>3. ASSUME Start
      PROVE  TypeInv'
  <2>1. /\ ListTypes' /\ ValueTypes' /\ StoreTypes'
        /\ HistoryTypes' /\ BaseInv'
    BY <1>3
       DEF Start, list, values, store, task, env, history, TypeOK, ListTypes,
           ValueTypes, StoreTypes, HistoryTypes, BaseInv
  <2>2. ThreadTypes'
    BY <1>3 DEF Start, Call, Goto, cursor, TypeOK, ThreadTypes, PcNames, Threads
  <2>3. MutexInv'
    BY <1>3 DEF Start, Call, Goto, TypeOK, ThreadTypes, MutexInv, Using, Threads
  <2>4. CursorInv'
    BY <1>3
       DEF Start, Call, Goto, cursor, TypeOK, ThreadTypes, CursorInv, Threads
  <2> QED BY <2>1, <2>2, <2>3, <2>4 DEF TypeOK
<1>4. ASSUME Stop
      PROVE  TypeInv'
  <2>1. ListTypes' /\ ValueTypes' /\ BaseInv'
    BY <1>4 DEF Stop, list, values, TypeOK, ListTypes, ValueTypes, BaseInv
  <2>2. StoreTypes'
    BY <1>4 DEF Stop, store, TypeOK, StoreTypes
  <2>3. ThreadTypes'
    BY <1>4 DEF Stop, Call, Goto, cursor, TypeOK, ThreadTypes, PcNames, Threads
  <2>4. HistoryTypes'
    <3>1. Owe /\ UNCHANGED env
      BY <1>4 DEF Stop
    <3> QED BY <3>1, OweTypes DEF env, TypeOK, HistoryTypes
  <2>5. MutexInv'
    BY <1>4 DEF Stop, Call, Goto, TypeOK, ThreadTypes, MutexInv, Using, Threads
  <2>6. CursorInv'
    BY <1>4
       DEF Stop, Call, Goto, cursor, TypeOK, ThreadTypes, CursorInv, Threads
  <2> QED BY <2>1, <2>2, <2>3, <2>4, <2>5, <2>6 DEF TypeOK
<1>5. ASSUME Persist
      PROVE  TypeInv'
  <2>1. ListTypes' /\ ValueTypes' /\ StoreTypes' /\ BaseInv'
    BY <1>5
       DEF Persist, list, values, store, task, TypeOK, ListTypes, ValueTypes,
           StoreTypes, BaseInv
  <2>2. ThreadTypes'
    BY <1>5
       DEF Persist, Call, Goto, cursor, TypeOK, ThreadTypes, PcNames, Threads
  <2>3. HistoryTypes'
    <3>1. Owe /\ UNCHANGED env
      BY <1>5 DEF Persist
    <3> QED BY <3>1, OweTypes DEF env, TypeOK, HistoryTypes
  <2>4. MutexInv'
    BY <1>5
       DEF Persist, Call, Goto, TypeOK, ThreadTypes, MutexInv, Using, Threads
  <2>5. CursorInv'
    BY <1>5
       DEF Persist, Call, Goto, cursor, TypeOK, ThreadTypes, CursorInv,
           Threads
  <2> QED BY <2>1, <2>2, <2>3, <2>4, <2>5 DEF TypeOK
<1>6. ASSUME Reset
      PROVE  TypeInv'
  <2>1. /\ ListTypes' /\ ValueTypes' /\ StoreTypes'
        /\ HistoryTypes' /\ BaseInv'
    BY <1>6
       DEF Reset, list, values, store, task, env, history, TypeOK, ListTypes,
           ValueTypes, StoreTypes, HistoryTypes, BaseInv
  <2>2. ThreadTypes'
    BY <1>6 DEF Reset, Call, Goto, cursor, TypeOK, ThreadTypes, PcNames, Threads
  <2>3. MutexInv'
    BY <1>6 DEF Reset, Call, Goto, TypeOK, ThreadTypes, MutexInv, Using, Threads
  <2>4. CursorInv'
    BY <1>6
       DEF Reset, Call, Goto, cursor, TypeOK, ThreadTypes, CursorInv, Threads
  <2> QED BY <2>1, <2>2, <2>3, <2>4 DEF TypeOK
<1>7. ASSUME NEW b \in Blocks, Unregister(b)
      PROVE  TypeInv'
  <2>1. /\ ValueTypes' /\ StoreTypes' /\ ThreadTypes'
        /\ HistoryTypes' /\ MutexInv' /\ CursorInv'
    BY <1>7
       DEF Unregister, values, store, task, cursor, env, history, TypeOK,
           ValueTypes, StoreTypes, ThreadTypes, HistoryTypes, MutexInv,
           CursorInv
  <2>2. ListTypes'
    BY <1>7 DEF Unregister, TypeOK, ListTypes
  <2>3. BaseInv'
    BY <1>7 DEF Unregister, BaseInv
  <2> QED BY <2>1, <2>2, <2>3 DEF TypeOK
<1>8. ASSUME NEW b \in Blocks, NEW id \in Bases, Register(b, id)
      PROVE  TypeInv'
  <2>1. ValueTypes' /\ StoreTypes'
    BY <1>8 DEF Register, values, store, task, TypeOK, ValueTypes, StoreTypes
  <2>2. ListTypes'
    BY <1>8 DEF Register, TypeOK, ListTypes
  <2>3. ThreadTypes'
    BY <1>8 DEF Register, Goto, TypeOK, ThreadTypes, PcNames, Threads
  <2>4. HistoryTypes'
    BY <1>8 DEF Register, env, TypeOK, HistoryTypes, Values
  <2>5. BaseInv'
    BY <1>8 DEF Register, BaseInv
  <2>6. MutexInv'
    BY <1>8 DEF Register, Goto, TypeOK, ThreadTypes, MutexInv, Using, Threads
  <2>7. CursorInv'
    BY <1>8 DEF Register, Goto, TypeOK, ThreadTypes, CursorInv, Threads
  <2> QED BY <2>1, <2>2, <2>3, <2>4, <2>5, <2>6, <2>7 DEF TypeOK
<1>9. ASSUME StartVolume
      PROVE  TypeInv'
  <2>1. ListTypes' /\ ValueTypes' /\ BaseInv'
    BY <1>9
       DEF StartVolume, list, values, TypeOK, ListTypes, ValueTypes, BaseInv
  <2>2. StoreTypes'
    <3>1. vol' \in [Ids -> Records] /\ dict' \in BOOLEAN
      BY <1>9, Zeroes DEF StartVolume, Forget, TypeOK, StoreTypes
    <3> QED BY <1>9, <3>1 DEF StartVolume, task, TypeOK, StoreTypes, Threads
  <2>3. ThreadTypes'
    BY <1>9 DEF StartVolume, Goto, TypeOK, ThreadTypes, ListTypes, PcNames,
                Threads
  <2>4. HistoryTypes'
    BY <1>9
       DEF StartVolume, Fault, Forget, history, TypeOK, HistoryTypes, Values
  <2>5. MutexInv'
    BY <1>9 DEF StartVolume, Goto, TypeOK, ThreadTypes, MutexInv, Using, Threads
  <2>6. CursorInv'
    BY <1>9 DEF StartVolume, Goto, TypeOK, ThreadTypes, CursorInv, Threads
  <2> QED BY <2>1, <2>2, <2>3, <2>4, <2>5, <2>6 DEF TypeOK
<1>10. ASSUME StartDone
      PROVE  TypeInv'
  <2>1. ListTypes' /\ ValueTypes' /\ HistoryTypes' /\ BaseInv'
    BY <1>10
       DEF StartDone, list, values, env, history, TypeOK, ListTypes,
           ValueTypes, HistoryTypes, BaseInv
  <2>2. StoreTypes'
    BY <1>10 DEF StartDone, store, TypeOK, StoreTypes
  <2>3. ThreadTypes'
    BY <1>10 DEF StartDone, Goto, cursor, TypeOK, ThreadTypes, PcNames, Threads
  <2>4. MutexInv'
    BY <1>10 DEF StartDone, Goto, TypeOK, ThreadTypes, MutexInv, Using, Threads
  <2>5. CursorInv'
    BY <1>10
       DEF StartDone, Goto, cursor, TypeOK, ThreadTypes, CursorInv, Threads
  <2> QED BY <2>1, <2>2, <2>3, <2>4, <2>5 DEF TypeOK
<1>11. ASSUME StopCancel
      PROVE  TypeInv'
  <2>1. ListTypes' /\ ValueTypes' /\ HistoryTypes' /\ BaseInv'
    BY <1>11
       DEF StopCancel, list, values, env, history, TypeOK, ListTypes,
           ValueTypes, HistoryTypes, BaseInv
  <2>2. StoreTypes'
    BY <1>11 DEF StopCancel, store, TypeOK, StoreTypes
  <2>3. ThreadTypes'
    BY <1>11 DEF StopCancel, Goto, cursor, TypeOK, ThreadTypes, PcNames, Threads
  <2>4. MutexInv'
    BY <1>11 DEF StopCancel, Goto, TypeOK, ThreadTypes, MutexInv, Using, Threads
  <2>5. CursorInv'
    BY <1>11
       DEF StopCancel, Goto, cursor, TypeOK, ThreadTypes, CursorInv, Threads
  <2> QED BY <2>1, <2>2, <2>3, <2>4, <2>5 DEF TypeOK
<1>12. ASSUME StopUnload
      PROVE  TypeInv'
  <2>1. ListTypes' /\ ValueTypes' /\ HistoryTypes' /\ BaseInv'
    BY <1>12
       DEF StopUnload, list, values, env, history, TypeOK, ListTypes,
           ValueTypes, HistoryTypes, BaseInv
  <2>2. StoreTypes'
    BY <1>12 DEF StopUnload, task, TypeOK, StoreTypes
  <2>3. ThreadTypes'
    BY <1>12 DEF StopUnload, Goto, cursor, TypeOK, ThreadTypes, PcNames, Threads
  <2>4. MutexInv'
    BY <1>12 DEF StopUnload, Goto, TypeOK, ThreadTypes, MutexInv, Using, Threads
  <2>5. CursorInv'
    BY <1>12
       DEF StopUnload, Goto, cursor, TypeOK, ThreadTypes, CursorInv, Threads
  <2> QED BY <2>1, <2>2, <2>3, <2>4, <2>5 DEF TypeOK
<1>13. ASSUME ResetVolume
      PROVE  TypeInv'
  <2>1. ListTypes' /\ ValueTypes' /\ BaseInv'
    BY <1>13
       DEF ResetVolume, list, values, TypeOK, ListTypes, ValueTypes, BaseInv
  <2>2. StoreTypes'
    <3>1. vol' \in [Ids -> Records] /\ dict' \in BOOLEAN
      BY <1>13, Zeroes DEF ResetVolume, Forget
    <3> QED BY <1>13, <3>1 DEF ResetVolume, task, TypeOK, StoreTypes
  <2>3. ThreadTypes'
    BY <1>13
       DEF ResetVolume, Goto, cursor, TypeOK, ThreadTypes, PcNames, Threads
  <2>4. HistoryTypes'
    BY <1>13 DEF ResetVolume, Fault, Forget, TypeOK, HistoryTypes, Values
  <2>5. MutexInv'
    BY <1>13
       DEF ResetVolume, Goto, TypeOK, ThreadTypes, MutexInv, Using, Threads
  <2>6. CursorInv'
    BY <1>13
       DEF ResetVolume, Goto, cursor, TypeOK, ThreadTypes, CursorInv, Threads
  <2> QED BY <2>1, <2>2, <2>3, <2>4, <2>5, <2>6 DEF TypeOK
<1>14. ASSUME ResetZero
      PROVE  TypeInv'
  <2>1. ListTypes' /\ StoreTypes' /\ HistoryTypes' /\ BaseInv'
    BY <1>14
       DEF ResetZero, list, store, task, env, history, TypeOK, ListTypes,
           StoreTypes, HistoryTypes, BaseInv
  <2>2. ValueTypes'
    BY <1>14 DEF ResetZero, TypeOK, ValueTypes, Values
  <2>3. ThreadTypes'
    BY <1>14 DEF ResetZero, Goto, cursor, TypeOK, ThreadTypes, PcNames, Threads
  <2>4. MutexInv'
    BY <1>14 DEF ResetZero, Goto, TypeOK, ThreadTypes, MutexInv, Using, Threads
  <2>5. CursorInv'
    BY <1>14
       DEF ResetZero, Goto, cursor, TypeOK, ThreadTypes, CursorInv, Threads
  <2> QED BY <2>1, <2>2, <2>3, <2>4, <2>5 DEF TypeOK
<1>15. ASSUME RegisterLoad
      PROVE  TypeInv'
  <2>1. ListTypes' /\ ValueTypes' /\ HistoryTypes' /\ BaseInv'
    BY <1>15
       DEF RegisterLoad, list, values, env, history, TypeOK, ListTypes,
           ValueTypes, HistoryTypes, BaseInv
  <2>2. StoreTypes'
    BY <1>15 DEF RegisterLoad, store, task, TypeOK, StoreTypes, Threads
  <2>3. ThreadTypes'
    BY <1>15
       DEF RegisterLoad, Goto, cursor, TypeOK, ThreadTypes, PcNames, Threads
  <2>4. MutexInv'
    BY <1>15
       DEF RegisterLoad, Goto, TypeOK, ThreadTypes, MutexInv, Using, Threads
  <2>5. CursorInv'
    BY <1>15
       DEF RegisterLoad, Goto, cursor, TypeOK, ThreadTypes, CursorInv, Threads
  <2> QED BY <2>1, <2>2, <2>3, <2>4, <2>5 DEF TypeOK
<1>16. ASSUME LoadBlock
      PROVE  TypeInv'
  <2>1. ListTypes' /\ ValueTypes' /\ HistoryTypes' /\ BaseInv'
    BY <1>16
       DEF LoadBlock, list, values, env, history, TypeOK, ListTypes,
           ValueTypes, HistoryTypes, BaseInv
  <2>2. StoreTypes'
    BY <1>16 DEF LoadBlock, store, task, TypeOK, StoreTypes, Threads
  <2>3. ThreadTypes'
    BY <1>16 DEF LoadBlock, Goto, cursor, TypeOK, ThreadTypes, PcNames, Threads
  <2>4. MutexInv'
    BY <1>16 DEF LoadBlock, Goto, TypeOK, ThreadTypes, MutexInv, Using, Threads
  <2>5. CursorInv'
    BY <1>16
       DEF LoadBlock, Goto, cursor, TypeOK, ThreadTypes, CursorInv, Threads
  <2> QED BY <2>1, <2>2, <2>3, <2>4, <2>5 DEF TypeOK
<1>17. ASSUME LoadZero
      PROVE  TypeInv'
  <2>0. blk["life"] \in Blocks /\ local["life"] \in 0 .. Count
        /\ next[blk["life"]] \in Blocks \union {None}
    BY <1>17 DEF LoadZero, CursorInv, TypeOK, ThreadTypes, ListTypes, Threads
  <2>1. ListTypes' /\ StoreTypes' /\ HistoryTypes' /\ BaseInv'
    BY <1>17
       DEF LoadZero, list, store, task, env, history, TypeOK, ListTypes,
           StoreTypes, HistoryTypes, BaseInv
  <2>2. ValueTypes'
    BY <1>17, Zeroes DEF LoadZero, values, TypeOK, ValueTypes
  <2>3. ThreadTypes'
    <3>1. blk' \in [Threads -> Blocks \union {None}]
      BY <1>17, <2>0 DEF LoadZero, TypeOK, ThreadTypes, Threads
    <3>2. local' \in [Threads -> 0 .. Count]
      BY <1>17, <2>0 DEF LoadZero, TypeOK, ThreadTypes, Threads
    <3> QED BY <1>17, <3>1, <3>2
             DEF LoadZero, Goto, TypeOK, ThreadTypes, PcNames, Threads
  <2>4. MutexInv'
    BY <1>17 DEF LoadZero, Goto, TypeOK, ThreadTypes, MutexInv, Using, Threads
  <2>5. CursorInv'
    BY <1>17 DEF LoadZero, Goto, TypeOK, ThreadTypes, CursorInv, Threads
  <2> QED BY <2>1, <2>2, <2>3, <2>4, <2>5 DEF TypeOK
<1>18. ASSUME LoadGet
      PROVE  TypeInv'
  <2>0. /\ Here("life") \in Entries
        /\ Id(Here("life")) \in Ids
        /\ local["life"] + 1 \in 0 .. Count
    <3>1. blk["life"] \in Blocks /\ local["life"] < Count
      BY <1>18 DEF LoadGet, CursorInv, Threads
    <3> QED BY <3>1, HereIsEntry DEF Threads, TypeOK, ThreadTypes
  <2>1. ListTypes' /\ ValueTypes' /\ BaseInv'
    BY <1>18 DEF LoadGet, list, values, TypeOK, ListTypes, ValueTypes, BaseInv
  <2>2. StoreTypes'
    <3>1. vol' \in [Ids -> Records]
      BY <1>18, <2>0, Zeroes DEF LoadGet, TypeOK, StoreTypes
    <3>2. vol[Id(Here("life"))].value \in Values
      BY <2>0 DEF TypeOK, StoreTypes, Records
    <3>3. record' \in [id: Ids, name: Entries \union {None}, value: Values]
      BY <1>18, <2>0, <3>2 DEF LoadGet, TypeOK, StoreTypes
    <3> QED BY <1>18, <3>1, <3>3 DEF LoadGet, task, TypeOK, StoreTypes
  <2>3. ThreadTypes'
    BY <1>18, <2>0
       DEF LoadGet, Goto, TypeOK, ThreadTypes, PcNames, Threads
  <2>4. HistoryTypes'
    BY <1>18 DEF LoadGet, Fault, history, TypeOK, HistoryTypes, Values
  <2>5. MutexInv'
    BY <1>18 DEF LoadGet, Goto, TypeOK, ThreadTypes, MutexInv, Using, Threads
  <2>6. CursorInv'
    BY <1>18 DEF LoadGet, Goto, TypeOK, ThreadTypes, CursorInv, Threads
  <2> QED BY <2>1, <2>2, <2>3, <2>4, <2>5, <2>6 DEF TypeOK
<1>19. ASSUME LoadPut
      PROVE  TypeInv'
  <2>0. Here("life") \in Entries /\ local["life"] + 1 \in 0 .. Count
    <3>1. blk["life"] \in Blocks /\ local["life"] < Count
      BY <1>19 DEF LoadPut, CursorInv, Threads
    <3> QED BY <3>1, HereIsEntry DEF Threads, TypeOK, ThreadTypes
  <2>1. ListTypes' /\ HistoryTypes' /\ BaseInv'
    BY <1>19
       DEF LoadPut, list, env, history, TypeOK, ListTypes, HistoryTypes,
           BaseInv
  <2>2. ValueTypes'
    BY <1>19, <2>0 DEF LoadPut, TypeOK, ValueTypes, StoreTypes
  <2>3. StoreTypes'
    BY <1>19, Zeroes DEF LoadPut, store, task, TypeOK, StoreTypes
  <2>4. ThreadTypes'
    BY <1>19, <2>0
       DEF LoadPut, Goto, TypeOK, ThreadTypes, PcNames, Threads
  <2>5. MutexInv'
    BY <1>19 DEF LoadPut, Goto, TypeOK, ThreadTypes, MutexInv, Using, Threads
  <2>6. CursorInv'
    BY <1>19 DEF LoadPut, Goto, TypeOK, ThreadTypes, CursorInv, Threads
  <2> QED BY <2>1, <2>2, <2>3, <2>4, <2>5, <2>6 DEF TypeOK
<1>20. ASSUME NEW t \in Threads, PassLock(t)
      PROVE  TypeInv'
  <2>0. \/ /\ blk' = [blk EXCEPT ![t] = head]
           /\ written' = [written EXCEPT ![t] = 0]
           /\ Goto(t, "pass_block")
           /\ UNCHANGED <<op, history>>
        \/ /\ PassReturn(t, FALSE)
           /\ UNCHANGED <<blk, written>>
    BY <1>20 DEF PassLock
  <2>1. ListTypes' /\ ValueTypes' /\ BaseInv'
    BY <1>20 DEF PassLock, list, values, TypeOK, ListTypes, ValueTypes, BaseInv
  <2>2. StoreTypes'
    BY <1>20 DEF PassLock, store, task, TypeOK, StoreTypes, Threads
  <2>3. ThreadTypes'
    <3>1. blk' \in [Threads -> Blocks \union {None}]
      <4>1. \A b \in Blocks \union {None} :
                  [blk EXCEPT ![t] = b] \in [Threads -> Blocks \union {None}]
        BY DEF TypeOK, ThreadTypes
      <4>2. blk[t] # None => next[blk[t]] \in Blocks \union {None}
        BY DEF TypeOK, ThreadTypes, ListTypes
      <4> QED BY <2>0, <4>1, <4>2 DEF TypeOK, ThreadTypes, ListTypes
    <3>2. written' \in [Threads -> 0 .. MaxPerPass]
      <4>1. [written EXCEPT ![t] = 0] \in [Threads -> 0 .. MaxPerPass]
        BY DEF TypeOK, ThreadTypes
      <4> QED BY <2>0, <4>1 DEF TypeOK, ThreadTypes
    <3>3. local' \in [Threads -> 0 .. Count]
      BY <1>20 DEF PassLock, TypeOK, ThreadTypes
    <3>4. pc' \in [Threads -> PcNames]
          /\ op' \in {"none", "start", "stop", "persist", "reset", "register"}
      <4>1. CASE PassReturn(t, TRUE) \/ PassReturn(t, FALSE)
        BY <4>1, ReturnTypes DEF TypeOK, ThreadTypes, PcNames
      <4>2. CASE op' = op /\ (pc' = pc \/ Goto(t, "pass_block"))
        BY <4>2 DEF Goto, TypeOK, ThreadTypes, PcNames
      <4> QED BY <2>0, <4>1, <4>2
    <3> QED BY <3>1, <3>2, <3>3, <3>4 DEF TypeOK, ThreadTypes
  <2>4. HistoryTypes'
    BY <1>20, <2>0, ReturnTypes
       DEF PassLock, env, history, TypeOK, HistoryTypes
  <2>a. PICK l \in {"pass_block", "task_end", "stop_unload", "idle"} :
            /\ pc' = [pc EXCEPT ![t] = l]
            /\ l = "pass_block" => volume' = t
    BY <1>20, <2>0, ReturnTypes DEF PassLock, Goto
  <2>b. /\ pc'[t] = l
        /\ \A u \in Threads \ {t} : pc'[u] = pc[u] /\ blk'[u] = blk[u]
        /\ written'["life"] = 0 /\ UNCHANGED local
    BY <1>20, <2>0, <2>a DEF PassLock, TypeOK, ThreadTypes, CursorInv, Threads
  <2>5. MutexInv'
    <3>1. volume = None /\ (volume' = t \/ l # "pass_block")
      BY <1>20, <2>a DEF PassLock
    <3>2. \A u \in Threads : pc[u] \notin Using
      BY <3>1 DEF MutexInv, Threads
    <3> QED BY <2>b, <3>1, <3>2 DEF MutexInv, Using
  <2>6. CursorInv'
    <3>1. pc'["task"] = "pass_write" =>
              pc["task"] = "pass_write" /\ UNCHANGED written
      <4>1. CASE t = "task"
        BY <2>b, <4>1
      <4>2. CASE t = "life"
        BY <1>20, <2>b, <4>2 DEF PassLock, MutexInv, Using, Threads
      <4> QED BY <4>1, <4>2 DEF Threads
    <3> QED BY <2>b, <3>1 DEF CursorInv, Threads
  <2> QED BY <2>1, <2>2, <2>3, <2>4, <2>5, <2>6 DEF TypeOK
<1>21. ASSUME NEW t \in Threads, PassBlock(t)
      PROVE  TypeInv'
  <2>0. \/ /\ blk[t] = None
           /\ written' = [written EXCEPT ![t] = 0]
           /\ PassReturn(t, TRUE)
           /\ UNCHANGED blk
        \/ /\ blk[t] # None
           /\ blk' = [blk EXCEPT ![t] = next[blk[t]]]
           /\ UNCHANGED <<pc, op, written, history>>
        \/ /\ blk[t] # None
           /\ Goto(t, "pass_entry")
           /\ UNCHANGED <<op, blk, written, history>>
    BY <1>21 DEF PassBlock
  <2>1. ListTypes' /\ ValueTypes' /\ BaseInv'
    BY <1>21 DEF PassBlock, list, values, TypeOK, ListTypes, ValueTypes, BaseInv
  <2>2. StoreTypes'
    BY <1>21 DEF PassBlock, store, task, TypeOK, StoreTypes, Threads
  <2>3. ThreadTypes'
    <3>1. blk' \in [Threads -> Blocks \union {None}]
      <4>1. \A b \in Blocks \union {None} :
                  [blk EXCEPT ![t] = b] \in [Threads -> Blocks \union {None}]
        BY DEF TypeOK, ThreadTypes
      <4>2. blk[t] # None => next[blk[t]] \in Blocks \union {None}
        BY DEF TypeOK, ThreadTypes, ListTypes
      <4> QED BY <2>0, <4>1, <4>2 DEF TypeOK, ThreadTypes, ListTypes
    <3>2. written' \in [Threads -> 0 .. MaxPerPass]
      <4>1. [written EXCEPT ![t] = 0] \in [Threads -> 0 .. MaxPerPass]
        BY DEF TypeOK, ThreadTypes
      <4> QED BY <2>0, <4>1 DEF TypeOK, ThreadTypes
    <3>3. local' \in [Threads -> 0 .. Count]
      BY <1>21 DEF PassBlock, TypeOK, ThreadTypes
    <3>4. pc' \in [Threads -> PcNames]
          /\ op' \in {"none", "start", "stop", "persist", "reset", "register"}
      <4>1. CASE PassReturn(t, TRUE) \/ PassReturn(t, FALSE)
        BY <4>1, ReturnTypes DEF TypeOK, ThreadTypes, PcNames
      <4>2. CASE op' = op /\ (pc' = pc \/ Goto(t, "pass_entry"))
        BY <4>2 DEF Goto, TypeOK, ThreadTypes, PcNames
      <4> QED BY <2>0, <4>1, <4>2
    <3> QED BY <3>1, <3>2, <3>3, <3>4 DEF TypeOK, ThreadTypes
  <2>4. HistoryTypes'
    BY <1>21, <2>0, ReturnTypes
       DEF PassBlock, env, history, TypeOK, HistoryTypes
  <2>a. PICK l \in {"pass_block", "pass_entry", "task_end", "stop_unload",
                    "idle"} :
            /\ pc' = [pc EXCEPT ![t] = l]
            /\ l \in {"pass_block", "pass_entry"} => volume' = volume
            /\ l = "pass_entry" => blk' = blk /\ blk[t] # None
    <3>1. pc[t] = "pass_block" /\ pc = [pc EXCEPT ![t] = "pass_block"]
      BY <1>21 DEF PassBlock, TypeOK, ThreadTypes
    <3> QED BY <1>21, <2>0, <3>1, ReturnTypes DEF PassBlock, Goto
  <2>b. /\ pc'[t] = l
        /\ \A u \in Threads \ {t} : pc'[u] = pc[u] /\ blk'[u] = blk[u]
        /\ written'["life"] = 0 /\ UNCHANGED local
    BY <1>21, <2>0, <2>a DEF PassBlock, TypeOK, ThreadTypes, CursorInv, Threads
  <2>c. \A u \in Threads \ {t} : pc[u] \notin Using
    BY <1>21 DEF PassBlock, MutexInv, Using
  <2>5. MutexInv'
    <3>1. volume = t
      BY <1>21 DEF PassBlock, MutexInv, Using
    <3> QED BY <2>a, <2>b, <2>c, <3>1 DEF MutexInv, Using
  <2>6. CursorInv'
    <3>1. pc'["task"] # "pass_write"
      BY <2>b, <2>c DEF Using, Threads
    <3>2. l = "pass_entry" => blk'[t] \in Blocks
      BY <2>a DEF TypeOK, ThreadTypes
    <3> QED BY <2>b, <3>1, <3>2 DEF CursorInv, Threads
  <2> QED BY <2>1, <2>2, <2>3, <2>4, <2>5, <2>6 DEF TypeOK
<1>22. ASSUME NEW t \in Threads, PassEntry(t)
      PROVE  TypeInv'
  <2>0. blk[t] \in Blocks /\ local[t] \in 0 .. Count
    BY <1>22 DEF PassEntry, CursorInv, TypeOK, ThreadTypes
  <2>1. ListTypes' /\ HistoryTypes' /\ BaseInv'
    BY <1>22
       DEF PassEntry, list, env, history, TypeOK, ListTypes, HistoryTypes,
           BaseInv
  <2>2. ValueTypes'
    BY <1>22 DEF PassEntry, TypeOK, ValueTypes, Values
  <2>3. StoreTypes'
    <3>1. CASE UNCHANGED record
      BY <1>22, <3>1 DEF PassEntry, store, task, TypeOK, StoreTypes
    <3>2. CASE /\ local[t] < Count
               /\ record' = [id |-> Id(Here(t)), name |-> Here(t),
                             value |-> entry[Here(t)]]
      <4>1. Here(t) \in Entries /\ Id(Here(t)) \in Ids
        BY <2>0, <3>2, HereIsEntry
      <4>2. entry[Here(t)] \in Values
        BY <4>1 DEF TypeOK, ValueTypes
      <4>3. record' \in [id: Ids, name: Entries \union {None}, value: Values]
        BY <3>2, <4>1, <4>2
      <4> QED BY <1>22, <4>3 DEF PassEntry, store, task, TypeOK, StoreTypes
    <3> QED BY <1>22, <3>1, <3>2 DEF PassEntry
  <2>4. ThreadTypes'
    <3>1. next[blk[t]] \in Blocks \union {None}
      BY <2>0 DEF TypeOK, ListTypes
    <3>2. blk' \in [Threads -> Blocks \union {None}]
      BY <1>22, <3>1 DEF PassEntry, TypeOK, ThreadTypes
    <3>3. local' \in [Threads -> 0 .. Count]
      BY <1>22, <2>0 DEF PassEntry, TypeOK, ThreadTypes
    <3> QED BY <1>22, <3>2, <3>3
             DEF PassEntry, Goto, TypeOK, ThreadTypes, PcNames
  <2>5. MutexInv'
    BY <1>22 DEF PassEntry, Goto, TypeOK, ThreadTypes, MutexInv, Using, Threads
  <2>6. CursorInv'
    BY <1>22
       DEF PassEntry, AtBound, Goto, TypeOK, ThreadTypes, CursorInv, Threads
  <2> QED BY <2>1, <2>2, <2>3, <2>4, <2>5, <2>6 DEF TypeOK
<1>23. ASSUME NEW t \in Threads, PassWrite(t)
      PROVE  TypeInv'
  <2>0. local[t] + 1 \in 0 .. Count
    BY <1>23 DEF PassWrite, CursorInv, TypeOK, ThreadTypes
  <2>1. ListTypes' /\ ValueTypes' /\ BaseInv'
    BY <1>23 DEF PassWrite, list, values, TypeOK, ListTypes, ValueTypes, BaseInv
  <2>2. StoreTypes'
    <3>1. [name |-> record.name, value |-> record.value] \in Records
      BY DEF TypeOK, StoreTypes, Records
    <3>2. vol' \in [Ids -> Records]
      BY <1>23, <3>1 DEF PassWrite, TypeOK, StoreTypes
    <3> QED BY <1>23, <3>2, Zeroes DEF PassWrite, task, TypeOK, StoreTypes
  <2>3. ThreadTypes'
    <3>1. written' \in [Threads -> 0 .. MaxPerPass]
      BY <1>23 DEF PassWrite, CursorInv, TypeOK, ThreadTypes
    <3>2. local' \in [Threads -> 0 .. Count]
      BY <1>23, <2>0 DEF PassWrite, TypeOK, ThreadTypes
    <3> QED BY <1>23, <3>1, <3>2
             DEF PassWrite, Goto, TypeOK, ThreadTypes, PcNames
  <2>4. HistoryTypes'
    BY <1>23 DEF PassWrite, Fault, TypeOK, HistoryTypes, Values
  <2>5. MutexInv'
    BY <1>23 DEF PassWrite, Goto, TypeOK, ThreadTypes, MutexInv, Using, Threads
  <2>6. CursorInv'
    BY <1>23 DEF PassWrite, Goto, TypeOK, ThreadTypes, CursorInv, Threads
  <2> QED BY <2>1, <2>2, <2>3, <2>4, <2>5, <2>6 DEF TypeOK
<1>24. ASSUME NEW t \in Threads, PassFail(t)
      PROVE  TypeInv'
  <2>0. local[t] + 1 \in 0 .. Count
    BY <1>24 DEF PassFail, CursorInv, TypeOK, ThreadTypes
  <2>1. ListTypes' /\ StoreTypes' /\ HistoryTypes' /\ BaseInv'
    BY <1>24
       DEF PassFail, list, store, task, env, history, TypeOK, ListTypes,
           StoreTypes, HistoryTypes, BaseInv
  <2>2. ValueTypes'
    BY <1>24 DEF PassFail, TypeOK, ValueTypes, Values
  <2>3. ThreadTypes'
    BY <1>24, <2>0 DEF PassFail, Goto, TypeOK, ThreadTypes, PcNames
  <2>4. MutexInv'
    BY <1>24 DEF PassFail, Goto, TypeOK, ThreadTypes, MutexInv, Using, Threads
  <2>5. CursorInv'
    BY <1>24 DEF PassFail, Goto, TypeOK, ThreadTypes, CursorInv, Threads
  <2> QED BY <2>1, <2>2, <2>3, <2>4, <2>5 DEF TypeOK
<1>25. ASSUME TaskRun
      PROVE  TypeInv'
  <2>1. ListTypes' /\ ValueTypes' /\ HistoryTypes' /\ BaseInv'
    BY <1>25
       DEF TaskRun, list, values, env, history, TypeOK, ListTypes, ValueTypes,
           HistoryTypes, BaseInv
  <2>2. StoreTypes'
    BY <1>25 DEF TaskRun, store, TypeOK, StoreTypes
  <2>3. ThreadTypes'
    BY <1>25 DEF TaskRun, Goto, cursor, TypeOK, ThreadTypes, PcNames, Threads
  <2>4. MutexInv'
    BY <1>25 DEF TaskRun, Goto, TypeOK, ThreadTypes, MutexInv, Using, Threads
  <2>5. CursorInv'
    BY <1>25 DEF TaskRun, Goto, cursor, TypeOK, ThreadTypes, CursorInv, Threads
  <2> QED BY <2>1, <2>2, <2>3, <2>4, <2>5 DEF TypeOK
<1>26. ASSUME TaskEnd
      PROVE  TypeInv'
  <2>1. ListTypes' /\ ValueTypes' /\ HistoryTypes' /\ BaseInv'
    BY <1>26
       DEF TaskEnd, list, values, env, history, TypeOK, ListTypes, ValueTypes,
           HistoryTypes, BaseInv
  <2>2. StoreTypes'
    BY <1>26 DEF TaskEnd, store, TypeOK, StoreTypes
  <2>3. ThreadTypes'
    BY <1>26 DEF TaskEnd, Goto, cursor, TypeOK, ThreadTypes, PcNames, Threads
  <2>4. MutexInv'
    BY <1>26 DEF TaskEnd, Goto, TypeOK, ThreadTypes, MutexInv, Using, Threads
  <2>5. CursorInv'
    BY <1>26 DEF TaskEnd, Goto, cursor, TypeOK, ThreadTypes, CursorInv, Threads
  <2> QED BY <2>1, <2>2, <2>3, <2>4, <2>5 DEF TypeOK
<1>27. ASSUME Crash
      PROVE  TypeInv'
  <2>1. ListTypes'
    BY <1>27 DEF Crash, TypeOK, ListTypes
  <2>2. ValueTypes'
    BY <1>27 DEF Crash, TypeOK, ValueTypes, Values
  <2>3. StoreTypes'
    BY <1>27, Zeroes DEF Crash, TypeOK, StoreTypes
  <2>4. ThreadTypes'
    BY <1>27 DEF Crash, TypeOK, ThreadTypes, PcNames, Threads
  <2>5. HistoryTypes'
    BY <1>27 DEF Crash, TypeOK, HistoryTypes, Values
  <2>6. BaseInv'
    BY <1>27 DEF Crash, BaseInv
  <2>7. MutexInv'
    BY <1>27 DEF Crash, TypeOK, ThreadTypes, MutexInv, Using, Threads
  <2>8. CursorInv'
    BY <1>27 DEF Crash, TypeOK, ThreadTypes, CursorInv, Threads
  <2> QED BY <2>1, <2>2, <2>3, <2>4, <2>5, <2>6, <2>7, <2>8 DEF TypeOK
<1>28. ASSUME UNCHANGED vars
      PROVE  TypeInv'
  <2>1. /\ ListTypes' /\ ValueTypes' /\ StoreTypes' /\ ThreadTypes'
        /\ HistoryTypes' /\ BaseInv' /\ MutexInv' /\ CursorInv'
    BY <1>28
       DEF vars, list, values, store, task, cursor, env, history, TypeOK,
           ListTypes, ValueTypes, StoreTypes, ThreadTypes, HistoryTypes,
           BaseInv, MutexInv, CursorInv
  <2> QED BY <2>1 DEF TypeOK
<1> QED
  BY <1>1, <1>2, <1>3, <1>4, <1>5, <1>6, <1>7, <1>8, <1>9, <1>10, <1>11,
     <1>12, <1>13, <1>14, <1>15, <1>16, <1>17, <1>18, <1>19, <1>20, <1>21,
     <1>22, <1>23, <1>24, <1>25, <1>26, <1>27, <1>28
     DEF Next, Counting, Calls, LifeStep, TaskStep, Load, Pass, Threads

\* The calls and threads keep their types; the volume and the scratch record are
\* one thread's at a time (_tallies_volume); a pass of the task writes at most
\* MaxPerPass records; and the loops over the list stay inside their block,
\* whatever is registered and unregistered meanwhile.
THEOREM TypeCorrect == Spec => []TypeInv
<1>1. Init => TypeInv
  BY TypeInit
<1>2. TypeInv /\ [Next]_vars => TypeInv'
  BY TypeNext
<1> QED BY <1>1, <1>2, PTL DEF Spec

----------------------------------------------------------------------------
(* No counter inherits the history of another.                             *)

LEMMA CountInit == Init => CountInv
<1> SUFFICES ASSUME Init PROVE CountInv
  OBVIOUS
<1>1. NoInheritance
  BY DEF Init, NoInheritance
<1>2. \A id \in Ids : vol[id].value = 0
  BY DEF Init, Empty, NoRecord
<1>3. record.value = 0 /\ pc["life"] = "idle"
  BY DEF Init, NoScratch, Threads
<1>4. \A e \in Entries : total[e] = 0
  BY DEF Init
<1> QED BY <1>1, <1>2, <1>3, <1>4 DEF CountInv

\* What a step that copies no count keeps.
LEMMA CountFrame ==
    ASSUME TypeInv, CountInv,
           \A e \in Entries : /\ total'[e] \in Nat
                              /\ total[e] <= total'[e]
                              /\ entry'[e] <= total'[e],
           \A id \in Ids : vol'[id] = vol[id] \/ vol'[id] = NoRecord,
           record' = record \/ record' = NoScratch,
           pc'["life"] = "load_put" =>
                /\ pc["life"] = "load_put"
                /\ record' = record
                /\ Here("life")' = Here("life")
    PROVE  CountInv'
<1>1. /\ \A e \in Entries : total[e] \in Nat
      /\ \A id \in Ids : vol[id].value \in Nat
      /\ record.value \in Nat
  BY ConstantsAssumption
     DEF TypeInv, TypeOK, HistoryTypes, StoreTypes, Records, Values
<1>2. NoInheritance'
  BY DEF NoInheritance
<1>3. ASSUME NEW id \in Ids, vol'[id].name \in Entries
      PROVE  vol'[id].value <= total'[vol'[id].name]
  <2>1. CASE vol'[id] = vol[id]
    BY <1>1, <1>3, <2>1 DEF CountInv
  <2>2. CASE vol'[id] = NoRecord
    BY <1>3, <2>2 DEF NoRecord
  <2> QED BY <2>1, <2>2
<1>4. ASSUME record'.name \in Entries
      PROVE  record'.value <= total'[record'.name]
  <2>1. CASE record' = record
    BY <1>1, <1>4, <2>1 DEF CountInv
  <2>2. CASE record' = NoScratch
    BY <1>4, <2>2 DEF NoScratch
  <2> QED BY <2>1, <2>2
<1>5. (pc["life"] = "load_put" => record.name = Here("life"))'
  BY DEF CountInv
<1> QED BY <1>2, <1>3, <1>4, <1>5 DEF CountInv

LEMMA CountNext == TypeInv /\ CountInv /\ [Next]_vars => CountInv'
<1> SUFFICES ASSUME TypeInv, CountInv, [Next]_vars PROVE CountInv'
  OBVIOUS
<1> USE ConstantsAssumption DEF TypeInv
<1>0. /\ entry \in [Entries -> Nat]
      /\ total \in [Entries -> Nat]
      /\ \A id \in Ids : vol[id].value \in Nat
      /\ record.value \in Nat
  BY DEF TypeOK, ValueTypes, HistoryTypes, StoreTypes, Records, Values
<1>1. ASSUME NEW e \in Entries, Add(e)
      PROVE  CountInv'
  <2>1. \A c \in Entries : /\ total'[c] \in Nat
                         /\ total[c] <= total'[c]
                         /\ entry'[c] <= total'[c]
    BY <1>0, <1>1 DEF Add, CountInv, NoInheritance
  <2>2. \A k \in Ids : vol'[k] = vol[k] \/ vol'[k] = NoRecord
    BY <1>1 DEF Add, store
  <2>3. record' = record \/ record' = NoScratch
    BY <1>1 DEF Add
  <2>4. pc'["life"] = "load_put" =>
            /\ pc["life"] = "load_put"
            /\ record' = record
            /\ Here("life")' = Here("life")
    BY <1>1 DEF Add, cursor, Here
  <2> QED BY <2>1, <2>2, <2>3, <2>4, CountFrame
<1>2. ASSUME NEW e \in Entries, NEW v \in Values, Set(e, v)
      PROVE  CountInv'
  <2>1. \A c \in Entries : /\ total'[c] \in Nat
                         /\ total[c] <= total'[c]
                         /\ entry'[c] <= total'[c]
    BY <1>0, <1>2 DEF Set, Values, CountInv, NoInheritance
  <2>2. \A k \in Ids : vol'[k] = vol[k] \/ vol'[k] = NoRecord
    BY <1>2 DEF Set, store
  <2>3. record' = record \/ record' = NoScratch
    BY <1>2 DEF Set
  <2>4. pc'["life"] = "load_put" =>
            /\ pc["life"] = "load_put"
            /\ record' = record
            /\ Here("life")' = Here("life")
    BY <1>2 DEF Set, cursor, Here
  <2> QED BY <2>1, <2>2, <2>3, <2>4, CountFrame
<1>3. ASSUME Start
      PROVE  CountInv'
  BY <1>3
     DEF Start, Call, Goto, values, store, cursor, history, CountInv,
         NoInheritance, Here, TypeOK, ThreadTypes, Threads
<1>4. ASSUME Stop
      PROVE  CountInv'
  <2>1. \A c \in Entries : /\ total'[c] \in Nat
                         /\ total[c] <= total'[c]
                         /\ entry'[c] <= total'[c]
    BY <1>0, <1>4 DEF Stop, Owe, values, CountInv, NoInheritance
  <2>2. \A k \in Ids : vol'[k] = vol[k] \/ vol'[k] = NoRecord
    BY <1>4 DEF Stop, store
  <2>3. record' = record \/ record' = NoScratch
    BY <1>4 DEF Stop
  <2>4. pc'["life"] = "load_put" =>
            /\ pc["life"] = "load_put"
            /\ record' = record
            /\ Here("life")' = Here("life")
    BY <1>4 DEF Stop, Call, Goto, TypeOK, ThreadTypes, Threads
  <2> QED BY <2>1, <2>2, <2>3, <2>4, CountFrame
<1>5. ASSUME Persist
      PROVE  CountInv'
  <2>1. \A c \in Entries : /\ total'[c] \in Nat
                         /\ total[c] <= total'[c]
                         /\ entry'[c] <= total'[c]
    BY <1>0, <1>5 DEF Persist, Owe, values, CountInv, NoInheritance
  <2>2. \A k \in Ids : vol'[k] = vol[k] \/ vol'[k] = NoRecord
    BY <1>5 DEF Persist, store
  <2>3. record' = record \/ record' = NoScratch
    BY <1>5 DEF Persist
  <2>4. pc'["life"] = "load_put" =>
            /\ pc["life"] = "load_put"
            /\ record' = record
            /\ Here("life")' = Here("life")
    BY <1>5 DEF Persist, Call, Goto, TypeOK, ThreadTypes, Threads
  <2> QED BY <2>1, <2>2, <2>3, <2>4, CountFrame
<1>6. ASSUME Reset
      PROVE  CountInv'
  BY <1>6
     DEF Reset, Call, Goto, values, store, cursor, history, CountInv,
         NoInheritance, Here, TypeOK, ThreadTypes, Threads
<1>7. ASSUME NEW b \in Blocks, Unregister(b)
      PROVE  CountInv'
  BY <1>7
     DEF Unregister, values, store, cursor, history, CountInv, NoInheritance,
         Here
<1>8. ASSUME NEW b \in Blocks, NEW id \in Bases, Register(b, id)
      PROVE  CountInv'
  BY <1>8
     DEF Register, Goto, values, store, CountInv, NoInheritance, Here, TypeOK,
         ThreadTypes, Threads
<1>9. ASSUME StartVolume
      PROVE  CountInv'
  <2>1. \A c \in Entries : /\ total'[c] \in Nat
                         /\ total[c] <= total'[c]
                         /\ entry'[c] <= total'[c]
    BY <1>0, <1>9
       DEF StartVolume, Forget, values, history, CountInv, NoInheritance
  <2>2. \A k \in Ids : vol'[k] = vol[k] \/ vol'[k] = NoRecord
    BY <1>9 DEF StartVolume, Forget, Empty
  <2>3. record' = record \/ record' = NoScratch
    BY <1>9 DEF StartVolume
  <2>4. pc'["life"] = "load_put" =>
            /\ pc["life"] = "load_put"
            /\ record' = record
            /\ Here("life")' = Here("life")
    BY <1>9 DEF StartVolume, Goto, TypeOK, ThreadTypes, Threads
  <2> QED BY <2>1, <2>2, <2>3, <2>4, CountFrame
<1>10. ASSUME StartDone
      PROVE  CountInv'
  BY <1>10
     DEF StartDone, Goto, values, store, cursor, history, CountInv,
         NoInheritance, Here, TypeOK, ThreadTypes, Threads
<1>11. ASSUME StopCancel
      PROVE  CountInv'
  BY <1>11
     DEF StopCancel, Goto, values, store, cursor, history, CountInv,
         NoInheritance, Here, TypeOK, ThreadTypes, Threads
<1>12. ASSUME StopUnload
      PROVE  CountInv'
  BY <1>12
     DEF StopUnload, Goto, values, cursor, history, CountInv, NoInheritance,
         Here, TypeOK, ThreadTypes, Threads
<1>13. ASSUME ResetVolume
      PROVE  CountInv'
  <2>1. \A c \in Entries : /\ total'[c] \in Nat
                         /\ total[c] <= total'[c]
                         /\ entry'[c] <= total'[c]
    BY <1>0, <1>13 DEF ResetVolume, Forget, values, CountInv, NoInheritance
  <2>2. \A k \in Ids : vol'[k] = vol[k] \/ vol'[k] = NoRecord
    BY <1>13 DEF ResetVolume, Forget, Empty
  <2>3. record' = record \/ record' = NoScratch
    BY <1>13 DEF ResetVolume
  <2>4. pc'["life"] = "load_put" =>
            /\ pc["life"] = "load_put"
            /\ record' = record
            /\ Here("life")' = Here("life")
    BY <1>13 DEF ResetVolume, Goto, TypeOK, ThreadTypes, Threads
  <2> QED BY <2>1, <2>2, <2>3, <2>4, CountFrame
<1>14. ASSUME ResetZero
      PROVE  CountInv'
  <2>1. \A c \in Entries : /\ total'[c] \in Nat
                         /\ total[c] <= total'[c]
                         /\ entry'[c] <= total'[c]
    BY <1>0, <1>14 DEF ResetZero, history, CountInv, NoInheritance
  <2>2. \A k \in Ids : vol'[k] = vol[k] \/ vol'[k] = NoRecord
    BY <1>14 DEF ResetZero, store
  <2>3. record' = record \/ record' = NoScratch
    BY <1>14 DEF ResetZero
  <2>4. pc'["life"] = "load_put" =>
            /\ pc["life"] = "load_put"
            /\ record' = record
            /\ Here("life")' = Here("life")
    BY <1>14 DEF ResetZero, Goto, TypeOK, ThreadTypes, Threads
  <2> QED BY <2>1, <2>2, <2>3, <2>4, CountFrame
<1>15. ASSUME RegisterLoad
      PROVE  CountInv'
  BY <1>15
     DEF RegisterLoad, Goto, values, store, cursor, history, CountInv,
         NoInheritance, Here, TypeOK, ThreadTypes, Threads
<1>16. ASSUME LoadBlock
      PROVE  CountInv'
  BY <1>16
     DEF LoadBlock, Goto, values, store, cursor, history, CountInv,
         NoInheritance, Here, TypeOK, ThreadTypes, Threads
<1>17. ASSUME LoadZero
      PROVE  CountInv'
  <2>1. \A c \in Entries : /\ total'[c] \in Nat
                         /\ total[c] <= total'[c]
                         /\ entry'[c] <= total'[c]
    BY <1>0, <1>17
       DEF LoadZero, values, history, TypeOK, ValueTypes, CountInv,
           NoInheritance
  <2>2. \A k \in Ids : vol'[k] = vol[k] \/ vol'[k] = NoRecord
    BY <1>17 DEF LoadZero, store
  <2>3. record' = record \/ record' = NoScratch
    BY <1>17 DEF LoadZero
  <2>4. pc'["life"] = "load_put" =>
            /\ pc["life"] = "load_put"
            /\ record' = record
            /\ Here("life")' = Here("life")
    BY <1>17 DEF LoadZero, Goto, TypeOK, ThreadTypes, Threads
  <2> QED BY <2>1, <2>2, <2>3, <2>4, CountFrame
<1>18. ASSUME LoadGet
      PROVE  CountInv'
  <2>1. blk["life"] \in Blocks /\ local["life"] < Count
    BY <1>18 DEF LoadGet, CursorInv, Threads
  <2>2. Here("life") \in Entries /\ Id(Here("life")) \in Ids
    BY <2>1, HereIsEntry DEF Threads
  <2>3. entry' = entry /\ total' = total
    BY <1>18 DEF LoadGet, values, history
  <2>4. CASE /\ vol' = vol
             /\ local' = local
             /\ vol[Id(Here("life"))].name = Here("life")
             /\ record' = [id |-> Id(Here("life")), name |-> Here("life"),
                           value |-> vol[Id(Here("life"))].value]
    <3>1. vol[Id(Here("life"))].value <= total[Here("life")]
      BY <2>2, <2>4 DEF CountInv
    <3>2. Here("life")' = Here("life")
      BY <1>18, <2>4 DEF LoadGet, Here
    <3> QED BY <2>3, <2>4, <3>1, <3>2 DEF CountInv, NoInheritance
  <2>5. CASE /\ record' = record
             /\ Goto("life", "load_zero")
             /\ \A k \in Ids : vol'[k] = vol[k] \/ vol'[k] = NoRecord
    <3>1. pc'["life"] # "load_put"
      BY <2>5 DEF Goto, TypeOK, ThreadTypes, Threads
    <3>2. \A e \in Entries : /\ total'[e] \in Nat
                           /\ total[e] <= total'[e]
                           /\ entry'[e] <= total'[e]
      BY <1>0, <2>3 DEF CountInv, NoInheritance
    <3> QED BY <2>5, <3>1, <3>2, CountFrame
  <2> QED BY <1>18, <2>2, <2>4, <2>5 DEF LoadGet, TypeOK, StoreTypes
<1>19. ASSUME LoadPut
      PROVE  CountInv'
  <2>1. record.value <= total[Here("life")] /\ Here("life") \in Entries
    <3>1. blk["life"] \in Blocks /\ local["life"] < Count
      BY <1>19 DEF LoadPut, CursorInv, Threads
    <3>2. Here("life") \in Entries
      BY <3>1, HereIsEntry DEF Threads
    <3> QED BY <1>19, <3>2 DEF LoadPut, CountInv
  <2>2. \A e \in Entries : /\ total'[e] \in Nat
                         /\ total[e] <= total'[e]
                         /\ entry'[e] <= total'[e]
    BY <1>0, <1>19, <2>1 DEF LoadPut, history, CountInv, NoInheritance
  <2>3. \A k \in Ids : vol'[k] = vol[k] \/ vol'[k] = NoRecord
    BY <1>19 DEF LoadPut, store
  <2>4. record' = record \/ record' = NoScratch
    BY <1>19 DEF LoadPut
  <2>5. pc'["life"] = "load_put" =>
            /\ pc["life"] = "load_put"
            /\ record' = record
            /\ Here("life")' = Here("life")
    BY <1>19 DEF LoadPut, Goto, TypeOK, ThreadTypes, Threads
  <2> QED BY <2>2, <2>3, <2>4, <2>5, CountFrame
<1>20. ASSUME NEW t \in Threads, PassLock(t)
      PROVE  CountInv'
  <2>1. entry' = entry /\ total' = total
    BY <1>20 DEF PassLock, PassReturn, FlushDone, values, history
  <2>2. \A e \in Entries : /\ total'[e] \in Nat
                         /\ total[e] <= total'[e]
                         /\ entry'[e] <= total'[e]
    BY <1>0, <2>1 DEF CountInv, NoInheritance
  <2>3. \A k \in Ids : vol'[k] = vol[k] \/ vol'[k] = NoRecord
    BY <1>20 DEF PassLock, store
  <2>4. record' = record \/ record' = NoScratch
    BY <1>20 DEF PassLock
  <2>5. pc'["life"] = "load_put" =>
            /\ pc["life"] = "load_put"
            /\ record' = record
            /\ Here("life")' = Here("life")
    BY <1>20 DEF PassLock, PassReturn, Goto, Here, TypeOK, ThreadTypes, Threads
  <2> QED BY <2>2, <2>3, <2>4, <2>5, CountFrame
<1>21. ASSUME NEW t \in Threads, PassBlock(t)
      PROVE  CountInv'
  <2>1. entry' = entry /\ total' = total
    BY <1>21 DEF PassBlock, PassReturn, FlushDone, values, history
  <2>2. \A e \in Entries : /\ total'[e] \in Nat
                         /\ total[e] <= total'[e]
                         /\ entry'[e] <= total'[e]
    BY <1>0, <2>1 DEF CountInv, NoInheritance
  <2>3. \A k \in Ids : vol'[k] = vol[k] \/ vol'[k] = NoRecord
    BY <1>21 DEF PassBlock, store
  <2>4. record' = record \/ record' = NoScratch
    BY <1>21 DEF PassBlock
  <2>5. pc'["life"] = "load_put" =>
            /\ pc["life"] = "load_put"
            /\ record' = record
            /\ Here("life")' = Here("life")
    BY <1>21 DEF PassBlock, PassReturn, Goto, Here, TypeOK, ThreadTypes, Threads
  <2> QED BY <2>2, <2>3, <2>4, <2>5, CountFrame
<1>22. ASSUME NEW t \in Threads, PassEntry(t)
      PROVE  CountInv'
  <2>1. entry' = entry /\ total' = total /\ vol' = vol
    BY <1>22 DEF PassEntry, store, history
  <2>2. pc'["life"] # "load_put"
    <3>1. CASE t = "life"
      BY <1>22, <3>1 DEF PassEntry, Goto, TypeOK, ThreadTypes, Threads
    <3>2. CASE t = "task"
      <4>1. volume = "task"
        BY <1>22, <3>2 DEF PassEntry, MutexInv, Using, Threads
      <4>2. pc["life"] # "load_put"
        BY <4>1 DEF MutexInv, Using, Threads
      <4> QED BY <1>22, <3>2, <4>2
               DEF PassEntry, Goto, TypeOK, ThreadTypes, Threads
    <3> QED BY <3>1, <3>2 DEF Threads
  <2>3. CASE record' = record
    BY <2>1, <2>2, <2>3 DEF CountInv, NoInheritance
  <2>4. CASE record' = [id |-> Id(Here(t)), name |-> Here(t),
                        value |-> entry[Here(t)]]
    BY <2>1, <2>2, <2>4 DEF CountInv, NoInheritance
  <2> QED BY <1>22, <2>3, <2>4 DEF PassEntry
<1>23. ASSUME NEW t \in Threads, PassWrite(t)
      PROVE  CountInv'
  <2>1. entry' = entry /\ total' = total /\ record' = NoScratch
    BY <1>23 DEF PassWrite, values
  <2>2. pc'["life"] # "load_put"
    <3>1. CASE t = "life"
      BY <1>23, <3>1 DEF PassWrite, Goto, TypeOK, ThreadTypes, Threads
    <3>2. CASE t = "task"
      <4>1. volume = "task"
        BY <1>23, <3>2 DEF PassWrite, MutexInv, Using, Threads
      <4>2. pc["life"] # "load_put"
        BY <4>1 DEF MutexInv, Using, Threads
      <4> QED BY <1>23, <3>2, <4>2
               DEF PassWrite, Goto, TypeOK, ThreadTypes, Threads
    <3> QED BY <3>1, <3>2 DEF Threads
  <2>3. ASSUME NEW k \in Ids, vol'[k].name \in Entries
        PROVE  vol'[k].value <= total'[vol'[k].name]
    <3>1. CASE vol'[k] = vol[k]
      BY <2>1, <2>3, <3>1 DEF CountInv
    <3>2. CASE vol'[k] = [name |-> record.name, value |-> record.value]
      BY <2>1, <2>3, <3>2 DEF CountInv
    <3> QED BY <1>23, <3>1, <3>2 DEF PassWrite, TypeOK, StoreTypes
  <2>4. record'.name \in Entries => record'.value <= total'[record'.name]
    BY <1>0, <2>1 DEF NoScratch
  <2>5. NoInheritance'
    BY <2>1 DEF CountInv, NoInheritance
  <2> QED BY <2>2, <2>3, <2>4, <2>5 DEF CountInv
<1>24. ASSUME NEW t \in Threads, PassFail(t)
      PROVE  CountInv'
  BY <1>24
     DEF PassFail, Goto, store, history, CountInv, NoInheritance, Here,
         TypeOK, ThreadTypes, Threads
<1>25. ASSUME TaskRun
      PROVE  CountInv'
  BY <1>25
     DEF TaskRun, Goto, values, store, cursor, history, CountInv,
         NoInheritance, Here, TypeOK, ThreadTypes, Threads
<1>26. ASSUME TaskEnd
      PROVE  CountInv'
  BY <1>26
     DEF TaskEnd, Goto, values, store, cursor, history, CountInv,
         NoInheritance, Here, TypeOK, ThreadTypes, Threads
<1>27. ASSUME Crash
      PROVE  CountInv'
  <2>1. \A c \in Entries : /\ total'[c] \in Nat
                         /\ total[c] <= total'[c]
                         /\ entry'[c] <= total'[c]
    BY <1>0, <1>27 DEF Crash, CountInv, NoInheritance
  <2>2. \A k \in Ids : vol'[k] = vol[k] \/ vol'[k] = NoRecord
    BY <1>27 DEF Crash
  <2>3. record' = record \/ record' = NoScratch
    BY <1>27 DEF Crash
  <2>4. pc'["life"] = "load_put" =>
            /\ pc["life"] = "load_put"
            /\ record' = record
            /\ Here("life")' = Here("life")
    BY <1>27 DEF Crash, Threads
  <2> QED BY <2>1, <2>2, <2>3, <2>4, CountFrame
<1>28. ASSUME UNCHANGED vars
      PROVE  CountInv'
  BY <1>28
     DEF vars, values, store, cursor, history, CountInv, NoInheritance, Here
<1> QED
  BY <1>1, <1>2, <1>3, <1>4, <1>5, <1>6, <1>7, <1>8, <1>9, <1>10, <1>11,
     <1>12, <1>13, <1>14, <1>15, <1>16, <1>17, <1>18, <1>19, <1>20, <1>21,
     <1>22, <1>23, <1>24, <1>25, <1>26, <1>27, <1>28
     DEF Next, Counting, Calls, LifeStep, TaskStep, Load, Pass, Threads

\* Whatever blocks come and go at whatever ids, while passes and loads are in
\* progress, a counter never shows more than was counted into it: block_load()
\* takes over a record of its own name only, and nobody changes the scratch
\* record between the read and the handover.
THEOREM CountsOfItsOwn == Spec => []NoInheritance
<1>1. Init => TypeInv /\ CountInv
  BY TypeInit, CountInit
<1>2. (TypeInv /\ CountInv) /\ [Next]_vars => (TypeInv /\ CountInv)'
  BY TypeNext, CountNext
<1>3. CountInv => NoInheritance
  BY DEF CountInv
<1> QED BY <1>1, <1>2, <1>3, PTL DEF Spec

----------------------------------------------------------------------------
(* A counter that is clean is stored.  The flag of a counter is cleared in *)
(* three places, by a load, by a pass that claims the counter, and never   *)
(* by a count; what makes that right is spread over the list, the ids, the *)
(* mutex and the order of the calls, and is stated here part by part.      *)
(*                                                                         *)
(* A flush is durable.  The second half follows what a flush owes a        *)
(* counter to the record that carries it, and what it covered through the  *)
(* loads, passes and restarts after it.                                    *)

----------------------------------------------------------------------------
(* The inductive invariant.                                                *)

Loading == {"load_block", "load_zero", "load_get", "load_put"}
Passing == {"pass_block", "pass_entry", "pass_write", "pass_fail"}

\* Where the lifecycle thread is, for each of its calls; the volume stays loaded
\* only while the store runs, starts or stops.
CallInv ==
    /\ pc["life"] = "idle" <=> op = "none"
    /\ pc["life"] \in {"start_volume", "start_done"} => op = "start"
    /\ pc["life"] \in Loading => op \in {"start", "register"}
    /\ pc["life"] = "register_load" => op = "register"
    /\ pc["life"] \in Passing \union {"pass_lock"} =>
            op \in {"persist", "stop", "reset"}
    /\ pc["life"] \in {"stop_cancel", "stop_unload"} => op = "stop"
    /\ pc["life"] \in {"reset_volume", "reset_zero"} => op = "reset"
    /\ pc["life"] # "task_end"
    /\ op = "start" => ~started
    /\ op \in {"reset", "register"} => started
    /\ op \notin {"start", "stop"} => (dict => started)

\* A loop over a block begins at its first counter.
LocalInv ==
    \A t \in Threads :
        pc[t] \notin {"pass_entry", "pass_write", "pass_fail", "load_zero",
                      "load_get", "load_put"} => local[t] = 0

\* A pass has a volume.
PassInv == \A t \in Threads : pc[t] \in Passing => dict

Closed(S) == \A b \in S : next[b] \in S \union {None}

\* Block c is on the list from b on.
Reaches(b, c) == \A S \in SUBSET Blocks : Closed(S) /\ b \in S => c \in S

\* The list holds the blocks that are registered, all of them, and ends.
ListInv ==
    /\ head # None => Registered(head)
    /\ \A b \in Blocks : Registered(b) /\ next[b] # None => Registered(next[b])
    /\ \A b \in Blocks : Registered(b) => head # None /\ Reaches(head, b)
    /\ \A S \in SUBSET Blocks : S # {} => \E b \in S : next[b] \notin S

\* An id is one counter's.
OwnInv ==
    /\ \A b \in Blocks : Registered(b) => base[b] + Count <= BaseNone
    /\ \A e, f \in Entries :
        Registered(e[1]) /\ Registered(f[1]) /\ Id(e) = Id(f) => e = f

\* The load in progress has yet to come to counter e.
Pending(e) ==
    /\ pc["life"] \in Loading \union {"register_load"}
    /\ blk["life"] # None
    /\ IF e[1] = blk["life"] THEN e[2] >= local["life"]
       ELSE op = "start" /\ Reaches(blk["life"], e[1])

Loaded(e) == Registered(e[1]) /\ ~Pending(e)

\* Clean counters are stored: not while the volume is absent or new.
Live ==
    /\ dict
    /\ started \/ op = "start"
    /\ pc["life"] \notin {"start_volume", "reset_zero"}

\* A load is at a block of the list, and between its steps nothing but counts
\* happen to the counter that it is at.
LoadInv ==
    /\ pc["life"] \in Loading \union {"register_load"} /\ blk["life"] # None =>
            Registered(blk["life"])
    /\ pc["life"] \in {"load_get", "load_put"} =>
            dirty[Here("life")] \/ entry[Here("life")] = 0
    /\ pc["life"] = "load_put" =>
            /\ record.value = vol[Id(Here("life"))].value
            /\ vol[Id(Here("life"))].name = Here("life")

\* A pass writes what it claimed under the id of no other counter, and what it
\* writes is the counter's value unless that was counted up meanwhile.
WriteInv ==
    \A t \in Threads : pc[t] = "pass_write" =>
        /\ record.name = Here(t)
        /\ \A e \in Entries : Loaded(e) =>
            /\ record.id = Id(e) <=> e = Here(t)
            /\ Live /\ e = Here(t) /\ ~dirty[e] => record.value = entry[e]

\* A counter that is clean is stored.
StoredInv ==
    Live =>
        \A e \in Entries :
            Loaded(e) /\ ~dirty[e] /\ ~Writing(e) => entry[e] = StoredValue(e)

----------------------------------------------------------------------------
(* The list.                                                               *)

\* A counter is a block and a place in it.
LEMMA EntryPair ==
    ASSUME NEW e \in Entries
    PROVE  e[1] \in Blocks /\ e[2] \in Locals /\ e = <<e[1], e[2]>>
BY DEF Entries

\* Who changes the list.
LEMMA ListSteps ==
    ASSUME [Next]_vars
    PROVE  \/ UNCHANGED list
           \/ Crash
           \/ \E b \in Blocks : Unregister(b)
           \/ \E b \in Blocks, id \in Bases : Register(b, id)
<1>1. CASE Counting
  BY <1>1 DEF Counting, Add, Set
<1>2. CASE Calls
  BY <1>2 DEF Calls, Start, Stop, Persist, Reset
<1>3. ASSUME NEW t \in Threads, Pass(t)
      PROVE  UNCHANGED list
  BY <1>3 DEF Pass, PassLock, PassBlock, PassEntry, PassWrite, PassFail
<1>4. CASE LifeStep
  BY <1>3, <1>4
     DEF LifeStep, StartVolume, StartDone, StopCancel, StopUnload, ResetVolume,
         ResetZero, RegisterLoad, Load, LoadBlock, LoadZero, LoadGet, LoadPut,
         Threads
<1>5. CASE TaskStep
  BY <1>3, <1>5 DEF TaskStep, TaskRun, TaskEnd, Threads
<1>6. CASE UNCHANGED vars
  BY <1>6 DEF vars
<1> QED BY <1>1, <1>2, <1>4, <1>5, <1>6 DEF Next

\* What the step of the list from b on leaves.
LEMMA ReachNext ==
    ASSUME TypeInv, NEW b \in Blocks, NEW c \in Blocks, Reaches(b, c), b # c
    PROVE  next[b] # None /\ Reaches(next[b], c)
<1>1. next[b] \in Blocks \union {None}
  BY DEF TypeInv, TypeOK, ListTypes
<1>2. next[b] # None
  <2>1. SUFFICES ASSUME next[b] = None PROVE FALSE
    OBVIOUS
  <2>2. Closed({b})
    BY <2>1 DEF Closed
  <2> QED BY <2>2 DEF Reaches
<1>3. ASSUME NEW S \in SUBSET Blocks, Closed(S), next[b] \in S
      PROVE  c \in S
  <2>1. Closed(S \union {b})
    BY <1>3 DEF Closed
  <2>2. S \union {b} \in SUBSET Blocks
    OBVIOUS
  <2>3. c \in S \union {b}
    BY <2>1, <2>2 DEF Reaches
  <2> QED BY <2>3
<1> QED BY <1>2, <1>3 DEF Reaches

\* A block goes to the end of the list.
LEMMA RegisterList ==
    ASSUME TypeInv, ListInv, NEW b \in Blocks, NEW id \in Bases, Register(b, id)
    PROVE  ListInv'
<1> USE ConstantsAssumption
<1>1. /\ ~Registered(b)
      /\ id # BaseNone
      /\ base' = [base EXCEPT ![b] = id]
  BY DEF Register
<1>2. \A c \in Blocks : Registered(c)' <=> Registered(c) \/ c = b
  BY <1>1 DEF Registered, TypeInv, TypeOK, ListTypes
<1>3. None \notin Blocks /\ next \in [Blocks -> Blocks \union {None}]
  BY DEF TypeInv, TypeOK, ListTypes
<1>4. CASE head = None
  <2>1. head' = b /\ next' = [next EXCEPT ![b] = None]
    BY <1>4 DEF Register
  <2>2. \A c \in Blocks : Registered(c)' <=> c = b
    BY <1>2, <1>4 DEF ListInv
  <2>3. Reaches(b, b)'
    BY DEF Reaches
  <2>4. ASSUME NEW S \in SUBSET Blocks, S # {}
        PROVE  \E c \in S : next'[c] \notin S
    <3>1. CASE b \in S
      BY <1>3, <2>1, <3>1
    <3>2. CASE b \notin S
      <4>1. PICK c \in S : next[c] \notin S
        BY <2>4 DEF ListInv
      <4> QED BY <1>3, <2>1, <3>2, <4>1
    <3> QED BY <3>1, <3>2
  <2>5. next'[b] = None
    BY <1>3, <2>1
  <2>6. b # None
    BY <1>3
  <2> QED BY <2>1, <2>2, <2>3, <2>4, <2>5, <2>6 DEF ListInv
<1>5. CASE head # None
  <2>1. head' = head /\ next' = [next EXCEPT ![Tail] = b, ![b] = None]
    BY <1>5 DEF Register
  <2>2. Tail \in Blocks /\ Registered(Tail) /\ next[Tail] = None
    <3>1. head \in Blocks /\ Registered(head)
      BY <1>5 DEF ListInv, TypeInv, TypeOK, ListTypes
    <3> DEFINE R == {c \in Blocks : Registered(c)}
    <3>2. PICK c \in R : next[c] \notin R
      BY <3>1 DEF ListInv
    <3>3. next[c] = None
      BY <1>3, <3>2 DEF ListInv
    <3>4. \E d \in Blocks : Registered(d) /\ next[d] = None
      BY <3>3
    <3> HIDE DEF R
    <3> QED BY <3>4 DEF Tail
  <2>3. Tail # b
    BY <1>1, <2>2
  <2>4. /\ next'[Tail] = b
        /\ next'[b] = None
        /\ \A c \in Blocks \ {Tail, b} : next'[c] = next[c]
    BY <1>3, <2>1, <2>2, <2>3
  <2>5. \A c \in Blocks : Registered(c) => next[c] # b
    BY <1>1, <1>3 DEF ListInv
  <2> HIDE DEF Tail
  <2>6. \A c \in Blocks :
            Registered(c)' /\ next'[c] # None => base'[next'[c]] # BaseNone
    <3>1. SUFFICES ASSUME NEW c \in Blocks, Registered(c)', next'[c] # None
                   PROVE  base'[next'[c]] # BaseNone
      OBVIOUS
    <3>2. \A d \in Blocks : base'[d] # BaseNone <=> Registered(d) \/ d = b
      BY <1>2 DEF Registered
    <3>3. CASE c = Tail
      BY <2>4, <3>2, <3>3
    <3>4. CASE c # Tail
      <4>1. c # b /\ next'[c] = next[c] /\ Registered(c)
        BY <1>2, <2>4, <3>1, <3>4
      <4>2. Registered(next[c]) /\ next[c] \in Blocks
        BY <1>3, <3>1, <4>1 DEF ListInv
      <4> QED BY <3>2, <4>1, <4>2
    <3> QED BY <3>3, <3>4
  <2>7. ASSUME NEW c \in Blocks, Registered(c)',
               NEW S \in SUBSET Blocks, Closed(S)', head \in S
        PROVE  c \in S
    <3> DEFINE T == {d \in S : Registered(d)}
    <3>1. ASSUME NEW d \in T PROVE next[d] \in T \union {None}
      <4>1. next'[d] \in S \union {None}
        BY <2>7 DEF Closed
      <4>2. CASE d = Tail
        BY <2>2, <4>2
      <4>3. CASE d # Tail
        <5>1. d # b
          BY <1>1
        <5>2. next[d] \in S \union {None}
          BY <2>4, <4>1, <4>3, <5>1
        <5>3. next[d] # None => Registered(next[d])
          BY DEF ListInv
        <5> QED BY <5>2, <5>3
      <4> QED BY <4>2, <4>3
    <3>2. Closed(T)
      BY <3>1 DEF Closed
    <3>3. head \in T
      BY <1>5, <2>7 DEF ListInv
    <3>4. T \in SUBSET Blocks
      OBVIOUS
    <3>5. \A d \in Blocks : Registered(d) => d \in T
      BY <3>2, <3>3, <3>4 DEF ListInv, Reaches
    <3>6. Tail \in S
      BY <2>2, <3>5
    <3>7. b \in S
      <4>1. next'[Tail] \in S \union {None}
        BY <2>7, <3>6 DEF Closed
      <4> QED BY <1>3, <2>4, <4>1
    <3> QED BY <1>2, <2>7, <3>5, <3>7
  <2>8. ASSUME NEW S \in SUBSET Blocks, S # {}
        PROVE  \E c \in S : next'[c] \notin S
    <3>1. CASE b \in S
      BY <1>3, <2>4, <3>1
    <3>2. CASE b \notin S /\ Tail \in S
      BY <2>4, <3>2
    <3>3. CASE b \notin S /\ Tail \notin S
      <4>1. PICK c \in S : next[c] \notin S
        BY <2>8 DEF ListInv
      <4> QED BY <2>4, <3>3, <4>1
    <3> QED BY <3>1, <3>2, <3>3
  <2>9. base'[head'] # BaseNone
    <3>1. head \in Blocks /\ Registered(head)
      BY <1>5 DEF ListInv, TypeInv, TypeOK, ListTypes
    <3> QED BY <1>2, <2>1, <3>1 DEF Registered
  <2>10. \A c \in Blocks : Registered(c)' => Reaches(head, c)'
    BY <2>1, <2>7 DEF Reaches
  <2> QED BY <1>5, <2>1, <2>6, <2>8, <2>9, <2>10 DEF ListInv, Registered
<1> QED BY <1>4, <1>5

\* A block is taken from anywhere in the list.
LEMMA UnregisterList ==
    ASSUME TypeInv, ListInv, NEW b \in Blocks, Unregister(b)
    PROVE  ListInv'
<1> USE ConstantsAssumption
<1>1. /\ Registered(b)
      /\ head' = IF head = b THEN next[b] ELSE head
      /\ base' = [base EXCEPT ![b] = BaseNone]
      /\ next' = [c \in Blocks |->
                    IF c = b THEN None
                    ELSE IF next[c] = b THEN next[b] ELSE next[c]]
  BY DEF Unregister
<1>2. /\ None \notin Blocks
      /\ next \in [Blocks -> Blocks \union {None}]
      /\ head \in Blocks \union {None}
  BY DEF TypeInv, TypeOK, ListTypes
<1>3. \A c \in Blocks : base'[c] # BaseNone <=> Registered(c) /\ c # b
  BY <1>1 DEF Registered, TypeInv, TypeOK, ListTypes
<1>4. next[b] # b
  <2>1. PICK c \in {b} : next[c] \notin {b}
    BY DEF ListInv
  <2> QED BY <2>1
<1>5. /\ next'[b] = None
      /\ \A c \in Blocks \ {b} :
            next'[c] = IF next[c] = b THEN next[b] ELSE next[c]
  BY <1>1
<1>6. next[b] # None => Registered(next[b]) /\ next[b] \in Blocks
  BY <1>1, <1>2 DEF ListInv
<1>7. head' # None => base'[head'] # BaseNone
  <2>1. CASE head = b
    BY <1>1, <1>3, <1>4, <1>6, <2>1
  <2>2. CASE head # b
    BY <1>1, <1>2, <1>3, <2>2 DEF ListInv
  <2> QED BY <2>1, <2>2
<1>8. ASSUME NEW c \in Blocks, base'[c] # BaseNone, next'[c] # None
      PROVE  base'[next'[c]] # BaseNone
  <2>1. c # b /\ Registered(c)
    BY <1>3, <1>8
  <2>2. CASE next[c] = b
    BY <1>3, <1>4, <1>5, <1>6, <1>8, <2>1, <2>2
  <2>3. CASE next[c] # b
    <3>1. next'[c] = next[c]
      BY <1>5, <2>1, <2>3
    <3>2. next[c] \in Blocks /\ Registered(next[c])
      BY <1>2, <1>8, <2>1, <3>1 DEF ListInv
    <3> QED BY <1>3, <2>3, <3>1, <3>2
  <2> QED BY <2>2, <2>3
<1>9. ASSUME NEW c \in Blocks, base'[c] # BaseNone
      PROVE  head' # None /\ Reaches(head, c)'
  <2>1. c # b /\ Registered(c) /\ head # None /\ Reaches(head, c)
    BY <1>3, <1>9 DEF ListInv
  <2>2. head' # None
    <3>1. CASE head = b
      BY <1>1, <2>1, <3>1, ReachNext
    <3>2. CASE head # b
      BY <1>1, <2>1, <3>2
    <3> QED BY <3>1, <3>2
  <2>3. ASSUME NEW S \in SUBSET Blocks, Closed(S)', head' \in S
        PROVE  c \in S
    <3>1. \A d \in S : next'[d] \in S \union {None}
      BY <2>3 DEF Closed
    <3>2. CASE head = b \/ \E p \in S \ {b} : next[p] = b
      <4>1. next[b] \in S \union {None}
        <5>1. CASE head = b
          BY <1>1, <2>3, <5>1
        <5>2. ASSUME NEW p \in S \ {b}, next[p] = b
              PROVE  next[b] \in S \union {None}
          <6>1. next'[p] = next[b]
            BY <1>5, <5>2
          <6> QED BY <3>1, <6>1
        <5> QED BY <3>2, <5>1, <5>2
      <4>2. ASSUME NEW d \in S \union {b}
            PROVE  next[d] \in S \union {b} \union {None}
        <5>1. CASE d = b
          BY <4>1, <5>1
        <5>2. CASE d # b
          BY <1>5, <3>1, <5>2
        <5> QED BY <5>1, <5>2
      <4>3. Closed(S \union {b})
        BY <4>2 DEF Closed
      <4>4. head \in S \union {b}
        BY <1>1, <2>3
      <4>5. S \union {b} \in SUBSET Blocks
        OBVIOUS
      <4>6. c \in S \union {b}
        BY <2>1, <4>3, <4>4, <4>5 DEF Reaches
      <4> QED BY <2>1, <4>6
    <3>3. CASE head # b /\ \A p \in S \ {b} : next[p] # b
      <4>1. ASSUME NEW d \in S \ {b}
            PROVE  next[d] \in (S \ {b}) \union {None}
        BY <1>5, <3>1, <3>3
      <4>2. Closed(S \ {b})
        BY <4>1 DEF Closed
      <4>3. head \in S \ {b}
        BY <1>1, <2>3, <3>3
      <4>4. S \ {b} \in SUBSET Blocks
        OBVIOUS
      <4>5. c \in S \ {b}
        BY <2>1, <4>2, <4>3, <4>4 DEF Reaches
      <4> QED BY <4>5
    <3> QED BY <3>2, <3>3
  <2> QED BY <2>2, <2>3 DEF Reaches
<1>10. ASSUME NEW S \in SUBSET Blocks, S # {}
       PROVE  \E c \in S : next'[c] \notin S
  <2>1. SUFFICES ASSUME \A c \in S : next'[c] \in S
                 PROVE  FALSE
    OBVIOUS
  <2>2. b \notin S
    BY <1>2, <1>5, <2>1
  <2>3. ASSUME NEW p \in S, next[p] = b
        PROVE  FALSE
    <3>1. next[b] \in S
      BY <1>5, <2>1, <2>2, <2>3
    <3>2. ASSUME NEW c \in S \union {b} PROVE next[c] \in S \union {b}
      <4>1. CASE c = b
        BY <3>1, <4>1
      <4>2. CASE c # b
        BY <1>5, <2>1, <4>2
      <4> QED BY <4>1, <4>2
    <3>3. S \union {b} \in SUBSET Blocks /\ S \union {b} # {}
      OBVIOUS
    <3>4. PICK c \in S \union {b} : next[c] \notin S \union {b}
      BY <3>3 DEF ListInv
    <3> QED BY <3>2, <3>4
  <2>4. PICK c \in S : next[c] \notin S
    BY <1>10 DEF ListInv
  <2>5. next'[c] = next[c]
    BY <1>5, <2>2, <2>3, <2>4
  <2> QED BY <2>1, <2>4, <2>5
<1> QED BY <1>7, <1>8, <1>9, <1>10 DEF ListInv, Registered

\* The list is in order after every step.
LEMMA ListNext == TypeInv /\ ListInv /\ [Next]_vars => ListInv'
<1> SUFFICES ASSUME TypeInv, ListInv, [Next]_vars PROVE ListInv'
  OBVIOUS
<1>1. CASE UNCHANGED list
  <2>1. head' = head /\ next' = next /\ base' = base
    BY <1>1 DEF list
  <2>2. ASSUME NEW b \in Blocks, Registered(b)', Reaches(head, b)
        PROVE  Reaches(head, b)'
    BY <2>1, <2>2 DEF Reaches, Closed
  <2> QED BY <2>1, <2>2 DEF ListInv, Registered
<1>2. CASE Crash
  <2>1. /\ head' = None
        /\ \A b \in Blocks : ~Registered(b)' /\ next'[b] = None
    BY <1>2 DEF Crash, Registered
  <2>2. None \notin Blocks
    BY ConstantsAssumption
  <2> QED BY <2>1, <2>2 DEF ListInv
<1> QED BY <1>1, <1>2, ListSteps, UnregisterList, RegisterList

----------------------------------------------------------------------------
(* The ids.                                                                *)

\* No two blocks that are registered overlap.
LEMMA OwnNext == TypeInv /\ OwnInv /\ [Next]_vars => OwnInv'
<1> SUFFICES ASSUME TypeInv, OwnInv, [Next]_vars PROVE OwnInv'
  OBVIOUS
<1> USE ConstantsAssumption
<1>1. CASE UNCHANGED list
  BY <1>1 DEF list, OwnInv, Registered, Id
<1>2. CASE Crash
  <2>1. \A b \in Blocks : ~Registered(b)'
    BY <1>2 DEF Crash, Registered
  <2>2. \A e \in Entries : e[1] \in Blocks
    BY EntryPair
  <2> QED BY <2>1, <2>2 DEF OwnInv
<1>3. ASSUME NEW b \in Blocks, Unregister(b)
      PROVE  OwnInv'
  <2>1. \A c \in Blocks : Registered(c)' => Registered(c) /\ base'[c] = base[c]
    BY <1>3 DEF Unregister, Registered, TypeInv, TypeOK, ListTypes
  <2>2. \A e \in Entries : Registered(e[1])' =>
            Registered(e[1]) /\ Id(e)' = Id(e)
    BY <2>1, EntryPair DEF Id
  <2> QED BY <2>1, <2>2 DEF OwnInv
<1>4. ASSUME NEW b \in Blocks, NEW id \in Bases, Register(b, id)
      PROVE  OwnInv'
  <2>1. /\ ~Registered(b) /\ ~Overlap(b, id)
        /\ base' = [base EXCEPT ![b] = id]
        /\ id + Count <= BaseNone
    BY <1>4 DEF Register
  <2>2. /\ base'[b] = id
        /\ \A c \in Blocks \ {b} : base'[c] = base[c]
        /\ base \in [Blocks -> Nat]
        /\ id \in Nat
    BY <2>1 DEF TypeInv, TypeOK, ListTypes
  <2>3. \A c \in Blocks : Registered(c)' => base'[c] + Count <= BaseNone
    BY <2>1, <2>2 DEF OwnInv, Registered
  <2>4. ASSUME NEW e \in Entries, NEW f \in Entries, e[1] = b,
               Registered(f[1])', Id(e)' = Id(f)'
        PROVE  e = f
    <3>1. /\ e = <<b, e[2]>> /\ f = <<f[1], f[2]>>
          /\ f[1] \in Blocks /\ e[2] \in Locals /\ f[2] \in Locals
      BY <2>4, EntryPair
    <3>2. /\ e[2] \in Nat /\ e[2] < Count /\ f[2] \in Nat /\ f[2] < Count
      BY <3>1 DEF Locals
    <3>3. CASE f[1] = b
      BY <2>2, <2>4, <3>1, <3>2, <3>3 DEF Id
    <3>4. CASE f[1] # b
      <4>1. base'[f[1]] = base[f[1]] /\ Registered(f[1])
        BY <2>2, <2>4, <3>1, <3>4 DEF Registered
      <4>2. ~(id < base[f[1]] + Count /\ base[f[1]] < id + Count)
        BY <2>1, <3>1, <3>4, <4>1 DEF Overlap
      <4>3. id + e[2] = base[f[1]] + f[2]
        BY <2>2, <2>4, <4>1 DEF Id
      <4>4. base[f[1]] \in Nat
        BY <2>2, <3>1
      <4> QED BY <2>2, <3>2, <4>2, <4>3, <4>4
    <3> QED BY <3>3, <3>4
  <2>5. ASSUME NEW e \in Entries, NEW f \in Entries, e[1] # b, f[1] # b,
               Registered(e[1])', Registered(f[1])', Id(e)' = Id(f)'
        PROVE  e = f
    <3>1. e[1] \in Blocks /\ f[1] \in Blocks
      BY EntryPair
    <3>2. /\ Registered(e[1]) /\ Registered(f[1])
          /\ Id(e) = Id(f)
      BY <2>2, <2>5, <3>1 DEF Registered, Id
    <3> QED BY <3>2 DEF OwnInv
  <2>6. \A e, f \in Entries :
            Registered(e[1])' /\ Registered(f[1])' /\ Id(e)' = Id(f)' => e = f
    BY <2>4, <2>5
  <2> QED BY <2>3, <2>6 DEF OwnInv
<1> QED BY <1>1, <1>2, <1>3, <1>4, ListSteps

----------------------------------------------------------------------------
(* The calls and the loops.                                                *)

\* A pass returns to the call that made it.
LEMMA ReturnCall ==
    ASSUME TypeInv, CallInv, NEW t \in Threads, NEW wrote \in BOOLEAN,
           pc[t] \in {"pass_lock", "pass_block"}, PassReturn(t, wrote)
    PROVE  /\ pc'[t] \notin Passing
           /\ \A u \in Threads \ {t} : pc'[u] = pc[u]
           /\ t = "task" => op' = op /\ pc'[t] = "task_end"
           /\ t = "life" =>
                \/ op = "stop" /\ op' = "stop" /\ pc'[t] = "stop_unload"
                \/ /\ op \in {"persist", "reset"} /\ op' = "none"
                   /\ pc'[t] = "idle"
<1>1. pc \in [Threads -> PcNames]
  BY DEF TypeInv, TypeOK, ThreadTypes
<1>2. CASE t = "task"
  BY <1>1, <1>2 DEF PassReturn, Goto, Passing
<1>3. CASE t = "life"
  <2>1. op \in {"persist", "stop", "reset"}
    BY <1>3 DEF CallInv, Passing
  <2> QED BY <1>1, <1>3, <2>1 DEF PassReturn, Goto, Passing
<1> QED BY <1>2, <1>3 DEF Threads

\* The parts that say nothing of the values.
Calm == CallInv /\ LocalInv /\ PassInv

\* Every step leaves the calls and the loops in order.
LEMMA CallNext == TypeInv /\ Calm /\ [Next]_vars => Calm'
<1> SUFFICES ASSUME TypeInv, Calm, [Next]_vars PROVE Calm'
  OBVIOUS
<1> USE ConstantsAssumption DEF Calm
<1>0. /\ pc \in [Threads -> PcNames]
      /\ local \in [Threads -> 0 .. Count]
      /\ Threads = {"life", "task"}
      /\ \A t \in Threads : pc[t] \in Passing => volume = t
  BY DEF TypeInv, TypeOK, ThreadTypes, Threads, MutexInv, Passing, Using
<1>1. CASE Counting
  BY <1>1
     DEF Counting, Add, Set, cursor, store, task, CallInv, LocalInv, PassInv
<1>2. CASE Start
  BY <1>0, <1>2
     DEF Start, Call, Goto, Idle, cursor, store, task, CallInv, LocalInv,
         PassInv, Loading, Passing
<1>3. CASE Stop
  BY <1>0, <1>3
     DEF Stop, Call, Goto, Idle, cursor, store, task, CallInv, LocalInv,
         PassInv, Loading, Passing
<1>4. CASE Persist
  BY <1>0, <1>4
     DEF Persist, Call, Goto, Idle, cursor, store, task, CallInv, LocalInv,
         PassInv, Loading, Passing
<1>5. CASE Reset
  BY <1>0, <1>5
     DEF Reset, Call, Goto, Idle, cursor, store, task, CallInv, LocalInv,
         PassInv, Loading, Passing
<1>6. ASSUME NEW b \in Blocks, Unregister(b)
      PROVE  Calm'
  BY <1>6 DEF Unregister, cursor, store, task, CallInv, LocalInv, PassInv
<1>7. ASSUME NEW b \in Blocks, NEW id \in Bases, Register(b, id)
      PROVE  Calm'
  BY <1>0, <1>7
     DEF Register, Goto, Idle, store, task, CallInv, LocalInv, PassInv,
         Loading, Passing
<1>8. CASE StartVolume
  BY <1>0, <1>8
     DEF StartVolume, Goto, task, CallInv, LocalInv, PassInv, Loading, Passing
<1>9. CASE StartDone
  BY <1>0, <1>9
     DEF StartDone, Goto, cursor, store, CallInv, LocalInv, PassInv, Loading,
         Passing
<1>10. CASE StopCancel
  BY <1>0, <1>10
     DEF StopCancel, Goto, cursor, store, CallInv, LocalInv, PassInv, Loading,
         Passing
<1>11. CASE StopUnload
  BY <1>0, <1>11
     DEF StopUnload, Goto, cursor, task, CallInv, LocalInv, PassInv, Loading,
         Passing
<1>12. CASE ResetVolume
  BY <1>0, <1>12
     DEF ResetVolume, Goto, cursor, task, CallInv, LocalInv, PassInv, Loading,
         Passing
<1>13. CASE ResetZero
  BY <1>0, <1>13
     DEF ResetZero, Goto, cursor, task, store, CallInv, LocalInv, PassInv,
         Loading, Passing
<1>14. CASE RegisterLoad
  BY <1>0, <1>14
     DEF RegisterLoad, Goto, cursor, task, store, CallInv, LocalInv, PassInv,
         Loading, Passing
<1>15. CASE LoadBlock
  BY <1>0, <1>15
     DEF LoadBlock, Goto, cursor, task, store, CallInv, LocalInv, PassInv,
         Loading, Passing
<1>16. CASE LoadZero
  BY <1>0, <1>16
     DEF LoadZero, Goto, task, store, CallInv, LocalInv, PassInv, Loading,
         Passing
<1>17. CASE LoadGet
  BY <1>0, <1>17
     DEF LoadGet, Goto, task, CallInv, LocalInv, PassInv, Loading, Passing
<1>18. CASE LoadPut
  BY <1>0, <1>18
     DEF LoadPut, Goto, task, store, CallInv, LocalInv, PassInv, Loading,
         Passing
<1>19. ASSUME NEW t \in Threads, PassLock(t)
       PROVE  Calm'
  <2>1. CASE /\ scratch /\ dict
             /\ Goto(t, "pass_block")
             /\ UNCHANGED op
    <3>1. CallInv'
      BY <1>0, <1>19, <2>1
         DEF PassLock, Goto, task, store, CallInv, Loading, Passing
    <3>2. LocalInv'
      BY <1>0, <1>19, <2>1
         DEF PassLock, Goto, task, store, CallInv, LocalInv, Loading, Passing
    <3>3. PassInv'
      BY <1>0, <1>19, <2>1
         DEF PassLock, Goto, task, store, CallInv, PassInv, Loading, Passing
    <3> QED BY <3>1, <3>2, <3>3
  <2>2. CASE PassReturn(t, FALSE)
    <3>1. CallInv'
      BY <1>0, <1>19, <2>2, ReturnCall
         DEF PassLock, task, store, CallInv, Loading, Passing
    <3>2. LocalInv'
      BY <1>0, <1>19, <2>2, ReturnCall
         DEF PassLock, task, store, CallInv, LocalInv, Loading, Passing
    <3>3. PassInv'
      BY <1>0, <1>19, <2>2, ReturnCall
         DEF PassLock, task, store, CallInv, PassInv, Loading, Passing
    <3> QED BY <3>1, <3>2, <3>3
  <2> QED BY <1>19, <2>1, <2>2 DEF PassLock
<1>20. ASSUME NEW t \in Threads, PassBlock(t)
       PROVE  Calm'
  <2>1. CASE PassReturn(t, TRUE)
    <3>1. CallInv'
      BY <1>0, <1>20, <2>1, ReturnCall
         DEF PassBlock, task, store, CallInv, Loading, Passing
    <3>2. LocalInv'
      BY <1>0, <1>20, <2>1, ReturnCall
         DEF PassBlock, task, store, CallInv, LocalInv, Loading, Passing
    <3>3. PassInv'
      BY <1>0, <1>20, <2>1, ReturnCall
         DEF PassBlock, task, store, CallInv, PassInv, Loading, Passing
    <3> QED BY <3>1, <3>2, <3>3
  <2>2. CASE UNCHANGED <<pc, op>>
    BY <1>0, <1>20, <2>2
       DEF PassBlock, task, store, CallInv, LocalInv, PassInv
  <2>3. CASE Goto(t, "pass_entry") /\ UNCHANGED op
    BY <1>0, <1>20, <2>3
       DEF PassBlock, Goto, task, store, CallInv, LocalInv, PassInv, Loading,
           Passing
  <2> QED BY <1>20, <2>1, <2>2, <2>3 DEF PassBlock
<1>21. ASSUME NEW t \in Threads, PassEntry(t)
       PROVE  Calm'
  BY <1>0, <1>21
     DEF PassEntry, Goto, task, store, CallInv, LocalInv, PassInv, Loading,
         Passing
<1>22. ASSUME NEW t \in Threads, PassWrite(t)
       PROVE  Calm'
  BY <1>0, <1>22
     DEF PassWrite, Goto, task, CallInv, LocalInv, PassInv, Loading, Passing
<1>23. ASSUME NEW t \in Threads, PassFail(t)
       PROVE  Calm'
  BY <1>0, <1>23
     DEF PassFail, Goto, task, store, CallInv, LocalInv, PassInv, Loading,
         Passing
<1>24. CASE TaskRun
  BY <1>0, <1>24
     DEF TaskRun, Goto, store, cursor, CallInv, LocalInv, PassInv, Loading,
         Passing
<1>25. CASE TaskEnd
  BY <1>0, <1>25
     DEF TaskEnd, Goto, store, cursor, CallInv, LocalInv, PassInv, Loading,
         Passing
<1>26. CASE Crash
  BY <1>0, <1>26 DEF Crash, CallInv, LocalInv, PassInv, Loading, Passing
<1>27. CASE UNCHANGED vars
  BY <1>27 DEF vars, cursor, store, task, CallInv, LocalInv, PassInv
<1> QED
  BY <1>1, <1>2, <1>3, <1>4, <1>5, <1>6, <1>7, <1>8, <1>9, <1>10, <1>11,
     <1>12, <1>13, <1>14, <1>15, <1>16, <1>17, <1>18, <1>19, <1>20, <1>21,
     <1>22, <1>23, <1>24, <1>25, <1>26, <1>27
     DEF Next, Calls, LifeStep, TaskStep, Load, Pass, Threads

----------------------------------------------------------------------------
(* What is stored.                                                         *)

\* All of it but what is stored.
Ground == TypeInv /\ Calm /\ ListInv /\ OwnInv

\* The counters that were loaded are, while no load is in progress.
LEMMA NoneAdded ==
    ASSUME pc["life"] \notin Loading \union {"register_load"},
           base' = base
    PROVE  \A e \in Entries :
                Loaded(e)' => Loaded(e) /\ Id(e)' = Id(e)
BY DEF Loaded, Pending, Registered, Id

\* They are the same while another thread runs.
LEMMA LoadedSame ==
    ASSUME base' = base, next' = next, op' = op, pc'["life"] = pc["life"],
           blk'["life"] = blk["life"], local'["life"] = local["life"]
    PROVE  \A e \in Entries :
                (Loaded(e)' <=> Loaded(e)) /\ Id(e)' = Id(e)
<1>1. ASSUME NEW e \in Entries
      PROVE  Pending(e)' <=> Pending(e)
  <2>1. Reaches(blk["life"], e[1])' <=> Reaches(blk["life"], e[1])
    BY DEF Reaches, Closed
  <2> QED BY <2>1 DEF Pending
<1> QED BY <1>1 DEF Loaded, Registered, Id

\* A thread that writes is in the volume, alone.
LEMMA WriterAlone ==
    ASSUME TypeInv, NEW t \in Threads, pc[t] \in Using
    PROVE  \A u \in Threads \ {t} : pc[u] \notin Using
BY DEF TypeInv, MutexInv

\* No thread is in the volume while its mutex is free.
LEMMA NoWriter ==
    ASSUME TypeInv, volume = None
    PROVE  \A u \in Threads : pc[u] \notin Using
BY ConstantsAssumption DEF TypeInv, MutexInv

\* A step that leaves values and records alone, ends no write and claims
\* nothing.
LEMMA Quiet ==
    ASSUME WriteInv, StoredInv, UNCHANGED <<entry, dirty, vol>>,
           record' = record \/ \A t \in Threads : pc'[t] # "pass_write",
           Live' => Live,
           \A e \in Entries : Loaded(e)' => Loaded(e) /\ Id(e)' = Id(e),
           \A t \in Threads :
                /\ pc'[t] = "pass_write" => pc[t] = "pass_write"
                /\ pc[t] \in {"pass_write", "pass_fail"} =>
                        pc'[t] = pc[t] /\ Here(t)' = Here(t)
    PROVE  WriteInv' /\ StoredInv'
<1>1. ASSUME NEW t \in Threads, pc'[t] = "pass_write"
      PROVE  /\ record'.name = Here(t)'
             /\ \A e \in Entries : Loaded(e)' =>
                  /\ record'.id = Id(e)' <=> e = Here(t)'
                  /\ Live' /\ e = Here(t)' /\ ~dirty'[e] =>
                        record'.value = entry'[e]
  <2>1. pc[t] = "pass_write" /\ Here(t)' = Here(t)
    BY <1>1
  <2> QED BY <2>1 DEF WriteInv
<1>2. WriteInv'
  BY <1>1 DEF WriteInv
<1>3. ASSUME Live', NEW e \in Entries, Loaded(e)', ~dirty'[e], ~Writing(e)'
      PROVE  entry'[e] = StoredValue(e)'
  <2>1. Live /\ Loaded(e) /\ Id(e)' = Id(e)
    BY <1>3
  <2>2. ~Writing(e)
    BY <1>3 DEF Writing
  <2>3. StoredValue(e)' = StoredValue(e)
    BY <2>1 DEF StoredValue
  <2> QED BY <1>3, <2>1, <2>2, <2>3 DEF StoredInv
<1>4. StoredInv'
  BY <1>3 DEF StoredInv
<1> QED BY <1>2, <1>4

\* No load is in progress after the step.
LEMMA LoadAway ==
    ASSUME pc'["life"] \notin Loading \union {"register_load"}
    PROVE  LoadInv'
BY DEF LoadInv, Loading

\* The step is not one of the load in progress.
LEMMA LoadQuiet ==
    ASSUME LoadInv, UNCHANGED <<base, entry, dirty, vol, record>>,
           pc'["life"] = pc["life"], blk'["life"] = blk["life"],
           local'["life"] = local["life"]
    PROVE  LoadInv'
BY DEF LoadInv, Registered, Here, Id

\* Every step leaves the load in progress in order.
LEMMA LoadNext == Ground /\ LoadInv /\ [Next]_vars => LoadInv'
<1> SUFFICES ASSUME Ground, LoadInv, [Next]_vars PROVE LoadInv'
  OBVIOUS
<1> USE ConstantsAssumption
<1>0. /\ pc \in [Threads -> PcNames]
      /\ local \in [Threads -> 0 .. Count]
      /\ blk \in [Threads -> Blocks \union {None}]
      /\ base \in [Blocks -> Bases \union {BaseNone}]
      /\ entry \in [Entries -> Values]
      /\ dirty \in [Entries -> BOOLEAN]
      /\ vol \in [Ids -> Records]
      /\ Threads = {"life", "task"}
      /\ TypeInv
  BY DEF Ground, TypeInv, TypeOK, ThreadTypes, ListTypes, ValueTypes, StoreTypes,
         Threads
<1>l. pc["life"] \in {"load_zero", "load_get", "load_put"} =>
        /\ blk["life"] \in Blocks
        /\ local["life"] < Count =>
             /\ Here("life") \in Entries
             /\ Id(Here("life")) \in Ids
  BY <1>0, HereIsEntry DEF TypeInv, CursorInv
<1>1. ASSUME NEW e \in Entries, Add(e)
      PROVE  LoadInv'
  <2>1. /\ UNCHANGED <<base, pc, blk, local, vol, record>>
        /\ dirty' = [dirty EXCEPT ![e] = TRUE]
        /\ entry' = [entry EXCEPT ![e] = @ + 1]
    BY <1>1 DEF Add, list, store, cursor
  <2>2. \A f \in Entries :
            dirty'[f] \/ (dirty'[f] = dirty[f] /\ entry'[f] = entry[f])
    BY <1>0, <2>1
  <2>3. pc["life"] \in {"load_get", "load_put"} => Here("life") \in Entries
    BY <1>0, <1>l DEF TypeInv, CursorInv
  <2> QED BY <2>1, <2>2, <2>3 DEF LoadInv, Registered, Here, Id
<1>2. ASSUME NEW e \in Entries, NEW v \in Values, Set(e, v)
      PROVE  LoadInv'
  <2>1. /\ UNCHANGED <<base, pc, blk, local, vol, record>>
        /\ dirty' = [dirty EXCEPT ![e] = TRUE]
        /\ entry' = [entry EXCEPT ![e] = v]
    BY <1>2 DEF Set, list, store, cursor
  <2>2. \A f \in Entries :
            dirty'[f] \/ (dirty'[f] = dirty[f] /\ entry'[f] = entry[f])
    BY <1>0, <2>1
  <2>3. pc["life"] \in {"load_get", "load_put"} => Here("life") \in Entries
    BY <1>0, <1>l DEF TypeInv, CursorInv
  <2> QED BY <2>1, <2>2, <2>3 DEF LoadInv, Registered, Here, Id
<1>3. CASE Start \/ Stop \/ Persist \/ Reset
  BY <1>0, <1>3, LoadAway
     DEF Start, Stop, Persist, Reset, Call, Goto, Loading
<1>4. ASSUME NEW b \in Blocks, Unregister(b)
      PROVE  LoadInv'
  BY <1>4, LoadAway DEF Unregister, Idle, Loading
<1>5. ASSUME NEW b \in Blocks, NEW id \in Bases, Register(b, id)
      PROVE  LoadInv'
  <2>1. CASE pc' = pc
    BY <1>5, <2>1, LoadAway DEF Register, Idle, Loading
  <2>2. CASE pc' # pc
    <3>1. /\ pc'["life"] = "register_load" /\ blk'["life"] = b
          /\ base'[b] = id /\ id # BaseNone
      BY <1>0, <1>5, <2>2 DEF Register, Goto
    <3> QED BY <3>1 DEF LoadInv, Registered, Loading
  <2> QED BY <2>1, <2>2
<1>6. CASE StartVolume
  <2>1. pc'["life"] = "load_block" /\ blk'["life"] = head /\ base' = base
    BY <1>0, <1>6 DEF StartVolume, Goto, list
  <2> QED BY <2>1 DEF LoadInv, Ground, ListInv, Registered
<1>7. CASE \/ StartDone \/ StopCancel \/ StopUnload \/ ResetVolume \/ ResetZero
  BY <1>0, <1>7, LoadAway
     DEF StartDone, StopCancel, StopUnload, ResetVolume, ResetZero, Goto, Loading
<1>8. CASE RegisterLoad
  <2>1. /\ pc'["life"] = "load_block" /\ pc["life"] = "register_load"
        /\ blk' = blk /\ base' = base
    BY <1>0, <1>8 DEF RegisterLoad, Goto, list, cursor
  <2> QED BY <2>1 DEF LoadInv, Registered
<1>9. CASE LoadBlock
  <2>1. /\ pc["life"] = "load_block"
        /\ pc'["life"] \in {"load_zero", "start_done", "idle"}
        /\ blk' = blk /\ base' = base
    BY <1>0, <1>9 DEF LoadBlock, Goto, list, cursor
  <2> QED BY <2>1 DEF LoadInv, Registered, Loading
<1>10. CASE LoadZero
  <2>1. pc["life"] = "load_zero" /\ blk["life"] \in Blocks /\ base' = base
    BY <1>10, <1>l DEF LoadZero, list
  <2>2. CASE local["life"] = Count
    <3>1. /\ pc'["life"] = "load_block"
          /\ blk'["life"] \in {next[blk["life"]], None}
      BY <1>0, <1>10, <2>2 DEF LoadZero, Goto
    <3>2. Registered(blk["life"])
      BY <2>1 DEF LoadInv, Loading
    <3>3. blk'["life"] # None => Registered(blk'["life"])
      BY <2>1, <3>1, <3>2 DEF Ground, ListInv
    <3> QED BY <2>1, <3>1, <3>3 DEF LoadInv, Registered
  <2>3. CASE local["life"] # Count
    <3>1. /\ blk' = blk
          /\ local["life"] < Count
          /\ entry' = [entry EXCEPT ![Here("life")] = 0]
          /\ \/ pc'["life"] = "load_get" /\ local' = local
             \/ pc'["life"] = "load_zero"
      BY <1>0, <1>10, <2>1, <2>3 DEF LoadZero, Goto
    <3>2. entry'[Here("life")] = 0
      BY <1>0, <1>l, <2>1, <3>1
    <3>3. CASE pc'["life"] = "load_get" /\ local' = local
      <4>1. Here("life")' = Here("life")
        BY <3>1, <3>3 DEF Here
      <4>2. (pc["life"] \in {"load_get", "load_put"} =>
                dirty[Here("life")] \/ entry[Here("life")] = 0)'
        BY <3>2, <4>1
      <4> QED BY <2>1, <3>1, <3>3, <4>2 DEF LoadInv, Registered, Loading
    <3>4. CASE pc'["life"] = "load_zero"
      BY <2>1, <3>1, <3>4 DEF LoadInv, Registered, Loading
    <3> QED BY <3>1, <3>3, <3>4
  <2> QED BY <2>2, <2>3
<1>11. CASE LoadGet
  <2>1. /\ pc["life"] = "load_get" /\ blk' = blk /\ base' = base
        /\ UNCHANGED <<entry, dirty>>
    BY <1>11 DEF LoadGet, list, values
  <2>2. CASE pc'["life"] = "load_zero"
    BY <2>1, <2>2 DEF LoadInv, Registered, Loading
  <2>3. CASE pc'["life"] # "load_zero"
    <3>1. /\ pc'["life"] = "load_put" /\ UNCHANGED <<local, vol>>
          /\ vol[Id(Here("life"))].name = Here("life")
          /\ record'.value = vol[Id(Here("life"))].value
      BY <1>0, <1>11, <2>3 DEF LoadGet, Goto
    <3>2. Here("life")' = Here("life") /\ Id(Here("life"))' = Id(Here("life"))
      BY <2>1, <3>1 DEF Here, Id
    <3>3. dirty[Here("life")] \/ entry[Here("life")] = 0
      BY <2>1 DEF LoadInv
    <3> QED BY <2>1, <3>1, <3>2, <3>3 DEF LoadInv, Registered, Loading
  <2> QED BY <2>2, <2>3
<1>12. CASE LoadPut
  <2>1. /\ pc["life"] = "load_put" /\ pc'["life"] = "load_zero"
        /\ blk' = blk /\ base' = base
    BY <1>0, <1>12 DEF LoadPut, Goto, list
  <2> QED BY <2>1 DEF LoadInv, Registered, Loading
<1>13. ASSUME Pass("life")
       PROVE  LoadInv'
  <2>1. CASE PassLock("life")
    <3>1. /\ pc["life"] = "pass_lock"
          /\ pc'["life"] \notin Loading \union {"register_load"}
      BY <1>0, <2>1, ReturnCall
         DEF PassLock, Goto, Loading, Passing, Ground, Calm
    <3> QED BY <3>1, LoadAway
  <2>2. CASE PassBlock("life")
    <3>1. pc'["life"] \notin Loading \union {"register_load"}
      BY <1>0, <2>2, ReturnCall
         DEF PassBlock, Goto, Loading, Passing, Ground, Calm
    <3> QED BY <3>1, LoadAway
  <2>3. CASE PassEntry("life") \/ PassWrite("life") \/ PassFail("life")
    <3>1. pc'["life"] \notin Loading \union {"register_load"}
      BY <1>0, <2>3 DEF PassEntry, PassWrite, PassFail, Goto, Loading
    <3> QED BY <3>1, LoadAway
  <2> QED BY <1>13, <2>1, <2>2, <2>3 DEF Pass
<1>14. ASSUME Pass("task")
       PROVE  LoadInv'
  <2>1. /\ pc'["life"] = pc["life"] /\ blk'["life"] = blk["life"]
        /\ local'["life"] = local["life"] /\ base' = base
    <3>1. CASE PassLock("task")
      BY <1>0, <3>1 DEF PassLock, PassReturn, Goto, list
    <3>2. CASE PassBlock("task")
      BY <1>0, <3>2 DEF PassBlock, PassReturn, Goto, list
    <3>3. CASE PassEntry("task") \/ PassWrite("task") \/ PassFail("task")
      BY <1>0, <3>3 DEF PassEntry, PassWrite, PassFail, Goto, list
    <3> QED BY <1>14, <3>1, <3>2, <3>3 DEF Pass
  <2>2. CASE UNCHANGED <<entry, dirty, vol, record>>
    BY <2>1, <2>2, LoadQuiet
  <2>3. CASE ~UNCHANGED <<entry, dirty, vol, record>>
    <3>1. pc["task"] \in Using
      BY <1>14, <2>3
         DEF Pass, PassLock, PassBlock, PassEntry, PassWrite, PassFail, values,
             store, Using
    <3>2. pc["life"] \notin Using
      BY <1>0, <3>1, WriterAlone
    <3>3. CASE pc["life"] = "register_load"
      <4>1. blk["life"] # None => Registered(blk["life"])
        BY <3>3 DEF LoadInv
      <4> QED BY <2>1, <3>3, <4>1 DEF LoadInv, Registered
    <3>4. CASE pc["life"] # "register_load"
      BY <2>1, <3>2, <3>4, LoadAway DEF Using, Loading
    <3> QED BY <3>3, <3>4
  <2> QED BY <2>2, <2>3
<1>15. CASE TaskRun \/ TaskEnd
  BY <1>0, <1>15, LoadQuiet
     DEF TaskRun, TaskEnd, Goto, list, values, store, cursor
<1>16. CASE Crash
  BY <1>0, <1>16, LoadAway DEF Crash, Loading
<1>17. CASE UNCHANGED vars
  BY <1>17, LoadQuiet DEF vars, list, values, store, cursor
<1> QED
  BY <1>1, <1>2, <1>3, <1>4, <1>5, <1>6, <1>7, <1>8, <1>9, <1>10, <1>11,
     <1>12, <1>13, <1>14, <1>15, <1>16, <1>17
     DEF Next, Counting, Calls, LifeStep, TaskStep, Load

\* A count, or a value that is set, makes the counter dirty.
LEMMA DirtyStays ==
    ASSUME Ground, WriteInv, StoredInv, NEW e \in Entries, NEW v,
           entry' = [entry EXCEPT ![e] = v],
           dirty' = [dirty EXCEPT ![e] = TRUE],
           UNCHANGED <<list, store, started, record, pc, cursor, op>>
    PROVE  WriteInv' /\ StoredInv'
<1>0. /\ base' = base /\ next' = next /\ vol' = vol
      /\ blk' = blk /\ local' = local
  BY DEF list, store, cursor
<1>1. \A f \in Entries : (Loaded(f)' <=> Loaded(f)) /\ Id(f)' = Id(f)
  BY <1>0, LoadedSame
<1>2. \A f \in Entries :
        \/ dirty'[f]
        \/ f # e /\ dirty'[f] = dirty[f] /\ entry'[f] = entry[f]
  BY DEF Ground, TypeInv, TypeOK, ValueTypes
<1>3. Live' <=> Live
  BY DEF Live, store
<1>4. \A t \in Threads : Here(t)' = Here(t)
  BY <1>0 DEF Here
<1>5. WriteInv'
  <2>1. ASSUME NEW t \in Threads, pc'[t] = "pass_write"
        PROVE  /\ record'.name = Here(t)'
               /\ \A f \in Entries : Loaded(f)' =>
                    /\ record'.id = Id(f)' <=> f = Here(t)'
                    /\ Live' /\ f = Here(t)' /\ ~dirty'[f] =>
                          record'.value = entry'[f]
    <3>1. pc[t] = "pass_write" /\ record' = record /\ Here(t)' = Here(t)
      BY <1>4, <2>1
    <3>2. record.name = Here(t)
      BY <3>1 DEF WriteInv
    <3>3. ASSUME NEW f \in Entries, Loaded(f)'
          PROVE  /\ record.id = Id(f)' <=> f = Here(t)
                 /\ Live' /\ f = Here(t) /\ ~dirty'[f] =>
                        record.value = entry'[f]
      <4>1. Loaded(f) /\ Id(f)' = Id(f)
        BY <1>1, <3>3
      <4>2. record.id = Id(f) <=> f = Here(t)
        BY <3>1, <4>1 DEF WriteInv
      <4>3. Live /\ f = Here(t) /\ ~dirty[f] => record.value = entry[f]
        BY <3>1, <4>1 DEF WriteInv
      <4> QED BY <1>2, <1>3, <4>1, <4>2, <4>3
    <3> QED BY <3>1, <3>2, <3>3
  <2> QED BY <2>1 DEF WriteInv
<1>6. ASSUME Live', NEW f \in Entries, Loaded(f)', ~dirty'[f], ~Writing(f)'
      PROVE  entry'[f] = StoredValue(f)'
  <2>1. Live /\ Loaded(f) /\ Id(f)' = Id(f) /\ ~dirty[f] /\ entry'[f] = entry[f]
    BY <1>1, <1>2, <1>3, <1>6
  <2>2. ~Writing(f)
    BY <1>4, <1>6 DEF Writing
  <2>3. StoredValue(f)' = StoredValue(f)
    BY <1>0, <2>1 DEF StoredValue
  <2> QED BY <2>1, <2>2, <2>3 DEF StoredInv
<1> QED BY <1>5, <1>6 DEF StoredInv

\* A pass claims a counter.
LEMMA ClaimStored ==
    ASSUME Ground, WriteInv, StoredInv, NEW t \in Threads, PassEntry(t),
           local[t] < Count, ~AtBound(t), dirty[Here(t)],
           pc'[t] = "pass_write"
    PROVE  WriteInv' /\ StoredInv'
<1> USE ConstantsAssumption
<1>0. /\ pc \in [Threads -> PcNames]
      /\ base \in [Blocks -> Bases \union {BaseNone}]
      /\ dirty \in [Entries -> BOOLEAN]
      /\ TypeInv /\ Threads = {"life", "task"}
  BY DEF Ground, TypeInv, TypeOK, ThreadTypes, ListTypes, ValueTypes, Threads
<1>1. /\ pc[t] = "pass_entry"
      /\ dirty' = [dirty EXCEPT ![Here(t)] = FALSE]
      /\ record' = [id |-> Id(Here(t)), name |-> Here(t),
                    value |-> entry[Here(t)]]
      /\ pc' = [pc EXCEPT ![t] = "pass_write"]
      /\ UNCHANGED <<entry, blk, local, vol, dict, started, op, base, next>>
  BY <1>0 DEF PassEntry, Goto, list, store, task
<1>2. /\ blk[t] \in Blocks /\ local[t] \in Locals
      /\ Here(t) \in Entries /\ Here(t)[1] = blk[t]
      /\ Here(t) = <<blk[t], local[t]>>
  BY <1>0, <1>1, HereIsEntry DEF TypeInv, CursorInv
<1>3. Here(t)' = Here(t) /\ \A u \in Threads : Here(u)' = Here(u)
  BY <1>1 DEF Here
<1>4. \A u \in Threads \ {t} : pc[u] \notin Using /\ pc'[u] = pc[u]
  BY <1>0, <1>1, WriterAlone DEF Using
<1>5. \A e \in Entries : (Loaded(e)' => Loaded(e)) /\ Id(e)' = Id(e)
  <2>1. CASE t = "life"
    BY <1>1, <2>1, NoneAdded DEF Loading, Id
  <2>2. CASE t = "task"
    <3>1. pc'["life"] = pc["life"]
      BY <1>0, <1>1, <2>2
    <3> QED BY <1>1, <3>1, LoadedSame
  <2> QED BY <1>0, <2>1, <2>2
<1>6. \A e \in Entries : Loaded(e) => (Id(Here(t)) = Id(e) <=> e = Here(t))
  <2>1. ASSUME NEW e \in Entries, Loaded(e), Id(Here(t)) = Id(e)
        PROVE  e = Here(t)
    <3>1. Registered(e[1])
      BY <2>1 DEF Loaded
    <3>2. CASE Registered(blk[t])
      BY <1>2, <2>1, <3>1, <3>2 DEF Ground, OwnInv
    <3>3. CASE ~Registered(blk[t])
      <4>1. e[1] \in Blocks /\ e[2] \in Nat /\ e[2] < Count
        BY EntryPair DEF Locals
      <4>2. base[e[1]] + Count <= BaseNone /\ base[e[1]] \in Nat
        BY <1>0, <3>1, <4>1 DEF Ground, OwnInv
      <4>3. Id(e) < BaseNone
        BY <4>1, <4>2 DEF Id
      <4>4. Here(t)[2] = local[t] /\ local[t] \in Nat
        BY <1>2 DEF Locals
      <4>5. Id(Here(t)) >= BaseNone
        BY <1>2, <3>3, <4>4 DEF Id, Registered
      <4>6. Id(e) \in Int
        BY <4>1, <4>2 DEF Id
      <4> QED BY <2>1, <4>3, <4>5, <4>6
    <3> QED BY <3>2, <3>3
  <2> QED BY <2>1
<1>7. \A e \in Entries : ~dirty'[e] => ~dirty[e] \/ e = Here(t)
  BY <1>0, <1>1, <1>2
<1>8. WriteInv'
  <2>1. ASSUME NEW u \in Threads, pc'[u] = "pass_write"
        PROVE  /\ record'.name = Here(u)'
               /\ \A e \in Entries : Loaded(e)' =>
                    /\ record'.id = Id(e)' <=> e = Here(u)'
                    /\ Live' /\ e = Here(u)' /\ ~dirty'[e] =>
                          record'.value = entry'[e]
    <3>1. u = t
      BY <1>4, <2>1 DEF Using
    <3>2. /\ record'.name = Here(t) /\ record'.id = Id(Here(t))
          /\ record'.value = entry[Here(t)] /\ entry' = entry
      BY <1>1
    <3> QED BY <1>3, <1>5, <1>6, <3>1, <3>2
  <2> QED BY <2>1 DEF WriteInv
<1>9. ASSUME Live', NEW e \in Entries, Loaded(e)', ~dirty'[e], ~Writing(e)'
      PROVE  entry'[e] = StoredValue(e)'
  <2>1. e # Here(t)
    BY <1>1, <1>3, <1>9 DEF Writing
  <2>2. ~Writing(e)
    BY <1>1, <1>3, <1>4, <1>9 DEF Writing
  <2>3. Live
    BY <1>0, <1>1, <1>9 DEF Live
  <2>4. Loaded(e) /\ ~dirty[e] /\ Id(e)' = Id(e)
    BY <1>5, <1>7, <1>9, <2>1
  <2>5. StoredValue(e)' = StoredValue(e) /\ entry' = entry
    BY <1>1, <2>4 DEF StoredValue
  <2> QED BY <2>2, <2>3, <2>4, <2>5 DEF StoredInv
<1> QED BY <1>8, <1>9 DEF StoredInv

\* It writes it.
LEMMA WriteStored ==
    ASSUME Ground, WriteInv, StoredInv, NEW t \in Threads, PassWrite(t)
    PROVE  WriteInv' /\ StoredInv'
<1> USE ConstantsAssumption
<1>0. /\ pc \in [Threads -> PcNames]
      /\ local \in [Threads -> 0 .. Count]
      /\ vol \in [Ids -> Records]
      /\ TypeInv /\ Threads = {"life", "task"}
  BY DEF Ground, TypeInv, TypeOK, ThreadTypes, StoreTypes, Threads
<1>1. /\ pc[t] = "pass_write"
      /\ UNCHANGED <<entry, dirty, blk, dict, started, op, base, next>>
  BY DEF PassWrite, list, values, task
<1>2. /\ \A u \in Threads \ {t} :
            /\ pc[u] \notin Using /\ pc'[u] = pc[u]
            /\ blk'[u] = blk[u] /\ local'[u] = local[u]
      /\ pc'[t] \in {"pass_entry", "pass_fail"}
  BY <1>0, <1>1, WriterAlone DEF PassWrite, Goto, Using
<1>3. \A e \in Entries : (Loaded(e)' => Loaded(e)) /\ Id(e)' = Id(e)
  <2>1. CASE t = "life"
    BY <1>1, <2>1, NoneAdded DEF Loading, Id
  <2>2. CASE t = "task"
    <3>1. /\ pc'["life"] = pc["life"] /\ local'["life"] = local["life"]
          /\ blk'["life"] = blk["life"]
      BY <1>0, <1>2, <2>2
    <3> QED BY <1>1, <3>1, LoadedSame
  <2> QED BY <1>0, <2>1, <2>2
<1>4. WriteInv'
  BY <1>2 DEF WriteInv, Using
<1>5. ASSUME Live', NEW e \in Entries, Loaded(e)', ~dirty'[e], ~Writing(e)'
      PROVE  entry'[e] = StoredValue(e)'
  <2>1. Live /\ Loaded(e) /\ ~dirty[e] /\ Id(e)' = Id(e) /\ entry' = entry
    <3>1. pc'["life"] \notin {"start_volume", "reset_zero"} =>
            pc["life"] \notin {"start_volume", "reset_zero"}
      BY <1>0, <1>1, <1>2
    <3> QED BY <1>1, <1>3, <1>5, <3>1 DEF Live
  <2>2. Registered(e[1]) /\ Id(e) \in Ids
    <3>1. Registered(e[1])
      BY <2>1 DEF Loaded
    <3>2. e[1] \in Blocks /\ e[2] \in Locals /\ e = <<e[1], e[2]>>
      BY EntryPair
    <3>3. Id(<<e[1], e[2]>>) \in Ids
      BY <1>0, <3>2, IdInRange DEF TypeInv
    <3> QED BY <3>1, <3>2, <3>3
  <2>3. record.name = Here(t) /\ (record.id = Id(e) <=> e = Here(t))
    BY <1>1, <2>1 DEF WriteInv
  <2>4. CASE /\ vol' = [vol EXCEPT ![record.id] = [name  |-> record.name,
                                                   value |-> record.value]]
             /\ pc'[t] = "pass_entry"
    <3>1. CASE e = Here(t)
      <4>1. record.value = entry[e]
        BY <1>1, <2>1, <3>1 DEF WriteInv
      <4>2. vol'[Id(e)] = [name |-> e, value |-> entry[e]]
        BY <1>0, <2>2, <2>3, <2>4, <3>1, <4>1
      <4> QED BY <2>1, <4>2 DEF StoredValue
    <3>2. CASE e # Here(t)
      <4>1. vol'[Id(e)] = vol[Id(e)]
        BY <1>0, <2>2, <2>3, <2>4, <3>2
      <4>2. ~Writing(e)
        BY <1>2, <3>2 DEF Writing, Using
      <4> QED BY <2>1, <4>1, <4>2 DEF StoredInv, StoredValue
    <3> QED BY <3>1, <3>2
  <2>5. CASE vol' = vol /\ local' = local /\ pc'[t] = "pass_fail"
    <3>1. ~Writing(e)
      <4>1. Here(t)' = Here(t)
        BY <1>1, <2>5 DEF Here
      <4>2. e # Here(t)
        BY <1>5, <2>5, <4>1 DEF Writing
      <4> QED BY <1>2, <4>2 DEF Writing, Using
    <3> QED BY <2>1, <2>5, <3>1 DEF StoredInv, StoredValue
  <2> QED BY <1>0, <2>4, <2>5 DEF PassWrite, Goto
<1> QED BY <1>4, <1>5 DEF StoredInv

\* It hands back what it could not write.
LEMMA FailStored ==
    ASSUME Ground, WriteInv, StoredInv, NEW t \in Threads, PassFail(t)
    PROVE  WriteInv' /\ StoredInv'
<1> USE ConstantsAssumption
<1>0. /\ pc \in [Threads -> PcNames]
      /\ local \in [Threads -> 0 .. Count]
      /\ dirty \in [Entries -> BOOLEAN]
      /\ TypeInv /\ Threads = {"life", "task"}
  BY DEF Ground, TypeInv, TypeOK, ThreadTypes, ValueTypes, Threads
<1>1. /\ pc[t] = "pass_fail"
      /\ dirty' = [dirty EXCEPT ![Here(t)] = TRUE]
      /\ UNCHANGED <<entry, vol, blk, dict, started, op, base, next>>
  BY DEF PassFail, list, store, task
<1>2. /\ \A u \in Threads \ {t} :
            /\ pc[u] \notin Using /\ pc'[u] = pc[u]
            /\ blk'[u] = blk[u] /\ local'[u] = local[u]
      /\ pc'[t] = "pass_entry"
  BY <1>0, <1>1, WriterAlone DEF PassFail, Goto, Using
<1>3. \A e \in Entries : (Loaded(e)' => Loaded(e)) /\ Id(e)' = Id(e)
  <2>1. CASE t = "life"
    BY <1>1, <2>1, NoneAdded DEF Loading, Id
  <2>2. CASE t = "task"
    <3>1. /\ pc'["life"] = pc["life"] /\ local'["life"] = local["life"]
          /\ blk'["life"] = blk["life"]
      BY <1>0, <1>2, <2>2
    <3> QED BY <1>1, <3>1, LoadedSame
  <2> QED BY <1>0, <2>1, <2>2
<1>4. WriteInv'
  BY <1>2 DEF WriteInv, Using
<1>5. ASSUME Live', NEW e \in Entries, Loaded(e)', ~dirty'[e]
      PROVE  entry'[e] = StoredValue(e)'
  <2>1. e # Here(t) /\ ~dirty[e]
    BY <1>0, <1>1, <1>5
  <2>2. Live
    <3>1. pc'["life"] \notin {"start_volume", "reset_zero"} =>
            pc["life"] \notin {"start_volume", "reset_zero"}
      BY <1>0, <1>1, <1>2
    <3> QED BY <1>1, <1>5, <3>1 DEF Live
  <2>3. Loaded(e) /\ Id(e)' = Id(e)
    BY <1>3, <1>5
  <2>4. ~Writing(e)
    BY <1>2, <2>1 DEF Writing, Using
  <2> QED BY <1>1, <2>1, <2>2, <2>3, <2>4 DEF StoredInv, StoredValue
<1> QED BY <1>4, <1>5 DEF StoredInv

\* A load comes past the counter that it is at: that counter is as stored, and
\* the records of the others are as they were.
LEMMA LoadStored ==
    ASSUME Ground, LoadInv, StoredInv,
           pc["life"] \in {"load_get", "load_put"}, pc'["life"] = "load_zero",
           local' = [local EXCEPT !["life"] = @ + 1],
           UNCHANGED <<list, dict, started, op, blk>>,
           \A t \in Threads : pc'[t] \in Using => t = "life",
           NEW h, h = Here("life"),
           \A id \in Ids \ {Id(h)} : vol'[id] = vol[id],
           \A e \in Entries \ {h} : entry'[e] = entry[e] /\ dirty'[e] = dirty[e],
           dirty'[h] \/ entry'[h] = StoredValue(h)'
    PROVE  WriteInv' /\ StoredInv'
<1> USE ConstantsAssumption
<1>0. /\ local \in [Threads -> 0 .. Count]
      /\ TypeInv /\ Threads = {"life", "task"}
      /\ base' = base /\ next' = next
      /\ \A t \in Threads : pc[t] \in Using => t = "life"
  <2>1. pc["life"] \in Using
    BY DEF Using
  <2>2. TypeInv /\ "life" \in Threads
    BY DEF Ground, Threads
  <2>3. \A t \in Threads : pc[t] \in Using => t = "life"
    BY <2>1, <2>2, WriterAlone
  <2> QED BY <2>2, <2>3 DEF TypeInv, TypeOK, ThreadTypes, Threads, list
<1>1. /\ blk["life"] \in Blocks /\ h \in Entries
      /\ h = <<blk["life"], local["life"]>>
      /\ Registered(h[1])
  <2>1. blk["life"] \in Blocks /\ local["life"] < Count
    BY <1>0 DEF TypeInv, CursorInv
  <2>2. Here("life") = <<blk["life"], local["life"]>> /\ Here("life") \in Entries
    BY <1>0, <2>1, HereIsEntry
  <2>3. blk["life"] # None
    BY <2>1
  <2>4. Registered(blk["life"])
    BY <2>3 DEF LoadInv, Loading
  <2> QED BY <2>1, <2>2, <2>4
<1>2. WriteInv'
  BY DEF WriteInv, Using
<1>3. ASSUME NEW e \in Entries, Loaded(e)', e # h
      PROVE  Loaded(e)
  <2>1. e[1] \in Blocks /\ e[2] \in Locals /\ e = <<e[1], e[2]>>
    BY EntryPair
  <2>2. local'["life"] = local["life"] + 1 /\ local["life"] \in Nat
    BY <1>0
  <2>3. Registered(e[1])
    BY <1>0, <1>3 DEF Loaded, Registered
  <2>4. SUFFICES ASSUME Pending(e) PROVE FALSE
    BY <2>3 DEF Loaded
  <2>5. CASE e[1] = blk["life"]
    <3>1. e[2] >= local["life"] /\ e[2] # local["life"] /\ e[2] \in Nat
      BY <1>1, <1>3, <2>1, <2>4, <2>5 DEF Pending, Locals
    <3>2. e[2] >= local'["life"]
      BY <2>2, <3>1
    <3>3. Pending(e)'
      BY <2>4, <2>5, <3>2 DEF Pending, Loading
    <3> QED BY <1>3, <3>3 DEF Loaded
  <2>6. CASE e[1] # blk["life"]
    <3>1. op = "start" /\ Reaches(blk["life"], e[1])
      BY <2>4, <2>6 DEF Pending
    <3>2. Reaches(blk["life"], e[1])'
      BY <1>0, <3>1 DEF Reaches, Closed
    <3>3. Pending(e)'
      BY <2>4, <2>6, <3>1, <3>2 DEF Pending, Loading
    <3> QED BY <1>3, <3>3 DEF Loaded
  <2> QED BY <2>5, <2>6
<1>4. ASSUME Live', NEW e \in Entries, Loaded(e)', ~dirty'[e], e # h
      PROVE  entry'[e] = StoredValue(e)'
  <2>1. Loaded(e) /\ ~dirty[e] /\ entry'[e] = entry[e]
    BY <1>3, <1>4
  <2>2. Live
    BY <1>4 DEF Live
  <2>3. ~Writing(e)
    BY <1>0 DEF Writing, Using
  <2>4. Registered(e[1]) /\ Id(e) # Id(h)
    BY <1>1, <1>4, <2>1 DEF Loaded, Ground, OwnInv
  <2>5. Id(e) \in Ids
    <3>1. e[1] \in Blocks /\ e[2] \in Locals /\ e = <<e[1], e[2]>>
      BY EntryPair
    <3>2. Id(<<e[1], e[2]>>) \in Ids
      BY <1>0, <3>1, IdInRange DEF TypeInv
    <3> QED BY <3>1, <3>2
  <2>6. Id(e)' = Id(e)
    BY <1>0 DEF Id
  <2>7. vol'[Id(e)] = vol[Id(e)]
    BY <2>4, <2>5
  <2> QED BY <2>1, <2>2, <2>3, <2>6, <2>7 DEF StoredInv, StoredValue
<1> QED BY <1>2, <1>4 DEF StoredInv

\* Every step leaves clean counters stored.
LEMMA StoreNext ==
    Ground /\ LoadInv /\ WriteInv /\ StoredInv /\ [Next]_vars =>
        WriteInv' /\ StoredInv'
<1> SUFFICES ASSUME Ground, LoadInv, WriteInv, StoredInv, [Next]_vars
             PROVE  WriteInv' /\ StoredInv'
  OBVIOUS
<1> USE ConstantsAssumption
<1>0. /\ pc \in [Threads -> PcNames]
      /\ local \in [Threads -> 0 .. Count]
      /\ blk \in [Threads -> Blocks \union {None}]
      /\ base \in [Blocks -> Bases \union {BaseNone}]
      /\ entry \in [Entries -> Values]
      /\ dirty \in [Entries -> BOOLEAN]
      /\ vol \in [Ids -> Records]
      /\ Threads = {"life", "task"}
      /\ TypeInv
  BY DEF Ground, TypeInv, TypeOK, ThreadTypes, ListTypes, ValueTypes, StoreTypes,
         Threads
<1>1. ASSUME NEW e \in Entries, Add(e)
      PROVE  WriteInv' /\ StoredInv'
  BY <1>1, DirtyStays DEF Add, task
<1>2. ASSUME NEW e \in Entries, NEW v \in Values, Set(e, v)
      PROVE  WriteInv' /\ StoredInv'
  BY <1>2, DirtyStays DEF Set, task
<1>3. CASE Start \/ Stop \/ Persist \/ Reset
  <2>1. /\ pc["life"] = "idle" /\ base' = base
        /\ UNCHANGED <<entry, dirty, vol, record, dict, blk, local>>
        /\ pc'["life"] \in {"start_volume", "stop_cancel", "pass_lock",
                            "reset_volume"}
        /\ \A t \in Threads \ {"life"} : pc'[t] = pc[t]
        /\ started' => started
        /\ op' = "start" => pc'["life"] = "start_volume"
    BY <1>0, <1>3
       DEF Start, Stop, Persist, Reset, Call, Idle, Goto, list, values, store,
           task, cursor
  <2>2. \A e \in Entries : Loaded(e)' => Loaded(e) /\ Id(e)' = Id(e)
    BY <2>1, NoneAdded DEF Loading
  <2>3. Live' => Live
    BY <2>1 DEF Live
  <2>4. \A t \in Threads :
            /\ pc'[t] = "pass_write" => pc[t] = "pass_write"
            /\ pc[t] \in {"pass_write", "pass_fail"} =>
                    pc'[t] = pc[t] /\ Here(t)' = Here(t)
    BY <2>1 DEF Here
  <2> QED BY <2>1, <2>2, <2>3, <2>4, Quiet
<1>4. ASSUME NEW b \in Blocks, Unregister(b)
      PROVE  WriteInv' /\ StoredInv'
  <2>1. /\ pc["life"] = "idle"
        /\ base' = [base EXCEPT ![b] = BaseNone]
        /\ UNCHANGED <<entry, dirty, vol, record, dict, started, op, pc, blk,
                       local>>
    BY <1>4 DEF Unregister, Idle, values, store, task, cursor
  <2>2. ASSUME NEW e \in Entries, Loaded(e)'
        PROVE  Loaded(e) /\ Id(e)' = Id(e)
    <3>1. e[1] \in Blocks
      BY EntryPair
    <3>2. Registered(e[1]) /\ base'[e[1]] = base[e[1]]
      BY <1>0, <2>1, <2>2, <3>1 DEF Loaded, Registered
    <3> QED BY <2>1, <3>2 DEF Loaded, Pending, Loading, Id
  <2>3. Live' => Live
    BY <2>1 DEF Live
  <2>4. \A t \in Threads : Here(t)' = Here(t)
    BY <2>1 DEF Here
  <2> QED BY <2>1, <2>2, <2>3, <2>4, Quiet
<1>5. ASSUME NEW b \in Blocks, NEW id \in Bases, Register(b, id)
      PROVE  WriteInv' /\ StoredInv'
  <2>1. /\ pc["life"] = "idle"
        /\ base' = [base EXCEPT ![b] = id]
        /\ UNCHANGED <<entry, dirty, vol, record, dict, started, local>>
        /\ id # BaseNone
    BY <1>5 DEF Register, Idle, values, store, task
  <2>2. op = "none" /\ local["life"] = 0 /\ (dict => started)
    BY <1>0, <2>1 DEF Ground, Calm, CallInv, LocalInv
  <2>3. CASE started
    <3>1. /\ pc' = [pc EXCEPT !["life"] = "register_load"]
          /\ op' = "register"
          /\ blk' = [blk EXCEPT !["life"] = b]
      BY <1>5, <2>3 DEF Register, Goto
    <3>2. ASSUME NEW e \in Entries, Loaded(e)'
          PROVE  Loaded(e) /\ Id(e)' = Id(e)
      <4>1. e[1] \in Blocks /\ e[2] \in Nat
        BY EntryPair DEF Locals
      <4>2. e[1] # b
        <5>1. SUFFICES ASSUME e[1] = b PROVE Pending(e)'
          BY <3>2 DEF Loaded
        <5>2. pc'["life"] = "register_load" /\ blk'["life"] = b /\ b # None
          BY <1>0, <3>1
        <5> QED BY <2>1, <2>2, <4>1, <5>1, <5>2 DEF Pending
      <4>3. Registered(e[1]) /\ base'[e[1]] = base[e[1]]
        BY <1>0, <2>1, <3>2, <4>1, <4>2 DEF Loaded, Registered
      <4> QED BY <2>1, <4>3 DEF Loaded, Pending, Loading, Id
    <3>3. Live' => Live
      BY <2>1, <2>3 DEF Live
    <3>4. \A t \in Threads :
            /\ pc'[t] = "pass_write" => pc[t] = "pass_write"
            /\ pc[t] \in {"pass_write", "pass_fail"} =>
                    pc'[t] = pc[t] /\ Here(t)' = Here(t)
      BY <1>0, <2>1, <3>1 DEF Here
    <3> QED BY <2>1, <3>2, <3>3, <3>4, Quiet
  <2>4. CASE ~started
    <3>1. ~dict /\ pc' = pc
      BY <1>5, <2>2, <2>4 DEF Register
    <3>2. ~Live'
      BY <2>1, <3>1 DEF Live
    <3>3. \A t \in Threads : pc'[t] # "pass_write"
      BY <3>1 DEF Ground, Calm, PassInv, Passing
    <3> QED BY <3>2, <3>3 DEF WriteInv, StoredInv
  <2> QED BY <2>3, <2>4
<1>6. CASE StartVolume
  <2>1. /\ pc' = [pc EXCEPT !["life"] = "load_block"]
        /\ blk' = [blk EXCEPT !["life"] = head]
        /\ pc["life"] = "start_volume" /\ volume = None
        /\ UNCHANGED <<local, op, base, head, next>>
    BY <1>6 DEF StartVolume, Goto, list
  <2>2. op = "start" /\ local["life"] = 0
    BY <1>0, <2>1 DEF Ground, Calm, CallInv, LocalInv
  <2>3. ASSUME NEW e \in Entries, Loaded(e)'
        PROVE  FALSE
    <3>1. e[1] \in Blocks /\ e[2] \in Nat
      BY EntryPair DEF Locals
    <3>2. Registered(e[1])
      BY <2>1, <2>3 DEF Loaded, Registered
    <3>3. head # None /\ Reaches(head, e[1])
      BY <3>1, <3>2 DEF Ground, ListInv
    <3>4. Reaches(head, e[1])'
      BY <2>1, <3>3 DEF Reaches, Closed
    <3>5. /\ pc'["life"] = "load_block" /\ blk'["life"] = head
          /\ head' = head /\ local'["life"] = 0 /\ op' = "start"
      BY <1>0, <2>1, <2>2
    <3>6. Reaches(blk["life"], e[1])'
      BY <3>4, <3>5 DEF Reaches
    <3>7. Pending(e)'
      BY <3>1, <3>3, <3>5, <3>6 DEF Pending, Loading
    <3> QED BY <2>3, <3>7 DEF Loaded
  <2>4. \A t \in Threads : pc'[t] # "pass_write"
    BY <1>0, <2>1, NoWriter DEF Using
  <2> QED BY <2>3, <2>4 DEF WriteInv, StoredInv
<1>7. CASE StartDone \/ StopCancel \/ StopUnload
  <2>1. /\ pc["life"] \in {"start_done", "stop_cancel", "stop_unload"}
        /\ UNCHANGED <<entry, dirty, vol, record, base, blk, local>>
        /\ pc'["life"] \in {"idle", "pass_lock"}
        /\ \A t \in Threads \ {"life"} : pc'[t] = pc[t]
        /\ dict' => dict
        /\ pc["life"] \in {"stop_cancel", "stop_unload"} =>
                started' = started /\ op' \in {op, "none"}
    BY <1>0, <1>7
       DEF StartDone, StopCancel, StopUnload, Goto, list, values, store, task,
           cursor
  <2>2. \A e \in Entries : Loaded(e)' => Loaded(e) /\ Id(e)' = Id(e)
    BY <2>1, NoneAdded DEF Loading
  <2>3. Live' => Live
    <3>1. pc["life"] = "start_done" => op = "start"
      BY DEF Ground, Calm, CallInv
    <3> QED BY <2>1, <3>1 DEF Live
  <2>4. \A t \in Threads :
            /\ pc'[t] = "pass_write" => pc[t] = "pass_write"
            /\ pc[t] \in {"pass_write", "pass_fail"} =>
                    pc'[t] = pc[t] /\ Here(t)' = Here(t)
    BY <2>1 DEF Here
  <2> QED BY <2>1, <2>2, <2>3, <2>4, Quiet
<1>8. CASE ResetVolume
  <2>1. /\ pc' = [pc EXCEPT !["life"] = "reset_zero"]
        /\ volume = None
    BY <1>8 DEF ResetVolume, Goto
  <2>2. ~Live'
    BY <1>0, <2>1 DEF Live
  <2>3. \A t \in Threads : pc'[t] # "pass_write"
    BY <1>0, <2>1, NoWriter DEF Using
  <2> QED BY <2>2, <2>3 DEF WriteInv, StoredInv
<1>9. CASE ResetZero
  <2>1. /\ pc["life"] = "reset_zero"
        /\ pc' = [pc EXCEPT !["life"] = "pass_lock"]
        /\ dirty' = [e \in Entries |-> Registered(e[1]) \/ dirty[e]]
        /\ UNCHANGED <<record, base, blk, local>>
    BY <1>9 DEF ResetZero, Goto, list, cursor
  <2>2. \A e \in Entries : Loaded(e)' => Loaded(e) /\ Id(e)' = Id(e)
    BY <2>1, NoneAdded DEF Loading
  <2>3. \A e \in Entries : Loaded(e)' => dirty'[e]
    BY <2>1, <2>2 DEF Loaded
  <2>4. ASSUME NEW t \in Threads, pc'[t] = "pass_write"
        PROVE  /\ record'.name = Here(t)'
               /\ \A e \in Entries : Loaded(e)' =>
                    (record'.id = Id(e)' <=> e = Here(t)')
    <3>1. pc[t] = "pass_write" /\ record' = record /\ Here(t)' = Here(t)
      BY <1>0, <2>1, <2>4 DEF Here
    <3>2. record.name = Here(t)
      BY <3>1 DEF WriteInv
    <3>3. ASSUME NEW e \in Entries, Loaded(e)'
          PROVE  record.id = Id(e)' <=> e = Here(t)
      <4>1. Loaded(e) /\ Id(e)' = Id(e)
        BY <2>2, <3>3
      <4>2. record.id = Id(e) <=> e = Here(t)
        BY <3>1, <4>1 DEF WriteInv
      <4> QED BY <4>1, <4>2
    <3> QED BY <3>1, <3>2, <3>3
  <2> QED BY <2>3, <2>4 DEF WriteInv, StoredInv
<1>10. CASE RegisterLoad
  <2>1. /\ pc' = [pc EXCEPT !["life"] = "load_block"]
        /\ pc["life"] = "register_load"
        /\ UNCHANGED <<entry, dirty, vol, record, base, next, blk, local, dict,
                       started, op>>
    BY <1>10 DEF RegisterLoad, Goto, list, values, store, task, cursor
  <2>2. ASSUME NEW e \in Entries, Loaded(e)'
        PROVE  Loaded(e) /\ Id(e)' = Id(e)
    <3>1. Reaches(blk["life"], e[1]) => Reaches(blk["life"], e[1])'
      BY <2>1 DEF Reaches, Closed
    <3>2. Pending(e) => Pending(e)'
      BY <1>0, <2>1, <3>1 DEF Pending, Loading
    <3> QED BY <2>1, <2>2, <3>2 DEF Loaded, Registered, Id
  <2>3. Live' => Live
    BY <1>0, <2>1 DEF Live
  <2>4. \A t \in Threads :
            /\ pc'[t] = "pass_write" => pc[t] = "pass_write"
            /\ pc[t] \in {"pass_write", "pass_fail"} =>
                    pc'[t] = pc[t] /\ Here(t)' = Here(t)
    BY <1>0, <2>1 DEF Here
  <2> QED BY <2>1, <2>2, <2>3, <2>4, Quiet
<1>11. CASE LoadBlock
  <2>1. /\ pc["life"] = "load_block"
        /\ \A t \in Threads \ {"life"} : pc'[t] = pc[t]
        /\ UNCHANGED <<entry, dirty, vol, record, base, next, blk, local, dict,
                       started>>
        /\ \/ blk["life"] # None /\ pc'["life"] = "load_zero" /\ op' = op
           \/ /\ blk["life"] = None
              /\ \/ pc'["life"] = "start_done" /\ op' = op
                 \/ pc'["life"] = "idle" /\ op' = "none"
    BY <1>0, <1>11 DEF LoadBlock, Goto, list, values, store, task, cursor
  <2>2. ASSUME NEW e \in Entries, Loaded(e)'
        PROVE  Loaded(e) /\ Id(e)' = Id(e)
    <3>1. Reaches(blk["life"], e[1]) => Reaches(blk["life"], e[1])'
      BY <2>1 DEF Reaches, Closed
    <3>2. Pending(e) => Pending(e)'
      BY <1>0, <2>1, <3>1 DEF Pending, Loading
    <3> QED BY <2>1, <2>2, <3>2 DEF Loaded, Registered, Id
  <2>3. Live' => Live
    BY <2>1 DEF Live
  <2>4. \A t \in Threads :
            /\ pc'[t] = "pass_write" => pc[t] = "pass_write"
            /\ pc[t] \in {"pass_write", "pass_fail"} =>
                    pc'[t] = pc[t] /\ Here(t)' = Here(t)
    BY <1>0, <2>1 DEF Here
  <2> QED BY <2>1, <2>2, <2>3, <2>4, Quiet
<1>u. ASSUME pc["life"] \in {"load_zero", "load_get", "load_put"}
      PROVE  /\ \A t \in Threads : pc[t] \in Using => t = "life"
             /\ blk["life"] \in Blocks /\ Registered(blk["life"])
             /\ local["life"] < Count =>
                    /\ Here("life") \in Entries
                    /\ Here("life") = <<blk["life"], local["life"]>>
  <2>1. \A t \in Threads : pc[t] \in Using => t = "life"
    BY <1>0, <1>u, WriterAlone DEF Using
  <2>2. blk["life"] \in Blocks
    BY <1>0, <1>u DEF TypeInv, CursorInv
  <2>3. Registered(blk["life"])
    BY <1>u, <2>2 DEF LoadInv, Loading
  <2> QED BY <1>0, <2>1, <2>2, <2>3, HereIsEntry
<1>12. CASE LoadZero
  <2>1. /\ pc["life"] = "load_zero"
        /\ \A t \in Threads \ {"life"} : pc'[t] = pc[t]
        /\ \A t \in Threads : pc[t] \in Using => t = "life"
        /\ UNCHANGED <<vol, record, base, next, dict, started, op>>
        /\ blk["life"] \in Blocks
    BY <1>0, <1>12, <1>u DEF LoadZero, Goto, list, store, task
  <2>2. CASE local["life"] = Count
    <3>1. /\ pc'["life"] = "load_block" /\ local'["life"] = 0
          /\ blk'["life"] = IF op = "start" THEN next[blk["life"]] ELSE None
          /\ UNCHANGED <<entry, dirty>>
      BY <1>0, <1>12, <2>2 DEF LoadZero, Goto, values
    <3>2. ASSUME NEW e \in Entries, Loaded(e)'
          PROVE  Loaded(e) /\ Id(e)' = Id(e)
      <4>1. e[1] \in Blocks /\ e[2] \in Nat /\ e[2] < Count
        BY EntryPair DEF Locals
      <4>2. SUFFICES ASSUME Pending(e) PROVE FALSE
        BY <2>1, <3>2 DEF Loaded, Registered, Id
      <4>3. e[1] # blk["life"] /\ op = "start" /\ Reaches(blk["life"], e[1])
        BY <2>2, <4>1, <4>2 DEF Pending
      <4>4. next[blk["life"]] # None /\ Reaches(next[blk["life"]], e[1])
        BY <1>0, <2>1, <4>1, <4>3, ReachNext
      <4>5. blk'["life"] = next[blk["life"]] /\ op' = "start"
        BY <2>1, <3>1, <4>3
      <4>6. Reaches(blk["life"], e[1])'
        BY <2>1, <4>4, <4>5 DEF Reaches, Closed
      <4>7. Pending(e)'
        BY <3>1, <4>1, <4>4, <4>5, <4>6 DEF Pending, Loading
      <4> QED BY <3>2, <4>7 DEF Loaded
    <3>3. Live' => Live
      BY <2>1, <3>1 DEF Live
    <3>4. \A t \in Threads :
            /\ pc'[t] = "pass_write" => pc[t] = "pass_write"
            /\ pc[t] \in {"pass_write", "pass_fail"} =>
                    pc'[t] = pc[t] /\ Here(t)' = Here(t)
      BY <1>0, <2>1, <3>1 DEF Using
    <3> QED BY <2>1, <3>1, <3>2, <3>3, <3>4, Quiet
  <2>3. CASE local["life"] # Count
    <3>1. /\ local["life"] < Count
          /\ entry' = [entry EXCEPT ![Here("life")] = 0]
          /\ dirty' = [dirty EXCEPT ![Here("life")] = FALSE]
          /\ blk' = blk
          /\ IF dict THEN pc'["life"] = "load_get" /\ local' = local
             ELSE pc'["life"] = "load_zero"
      BY <1>0, <1>12, <2>3 DEF LoadZero, Goto
    <3>2. WriteInv'
      <4>1. \A t \in Threads : pc'[t] # "pass_write"
        BY <1>0, <2>1, <3>1 DEF Using
      <4> QED BY <4>1 DEF WriteInv
    <3>3. ASSUME Live', NEW e \in Entries, Loaded(e)', ~dirty'[e]
          PROVE  entry'[e] = StoredValue(e)'
      <4>1. pc'["life"] = "load_get" /\ local' = local /\ dict
        BY <2>1, <3>1, <3>3 DEF Live
      <4>2. Live
        BY <2>1, <3>3 DEF Live
      <4>3. Reaches(blk["life"], e[1]) => Reaches(blk["life"], e[1])'
        BY <2>1, <3>1 DEF Reaches, Closed
      <4>4. Pending(e) => Pending(e)'
        BY <2>1, <3>1, <4>1, <4>3 DEF Pending, Loading
      <4>5. Loaded(e)
        BY <2>1, <3>3, <4>4 DEF Loaded, Registered
      <4>6. e # Here("life")
        <5>1. SUFFICES ASSUME e = Here("life") PROVE FALSE
          OBVIOUS
        <5>2. e[1] = blk["life"] /\ e[2] = local["life"] /\ local["life"] \in Nat
          BY <1>0, <1>u, <2>1, <3>1, <5>1
        <5>3. Pending(e)
          BY <2>1, <5>2 DEF Pending, Loading
        <5> QED BY <4>5, <5>3 DEF Loaded
      <4>7. entry'[e] = entry[e] /\ ~dirty[e]
        BY <1>0, <3>1, <3>3, <4>6
      <4>8. ~Writing(e)
        BY <2>1 DEF Writing, Using
      <4> QED BY <2>1, <4>2, <4>5, <4>7, <4>8 DEF StoredInv, StoredValue, Id
    <3> QED BY <3>2, <3>3 DEF StoredInv
  <2> QED BY <2>2, <2>3
<1>13. CASE LoadGet
  <2>1. /\ pc["life"] = "load_get"
        /\ \A t \in Threads \ {"life"} : pc'[t] = pc[t]
        /\ \A t \in Threads : pc[t] \in Using => t = "life"
        /\ UNCHANGED <<entry, dirty, list, base, next, blk, dict, started, op>>
        /\ Here("life") \in Entries
    <3>1. pc["life"] = "load_get" /\ local["life"] < Count
      BY <1>0, <1>13 DEF LoadGet, TypeInv, CursorInv
    <3> QED BY <1>0, <1>13, <1>u, <3>1 DEF LoadGet, Goto, list, values, task
  <2> DEFINE h == Here("life")
  <2>2. \A t \in Threads : pc'[t] \in Using => t = "life"
    BY <1>0, <2>1
  <2>3. CASE pc'["life"] = "load_zero"
    <3>1. /\ local' = [local EXCEPT !["life"] = @ + 1]
          /\ \/ vol' = vol \/ vol' = [vol EXCEPT ![Id(h)] = NoRecord]
          /\ vol[Id(h)] = NoRecord \/ vol[Id(h)].name # h
      BY <1>0, <1>13, <2>3 DEF LoadGet, Goto
    <3>2. dirty[h] \/ entry[h] = 0
      BY <2>1 DEF LoadInv
    <3>4. Id(h) \in Ids
      <4>1. local["life"] < Count /\ blk["life"] \in Blocks
        BY <1>0, <2>1 DEF TypeInv, CursorInv
      <4> QED BY <1>0, <4>1, HereIsEntry
    <3>5. vol'[Id(h)] = NoRecord \/ vol'[Id(h)].name # h
      BY <1>0, <3>1, <3>4
    <3>6. \A e : Id(e)' = Id(e)
      BY <2>1 DEF Id
    <3>7. dirty'[h] \/ entry'[h] = IF vol'[Id(h)].name = h THEN vol'[Id(h)].value
                                   ELSE 0
      BY <2>1, <3>2, <3>5 DEF NoRecord
    <3>8. \A id \in Ids \ {Id(h)} : vol'[id] = vol[id]
      BY <1>0, <3>1
    <3>9. ASSUME NEW g, g = Here("life")
          PROVE  dirty'[g] \/ entry'[g] = StoredValue(g)'
      BY <3>6, <3>7, <3>9 DEF StoredValue
    <3> QED BY <2>1, <2>2, <2>3, <3>1, <3>8, <3>9, LoadStored
  <2>4. CASE pc'["life"] # "load_zero"
    <3>1. pc'["life"] = "load_put" /\ UNCHANGED <<local, vol>>
      BY <1>0, <1>13, <2>4 DEF LoadGet, Goto
    <3>2. ASSUME NEW e \in Entries, Loaded(e)'
          PROVE  Loaded(e) /\ Id(e)' = Id(e)
      <4>1. Reaches(blk["life"], e[1]) => Reaches(blk["life"], e[1])'
        BY <2>1 DEF Reaches, Closed
      <4>2. Pending(e) => Pending(e)'
        BY <2>1, <3>1, <4>1 DEF Pending, Loading
      <4> QED BY <2>1, <3>2, <4>2 DEF Loaded, Registered, Id
    <3>3. Live' => Live
      BY <2>1 DEF Live
    <3>4. \A t \in Threads :
            /\ pc'[t] # "pass_write"
            /\ pc[t] \notin {"pass_write", "pass_fail"}
      BY <1>0, <2>1, <3>1 DEF Using
    <3> QED BY <2>1, <3>1, <3>2, <3>3, <3>4, Quiet
  <2> QED BY <2>3, <2>4
<1>14. CASE LoadPut
  <2>1. /\ pc["life"] = "load_put" /\ pc'["life"] = "load_zero"
        /\ \A t \in Threads \ {"life"} : pc'[t] = pc[t]
        /\ \A t \in Threads : pc[t] \in Using => t = "life"
        /\ local' = [local EXCEPT !["life"] = @ + 1]
        /\ UNCHANGED <<list, base, next, blk, dict, started, op, vol>>
        /\ Here("life") \in Entries
        /\ entry' = [entry EXCEPT ![Here("life")] = record.value]
        /\ dirty' = [dirty EXCEPT ![Here("life")] = FALSE]
    <3>1. pc["life"] = "load_put" /\ local["life"] < Count
      BY <1>0, <1>14 DEF LoadPut, TypeInv, CursorInv
    <3> QED BY <1>0, <1>14, <1>u, <3>1 DEF LoadPut, Goto, list, store, task
  <2>2. \A t \in Threads : pc'[t] \in Using => t = "life"
    BY <1>0, <2>1
  <2>3. /\ record.value = vol[Id(Here("life"))].value
        /\ vol[Id(Here("life"))].name = Here("life")
    BY <2>1 DEF LoadInv
  <2>4. ASSUME NEW g, g = Here("life")
        PROVE  entry'[g] = StoredValue(g)'
    <3>1. Id(g)' = Id(g) /\ vol' = vol
      BY <2>1 DEF Id
    <3>2. entry'[g] = vol[Id(g)].value /\ vol[Id(g)].name = g
      BY <1>0, <2>1, <2>3, <2>4
    <3> QED BY <3>1, <3>2 DEF StoredValue
  <2>5. \A e \in Entries \ {Here("life")} :
            entry'[e] = entry[e] /\ dirty'[e] = dirty[e]
    BY <1>0, <2>1
  <2> QED BY <2>1, <2>2, <2>4, <2>5, LoadStored
<1>15. ASSUME NEW t \in Threads, PassLock(t) \/ PassBlock(t)
       PROVE  WriteInv' /\ StoredInv'
  <2>1. /\ pc[t] \in {"pass_lock", "pass_block"}
        /\ UNCHANGED <<entry, dirty, vol, record, base, next, dict, started,
                       local>>
        /\ \A u \in Threads \ {t} : blk'[u] = blk[u]
    BY <1>0, <1>15 DEF PassLock, PassBlock, list, values, store, task
  <2>2. /\ \A u \in Threads \ {t} : pc'[u] = pc[u]
        /\ pc'[t] \notin {"pass_write", "start_volume", "reset_zero"}
        /\ t = "task" => op' = op
        /\ op' = "start" => op = "start"
    <3>1. CASE \E wrote \in BOOLEAN : PassReturn(t, wrote)
      BY <1>0, <2>1, <3>1, ReturnCall DEF Ground, Calm, Passing
    <3>2. CASE ~\E wrote \in BOOLEAN : PassReturn(t, wrote)
      BY <1>0, <1>15, <2>1, <3>2 DEF PassLock, PassBlock, Goto
    <3> QED BY <3>1, <3>2
  <2>3. \A e \in Entries : Loaded(e)' => Loaded(e) /\ Id(e)' = Id(e)
    <3>1. CASE t = "life"
      BY <2>1, <3>1, NoneAdded DEF Loading
    <3>2. CASE t = "task"
      <4>1. pc'["life"] = pc["life"] /\ blk'["life"] = blk["life"] /\ op' = op
        BY <1>0, <2>1, <2>2, <3>2
      <4> QED BY <2>1, <4>1, LoadedSame
    <3> QED BY <1>0, <3>1, <3>2
  <2>4. Live' => Live
    <3>1. pc["life"] \in {"start_volume", "reset_zero"} => pc'["life"] = pc["life"]
      BY <1>0, <2>1, <2>2
    <3> QED BY <2>1, <2>2, <3>1 DEF Live
  <2>5. \A u \in Threads :
            /\ pc'[u] = "pass_write" => pc[u] = "pass_write"
            /\ pc[u] \in {"pass_write", "pass_fail"} =>
                    pc'[u] = pc[u] /\ Here(u)' = Here(u)
    BY <2>1, <2>2 DEF Here
  <2> QED BY <2>1, <2>3, <2>4, <2>5, Quiet
<1>16. ASSUME NEW t \in Threads, PassEntry(t)
       PROVE  WriteInv' /\ StoredInv'
  <2>1. /\ pc[t] = "pass_entry"
        /\ UNCHANGED <<entry, vol, base, next, dict, started, op>>
    BY <1>16 DEF PassEntry, list, store, task
  <2>2. CASE pc'[t] = "pass_write"
    <3>1. local[t] < Count /\ ~AtBound(t) /\ dirty[Here(t)]
      BY <1>0, <1>16, <2>2 DEF PassEntry, Goto
    <3> QED BY <1>16, <2>2, <3>1, ClaimStored
  <2>3. CASE pc'[t] # "pass_write"
    <3>1. /\ \A u \in Threads \ {t} :
                pc'[u] = pc[u] /\ blk'[u] = blk[u] /\ local'[u] = local[u]
          /\ pc'[t] \in {"pass_entry", "pass_block"}
          /\ UNCHANGED <<dirty, record>>
      BY <1>0, <1>16, <2>3 DEF PassEntry, Goto
    <3>2. \A e \in Entries : Loaded(e)' => Loaded(e) /\ Id(e)' = Id(e)
      <4>1. CASE t = "life"
        BY <2>1, <4>1, NoneAdded DEF Loading
      <4>2. CASE t = "task"
        <5>1. /\ pc'["life"] = pc["life"] /\ blk'["life"] = blk["life"]
              /\ local'["life"] = local["life"]
          BY <1>0, <3>1, <4>2
        <5> QED BY <2>1, <5>1, LoadedSame
      <4> QED BY <1>0, <4>1, <4>2
    <3>3. Live' => Live
      <4>1. pc["life"] \in {"start_volume", "reset_zero"} =>
                pc'["life"] = pc["life"]
        BY <1>0, <2>1, <3>1
      <4> QED BY <2>1, <4>1 DEF Live
    <3>4. \A u \in Threads :
            /\ pc'[u] = "pass_write" => pc[u] = "pass_write"
            /\ pc[u] \in {"pass_write", "pass_fail"} =>
                    pc'[u] = pc[u] /\ Here(u)' = Here(u)
      BY <2>1, <3>1 DEF Here
    <3> QED BY <2>1, <3>1, <3>2, <3>3, <3>4, Quiet
  <2> QED BY <2>2, <2>3
<1>17. ASSUME NEW t \in Threads, PassWrite(t)
       PROVE  WriteInv' /\ StoredInv'
  BY <1>17, WriteStored
<1>18. ASSUME NEW t \in Threads, PassFail(t)
       PROVE  WriteInv' /\ StoredInv'
  BY <1>18, FailStored
<1>19. CASE TaskRun \/ TaskEnd
  <2>1. /\ UNCHANGED <<entry, dirty, vol, record, base, next, dict, started,
                       blk, local, op>>
        /\ pc'["life"] = pc["life"]
        /\ pc["task"] \in {"idle", "task_end"}
        /\ pc'["task"] \in {"idle", "pass_lock"}
    BY <1>0, <1>19
       DEF TaskRun, TaskEnd, Goto, list, values, store, task, cursor
  <2>2. \A e \in Entries : Loaded(e)' => Loaded(e) /\ Id(e)' = Id(e)
    BY <2>1, LoadedSame
  <2>3. Live' => Live
    BY <2>1 DEF Live
  <2>4. \A t \in Threads :
            /\ pc'[t] = "pass_write" => pc[t] = "pass_write"
            /\ pc[t] \in {"pass_write", "pass_fail"} =>
                    pc'[t] = pc[t] /\ Here(t)' = Here(t)
    BY <1>0, <2>1 DEF Here
  <2> QED BY <2>1, <2>2, <2>3, <2>4, Quiet
<1>20. CASE Crash
  <2>1. dict' = FALSE /\ \A t \in Threads : pc'[t] = "idle"
    BY <1>20 DEF Crash
  <2> QED BY <2>1 DEF WriteInv, StoredInv, Live
<1>21. CASE UNCHANGED vars
  <2>1. UNCHANGED <<entry, dirty, vol, record, base, next, dict, started,
                    blk, local, op, pc>>
    BY <1>21 DEF vars, list, values, store, task, cursor
  <2>2. \A e \in Entries : Loaded(e)' => Loaded(e) /\ Id(e)' = Id(e)
    BY <2>1, LoadedSame
  <2>3. Live' => Live
    BY <2>1 DEF Live
  <2>4. \A t \in Threads : Here(t)' = Here(t)
    BY <2>1 DEF Here
  <2> QED BY <2>1, <2>2, <2>3, <2>4, Quiet
<1> QED
  BY <1>1, <1>2, <1>3, <1>4, <1>5, <1>6, <1>7, <1>8, <1>9, <1>10, <1>11,
     <1>12, <1>13, <1>14, <1>15, <1>16, <1>17, <1>18, <1>19, <1>20, <1>21
     DEF Next, Counting, Calls, LifeStep, TaskStep, Load, Pass, Threads

\* It all holds before anything is registered.
LEMMA StoreInit ==
    Init => /\ Calm /\ ListInv /\ OwnInv
            /\ LoadInv /\ WriteInv /\ StoredInv
<1> SUFFICES ASSUME Init
             PROVE  Calm /\ ListInv /\ OwnInv /\ LoadInv /\ WriteInv /\ StoredInv
  OBVIOUS
<1> USE ConstantsAssumption
<1>1. Calm
  BY DEF Init, Calm, CallInv, LocalInv, PassInv, Loading, Passing, Threads
<1>2. /\ head = None /\ \A b \in Blocks : ~Registered(b) /\ next[b] = None
      /\ \A t \in Threads : pc[t] = "idle"
      /\ pc["life"] = "idle" /\ ~dict
  BY DEF Init, Registered, Threads
<1>3. ListInv
  BY <1>2 DEF ListInv
<1>4. OwnInv
  BY <1>2, EntryPair DEF OwnInv
<1>5. LoadInv /\ WriteInv /\ StoredInv
  BY <1>2 DEF LoadInv, WriteInv, StoredInv, Live, Loading
<1> QED BY <1>1, <1>3, <1>4, <1>5

\* While the store runs, a counter that is clean, and not on its way to FLASH,
\* is on FLASH as it is in RAM: with counts, loads, passes, late registrations,
\* resets, failed writes and power failures in any order (entry_write():
\* "clearing the flag afterwards would drop exactly that increment").
THEOREM CleanCorrect == Spec => []CleanIsStored
<1> DEFINE Inv == /\ TypeInv /\ Calm /\ ListInv /\ OwnInv
                  /\ LoadInv /\ WriteInv /\ StoredInv
<1>1. Init => Inv
  BY TypeInit, StoreInit
<1>2. Inv /\ [Next]_vars => Inv'
  BY TypeNext, CallNext, ListNext, OwnNext, LoadNext, StoreNext DEF Ground
<1>3. Inv => CleanIsStored
  <2>1. SUFFICES ASSUME Inv, Idle, started, dict, NEW e \in Entries,
                        Registered(e[1]), ~dirty[e], ~Writing(e)
                 PROVE  entry[e] = StoredValue(e)
    BY DEF CleanIsStored
  <2>2. Live /\ Loaded(e)
    BY <2>1 DEF Idle, Live, Loaded, Pending, Loading
  <2> QED BY <2>1, <2>2 DEF StoredInv
<1> QED BY <1>1, <1>2, <1>3, PTL DEF Spec

----------------------------------------------------------------------------
(* What a flush has covered.                                               *)

\* The volume is loaded, and what is registered shows what is stored in it.
Up == dict /\ pc["life"] \notin {"start_volume", "reset_zero"}

\* Where a flush by the lifecycle thread is under way.
Flushing == Passing \union {"pass_lock", "stop_cancel"}

\* What completed flushes have covered of an id is stored, under the name of the
\* counter that is registered there; that counter is worth as much, once it is
\* loaded, and so is what a pass is about to write.
KeptInv ==
    /\ \A id \in Ids : kept[id] <= vol[id].value
    /\ \A id \in Ids : id >= BaseNone => kept[id] = 0
    /\ pc["life"] = "reset_zero" => \A id \in Ids : kept[id] = 0
    /\ \A e \in Entries :
            Registered(e[1]) /\ kept[Id(e)] > 0 => vol[Id(e)].name = e
    /\ Up => \A e \in Entries : Loaded(e) => kept[Id(e)] <= entry[e]
    /\ \A t \in Threads : pc[t] = "pass_write" => kept[record.id] <= record.value

\* Blocks are registered before the store starts, and it starts without volume.
FirstInv == op # "register" /\ (pc["life"] = "start_volume" => ~dict)

\* The flush in progress has yet to come to counter e.
Ahead(e) ==
    \/ pc["life"] \in {"stop_cancel", "pass_lock"}
    \/ /\ pc["life"] \in Passing
       /\ blk["life"] # None
       /\ IF e[1] # blk["life"] THEN Reaches(blk["life"], e[1])
          ELSE IF pc["life"] \in {"pass_write", "pass_fail"}
               THEN e[2] > local["life"]
               ELSE e[2] >= local["life"]

\* ... and will find it dirty.
Waits(e) ==
    /\ Ahead(e)
    /\ dirty[e] \/ \E t \in Threads : pc[t] = "pass_fail" /\ Here(t) = e

\* What the flush owes counter e is stored, or about to be.
Saved(e) ==
    /\ \A t \in Threads :
            pc[t] = "pass_write" /\ Here(t) = e => owed[Id(e)] <= record.value
    /\ \/ \E t \in Threads : pc[t] = "pass_write" /\ Here(t) = e
       \/ vol[Id(e)].name = e /\ owed[Id(e)] <= vol[Id(e)].value

\* Nothing is owed but by a flush in progress, to counters that are registered,
\* and each of them is saved or still ahead.
OwedInv ==
    /\ op \notin {"persist", "stop"} \/ pc["life"] \notin Flushing =>
            \A id \in Ids : owed[id] = 0
    /\ \A id \in Ids : id >= BaseNone => owed[id] = 0
    /\ \A id \in Ids : owed[id] > 0 =>
            \E e \in Entries : Registered(e[1]) /\ Id(e) = id
    /\ dict => \A e \in Entries : Registered(e[1]) /\ owed[Id(e)] > 0 =>
            /\ owed[Id(e)] <= entry[e]
            /\ Waits(e) \/ Saved(e)

\* The values that are compared are numbers, and ids are in range.
LEMMA FlushNat ==
    ASSUME TypeInv
    PROVE  /\ \A id \in Ids :
                kept[id] \in Nat /\ owed[id] \in Nat /\ vol[id].value \in Nat
           /\ \A e \in Entries : entry[e] \in Nat /\ Id(e) \in Ids
           /\ record.value \in Nat /\ record.id \in Ids
<1>1. Values \subseteq Nat
  BY ConstantsAssumption DEF Values
<1>2. \A id \in Ids : kept[id] \in Values /\ owed[id] \in Values
  BY DEF TypeInv, TypeOK, HistoryTypes
<1>3. \A id \in Ids : vol[id].value \in Values
  BY DEF TypeInv, TypeOK, StoreTypes, Records
<1>4. record.value \in Values /\ record.id \in Ids
  BY DEF TypeInv, TypeOK, StoreTypes
<1>5. ASSUME NEW e \in Entries
      PROVE  entry[e] \in Values /\ Id(e) \in Ids
  <2>1. e[1] \in Blocks /\ e[2] \in Locals /\ e = <<e[1], e[2]>>
    BY EntryPair
  <2>2. Id(<<e[1], e[2]>>) \in Ids
    BY <2>1, IdInRange DEF TypeInv
  <2> QED BY <2>1, <2>2 DEF TypeInv, TypeOK, ValueTypes
<1> QED BY <1>1, <1>2, <1>3, <1>4, <1>5

\* The same after a step.
LEMMA FlushNatNext ==
    ASSUME TypeInv, [Next]_vars
    PROVE  /\ \A id \in Ids :
                kept'[id] \in Nat /\ owed'[id] \in Nat /\ vol'[id].value \in Nat
           /\ \A e \in Entries : entry'[e] \in Nat /\ Id(e)' \in Ids
           /\ record'.value \in Nat /\ record'.id \in Ids
<1> USE ConstantsAssumption
<1>0. TypeInv'
  BY TypeNext
<1>1. Values \subseteq Nat
  BY DEF Values
<1>2. \A id \in Ids : kept'[id] \in Values /\ owed'[id] \in Values
  BY <1>0 DEF TypeInv, TypeOK, HistoryTypes
<1>3. \A id \in Ids : vol'[id].value \in Values
  BY <1>0 DEF TypeInv, TypeOK, StoreTypes, Records
<1>4. record'.value \in Values /\ record'.id \in Ids
  BY <1>0 DEF TypeInv, TypeOK, StoreTypes
<1>5. ASSUME NEW e \in Entries
      PROVE  entry'[e] \in Values /\ Id(e)' \in Ids
  <2>1. e[1] \in Blocks /\ e[2] \in Nat /\ e[2] <= Count - 1
    BY EntryPair DEF Locals
  <2>2. base'[e[1]] \in Nat /\ base'[e[1]] <= BaseNone
    BY <1>0, <2>1 DEF TypeInv, TypeOK, ListTypes, BaseInv
  <2>3. base'[e[1]] + e[2] \in 0 .. (BaseNone + Count - 1)
    BY <2>1, <2>2
  <2> QED BY <1>0, <2>3 DEF TypeInv, TypeOK, ValueTypes, Id, Ids
<1> QED BY <1>1, <1>2, <1>3, <1>4, <1>5

\* A step that takes back, at most, what was covered, leaves the volume alone,
\* and has no counter lose anything.
LEMMA KeptFrame ==
    ASSUME TypeInv, KeptInv, [Next]_vars, vol' = vol,
           \A id \in Ids : kept'[id] <= kept[id],
           \A e \in Entries : Registered(e[1])' =>
                Registered(e[1]) /\ Id(e)' = Id(e),
           pc'["life"] = "reset_zero" => pc["life"] = "reset_zero",
           Up' => /\ Up
                  /\ \A e \in Entries : Loaded(e)' =>
                        /\ Loaded(e)
                        /\ entry'[e] >= entry[e] \/ kept'[Id(e)] = 0,
           \A t \in Threads : pc'[t] = "pass_write" =>
                pc[t] = "pass_write" /\ record' = record
    PROVE  KeptInv'
<1>1. \A id \in Ids :
        /\ kept[id] \in Nat /\ kept'[id] \in Nat
        /\ vol[id].value \in Nat
  BY FlushNat, FlushNatNext
<1>2. \A e \in Entries :
        entry[e] \in Nat /\ entry'[e] \in Nat /\ Id(e) \in Ids
  BY FlushNat, FlushNatNext
<1>3. record.id \in Ids /\ record.value \in Nat
  BY FlushNat
<1>4. \A id \in Ids : kept'[id] <= vol'[id].value
  BY <1>1 DEF KeptInv
<1>5. \A id \in Ids : id >= BaseNone => kept'[id] = 0
  BY <1>1 DEF KeptInv
<1>6. pc'["life"] = "reset_zero" => \A id \in Ids : kept'[id] = 0
  BY <1>1 DEF KeptInv
<1>7. ASSUME NEW e \in Entries, Registered(e[1])', kept'[Id(e)'] > 0
      PROVE  vol'[Id(e)'].name = e
  <2>1. Registered(e[1]) /\ Id(e)' = Id(e) /\ Id(e) \in Ids
    BY <1>2, <1>7
  <2>2. kept[Id(e)] > 0
    BY <1>1, <1>7, <2>1
  <2> QED BY <2>1, <2>2 DEF KeptInv
<1>8. ASSUME Up', NEW e \in Entries, Loaded(e)'
      PROVE  kept'[Id(e)'] <= entry'[e]
  <2>1. /\ Up /\ Loaded(e)
        /\ entry'[e] >= entry[e] \/ kept'[Id(e)] = 0
    BY <1>8
  <2>2. Id(e)' = Id(e)
    BY <1>8 DEF Loaded
  <2>3. kept[Id(e)] <= entry[e]
    BY <2>1 DEF KeptInv
  <2>4. kept'[Id(e)] <= kept[Id(e)]
    BY <1>2
  <2> QED BY <1>1, <1>2, <2>1, <2>2, <2>3, <2>4
<1>9. ASSUME NEW t \in Threads, pc'[t] = "pass_write"
      PROVE  kept'[record'.id] <= record'.value
  <2>1. kept[record.id] <= record.value /\ record' = record
    BY <1>9 DEF KeptInv
  <2> QED BY <1>1, <1>3, <2>1
<1> QED BY <1>4, <1>5, <1>6, <1>7, <1>8, <1>9 DEF KeptInv

\* At the end of a flush, all that it owed is stored.
LEMMA FlushEnd ==
    ASSUME Ground, OwedInv, pc["life"] = "pass_block", blk["life"] = None,
           NEW e \in Entries, Registered(e[1]), owed[Id(e)] > 0
    PROVE  /\ owed[Id(e)] <= entry[e]
           /\ vol[Id(e)].name = e
           /\ owed[Id(e)] <= vol[Id(e)].value
<1>1. "life" \in Threads /\ TypeInv
  BY DEF Threads, Ground
<1>2. dict
  BY <1>1 DEF Ground, Calm, PassInv, Passing
<1>3. \A t \in Threads : pc[t] # "pass_write"
  BY <1>1, WriterAlone DEF Using
<1>4. ~Ahead(e)
  BY DEF Ahead
<1>5. owed[Id(e)] <= entry[e] /\ (Waits(e) \/ Saved(e))
  BY <1>2 DEF OwedInv
<1> QED BY <1>3, <1>4, <1>5 DEF Waits, Saved

\* Then it covers them.
LEMMA KeptFlush ==
    ASSUME Ground, KeptInv, OwedInv, [Next]_vars,
           PassBlock("life"), blk["life"] = None
    PROVE  KeptInv'
<1> USE ConstantsAssumption
<1>0. /\ pc \in [Threads -> PcNames] /\ kept \in [Ids -> Values]
      /\ TypeInv /\ Threads = {"life", "task"}
  BY DEF Ground, TypeInv, TypeOK, ThreadTypes, HistoryTypes, Threads
<1>1. /\ pc["life"] = "pass_block"
      /\ PassReturn("life", TRUE)
      /\ UNCHANGED <<vol, dict, base, next, entry, record, local>>
  BY <1>0 DEF PassBlock, list, values, store, TypeInv, CursorInv
<1>2. /\ kept' = [id \in Ids |-> IF kept[id] < owed[id] THEN owed[id]
                                 ELSE kept[id]]
      /\ pc'["life"] \in {"stop_unload", "idle"}
      /\ \A t \in Threads \ {"life"} : pc'[t] = pc[t]
  BY <1>0, <1>1 DEF PassReturn, FlushDone, Goto
<1>3. \A id \in Ids : kept'[id] \in {kept[id], owed[id]}
  BY <1>2
<1>4. \A id \in Ids :
        /\ kept[id] \in Nat /\ owed[id] \in Nat /\ vol[id].value \in Nat
        /\ \A e \in Entries : Id(e) \in Ids
  BY <1>0, FlushNat
<1>5. \A e \in Entries : Registered(e[1]) /\ owed[Id(e)] > 0 =>
            /\ owed[Id(e)] <= entry[e]
            /\ vol[Id(e)].name = e
            /\ owed[Id(e)] <= vol[Id(e)].value
  BY <1>1, FlushEnd
<1>6. ASSUME NEW id \in Ids
      PROVE  kept'[id] <= vol'[id].value
  <2>1. CASE owed[id] > 0
    <3>1. PICK e \in Entries : Registered(e[1]) /\ Id(e) = id
      BY <2>1 DEF OwedInv
    <3>2. owed[id] <= vol[id].value
      BY <1>5, <2>1, <3>1
    <3>3. kept[id] <= vol[id].value
      BY DEF KeptInv
    <3> QED BY <1>1, <1>3, <3>2, <3>3
  <2>2. CASE owed[id] = 0
    <3>1. kept'[id] = kept[id]
      BY <1>2, <1>4, <2>2
    <3> QED BY <1>1, <3>1 DEF KeptInv
  <2> QED BY <1>4, <2>1, <2>2
<1>7. \A id \in Ids : id >= BaseNone => kept'[id] = 0
  BY <1>3 DEF KeptInv, OwedInv
<1>8. \A e \in Entries : Registered(e[1])' =>
            Registered(e[1]) /\ Id(e)' = Id(e) /\ Id(e) \in Ids
  BY <1>0, <1>1, FlushNat DEF Registered, Id
<1>9. ASSUME NEW e \in Entries, Registered(e[1])', kept'[Id(e)'] > 0
      PROVE  vol'[Id(e)'].name = e
  <2>1. Registered(e[1]) /\ Id(e)' = Id(e) /\ Id(e) \in Ids
    BY <1>8, <1>9
  <2>2. kept[Id(e)] > 0 \/ owed[Id(e)] > 0
    BY <1>3, <1>9, <2>1
  <2>3. kept[Id(e)] > 0 => vol[Id(e)].name = e
    BY <2>1 DEF KeptInv
  <2> QED BY <1>1, <1>5, <2>1, <2>2, <2>3
<1>10. ASSUME Up', NEW e \in Entries, Loaded(e)'
       PROVE  kept'[Id(e)'] <= entry'[e]
  <2>1. Up /\ Loaded(e) /\ Id(e)' = Id(e)
    <3>1. Loaded(e) /\ Id(e)' = Id(e)
      BY <1>1, <1>10, NoneAdded DEF Loading
    <3> QED BY <1>1, <1>10, <3>1 DEF Up
  <2>2. kept[Id(e)] <= entry[e]
    BY <2>1 DEF KeptInv
  <2>3. entry[e] \in Nat /\ Id(e) \in Ids
    BY <1>0, FlushNat
  <2>4. owed[Id(e)] > 0 => owed[Id(e)] <= entry[e]
    BY <1>5, <2>1 DEF Loaded
  <2>5. owed[Id(e)] \in Nat /\ kept'[Id(e)] \in {kept[Id(e)], owed[Id(e)]}
    BY <1>3, <1>4, <2>3
  <2> QED BY <1>1, <2>1, <2>2, <2>3, <2>4, <2>5
<1>11. \A t \in Threads : pc'[t] # "pass_write"
  BY <1>0, <1>1, <1>2, WriterAlone DEF Using
<1> QED BY <1>2, <1>6, <1>7, <1>9, <1>10, <1>11 DEF KeptInv

\* A pass claims a counter, which is worth what was covered of it.
LEMMA KeptClaim ==
    ASSUME Ground, FirstInv, KeptInv, [Next]_vars, NEW t \in Threads,
           PassEntry(t), pc'[t] = "pass_write"
    PROVE  KeptInv'
<1> USE ConstantsAssumption
<1>0. /\ pc \in [Threads -> PcNames]
      /\ base \in [Blocks -> Bases \union {BaseNone}]
      /\ TypeInv /\ Threads = {"life", "task"}
  BY DEF Ground, TypeInv, TypeOK, ThreadTypes, ListTypes, Threads
<1>1. /\ pc[t] = "pass_entry"
      /\ record' = [id |-> Id(Here(t)), name |-> Here(t),
                    value |-> entry[Here(t)]]
      /\ UNCHANGED <<entry, blk, local, vol, dict, op, base, next, kept>>
      /\ \A u \in Threads \ {t} : pc'[u] = pc[u] /\ pc[u] \notin Using
  <2>1. pc[t] = "pass_entry"
    BY DEF PassEntry
  <2>2. \A u \in Threads \ {t} : pc[u] \notin Using
    BY <1>0, <2>1, WriterAlone DEF Using
  <2> QED BY <1>0, <2>1, <2>2 DEF PassEntry, Goto, list, store, history
<1>2. /\ blk[t] \in Blocks /\ local[t] < Count
      /\ Here(t) \in Entries /\ Here(t) = <<blk[t], local[t]>>
      /\ local[t] \in Nat
  <2>1. blk[t] \in Blocks /\ local[t] < Count
    BY <1>0, <1>1 DEF TypeInv, CursorInv, PassEntry, Goto
  <2> QED BY <1>0, <2>1, HereIsEntry DEF Locals
<1>3. kept[Id(Here(t))] <= entry[Here(t)]
  <2>1. entry[Here(t)] \in Nat /\ Id(Here(t)) \in Ids
    BY <1>0, <1>2, FlushNat
  <2>2. CASE ~Registered(blk[t])
    <3>1. Id(Here(t)) >= BaseNone
      BY <1>2, <2>2 DEF Registered, Id
    <3>2. kept[Id(Here(t))] = 0
      BY <2>1, <3>1 DEF KeptInv
    <3> QED BY <2>1, <3>2
  <2>3. CASE Registered(blk[t])
    <3>1. dict
      BY <1>1 DEF Ground, Calm, PassInv, Passing
    <3>2. pc["life"] \notin Loading \union {"register_load"}
      <4>1. pc["life"] \notin Loading
        BY <1>0, <1>1 DEF Loading, Using
      <4> QED BY <4>1 DEF Ground, Calm, CallInv, FirstInv
    <3>3. Loaded(Here(t))
      BY <1>2, <2>3, <3>2 DEF Loaded, Pending
    <3>4. CASE pc["life"] = "reset_zero"
      BY <2>1, <3>4 DEF KeptInv
    <3>5. CASE pc["life"] # "reset_zero"
      <4>1. pc["life"] # "start_volume"
        BY <3>1 DEF FirstInv
      <4> QED BY <1>2, <3>1, <3>3, <3>5, <4>1 DEF Up, KeptInv
    <3> QED BY <3>4, <3>5
  <2> QED BY <2>2, <2>3
<1>4. Up' => Up
  BY <1>0, <1>1 DEF Up
<1>5. \A e \in Entries : Loaded(e)' => Loaded(e) /\ Id(e)' = Id(e)
  <2>1. CASE t = "life"
    BY <1>1, <2>1, NoneAdded DEF Loading
  <2>2. CASE t = "task"
    <3>1. pc'["life"] = pc["life"]
      BY <1>0, <1>1, <2>2
    <3> QED BY <1>1, <3>1, LoadedSame
  <2> QED BY <1>0, <2>1, <2>2
<1>6. \A e : Id(e)' = Id(e) /\ (Registered(e[1])' <=> Registered(e[1]))
  BY <1>1 DEF Id, Registered
<1>7. pc'["life"] = "reset_zero" => pc["life"] = "reset_zero"
  BY <1>0, <1>1
<1>8. ASSUME NEW u \in Threads, pc'[u] = "pass_write"
      PROVE  kept'[record'.id] <= record'.value
  BY <1>1, <1>3
<1> QED BY <1>1, <1>4, <1>5, <1>6, <1>7, <1>8 DEF KeptInv

\* A pass writes what it claimed.
LEMMA KeptWrite ==
    ASSUME Ground, WriteInv, FirstInv, KeptInv, [Next]_vars,
           NEW t \in Threads, PassWrite(t)
    PROVE  KeptInv'
<1> USE ConstantsAssumption
<1>0. /\ pc \in [Threads -> PcNames] /\ vol \in [Ids -> Records]
      /\ TypeInv /\ Threads = {"life", "task"}
  BY DEF Ground, TypeInv, TypeOK, ThreadTypes, StoreTypes, Threads
<1>1. /\ pc[t] = "pass_write" /\ pc'[t] \in {"pass_entry", "pass_fail"}
      /\ UNCHANGED <<entry, blk, dict, op, base, next, kept>>
      /\ \A u \in Threads \ {t} :
            /\ pc'[u] = pc[u] /\ pc[u] \notin Using
            /\ local'[u] = local[u]
      /\ \/ vol' = vol
         \/ vol' = [vol EXCEPT ![record.id] = [name  |-> record.name,
                                               value |-> record.value]]
  <2>1. pc[t] = "pass_write"
    BY DEF PassWrite
  <2>2. \A u \in Threads \ {t} : pc[u] \notin Using
    BY <1>0, <2>1, WriterAlone DEF Using
  <2>3. \A u \in Threads \ {t} : local'[u] = local[u]
    BY <1>0 DEF PassWrite, TypeInv, TypeOK, ThreadTypes
  <2> QED BY <1>0, <2>1, <2>2, <2>3 DEF PassWrite, Goto, list, values, task
<1>2. /\ kept[record.id] <= record.value
      /\ record.id \in Ids
  BY <1>0, <1>1, FlushNat DEF KeptInv
<1>3. ASSUME NEW e \in Entries, Registered(e[1])
      PROVE  /\ record.name = Here(t)
             /\ record.id = Id(e) <=> e = Here(t)
  <2>1. pc["life"] \notin Loading \union {"register_load"}
    <3>1. pc["life"] \notin Loading
      BY <1>0, <1>1 DEF Loading, Using
    <3> QED BY <3>1 DEF Ground, Calm, CallInv, FirstInv
  <2>2. Loaded(e)
    BY <1>3, <2>1 DEF Loaded, Pending
  <2> QED BY <1>1, <2>2 DEF WriteInv
<1>4. \A id \in Ids : kept'[id] <= vol'[id].value
  BY <1>0, <1>1, <1>2 DEF KeptInv
<1>5. \A e \in Entries :
        /\ Id(e)' = Id(e) /\ Id(e) \in Ids
        /\ Registered(e[1])' <=> Registered(e[1])
  BY <1>0, <1>1, FlushNat DEF Id, Registered
<1>6. ASSUME NEW e \in Entries, Registered(e[1])', kept'[Id(e)'] > 0
      PROVE  vol'[Id(e)'].name = e
  <2>1. Registered(e[1]) /\ Id(e)' = Id(e) /\ Id(e) \in Ids
    BY <1>5, <1>6
  <2>2. vol[Id(e)].name = e
    BY <1>1, <1>6, <2>1 DEF KeptInv
  <2>3. CASE record.id = Id(e)
    <3>1. record.name = e
      BY <1>3, <2>1, <2>3
    <3> QED BY <1>0, <1>1, <2>1, <2>2, <2>3, <3>1
  <2>4. CASE record.id # Id(e)
    BY <1>0, <1>1, <1>2, <2>1, <2>2, <2>4
  <2> QED BY <2>3, <2>4
<1>7. Up' => Up
  BY <1>0, <1>1 DEF Up
<1>8. \A e \in Entries : Loaded(e)' => Loaded(e) /\ Id(e)' = Id(e)
  <2>1. CASE t = "life"
    BY <1>1, <2>1, NoneAdded DEF Loading
  <2>2. CASE t = "task"
    <3>1. pc'["life"] = pc["life"] /\ local'["life"] = local["life"]
      BY <1>0, <1>1, <2>2
    <3> QED BY <1>1, <3>1, LoadedSame
  <2> QED BY <1>0, <2>1, <2>2
<1>9. \A u \in Threads : pc'[u] # "pass_write"
  BY <1>1 DEF Using
<1>10. pc'["life"] = "reset_zero" => pc["life"] = "reset_zero"
  BY <1>0, <1>1
<1> QED BY <1>1, <1>4, <1>5, <1>6, <1>7, <1>8, <1>9, <1>10 DEF KeptInv

\* A block is registered, at ids of which nothing is covered that is not its own.
LEMMA KeptRegister ==
    ASSUME Ground, FirstInv, KeptInv, [Next]_vars, ~started,
           NEW b \in Blocks, NEW k \in Bases, Register(b, k)
    PROVE  KeptInv'
<1> USE ConstantsAssumption
<1>0. /\ pc \in [Threads -> PcNames]
      /\ base \in [Blocks -> Bases \union {BaseNone}]
      /\ TypeInv /\ Threads = {"life", "task"}
  BY DEF Ground, TypeInv, TypeOK, ThreadTypes, ListTypes, Threads
<1>1. /\ pc["life"] = "idle" /\ ~dict' /\ pc' = pc
      /\ vol' = vol
      /\ base' = [base EXCEPT ![b] = k]
      /\ kept' = [i \in Ids |-> IF i \in k .. (k + Count - 1)
                                     /\ vol[i].name # <<b, i - k>> THEN 0
                                ELSE kept[i]]
  <2>1. pc["life"] = "idle"
    BY DEF Register, Idle
  <2>2. ~dict
    BY <2>1 DEF Ground, Calm, CallInv
  <2> QED BY <2>1, <2>2 DEF Register, store
<1>2. \A i \in Ids : kept'[i] \in {kept[i], 0} /\ kept[i] \in Nat
                     /\ vol[i].value \in Nat
  BY <1>0, <1>1, FlushNat
<1>3. \A i \in Ids : kept'[i] <= vol'[i].value
  BY <1>1, <1>2 DEF KeptInv
<1>4. \A i \in Ids : i >= BaseNone => kept'[i] = 0
  BY <1>2 DEF KeptInv
<1>5. ASSUME NEW e \in Entries, Registered(e[1])', kept'[Id(e)'] > 0
      PROVE  vol'[Id(e)'].name = e
  <2>1. /\ e[1] \in Blocks /\ e = <<e[1], e[2]>>
        /\ e[2] \in Nat /\ e[2] < Count
        /\ Id(e)' \in Ids /\ Id(e) \in Ids
    BY <1>0, EntryPair, FlushNat, FlushNatNext DEF Locals
  <2>2. CASE e[1] = b
    <3>1. base'[b] = k
      BY <1>0, <1>1
    <3>2. Id(e)' = k + e[2] /\ k \in Nat
      BY <2>2, <3>1 DEF Id
    <3>3. k + e[2] \in k .. (k + Count - 1) /\ (k + e[2]) - k = e[2]
      BY <2>1, <3>2
    <3>4. vol[Id(e)'].name = <<b, e[2]>>
      BY <1>1, <1>5, <2>1, <3>2, <3>3
    <3> QED BY <1>1, <2>1, <2>2, <3>4
  <2>3. CASE e[1] # b
    <3>1. base'[e[1]] = base[e[1]]
      BY <1>0, <1>1, <2>1, <2>3
    <3>2. Registered(e[1]) /\ Id(e)' = Id(e)
      BY <1>5, <3>1 DEF Registered, Id
    <3>3. kept[Id(e)] > 0
      BY <1>2, <1>5, <2>1, <3>2
    <3> QED BY <1>1, <3>2, <3>3 DEF KeptInv
  <2> QED BY <2>2, <2>3
<1>6. ~Up' /\ pc'["life"] # "reset_zero"
  BY <1>1 DEF Up
<1>7. \A t \in Threads : pc'[t] # "pass_write"
  BY <1>1 DEF Ground, Calm, PassInv, Passing, Register, store
<1> QED BY <1>3, <1>4, <1>5, <1>6, <1>7 DEF KeptInv

\* The load comes past the counter that it is at: no other becomes loaded.
LEMMA LoadedPast ==
    ASSUME TypeInv, pc["life"] \in {"load_zero", "load_get", "load_put"},
           pc'["life"] = "load_zero", local["life"] < Count,
           local' = [local EXCEPT !["life"] = @ + 1],
           UNCHANGED <<base, next, op, blk>>,
           NEW e \in Entries, Loaded(e)', e # Here("life")
    PROVE  Loaded(e) /\ Id(e)' = Id(e)
<1>0. /\ local \in [Threads -> 0 .. Count] /\ "life" \in Threads
      /\ blk["life"] \in Blocks
  BY DEF TypeInv, TypeOK, ThreadTypes, CursorInv, Threads
<1>1. e[1] \in Blocks /\ e[2] \in Nat /\ e = <<e[1], e[2]>>
  BY EntryPair DEF Locals
<1>2. local'["life"] = local["life"] + 1 /\ local["life"] \in Nat
  BY <1>0, ConstantsAssumption
<1>3. Here("life") = <<blk["life"], local["life"]>>
  BY <1>0, HereIsEntry
<1>4. Registered(e[1]) /\ Id(e)' = Id(e)
  BY DEF Loaded, Registered, Id
<1>5. SUFFICES ASSUME Pending(e) PROVE FALSE
  BY <1>4 DEF Loaded
<1>6. CASE e[1] = blk["life"]
  <2>1. e[2] >= local["life"] /\ e[2] # local["life"]
    BY <1>1, <1>3, <1>5, <1>6 DEF Pending
  <2>2. e[2] >= local'["life"]
    BY <1>1, <1>2, <2>1
  <2>3. Pending(e)'
    BY <1>5, <1>6, <2>2 DEF Pending, Loading
  <2> QED BY <2>3 DEF Loaded
<1>7. CASE e[1] # blk["life"]
  <2>1. op = "start" /\ Reaches(blk["life"], e[1])
    BY <1>5, <1>7 DEF Pending
  <2>2. Reaches(blk["life"], e[1])'
    BY <2>1 DEF Reaches, Closed
  <2>3. Pending(e)'
    BY <1>5, <1>7, <2>1, <2>2 DEF Pending, Loading
  <2> QED BY <2>3 DEF Loaded
<1> QED BY <1>6, <1>7

\* A load leaves what was covered where it is, and shows it.
LEMMA KeptLoad ==
    ASSUME Ground, LoadInv, FirstInv, KeptInv, [Next]_vars, Load
    PROVE  KeptInv'
<1> USE ConstantsAssumption
<1>0. /\ pc \in [Threads -> PcNames]
      /\ local \in [Threads -> 0 .. Count]
      /\ entry \in [Entries -> Values]
      /\ vol \in [Ids -> Records]
      /\ TypeInv /\ Threads = {"life", "task"} /\ "life" \in Threads
  BY DEF Ground, TypeInv, TypeOK, ThreadTypes, ValueTypes, StoreTypes, Threads
<1>1. /\ pc["life"] \in Loading
      /\ \A t \in Threads \ {"life"} : pc'[t] = pc[t] /\ pc[t] \notin Using
      /\ pc'["life"] \in Loading \union {"start_done", "idle"}
      /\ UNCHANGED <<base, next, dict, kept>>
  <2>1. pc["life"] \in Loading
    BY DEF Load, LoadBlock, LoadZero, LoadGet, LoadPut, Loading
  <2>2. \A t \in Threads \ {"life"} : pc[t] \notin Using
    BY <1>0, <2>1, WriterAlone DEF Using, Loading
  <2>3. /\ \A t \in Threads \ {"life"} : pc'[t] = pc[t]
        /\ pc'["life"] \in Loading \union {"start_done", "idle"}
    BY <1>0, <2>1
       DEF Load, LoadBlock, LoadZero, LoadGet, LoadPut, Loading, Goto
  <2>4. UNCHANGED <<base, next, dict, kept>>
    BY DEF Load, LoadBlock, LoadZero, LoadGet, LoadPut, list, store, history
  <2> QED BY <2>1, <2>2, <2>3, <2>4
<1>2. /\ Up' => Up
      /\ \A t \in Threads : pc'[t] # "pass_write"
      /\ pc'["life"] # "reset_zero"
      /\ \A e \in Entries : Id(e)' = Id(e) /\ (Registered(e[1])' => Registered(e[1]))
  BY <1>1 DEF Up, Loading, Using, Id, Registered
<1>3. /\ \A id \in Ids : kept'[id] <= kept[id]
      /\ \A id \in Ids : kept[id] \in Nat
  BY <1>0, <1>1, FlushNat
<1>4. \A e \in Entries : entry[e] \in Nat /\ Id(e) \in Ids
  BY <1>0, FlushNat
<1>5. ASSUME local["life"] < Count, blk["life"] \in Blocks
      PROVE  Here("life") \in Entries /\ Here("life") = <<blk["life"], local["life"]>>
  BY <1>0, <1>5, HereIsEntry
<1>6. CASE LoadBlock
  <2>1. /\ pc["life"] = "load_block"
        /\ UNCHANGED <<entry, vol, blk, local>>
        /\ \/ blk["life"] # None /\ pc'["life"] = "load_zero" /\ op' = op
           \/ blk["life"] = None
    BY <1>0, <1>6 DEF LoadBlock, Goto, values, store, cursor
  <2>2. ASSUME NEW e \in Entries, Loaded(e)'
        PROVE  Loaded(e)
    <3>1. Reaches(blk["life"], e[1]) => Reaches(blk["life"], e[1])'
      BY <1>1, <2>1 DEF Reaches, Closed
    <3>2. Pending(e) => Pending(e)'
      BY <2>1, <3>1 DEF Pending, Loading
    <3> QED BY <1>2, <2>2, <3>2 DEF Loaded
  <2>3. \A e \in Entries : entry'[e] >= entry[e]
    BY <1>4, <2>1
  <2> QED BY <1>0, <1>2, <1>3, <2>1, <2>2, <2>3, KeptFrame
<1>7. CASE LoadZero
  <2>1. /\ pc["life"] = "load_zero" /\ vol' = vol /\ op' = op
        /\ blk["life"] \in Blocks
    BY <1>0, <1>7 DEF LoadZero, store, TypeInv, CursorInv
  <2>2. CASE local["life"] = Count
    <3>1. /\ pc'["life"] = "load_block" /\ local'["life"] = 0
          /\ blk'["life"] = IF op = "start" THEN next[blk["life"]] ELSE None
          /\ entry' = entry
      BY <1>0, <1>7, <2>2 DEF LoadZero, Goto, values, TypeInv, TypeOK, ThreadTypes
    <3>2. ASSUME NEW e \in Entries, Loaded(e)'
          PROVE  Loaded(e)
      <4>1. e[1] \in Blocks /\ e[2] \in Nat /\ e[2] < Count
        BY EntryPair DEF Locals
      <4>2. SUFFICES ASSUME Pending(e) PROVE FALSE
        BY <1>2, <3>2 DEF Loaded
      <4>3. e[1] # blk["life"] /\ op = "start" /\ Reaches(blk["life"], e[1])
        BY <2>2, <4>1, <4>2 DEF Pending
      <4>4. next[blk["life"]] # None /\ Reaches(next[blk["life"]], e[1])
        BY <1>0, <2>1, <4>1, <4>3, ReachNext
      <4>5. blk'["life"] = next[blk["life"]] /\ op' = "start"
        BY <2>1, <3>1, <4>3
      <4>6. Reaches(blk["life"], e[1])'
        BY <1>1, <4>4, <4>5 DEF Reaches, Closed
      <4>7. Pending(e)'
        BY <3>1, <4>1, <4>4, <4>5, <4>6 DEF Pending, Loading
      <4> QED BY <3>2, <4>7 DEF Loaded
    <3>3. \A e \in Entries : entry'[e] >= entry[e]
      BY <1>4, <3>1
    <3> QED BY <1>0, <1>2, <1>3, <2>1, <3>2, <3>3, KeptFrame
  <2>3. CASE local["life"] # Count
    <3>1. /\ local["life"] < Count /\ blk' = blk
          /\ entry' = [entry EXCEPT ![Here("life")] = 0]
          /\ dict => pc'["life"] = "load_get" /\ local' = local
      BY <1>0, <1>7, <2>3 DEF LoadZero, Goto
    <3>2. ASSUME Up', NEW e \in Entries, Loaded(e)'
          PROVE  Loaded(e) /\ e # Here("life")
      <4>1. pc'["life"] = "load_get" /\ local' = local
        BY <1>1, <3>1, <3>2 DEF Up
      <4>2. Reaches(blk["life"], e[1]) => Reaches(blk["life"], e[1])'
        BY <1>1, <3>1 DEF Reaches, Closed
      <4>3. Pending(e) => Pending(e)'
        BY <2>1, <3>1, <4>1, <4>2 DEF Pending, Loading
      <4>4. Loaded(e)
        BY <1>2, <3>2, <4>3 DEF Loaded
      <4>5. e = Here("life") => Pending(e)
        <5>1. SUFFICES ASSUME e = Here("life") PROVE Pending(e)
          OBVIOUS
        <5>2. e[1] = blk["life"] /\ e[2] = local["life"] /\ local["life"] \in Nat
          BY <1>0, <1>5, <2>1, <3>1, <5>1
        <5> QED BY <2>1, <5>2 DEF Pending, Loading
      <4> QED BY <4>4, <4>5 DEF Loaded
    <3>3. \A e \in Entries : e # Here("life") => entry'[e] >= entry[e]
      BY <1>0, <1>4, <3>1
    <3> QED BY <1>0, <1>2, <1>3, <2>1, <3>2, <3>3, KeptFrame
  <2> QED BY <2>2, <2>3
<1>8. ASSUME pc["life"] \in {"load_get", "load_put"}
      PROVE  /\ local["life"] < Count /\ blk["life"] \in Blocks
             /\ Here("life") \in Entries /\ Registered(Here("life")[1])
  <2>1. local["life"] < Count /\ blk["life"] \in Blocks
    BY <1>0, <1>8 DEF TypeInv, CursorInv
  <2>2. Registered(blk["life"])
    BY <1>8, <2>1 DEF LoadInv, Loading
  <2> QED BY <1>5, <2>1, <2>2
<1>9. CASE LoadGet
  <2>1. /\ pc["life"] = "load_get"
        /\ UNCHANGED <<entry, blk, op>>
    BY <1>9 DEF LoadGet, values
  <2>2. CASE pc'["life"] = "load_put"
    <3>1. vol' = vol /\ local' = local
      BY <1>0, <1>9, <2>2 DEF LoadGet, Goto
    <3>2. ASSUME NEW e \in Entries, Loaded(e)'
          PROVE  Loaded(e)
      <4>1. Reaches(blk["life"], e[1]) => Reaches(blk["life"], e[1])'
        BY <1>1, <2>1 DEF Reaches, Closed
      <4>2. Pending(e) => Pending(e)'
        BY <2>1, <2>2, <3>1, <4>1 DEF Pending, Loading
      <4> QED BY <1>2, <3>2, <4>2 DEF Loaded
    <3>3. \A e \in Entries : entry'[e] >= entry[e]
      BY <1>4, <2>1
    <3> QED BY <1>0, <1>2, <1>3, <3>1, <3>2, <3>3, KeptFrame
  <2>3. CASE pc'["life"] # "load_put"
    <3>1. /\ pc'["life"] = "load_zero"
          /\ local' = [local EXCEPT !["life"] = @ + 1]
          /\ \/ vol[Id(Here("life"))] = NoRecord
             \/ vol[Id(Here("life"))].name # Here("life")
          /\ vol' = vol \/ vol' = [vol EXCEPT ![Id(Here("life"))] = NoRecord]
      BY <1>0, <1>9, <2>3 DEF LoadGet, Goto
    <3>2. PICK h \in Entries : h = Here("life")
      BY <1>8, <2>1
    <3>3. Id(h) \in Ids /\ Registered(h[1])
      BY <1>4, <1>8, <2>1, <3>2
    <3>4. kept[Id(h)] = 0
      <4>1. kept[Id(h)] \in Nat /\ kept[Id(h)] <= vol[Id(h)].value
        BY <1>3, <3>3 DEF KeptInv
      <4>2. vol[Id(h)].name # h => ~(kept[Id(h)] > 0)
        BY <3>3 DEF KeptInv
      <4>3. vol[Id(h)] = NoRecord => vol[Id(h)].value = 0
        BY DEF NoRecord
      <4> QED BY <3>1, <3>2, <4>1, <4>2, <4>3
    <3>5. \A id \in Ids : vol'[id] = vol[id] \/ (id = Id(h) /\ vol'[id].value = 0)
      BY <1>0, <3>1, <3>2 DEF NoRecord
    <3>6. \A id \in Ids : kept'[id] <= vol'[id].value
      BY <1>1, <3>4, <3>5 DEF KeptInv
    <3>7. \A id \in Ids : id >= BaseNone => kept'[id] = 0
      BY <1>1 DEF KeptInv
    <3>8. ASSUME NEW e \in Entries, Registered(e[1])', kept'[Id(e)'] > 0
          PROVE  vol'[Id(e)'].name = e
      <4>1. Registered(e[1]) /\ Id(e)' = Id(e) /\ Id(e) \in Ids
        BY <1>2, <1>4, <3>8
      <4>2. Id(e) # Id(h)
        BY <1>1, <3>4, <3>8, <4>1
      <4>3. vol'[Id(e)] = vol[Id(e)]
        BY <3>5, <4>1, <4>2
      <4> QED BY <1>1, <3>8, <4>1, <4>3 DEF KeptInv
    <3>9. ASSUME Up', NEW e \in Entries, Loaded(e)'
          PROVE  kept'[Id(e)'] <= entry'[e]
      <4>1. CASE e = h
        BY <1>1, <1>2, <1>4, <2>1, <3>4, <4>1
      <4>2. CASE e # h
        <5>1. local["life"] < Count
          BY <1>8, <2>1
        <5>2. Loaded(e)
          BY <1>0, <1>1, <2>1, <3>1, <3>2, <3>9, <4>2, <5>1, LoadedPast
        <5> QED BY <1>1, <1>2, <2>1, <3>9, <5>2 DEF KeptInv
      <4> QED BY <4>1, <4>2
    <3> QED BY <1>2, <3>6, <3>7, <3>8, <3>9 DEF KeptInv
  <2> QED BY <2>2, <2>3
<1>10. CASE LoadPut
  <2>1. /\ pc["life"] = "load_put" /\ pc'["life"] = "load_zero"
        /\ local' = [local EXCEPT !["life"] = @ + 1]
        /\ UNCHANGED <<blk, op, vol>>
        /\ entry' = [entry EXCEPT ![Here("life")] = record.value]
    BY <1>0, <1>10 DEF LoadPut, Goto, store
  <2>2. PICK h \in Entries : h = Here("life")
    BY <1>8, <2>1
  <2>3. Id(h) \in Ids /\ record.value = vol[Id(h)].value
    BY <1>4, <2>1, <2>2 DEF LoadInv
  <2>4. \A id \in Ids : kept'[id] <= vol'[id].value
    BY <1>1, <2>1 DEF KeptInv
  <2>5. \A id \in Ids : id >= BaseNone => kept'[id] = 0
    BY <1>1 DEF KeptInv
  <2>6. \A e \in Entries : Registered(e[1])' /\ kept'[Id(e)'] > 0 =>
            vol'[Id(e)'].name = e
    BY <1>1, <1>2, <2>1 DEF KeptInv
  <2>7. ASSUME Up', NEW e \in Entries, Loaded(e)'
        PROVE  kept'[Id(e)'] <= entry'[e]
    <3>1. CASE e = h
      <4>1. entry'[e] = vol[Id(e)].value
        BY <1>0, <2>1, <2>2, <2>3, <3>1
      <4> QED BY <1>1, <1>2, <2>3, <3>1, <4>1 DEF KeptInv
    <3>2. CASE e # h
      <4>1. local["life"] < Count
        BY <1>8, <2>1
      <4>2. Loaded(e)
        BY <1>0, <1>1, <2>1, <2>2, <2>7, <3>2, <4>1, LoadedPast
      <4>3. entry'[e] = entry[e]
        BY <1>0, <2>1, <2>2, <3>2
      <4> QED BY <1>1, <1>2, <2>7, <4>2, <4>3 DEF KeptInv
    <3> QED BY <3>1, <3>2
  <2> QED BY <1>2, <2>4, <2>5, <2>6, <2>7 DEF KeptInv
<1> QED BY <1>6, <1>7, <1>9, <1>10 DEF Load

\* Every step keeps what was covered.
LEMMA KeptNext ==
    ASSUME Ground, LoadInv, WriteInv, FirstInv, FirstInv', KeptInv, OwedInv,
           [Next]_vars
    PROVE  KeptInv'
<1> USE ConstantsAssumption
<1>0. /\ pc \in [Threads -> PcNames]
      /\ blk \in [Threads -> Blocks \union {None}]
      /\ local \in [Threads -> 0 .. Count]
      /\ base \in [Blocks -> Bases \union {BaseNone}]
      /\ entry \in [Entries -> Values]
      /\ Threads = {"life", "task"} /\ TypeInv
  BY DEF Ground, TypeInv, TypeOK, ThreadTypes, ListTypes, ValueTypes, Threads
<1>n. /\ \A id \in Ids : kept[id] \in Nat
      /\ \A e \in Entries : entry[e] \in Nat /\ Id(e) \in Ids
      /\ \A e \in Entries : entry'[e] \in Nat
      /\ Values \subseteq Nat
  BY <1>0, FlushNat, FlushNatNext DEF Values
\* Steps of which the frame says all.
<1>f. ASSUME vol' = vol, base' = base, kept' = kept,
             \A e \in Entries : Loaded(e)' => Loaded(e),
             \A e \in Entries : entry'[e] >= entry[e],
             Up' => Up,
             pc'["life"] = "reset_zero" => pc["life"] = "reset_zero",
             \A t \in Threads : pc'[t] = "pass_write" =>
                pc[t] = "pass_write" /\ record' = record
      PROVE  KeptInv'
  <2>1. \A e \in Entries : Registered(e[1])' =>
            Registered(e[1]) /\ Id(e)' = Id(e)
    BY <1>f DEF Registered, Id
  <2>2. \A id \in Ids : kept'[id] <= kept[id]
    BY <1>n, <1>f
  <2> QED BY <1>0, <1>f, <2>1, <2>2, KeptFrame
<1>1. ASSUME NEW e \in Entries, Add(e)
      PROVE  KeptInv'
  <2>1. /\ UNCHANGED <<base, next, vol, dict, kept, record, pc, op, blk, local>>
        /\ entry' = [entry EXCEPT ![e] = @ + 1]
    BY <1>1 DEF Add, list, store, cursor
  <2>2. \A f \in Entries : Loaded(f)' => Loaded(f)
    BY <2>1, LoadedSame
  <2>3. \A f \in Entries : entry'[f] >= entry[f]
    BY <1>0, <1>n, <2>1
  <2>4. Up' => Up
    BY <2>1 DEF Up
  <2> QED BY <1>f, <2>1, <2>2, <2>3, <2>4
<1>2. ASSUME NEW e \in Entries, NEW v \in Values, Set(e, v)
      PROVE  KeptInv'
  <2>1. /\ UNCHANGED <<base, next, vol, dict, record, pc, op, blk, local>>
        /\ entry' = [entry EXCEPT ![e] = v]
        /\ kept' = [kept EXCEPT ![Id(e)] = 0]
    BY <1>2 DEF Set, list, store, cursor
  <2>2. \A f \in Entries : Loaded(f)' => Loaded(f)
    BY <2>1, LoadedSame
  <2>3. kept \in [Ids -> Values]
    BY <1>0 DEF TypeInv, TypeOK, HistoryTypes
  <2>4. \A f \in Entries : entry'[f] >= entry[f] \/ kept'[Id(f)] = 0
    BY <1>0, <1>n, <2>1, <2>3
  <2>5. \A id \in Ids : kept'[id] <= kept[id]
    BY <1>n, <2>1, <2>3
  <2>6. Up' => Up
    BY <2>1 DEF Up
  <2>7. \A f \in Entries : Registered(f[1])' =>
            Registered(f[1]) /\ Id(f)' = Id(f)
    BY <2>1 DEF Registered, Id
  <2> QED BY <1>0, <2>1, <2>2, <2>4, <2>5, <2>6, <2>7, KeptFrame
<1>3. CASE Start \/ Stop \/ Persist \/ Reset
  <2>1. /\ pc["life"] = "idle"
        /\ UNCHANGED <<base, vol, dict, kept, record, entry>>
        /\ pc'["life"] \in {"start_volume", "stop_cancel", "pass_lock",
                            "reset_volume"}
        /\ \A t \in Threads \ {"life"} : pc'[t] = pc[t]
    BY <1>0, <1>3
       DEF Start, Stop, Persist, Reset, Call, Idle, Goto, list, values, store,
           history, Owe
  <2>2. \A e \in Entries : Loaded(e)' => Loaded(e)
    BY <2>1, NoneAdded DEF Loading
  <2>3. Up' => Up
    BY <2>1 DEF Up
  <2> QED BY <1>f, <1>n, <2>1, <2>2, <2>3
<1>4. ASSUME NEW b \in Blocks, Unregister(b)
      PROVE  KeptInv'
  <2>1. /\ pc["life"] = "idle"
        /\ base' = [base EXCEPT ![b] = BaseNone]
        /\ UNCHANGED <<entry, vol, record, dict, pc, kept>>
    BY <1>4 DEF Unregister, Idle, values, store, history
  <2>2. ASSUME NEW e \in Entries, Registered(e[1])'
        PROVE  Registered(e[1]) /\ Id(e)' = Id(e)
    <3>1. e[1] \in Blocks
      BY EntryPair
    <3>2. Registered(e[1]) /\ base'[e[1]] = base[e[1]]
      BY <1>0, <2>1, <2>2, <3>1 DEF Registered
    <3> QED BY <3>2 DEF Id
  <2>3. \A e \in Entries : Loaded(e)' => Loaded(e)
    BY <2>1, <2>2 DEF Loaded, Pending, Loading
  <2>4. Up' => Up
    BY <2>1 DEF Up
  <2>5. \A id \in Ids : kept'[id] <= kept[id]
    BY <1>n, <2>1
  <2>6. \A e \in Entries : entry'[e] >= entry[e]
    BY <1>n, <2>1
  <2> QED BY <1>0, <2>1, <2>2, <2>3, <2>4, <2>5, <2>6, KeptFrame
<1>5. ASSUME NEW b \in Blocks, NEW k \in Bases, Register(b, k)
      PROVE  KeptInv'
  <2>1. ~started
    BY <1>5 DEF Register, FirstInv
  <2> QED BY <1>5, <2>1, KeptRegister
<1>6. CASE StartVolume
  <2>1. /\ pc' = [pc EXCEPT !["life"] = "load_block"]
        /\ blk' = [blk EXCEPT !["life"] = head]
        /\ pc["life"] = "start_volume" /\ volume = None
        /\ UNCHANGED <<local, op, base, head, next>>
        /\ \/ UNCHANGED <<vol, kept>>
           \/ vol' = Empty /\ kept' = [id \in Ids |-> 0]
    BY <1>6 DEF StartVolume, Goto, list, history, Forget
  <2>2. op = "start" /\ local["life"] = 0
    BY <1>0, <2>1 DEF Ground, Calm, CallInv, LocalInv
  <2>3. ASSUME NEW e \in Entries, Loaded(e)'
        PROVE  FALSE
    <3>1. e[1] \in Blocks /\ e[2] \in Nat
      BY EntryPair DEF Locals
    <3>2. Registered(e[1])
      BY <2>1, <2>3 DEF Loaded, Registered
    <3>3. head # None /\ Reaches(head, e[1])
      BY <3>1, <3>2 DEF Ground, ListInv
    <3>4. Reaches(head, e[1])'
      BY <2>1, <3>3 DEF Reaches, Closed
    <3>5. /\ pc'["life"] = "load_block" /\ blk'["life"] = head
          /\ head' = head /\ local'["life"] = 0 /\ op' = "start"
      BY <1>0, <2>1, <2>2
    <3>6. Reaches(blk["life"], e[1])'
      BY <3>4, <3>5 DEF Reaches
    <3>7. Pending(e)'
      BY <3>1, <3>3, <3>5, <3>6 DEF Pending, Loading
    <3> QED BY <2>3, <3>7 DEF Loaded
  <2>4. \A t \in Threads : pc'[t] # "pass_write"
    BY <1>0, <2>1, NoWriter DEF Using
  <2>5. pc'["life"] # "reset_zero"
    BY <1>0, <2>1
  <2>6. \A e \in Entries : /\ Id(e)' = Id(e)
                           /\ Registered(e[1])' <=> Registered(e[1])
    BY <2>1 DEF Id, Registered
  <2>7. CASE UNCHANGED <<vol, kept>>
    BY <2>3, <2>4, <2>5, <2>6, <2>7 DEF KeptInv
  <2>8. CASE vol' = Empty /\ kept' = [id \in Ids |-> 0]
    <3>1. \A id \in Ids : kept'[id] = 0 /\ vol'[id].value = 0
      BY <2>8 DEF Empty, NoRecord
    <3>2. \A e \in Entries : Id(e)' \in Ids
      BY <1>n, <2>6
    <3> QED BY <2>3, <2>4, <2>5, <3>1, <3>2 DEF KeptInv
  <2> QED BY <2>1, <2>7, <2>8
<1>7. CASE StartDone \/ StopCancel \/ StopUnload
  <2>1. /\ pc["life"] \in {"start_done", "stop_cancel", "stop_unload"}
        /\ UNCHANGED <<entry, vol, record, base, kept>>
        /\ pc'["life"] \in {"idle", "pass_lock"}
        /\ \A t \in Threads \ {"life"} : pc'[t] = pc[t]
        /\ dict' => dict
    BY <1>0, <1>7
       DEF StartDone, StopCancel, StopUnload, Goto, list, values, store, history
  <2>2. \A e \in Entries : Loaded(e)' => Loaded(e)
    BY <2>1, NoneAdded DEF Loading
  <2>3. Up' => Up
    BY <2>1 DEF Up
  <2> QED BY <1>f, <1>n, <2>1, <2>2, <2>3
<1>8. CASE ResetVolume
  <2>1. /\ pc' = [pc EXCEPT !["life"] = "reset_zero"]
        /\ volume = None /\ base' = base
        /\ vol' = Empty /\ kept' = [id \in Ids |-> 0]
    BY <1>8 DEF ResetVolume, Goto, Forget, list
  <2>2. ~Up'
    BY <1>0, <2>1 DEF Up
  <2>3. \A t \in Threads : pc'[t] # "pass_write"
    BY <1>0, <2>1, NoWriter DEF Using
  <2>4. \A id \in Ids : kept'[id] = 0 /\ vol'[id].value = 0
    BY <2>1 DEF Empty, NoRecord
  <2>5. \A e \in Entries : Id(e)' \in Ids
    BY <1>0, FlushNatNext
  <2> QED BY <2>2, <2>3, <2>4, <2>5 DEF KeptInv
<1>9. CASE ResetZero
  <2>1. /\ pc["life"] = "reset_zero"
        /\ pc' = [pc EXCEPT !["life"] = "pass_lock"]
        /\ UNCHANGED <<record, base, kept, vol>>
    BY <1>9 DEF ResetZero, Goto, list, store, history
  <2>2. \A id \in Ids : kept[id] = 0
    BY <2>1 DEF KeptInv
  <2>3. \A e \in Entries : Id(e)' \in Ids /\ kept'[Id(e)'] <= entry'[e]
    BY <1>n, <2>1, <2>2 DEF Id
  <2>4. pc'["life"] # "reset_zero"
    BY <1>0, <2>1
  <2>5. \A t \in Threads : pc'[t] = "pass_write" => pc[t] = "pass_write"
    BY <1>0, <2>1
  <2> QED BY <2>1, <2>2, <2>3, <2>4, <2>5 DEF KeptInv
<1>10. CASE RegisterLoad
  <2>1. pc["life"] = "register_load"
    BY <1>10 DEF RegisterLoad
  <2>2. op = "register"
    BY <2>1 DEF Ground, Calm, CallInv
  <2> QED BY <2>2 DEF FirstInv
<1>11. CASE Load
  BY <1>11, KeptLoad
<1>12. ASSUME NEW t \in Threads, PassLock(t)
       PROVE  KeptInv'
  <2>1. /\ pc[t] = "pass_lock"
        /\ UNCHANGED <<entry, vol, record, base, next, dict, local>>
        /\ \A u \in Threads \ {t} : blk'[u] = blk[u] /\ pc'[u] = pc[u]
        /\ pc'[t] \notin {"pass_write", "start_volume", "reset_zero"}
        /\ t = "task" => op' = op
    <3>1. CASE PassReturn(t, FALSE)
      BY <1>0, <1>12, <3>1, ReturnCall
         DEF PassLock, list, values, store, Ground, Calm, Passing
    <3>2. CASE ~PassReturn(t, FALSE)
      BY <1>0, <1>12, <3>2 DEF PassLock, Goto, list, values, store
    <3> QED BY <3>1, <3>2
  <2>2. kept' = kept
    <3>1. CASE PassReturn(t, FALSE)
      <4>1. CASE t = "task"
        BY <3>1, <4>1 DEF PassReturn, history
      <4>2. CASE t = "life"
        <5>1. kept' = [id \in Ids |-> kept[id]]
          BY <3>1, <4>2 DEF PassReturn, FlushDone
        <5> QED BY <1>0, <5>1 DEF TypeInv, TypeOK, HistoryTypes
      <4> QED BY <1>0, <4>1, <4>2
    <3>2. CASE ~PassReturn(t, FALSE)
      BY <1>12, <3>2 DEF PassLock, history
    <3> QED BY <3>1, <3>2
  <2>3. \A e \in Entries : Loaded(e)' => Loaded(e)
    <3>1. CASE t = "life"
      BY <2>1, <3>1, NoneAdded DEF Loading
    <3>2. CASE t = "task"
      <4>1. pc'["life"] = pc["life"] /\ blk'["life"] = blk["life"] /\ op' = op
        BY <1>0, <2>1, <3>2
      <4> QED BY <2>1, <4>1, LoadedSame
    <3> QED BY <1>0, <3>1, <3>2
  <2>4. Up' => Up
    <3>1. pc["life"] \in {"start_volume", "reset_zero"} => pc'["life"] = pc["life"]
      BY <1>0, <2>1
    <3> QED BY <2>1, <3>1 DEF Up
  <2>5. pc'["life"] = "reset_zero" => pc["life"] = "reset_zero"
    BY <1>0, <2>1
  <2>6. \A u \in Threads : pc'[u] = "pass_write" =>
            pc[u] = "pass_write" /\ record' = record
    BY <2>1
  <2>7. \A e \in Entries : entry'[e] >= entry[e]
    BY <1>n, <2>1
  <2> QED BY <1>f, <2>1, <2>2, <2>3, <2>4, <2>5, <2>6, <2>7
<1>13. ASSUME NEW t \in Threads, PassBlock(t)
       PROVE  KeptInv'
  <2>1. CASE t = "life" /\ blk[t] = None
    BY <1>13, <2>1, KeptFlush
  <2>2. CASE ~(t = "life" /\ blk[t] = None)
    <3>1. /\ pc[t] = "pass_block"
          /\ UNCHANGED <<entry, vol, record, base, next, dict, local, op, kept>>
          /\ \A u \in Threads \ {t} : blk'[u] = blk[u] /\ pc'[u] = pc[u]
          /\ pc'[t] \in {"pass_block", "pass_entry", "task_end"}
      <4>1. CASE blk[t] = None
        BY <1>0, <1>13, <2>2, <4>1
           DEF PassBlock, PassReturn, Goto, list, values, store, history
      <4>2. CASE blk[t] # None
        BY <1>0, <1>13, <2>2, <4>2
           DEF PassBlock, Goto, list, values, store, history
      <4> QED BY <4>1, <4>2
    <3>2. \A e \in Entries : Loaded(e)' => Loaded(e)
      <4>1. CASE t = "life"
        BY <3>1, <4>1, NoneAdded DEF Loading
      <4>2. CASE t = "task"
        <5>1. pc'["life"] = pc["life"] /\ blk'["life"] = blk["life"]
          BY <1>0, <3>1, <4>2
        <5> QED BY <3>1, <5>1, LoadedSame
      <4> QED BY <1>0, <4>1, <4>2
    <3>3. Up' => Up
      <4>1. pc["life"] \in {"start_volume", "reset_zero"} =>
                pc'["life"] = pc["life"]
        BY <1>0, <3>1
      <4> QED BY <3>1, <4>1 DEF Up
    <3>4. pc'["life"] = "reset_zero" => pc["life"] = "reset_zero"
      BY <1>0, <3>1
    <3>5. \A u \in Threads : pc'[u] = "pass_write" =>
              pc[u] = "pass_write" /\ record' = record
      BY <3>1
    <3>6. \A e \in Entries : entry'[e] >= entry[e]
      BY <1>n, <3>1
    <3> QED BY <1>f, <3>1, <3>2, <3>3, <3>4, <3>5, <3>6
  <2> QED BY <2>1, <2>2
<1>14. ASSUME NEW t \in Threads, PassEntry(t) \/ PassFail(t),
              pc'[t] # "pass_write"
       PROVE  KeptInv'
  <2>1. /\ pc[t] \in {"pass_entry", "pass_fail"}
        /\ pc'[t] \in {"pass_entry", "pass_block"}
        /\ UNCHANGED <<entry, vol, base, next, dict, op, kept, record>>
        /\ \A u \in Threads \ {t} :
                blk'[u] = blk[u] /\ pc'[u] = pc[u] /\ local'[u] = local[u]
    <3>1. CASE PassFail(t)
      BY <1>0, <3>1 DEF PassFail, Goto, list, store, history
    <3>2. CASE PassEntry(t)
      <4>1. ~(pc' = [pc EXCEPT ![t] = "pass_write"])
        BY <1>0, <1>14
      <4> QED BY <1>0, <3>2, <4>1 DEF PassEntry, Goto, list, store, history
    <3> QED BY <1>14, <3>1, <3>2
  <2>2. \A e \in Entries : Loaded(e)' => Loaded(e)
    <3>1. CASE t = "life"
      BY <2>1, <3>1, NoneAdded DEF Loading
    <3>2. CASE t = "task"
      <4>1. /\ pc'["life"] = pc["life"] /\ blk'["life"] = blk["life"]
            /\ local'["life"] = local["life"]
        BY <1>0, <2>1, <3>2
      <4> QED BY <2>1, <4>1, LoadedSame
    <3> QED BY <1>0, <3>1, <3>2
  <2>3. Up' => Up
    <3>1. pc["life"] \in {"start_volume", "reset_zero"} => pc'["life"] = pc["life"]
      BY <1>0, <2>1
    <3> QED BY <2>1, <3>1 DEF Up
  <2>4. pc'["life"] = "reset_zero" => pc["life"] = "reset_zero"
    BY <1>0, <2>1
  <2>5. \A u \in Threads : pc'[u] = "pass_write" =>
            pc[u] = "pass_write" /\ record' = record
    BY <1>14, <2>1
  <2>6. \A e \in Entries : entry'[e] >= entry[e]
    BY <1>n, <2>1
  <2> QED BY <1>f, <2>1, <2>2, <2>3, <2>4, <2>5, <2>6
<1>15. ASSUME NEW t \in Threads, Pass(t)
       PROVE  KeptInv'
  <2>1. CASE PassEntry(t) \/ PassFail(t)
    BY <1>0, <1>14, <2>1, KeptClaim DEF PassFail, Goto
  <2> QED BY <1>12, <1>13, <1>15, <2>1, KeptWrite DEF Pass
<1>16. CASE TaskRun \/ TaskEnd \/ UNCHANGED vars
  <2>1. /\ UNCHANGED <<entry, vol, record, base, next, dict, blk, local, op,
                       kept>>
        /\ pc'["life"] = pc["life"]
        /\ pc'["task"] \in {"idle", "pass_lock", pc["task"]}
    BY <1>0, <1>16
       DEF TaskRun, TaskEnd, Goto, list, values, store, cursor, history, vars
  <2>2. \A e \in Entries : Loaded(e)' => Loaded(e)
    BY <2>1, LoadedSame
  <2>3. Up' => Up
    BY <2>1 DEF Up
  <2>4. \A u \in Threads : pc'[u] = "pass_write" =>
            pc[u] = "pass_write" /\ record' = record
    BY <1>0, <2>1
  <2>5. \A e \in Entries : entry'[e] >= entry[e]
    BY <1>n, <2>1
  <2> QED BY <1>f, <2>1, <2>2, <2>3, <2>4, <2>5
<1>17. CASE Crash
  <2>1. /\ ~dict' /\ \A t \in Threads : pc'[t] = "idle"
        /\ base' = [b \in Blocks |-> BaseNone]
        /\ UNCHANGED <<vol, kept>>
    BY <1>17 DEF Crash
  <2>2. \A e \in Entries : ~Registered(e[1])'
    BY <2>1, EntryPair DEF Registered
  <2>3. ~Up' /\ pc'["life"] = "idle"
    BY <1>0, <2>1 DEF Up
  <2> QED BY <2>1, <2>2, <2>3 DEF KeptInv
<1> QED
  BY <1>0, <1>1, <1>2, <1>3, <1>4, <1>5, <1>6, <1>7, <1>8, <1>9, <1>10, <1>11,
     <1>15, <1>16, <1>17
     DEF Next, Counting, Calls, LifeStep, TaskStep

\* Blocks come first when none is registered while the store runs.
LEMMA FirstNext ==
    ASSUME Ground, FirstInv, "register_late" \notin Ops, [Next]_vars
    PROVE  FirstInv'
<1>0. /\ pc \in [Threads -> PcNames] /\ TypeInv
      /\ Threads = {"life", "task"}
  BY DEF Ground, TypeInv, TypeOK, ThreadTypes, Threads
<1>1. CASE Start
  BY <1>0, <1>1
     DEF Start, Call, Goto, Idle, FirstInv, store, Ground, Calm, CallInv
<1>2. CASE StartVolume \/ ResetVolume
  BY <1>0, <1>2 DEF StartVolume, ResetVolume, Goto, FirstInv
<1>3. ASSUME NEW t \in Threads, PassLock(t) \/ PassBlock(t)
      PROVE  FirstInv'
  <2>1. dict' = dict /\ pc[t] \in {"pass_lock", "pass_block"}
    BY <1>3 DEF PassLock, PassBlock, store
  <2>2. CASE \E wrote \in BOOLEAN : PassReturn(t, wrote)
    <3>1. /\ op' \in {op, "none"}
          /\ pc'["life"] \in {pc["life"], "idle", "stop_unload"}
      BY <1>0, <2>1, <2>2, ReturnCall DEF Ground, Calm
    <3> QED BY <2>1, <3>1 DEF FirstInv
  <2>3. CASE ~\E wrote \in BOOLEAN : PassReturn(t, wrote)
    BY <1>0, <1>3, <2>1, <2>3 DEF PassLock, PassBlock, Goto, FirstInv
  <2> QED BY <2>2, <2>3
<1>4. ASSUME NEW t \in Threads, PassEntry(t) \/ PassWrite(t) \/ PassFail(t)
      PROVE  FirstInv'
  BY <1>0, <1>4 DEF PassEntry, PassWrite, PassFail, Goto, store, FirstInv
<1>5. ASSUME NEW b \in Blocks, NEW k \in Bases, Register(b, k)
      PROVE  FirstInv'
  <2>1. ~started
    BY <1>5 DEF Register
  <2> QED BY <1>5, <2>1 DEF Register, store, FirstInv
<1>6. CASE Counting \/ \E b \in Blocks : Unregister(b)
  BY <1>6 DEF Counting, Add, Set, Unregister, store, FirstInv
<1>7. CASE Stop \/ Persist \/ Reset
  BY <1>0, <1>7 DEF Stop, Persist, Reset, Call, Goto, store, FirstInv
<1>8. CASE \/ StartDone \/ StopCancel \/ StopUnload \/ ResetZero \/ RegisterLoad
  BY <1>0, <1>8
     DEF StartDone, StopCancel, StopUnload, ResetZero, RegisterLoad, Goto,
         store, FirstInv
<1>9. CASE Load
  BY <1>0, <1>9
     DEF Load, LoadBlock, LoadZero, LoadGet, LoadPut, Goto, store, FirstInv
<1>10. CASE TaskRun \/ TaskEnd
  BY <1>0, <1>10 DEF TaskRun, TaskEnd, Goto, store, FirstInv
<1>11. CASE Crash \/ UNCHANGED vars
  BY <1>0, <1>11 DEF Crash, vars, store, FirstInv
<1> QED
  BY <1>1, <1>2, <1>3, <1>4, <1>5, <1>6, <1>7, <1>8, <1>9, <1>10, <1>11
     DEF Next, Calls, LifeStep, TaskStep, Pass, Threads

----------------------------------------------------------------------------
(* What a flush owes.                                                      *)

\* Nothing is.
LEMMA OwedNone ==
    ASSUME TypeInv, [Next]_vars, \A id \in Ids : owed'[id] = 0
    PROVE  OwedInv'
<1>1. \A e \in Entries : Id(e)' \in Ids
  BY FlushNatNext
<1> QED BY <1>1 DEF OwedInv

\* A flush is as far as it was while the lifecycle thread is not running.
LEMMA AheadSame ==
    ASSUME next' = next, pc'["life"] = pc["life"],
           blk'["life"] = blk["life"], local'["life"] = local["life"],
           NEW e \in Entries
    PROVE  Ahead(e)' <=> Ahead(e)
<1>1. Reaches(blk["life"], e[1])' <=> Reaches(blk["life"], e[1])
  BY DEF Reaches, Closed
<1> QED BY <1>1 DEF Ahead

\* A step that ends no write, and after which the flush has yet to come to the
\* counters that wait for it.
LEMMA OwedFrame ==
    ASSUME TypeInv, OwedInv, [Next]_vars,
           UNCHANGED <<vol, base, record, op, dict>>,
           \A id \in Ids : owed'[id] \in {owed[id], 0},
           pc["life"] \in Flushing => pc'["life"] \in Flushing,
           \A t \in Threads :
                /\ pc'[t] = "pass_write" <=> pc[t] = "pass_write"
                /\ pc'[t] = "pass_fail" <=> pc[t] = "pass_fail"
                /\ pc[t] \in {"pass_write", "pass_fail"} => Here(t)' = Here(t),
           \A e \in Entries : Registered(e[1]) /\ owed'[Id(e)] > 0 =>
                /\ entry'[e] >= entry[e]
                /\ dirty[e] => dirty'[e]
                /\ Waits(e) => Ahead(e)'
    PROVE  OwedInv'
<1>1. \A e \in Entries :
        /\ Id(e)' = Id(e) /\ Id(e) \in Ids
        /\ Registered(e[1])' <=> Registered(e[1])
        /\ entry[e] \in Nat /\ entry'[e] \in Nat
  BY FlushNat, FlushNatNext DEF Id, Registered
<1>2. \A id \in Ids : owed[id] \in Nat /\ (owed'[id] > 0 => owed'[id] = owed[id])
  BY FlushNat
<1>3. op' \notin {"persist", "stop"} \/ pc'["life"] \notin Flushing =>
            \A id \in Ids : owed'[id] = 0
  BY DEF OwedInv
<1>4. \A id \in Ids : id >= BaseNone => owed'[id] = 0
  BY DEF OwedInv
<1>5. ASSUME NEW id \in Ids, owed'[id] > 0
      PROVE  \E e \in Entries : Registered(e[1])' /\ Id(e)' = id
  BY <1>1, <1>2, <1>5 DEF OwedInv
<1>6. ASSUME dict', NEW e \in Entries, Registered(e[1])', owed'[Id(e)'] > 0
      PROVE  owed'[Id(e)'] <= entry'[e] /\ (Waits(e)' \/ Saved(e)')
  <2>1. /\ Registered(e[1]) /\ Id(e)' = Id(e) /\ Id(e) \in Ids
        /\ owed'[Id(e)] > 0
    BY <1>1, <1>6
  <2>2. owed'[Id(e)] = owed[Id(e)] /\ owed[Id(e)] > 0
    BY <1>2, <2>1
  <2>3. owed[Id(e)] <= entry[e] /\ (Waits(e) \/ Saved(e))
    BY <1>6, <2>1, <2>2 DEF OwedInv
  <2>4. /\ entry'[e] >= entry[e]
        /\ dirty[e] => dirty'[e]
        /\ Waits(e) => Ahead(e)'
    BY <2>1
  <2>5. owed'[Id(e)'] <= entry'[e]
    BY <1>1, <1>2, <2>1, <2>2, <2>3, <2>4
  <2>6. Waits(e) => Waits(e)'
    <3>1. ASSUME NEW t \in Threads, pc[t] = "pass_fail", Here(t) = e
          PROVE  pc'[t] = "pass_fail" /\ Here(t)' = e
      BY <3>1
    <3> QED BY <2>4, <3>1 DEF Waits
  <2>7. Saved(e) => Saved(e)'
    <3>1. SUFFICES ASSUME Saved(e) PROVE Saved(e)'
      OBVIOUS
    <3>2. ASSUME NEW t \in Threads, pc'[t] = "pass_write", Here(t)' = e
          PROVE  owed'[Id(e)'] <= record'.value
      <4>1. pc[t] = "pass_write" /\ Here(t) = e
        BY <3>2
      <4> QED BY <2>1, <2>2, <3>1, <4>1 DEF Saved
    <3>3. ASSUME NEW t \in Threads, pc[t] = "pass_write", Here(t) = e
          PROVE  pc'[t] = "pass_write" /\ Here(t)' = e
      BY <3>3
    <3>4. vol[Id(e)].name = e /\ owed[Id(e)] <= vol[Id(e)].value =>
            vol'[Id(e)'].name = e /\ owed'[Id(e)'] <= vol'[Id(e)'].value
      BY <2>1, <2>2
    <3> QED BY <3>1, <3>2, <3>3, <3>4 DEF Saved
  <2> QED BY <2>3, <2>5, <2>6, <2>7
<1> QED BY <1>3, <1>4, <1>5, <1>6 DEF OwedInv

\* A flush begins: it owes what the counters are worth.
LEMMA OwedBegin ==
    ASSUME Ground, WriteInv, StoredInv, [Next]_vars, Persist \/ Stop
    PROVE  OwedInv'
<1> USE ConstantsAssumption
<1>0. /\ pc \in [Threads -> PcNames]
      /\ TypeInv /\ Threads = {"life", "task"}
  BY DEF Ground, TypeInv, TypeOK, ThreadTypes, Threads
<1>1. /\ pc["life"] = "idle" /\ pc'["life"] \in {"pass_lock", "stop_cancel"}
      /\ \A t \in Threads \ {"life"} : pc'[t] = pc[t]
      /\ op' \in {"persist", "stop"}
      /\ UNCHANGED <<vol, base, record, dict, entry, dirty, blk, local>>
      /\ Owe
  BY <1>0 DEF Persist, Stop, Call, Idle, Goto, list, values, store, cursor
<1>2. \A e \in Entries :
        /\ Id(e)' = Id(e) /\ Id(e) \in Ids /\ e[1] \in Blocks
        /\ Registered(e[1])' <=> Registered(e[1])
        /\ entry[e] \in Nat
  BY <1>0, <1>1, FlushNat, EntryPair DEF Id, Registered
<1> DEFINE mine(id) == {e \in Entries : Registered(e[1]) /\ Id(e) = id}
           worth(id) == IF mine(id) = {} THEN 0
                        ELSE entry[CHOOSE e \in mine(id) : TRUE]
<1>3. owed' = [id \in Ids |-> worth(id)]
  BY <1>1 DEF Owe
<1>4. ASSUME NEW e \in Entries, Registered(e[1])
      PROVE  owed'[Id(e)] = entry[e]
  <2>1. mine(Id(e)) = {e}
    BY <1>4 DEF Ground, OwnInv
  <2>2. (CHOOSE f \in mine(Id(e)) : TRUE) = e
    BY <2>1
  <2> QED BY <1>2, <1>3, <2>1, <2>2
<1>5. ASSUME NEW id \in Ids, owed'[id] > 0
      PROVE  \E e \in Entries : Registered(e[1]) /\ Id(e) = id
  <2>1. worth(id) # 0
    BY <1>3, <1>5
  <2> QED BY <2>1
<1> HIDE DEF mine, worth
<1>6. ASSUME NEW id \in Ids, id >= BaseNone
      PROVE  owed'[id] = 0
  <2>1. ASSUME NEW e \in Entries, Registered(e[1])
        PROVE  Id(e) # id
    <3>1. e[1] \in Blocks /\ e[2] \in Nat /\ e[2] < Count
      BY EntryPair DEF Locals
    <3>2. base[e[1]] + Count <= BaseNone /\ base[e[1]] \in Nat
      BY <1>0, <2>1, <3>1 DEF Ground, OwnInv, TypeInv, TypeOK, ListTypes
    <3>3. Id(e) < BaseNone
      BY <3>1, <3>2 DEF Id
    <3> QED BY <1>2, <1>6, <3>3 DEF Ids
  <2>2. ~(owed'[id] > 0)
    BY <1>5, <2>1
  <2> QED BY <1>0, <2>2, FlushNatNext
<1>7. ASSUME dict', NEW e \in Entries, Registered(e[1])', owed'[Id(e)'] > 0
      PROVE  owed'[Id(e)'] <= entry'[e] /\ (Waits(e)' \/ Saved(e)')
  <2>1. /\ Registered(e[1]) /\ Id(e)' = Id(e) /\ Id(e) \in Ids
        /\ owed'[Id(e)] = entry[e] /\ entry[e] > 0
    BY <1>2, <1>4, <1>7
  <2>2. Ahead(e)'
    BY <1>1 DEF Ahead
  <2>3. \A t \in Threads :
            /\ Here(t)' = Here(t)
            /\ pc'[t] = "pass_write" <=> pc[t] = "pass_write"
            /\ pc'[t] = "pass_fail" <=> pc[t] = "pass_fail"
    BY <1>0, <1>1 DEF Here
  <2>4. Live /\ Loaded(e)
    <3>1. dict /\ started
      BY <1>1, <1>7 DEF Ground, Calm, CallInv
    <3> QED BY <1>1, <2>1, <3>1 DEF Live, Loaded, Pending, Loading
  <2>5. CASE dirty[e] \/ \E t \in Threads : pc[t] = "pass_fail" /\ Here(t) = e
    BY <1>1, <1>2, <2>1, <2>2, <2>3, <2>5 DEF Waits
  <2>6. CASE ~dirty[e] /\ \E t \in Threads : pc[t] = "pass_write" /\ Here(t) = e
    <3>1. \A t \in Threads : pc[t] = "pass_write" /\ Here(t) = e =>
                record.value = entry[e]
      BY <2>4, <2>6 DEF WriteInv
    <3>2. PICK u \in Threads : pc[u] = "pass_write" /\ Here(u) = e
      BY <2>6
    <3>3. pc'[u] = "pass_write" /\ Here(u)' = e
      BY <2>3, <3>2
    <3>4. owed'[Id(e)'] <= record'.value
      BY <1>1, <1>2, <2>1, <3>1, <3>2
    <3>5. Saved(e)'
      BY <3>3, <3>4 DEF Saved
    <3> QED BY <1>1, <1>2, <2>1, <3>5
  <2>7. CASE ~dirty[e] /\ ~Writing(e)
    <3>1. entry[e] = StoredValue(e)
      BY <2>4, <2>7 DEF StoredInv
    <3>2. vol[Id(e)].name = e /\ vol[Id(e)].value = entry[e]
      BY <2>1, <3>1 DEF StoredValue
    <3>3. ~\E t \in Threads : pc[t] = "pass_write" /\ Here(t) = e
      BY <2>7 DEF Writing
    <3>4. \A t \in Threads : ~(pc'[t] = "pass_write" /\ Here(t)' = e)
      BY <2>3, <3>3
    <3>5. vol'[Id(e)'].name = e /\ owed'[Id(e)'] <= vol'[Id(e)'].value
      BY <1>1, <1>2, <2>1, <3>2
    <3>6. Saved(e)'
      BY <3>4, <3>5 DEF Saved
    <3> QED BY <1>1, <1>2, <2>1, <3>6
  <2> QED BY <2>5, <2>6, <2>7 DEF Writing
<1>8. op' \in {"persist", "stop"} /\ pc'["life"] \in Flushing
  BY <1>1 DEF Flushing
<1>9. \A id \in Ids : owed'[id] > 0 =>
        \E e \in Entries : Registered(e[1])' /\ Id(e)' = id
  BY <1>2, <1>5
<1> QED BY <1>6, <1>7, <1>8, <1>9 DEF OwedInv

\* A pass claims a counter.
LEMMA OwedClaim ==
    ASSUME Ground, OwedInv, [Next]_vars, NEW t \in Threads,
           PassEntry(t), pc'[t] = "pass_write",
           op \in {"persist", "stop"}, pc["life"] \in Flushing
    PROVE  OwedInv'
<1> USE ConstantsAssumption
<1>0. /\ pc \in [Threads -> PcNames] /\ dirty \in [Entries -> BOOLEAN]
      /\ TypeInv /\ Threads = {"life", "task"}
  BY DEF Ground, TypeInv, TypeOK, ThreadTypes, ValueTypes, Threads
<1>1. /\ pc[t] = "pass_entry"
      /\ dirty' = [dirty EXCEPT ![Here(t)] = FALSE]
      /\ record' = [id |-> Id(Here(t)), name |-> Here(t),
                    value |-> entry[Here(t)]]
      /\ UNCHANGED <<entry, blk, local, vol, dict, op, base, next, owed>>
      /\ \A u \in Threads \ {t} : pc'[u] = pc[u] /\ pc[u] \notin Using
  <2>1. pc[t] = "pass_entry"
    BY DEF PassEntry
  <2>2. \A u \in Threads \ {t} : pc[u] \notin Using
    BY <1>0, <2>1, WriterAlone DEF Using
  <2> QED BY <1>0, <2>1, <2>2 DEF PassEntry, Goto, list, store, history
<1>2. \A u \in Threads :
        /\ pc[u] \notin {"pass_write", "pass_fail"}
        /\ pc'[u] = "pass_write" => u = t
        /\ Here(u)' = Here(u)
  BY <1>1 DEF Using, Here
<1>3. \A e \in Entries :
        /\ Id(e)' = Id(e) /\ e = <<e[1], e[2]>> /\ e[2] \in Nat
        /\ Registered(e[1])' <=> Registered(e[1])
  BY <1>1, EntryPair DEF Id, Registered, Locals
<1>4. /\ Here(t) \in Entries
      /\ Here("life") = <<blk["life"], local["life"]>>
      /\ local["life"] \in Int
  <2>1. blk[t] \in Blocks /\ local[t] < Count
    BY <1>0, <1>1 DEF TypeInv, CursorInv, PassEntry, Goto
  <2>2. local["life"] \in 0 .. Count
    BY <1>0 DEF TypeInv, TypeOK, ThreadTypes
  <2> QED BY <1>0, <2>1, <2>2, HereIsEntry DEF Here
<1>5. ASSUME dict', NEW e \in Entries, Registered(e[1])', owed'[Id(e)'] > 0
      PROVE  owed'[Id(e)'] <= entry'[e] /\ (Waits(e)' \/ Saved(e)')
  <2>1. /\ Id(e)' = Id(e)
        /\ owed[Id(e)] <= entry[e]
        /\ Waits(e) \/ Saved(e)
    BY <1>1, <1>3, <1>5 DEF OwedInv
  <2>2. owed'[Id(e)'] <= entry'[e]
    BY <1>1, <2>1
  <2>3. CASE e = Here(t)
    <3>1. \A u \in Threads : pc'[u] = "pass_write" => owed'[Id(e)'] <= record'.value
      BY <1>1, <2>1, <2>3
    <3>2. pc'[t] = "pass_write" /\ Here(t)' = e
      BY <1>2, <2>3
    <3> QED BY <2>2, <3>1, <3>2 DEF Saved
  <2>4. CASE e # Here(t) /\ Waits(e)
    <3>1. dirty[e] /\ Ahead(e)
      BY <1>2, <2>4 DEF Waits
    <3>2. dirty'[e]
      BY <1>0, <1>1, <2>4, <3>1
    <3>3. Ahead(e)'
      <4>1. CASE t = "task"
        <5>1. pc'["life"] = pc["life"]
          BY <1>0, <1>1, <4>1
        <5> QED BY <1>1, <3>1, <5>1, AheadSame
      <4>2. CASE t = "life"
        <5>1. /\ pc["life"] = "pass_entry" /\ pc'["life"] = "pass_write"
              /\ blk' = blk /\ local' = local
          BY <1>1, <4>2
        <5>2. CASE e[1] = blk["life"]
          <6>1. e[2] >= local["life"] /\ blk["life"] # None
            BY <3>1, <5>1, <5>2 DEF Ahead, Passing
          <6>2. e[2] # local["life"]
            BY <1>3, <1>4, <2>4, <4>2, <5>2
          <6>3. e[2] > local["life"]
            BY <1>3, <1>4, <6>1, <6>2
          <6> QED BY <5>1, <5>2, <6>1, <6>3 DEF Ahead, Passing
        <5>3. CASE e[1] # blk["life"]
          <6>1. Reaches(blk["life"], e[1]) /\ blk["life"] # None
            BY <3>1, <5>1, <5>3 DEF Ahead, Passing
          <6>2. Reaches(blk["life"], e[1])'
            BY <1>1, <6>1 DEF Reaches, Closed
          <6> QED BY <5>1, <5>3, <6>1, <6>2 DEF Ahead, Passing
        <5> QED BY <5>2, <5>3
      <4> QED BY <1>0, <4>1, <4>2
    <3> QED BY <2>2, <3>2, <3>3 DEF Waits
  <2>5. CASE e # Here(t) /\ Saved(e)
    <3>1. vol[Id(e)].name = e /\ owed[Id(e)] <= vol[Id(e)].value
      BY <1>2, <2>5 DEF Saved
    <3>2. \A u \in Threads : ~(pc'[u] = "pass_write" /\ Here(u)' = e)
      BY <1>2, <2>5
    <3>3. vol'[Id(e)'].name = e /\ owed'[Id(e)'] <= vol'[Id(e)'].value
      BY <1>1, <2>1, <3>1
    <3> QED BY <2>2, <3>2, <3>3 DEF Saved
  <2> QED BY <2>1, <2>3, <2>4, <2>5
<1>6. op' \in {"persist", "stop"} /\ pc'["life"] \in Flushing
  BY <1>0, <1>1 DEF Flushing, Passing
<1>7. /\ \A id \in Ids : id >= BaseNone => owed'[id] = 0
      /\ \A id \in Ids : owed'[id] > 0 =>
            \E e \in Entries : Registered(e[1])' /\ Id(e)' = id
  BY <1>1, <1>3 DEF OwedInv
<1> QED BY <1>5, <1>6, <1>7 DEF OwedInv

\* A pass that goes on in its block has the same counters ahead, but the one that
\* it was at.
LEMMA AheadOn ==
    ASSUME Ground, pc["life"] \in {"pass_entry", "pass_write", "pass_fail"},
           pc'["life"] = "pass_entry", UNCHANGED <<next, blk>>,
           local' = [local EXCEPT !["life"] = @ + 1],
           NEW e \in Entries, Ahead(e), e # Here("life")
    PROVE  Ahead(e)'
<1>0. local["life"] \in Nat /\ local'["life"] = local["life"] + 1
  BY ConstantsAssumption DEF Ground, TypeInv, TypeOK, ThreadTypes, Threads
<1>1. e[2] \in Nat /\ e = <<e[1], e[2]>>
  BY EntryPair DEF Locals
<1>2. blk["life"] # None
  BY DEF Ahead
<1>3. CASE e[1] = blk["life"]
  <2>1. e[2] >= local["life"] /\ e[2] # local["life"]
    BY <1>0, <1>1, <1>3 DEF Ahead, Here
  <2>2. e[2] >= local'["life"]
    BY <1>0, <1>1, <2>1
  <2> QED BY <1>2, <1>3, <2>2 DEF Ahead, Passing
<1>4. CASE e[1] # blk["life"]
  <2>1. Reaches(blk["life"], e[1])
    BY <1>4 DEF Ahead
  <2>2. Reaches(blk["life"], e[1])'
    BY <2>1 DEF Reaches, Closed
  <2> QED BY <1>2, <1>4, <2>2 DEF Ahead, Passing
<1> QED BY <1>3, <1>4

\* A pass writes what it claimed, or hands it back.
LEMMA OwedWrite ==
    ASSUME Ground, WriteInv, OwedInv, [Next]_vars, NEW t \in Threads,
           PassWrite(t) \/ PassFail(t),
           op \in {"persist", "stop"}, pc["life"] \in Flushing
    PROVE  OwedInv'
<1> USE ConstantsAssumption
<1>0. /\ pc \in [Threads -> PcNames] /\ dirty \in [Entries -> BOOLEAN]
      /\ local \in [Threads -> 0 .. Count]
      /\ vol \in [Ids -> Records] /\ owed \in [Ids -> Values]
      /\ TypeInv /\ Threads = {"life", "task"}
  BY DEF Ground, TypeInv, TypeOK, ThreadTypes, ValueTypes, StoreTypes,
         HistoryTypes, Threads
<1>1. /\ pc[t] \in {"pass_write", "pass_fail"}
      /\ pc'[t] \in {"pass_entry", "pass_fail"}
      /\ UNCHANGED <<entry, blk, dict, op, base, next>>
      /\ \A u \in Threads \ {t} :
            /\ pc'[u] = pc[u] /\ pc[u] \notin Using
            /\ local'[u] = local[u]
  <2>1. pc[t] \in {"pass_write", "pass_fail"}
    BY DEF PassWrite, PassFail
  <2>2. \A u \in Threads \ {t} : pc[u] \notin Using
    BY <1>0, <2>1, WriterAlone DEF Using
  <2>3. CASE PassWrite(t)
    BY <1>0, <2>1, <2>2, <2>3 DEF PassWrite, Goto, list, values, task
  <2>4. CASE PassFail(t)
    BY <1>0, <2>1, <2>2, <2>4 DEF PassFail, Goto, list, store
  <2> QED BY <2>3, <2>4
\* How it ends: written, failed, or handed back.
<1>2. \/ /\ pc[t] = "pass_write" /\ pc'[t] = "pass_entry"
         /\ vol' = [vol EXCEPT ![record.id] = [name  |-> record.name,
                                               value |-> record.value]]
         /\ local' = [local EXCEPT ![t] = @ + 1]
         /\ UNCHANGED <<dirty, owed>>
      \/ /\ pc[t] = "pass_write" /\ pc'[t] = "pass_fail"
         /\ owed' = [owed EXCEPT ![record.id] = 0]
         /\ UNCHANGED <<dirty, vol, local>>
      \/ /\ pc[t] = "pass_fail" /\ pc'[t] = "pass_entry"
         /\ dirty' = [dirty EXCEPT ![Here(t)] = TRUE]
         /\ local' = [local EXCEPT ![t] = @ + 1]
         /\ UNCHANGED <<owed, vol>>
  <2>1. CASE PassWrite(t)
    BY <1>0, <2>1 DEF PassWrite, Goto, values
  <2>2. CASE PassFail(t)
    BY <1>0, <2>2 DEF PassFail, Goto, store, history
  <2> QED BY <2>1, <2>2
<1>3. /\ \A u \in Threads : pc'[u] # "pass_write"
      /\ \A u \in Threads :
            pc[u] \in {"pass_write", "pass_fail"} => u = t
  BY <1>1 DEF Using
<1>4. \A e \in Entries :
        /\ Id(e)' = Id(e) /\ Id(e) \in Ids
        /\ Registered(e[1])' <=> Registered(e[1])
  BY <1>0, <1>1, FlushNat DEF Id, Registered
<1>5. record.id \in Ids /\ \A id \in Ids : owed'[id] \in {owed[id], 0}
  BY <1>0, <1>2, FlushNat
<1>6. ASSUME NEW e \in Entries, Registered(e[1]), pc[t] = "pass_write"
      PROVE  record.name = Here(t) /\ (record.id = Id(e) <=> e = Here(t))
  <2>1. pc["life"] \notin Loading \union {"register_load"}
    BY DEF Flushing, Passing, Loading
  <2>2. Loaded(e)
    BY <1>6, <2>1 DEF Loaded, Pending
  <2> QED BY <1>6, <2>2 DEF WriteInv
<1>7. ASSUME NEW e \in Entries, Ahead(e), t = "life" => e # Here(t)
      PROVE  Ahead(e)'
  <2>1. CASE t = "task"
    <3>1. pc'["life"] = pc["life"] /\ local'["life"] = local["life"]
      BY <1>0, <1>1, <2>1
    <3> QED BY <1>1, <1>7, <3>1, AheadSame
  <2>2. CASE t = "life" /\ pc'[t] = "pass_entry"
    <3>1. local' = [local EXCEPT !["life"] = @ + 1]
      BY <1>2, <2>2
    <3> QED BY <1>1, <1>7, <2>2, <3>1, AheadOn
  <2>3. CASE t = "life" /\ pc'[t] = "pass_fail"
    <3>1. /\ pc["life"] = "pass_write" /\ pc'["life"] = "pass_fail"
          /\ local' = local
      BY <1>2, <2>3
    <3>2. Reaches(blk["life"], e[1]) => Reaches(blk["life"], e[1])'
      BY <1>1 DEF Reaches, Closed
    <3> QED BY <1>1, <1>7, <3>1, <3>2 DEF Ahead, Passing
  <2> QED BY <1>0, <1>1, <2>1, <2>2, <2>3
<1>8. ASSUME dict', NEW e \in Entries, Registered(e[1])', owed'[Id(e)'] > 0
      PROVE  owed'[Id(e)'] <= entry'[e] /\ (Waits(e)' \/ Saved(e)')
  <2>1. /\ Id(e)' = Id(e) /\ Id(e) \in Ids /\ Registered(e[1])
        /\ owed'[Id(e)] = owed[Id(e)] /\ owed[Id(e)] > 0
    BY <1>4, <1>5, <1>8
  <2>2. /\ owed[Id(e)] <= entry[e]
        /\ Waits(e) \/ Saved(e)
    BY <1>1, <1>8, <2>1 DEF OwedInv
  <2>3. owed'[Id(e)'] <= entry'[e]
    BY <1>1, <2>1, <2>2
  <2>4. ASSUME vol'[Id(e)].name = e, owed[Id(e)] <= vol'[Id(e)].value
        PROVE  Saved(e)'
    BY <1>3, <2>1, <2>4 DEF Saved
  \* The lifecycle thread has what it claimed behind it.
  <2>5. t = "life" => ~Ahead(Here(t))
    <3>1. local["life"] \in Int
      BY <1>0
    <3> QED BY <1>1, <3>1 DEF Ahead, Here
  <2>6. CASE Waits(e)
    <3>1. Ahead(e) /\ (t = "life" => e # Here(t))
      BY <2>5, <2>6 DEF Waits
    <3>2. Ahead(e)'
      BY <1>7, <3>1
    <3>3. dirty[e] \/ (pc[t] = "pass_fail" /\ Here(t) = e)
      BY <1>3, <2>6 DEF Waits
    <3>4. dirty'[e]
      BY <1>0, <1>2, <3>3
    <3> QED BY <2>3, <3>2, <3>4 DEF Waits
  <2>7. CASE Saved(e)
    <3>1. CASE pc[t] = "pass_write" /\ e = Here(t)
      <4>1. owed[Id(e)] <= record.value /\ record.id = Id(e) /\ record.name = e
        BY <1>6, <2>1, <2>7, <3>1 DEF Saved
      <4>2. CASE vol' = [vol EXCEPT ![record.id] = [name  |-> record.name,
                                                    value |-> record.value]]
        <5>1. vol'[Id(e)] = [name |-> e, value |-> record.value]
          BY <1>0, <1>5, <4>1, <4>2
        <5> QED BY <2>3, <2>4, <4>1, <5>1
      <4>3. CASE owed' = [owed EXCEPT ![record.id] = 0]
        <5>1. owed'[Id(e)] = 0
          BY <1>0, <1>5, <4>1, <4>3
        <5> QED BY <2>1, <5>1
      <4> QED BY <1>2, <3>1, <4>2, <4>3
    <3>2. CASE ~(pc[t] = "pass_write" /\ e = Here(t))
      <4>1. vol[Id(e)].name = e /\ owed[Id(e)] <= vol[Id(e)].value
        BY <1>3, <2>7, <3>2 DEF Saved
      <4>2. vol'[Id(e)] = vol[Id(e)]
        <5>1. CASE pc[t] = "pass_write"
          <6>1. record.id # Id(e)
            BY <1>6, <2>1, <3>2, <5>1
          <6> QED BY <1>0, <1>2, <1>5, <2>1, <6>1
        <5>2. CASE pc[t] # "pass_write"
          BY <1>2, <5>2
        <5> QED BY <5>1, <5>2
      <4> QED BY <2>3, <2>4, <4>1, <4>2
    <3> QED BY <3>1, <3>2
  <2> QED BY <2>2, <2>6, <2>7
<1>9. op' \in {"persist", "stop"} /\ pc'["life"] \in Flushing
  BY <1>0, <1>1 DEF Flushing, Passing
<1>10. \A id \in Ids : id >= BaseNone => owed'[id] = 0
  BY <1>5 DEF OwedInv
<1>11. ASSUME NEW id \in Ids, owed'[id] > 0
       PROVE  \E e \in Entries : Registered(e[1])' /\ Id(e)' = id
  <2>1. owed[id] > 0
    BY <1>5, <1>11
  <2> QED BY <1>4, <2>1 DEF OwedInv
<1> QED BY <1>8, <1>9, <1>10, <1>11 DEF OwedInv

\* What is owed changes when a flush begins; otherwise it is given up, if anything.
LEMMA OwedSteps ==
    ASSUME TypeInv, [Next]_vars, ~Persist, ~Stop
    PROVE  \A id \in Ids : owed'[id] \in {owed[id], 0}
<1>0. owed \in [Ids -> Values] /\ Threads = {"life", "task"}
  BY DEF TypeInv, TypeOK, HistoryTypes, Threads
<1>1. CASE Counting
  BY <1>0, <1>1 DEF Counting, Add, Set
<1>2. CASE Calls
  BY <1>2 DEF Calls, Start, Reset, Unregister, Register, history
<1>3. ASSUME NEW t \in Threads, Pass(t)
      PROVE  \A id \in Ids : owed'[id] \in {owed[id], 0}
  <2>1. CASE \E wrote \in BOOLEAN : PassReturn(t, wrote)
    <3>1. owed' = owed \/ owed' = [id \in Ids |-> 0]
      BY <2>1 DEF PassReturn, FlushDone, history
    <3> QED BY <3>1
  <2>2. CASE PassWrite(t)
    <3>1. owed' = owed \/ owed' = [owed EXCEPT ![record.id] = 0]
      BY <2>2 DEF PassWrite
    <3> QED BY <1>0, <3>1
  <2>3. CASE ~(\E wrote \in BOOLEAN : PassReturn(t, wrote)) /\ ~PassWrite(t)
    <3>1. owed' = owed
      BY <1>3, <2>3
         DEF Pass, PassLock, PassBlock, PassEntry, PassFail, history
    <3> QED BY <3>1
  <2> QED BY <2>1, <2>2, <2>3
<1>4. CASE LifeStep
  <2>1. CASE Pass("life")
    BY <1>0, <1>3, <2>1
  <2>2. CASE ~Pass("life")
    <3>1. owed' = owed \/ owed' = [id \in Ids |-> 0]
      BY <1>4, <2>2
         DEF LifeStep, StartVolume, StartDone, StopCancel, StopUnload,
             ResetVolume, ResetZero, RegisterLoad, Load, LoadBlock, LoadZero,
             LoadGet, LoadPut, Forget, history
    <3> QED BY <3>1
  <2> QED BY <2>1, <2>2
<1>5. CASE TaskStep
  <2>1. CASE Pass("task")
    BY <1>0, <1>3, <2>1
  <2>2. CASE TaskRun \/ TaskEnd
    BY <2>2 DEF TaskRun, TaskEnd, history
  <2> QED BY <1>5, <2>1, <2>2 DEF TaskStep
<1>6. CASE Crash \/ UNCHANGED vars
  <2>1. owed' = owed \/ owed' = [id \in Ids |-> 0]
    BY <1>6 DEF Crash, vars, history
  <2> QED BY <2>1
<1> QED BY <1>1, <1>2, <1>4, <1>5, <1>6 DEF Next

\* The flush goes on from a block to those after it.
LEMMA AheadBlock ==
    ASSUME Ground, pc["life"] \in {"pass_block", "pass_entry"},
           pc'["life"] = "pass_block", next' = next,
           blk["life"] \in Blocks, blk'["life"] = next[blk["life"]],
           local'["life"] = 0,
           NEW e \in Entries, Ahead(e), e[1] # blk["life"]
    PROVE  Ahead(e)'
<1>1. e[1] \in Blocks /\ e[2] \in Nat
  BY EntryPair DEF Locals
<1>2. Reaches(blk["life"], e[1])
  BY DEF Ahead
<1>3. next[blk["life"]] # None /\ Reaches(next[blk["life"]], e[1])
  BY <1>1, <1>2, ReachNext DEF Ground
<1>4. blk'["life"] # None /\ Reaches(blk["life"], e[1])'
  BY <1>3 DEF Reaches, Closed
<1> QED BY <1>1, <1>4 DEF Ahead, Passing

\* The steps of a flush, and of the task beside it, that neither claim nor write.
LEMMA OwedPass ==
    ASSUME Ground, OwedInv, [Next]_vars, NEW t \in Threads,
           PassLock(t) \/ PassBlock(t) \/ PassEntry(t), pc'[t] # "pass_write",
           op \in {"persist", "stop"}, pc["life"] \in Flushing
    PROVE  OwedInv'
<1> USE ConstantsAssumption
<1>0. /\ pc \in [Threads -> PcNames]
      /\ blk \in [Threads -> Blocks \union {None}]
      /\ local \in [Threads -> 0 .. Count]
      /\ owed \in [Ids -> Values]
      /\ TypeInv /\ Threads = {"life", "task"}
  BY DEF Ground, TypeInv, TypeOK, ThreadTypes, HistoryTypes, Threads
\* The flush is over.
<1>1. CASE t = "life" /\ \E wrote \in BOOLEAN : PassReturn(t, wrote)
  <2>1. owed' = [id \in Ids |-> 0]
    BY <1>1 DEF PassReturn, FlushDone
  <2> QED BY <1>0, <2>1, OwedNone
<1>2. CASE ~(t = "life" /\ \E wrote \in BOOLEAN : PassReturn(t, wrote))
  <2>1. /\ pc[t] \in {"pass_lock", "pass_block", "pass_entry"}
        /\ UNCHANGED <<entry, dirty, vol, base, next, head, dict, op, owed,
                       record>>
        /\ pc'[t] \in {"pass_block", "pass_entry", "task_end"}
        /\ t = "life" => pc'[t] # "task_end"
        /\ \A u \in Threads \ {t} :
                blk'[u] = blk[u] /\ pc'[u] = pc[u] /\ local'[u] = local[u]
    <3>1. CASE PassLock(t)
      BY <1>0, <1>2, <3>1
         DEF PassLock, PassReturn, Goto, list, values, store, history
    <3>2. CASE PassBlock(t)
      BY <1>0, <1>2, <3>2
         DEF PassBlock, PassReturn, Goto, list, values, store, history
    <3>3. CASE PassEntry(t)
      <4>1. ~(pc' = [pc EXCEPT ![t] = "pass_write"])
        BY <1>0
      <4> QED BY <1>0, <3>3, <4>1 DEF PassEntry, Goto, list, store, history
    <3> QED BY <3>1, <3>2, <3>3
  <2>2. \A u \in Threads :
            /\ pc'[u] = "pass_write" <=> pc[u] = "pass_write"
            /\ pc'[u] = "pass_fail" <=> pc[u] = "pass_fail"
            /\ pc[u] \in {"pass_write", "pass_fail"} => Here(u)' = Here(u)
    BY <2>1 DEF Here
  <2>3. ASSUME NEW e \in Entries, Registered(e[1]), Waits(e)
        PROVE  Ahead(e)'
    <3>1. Ahead(e) /\ e[1] \in Blocks /\ e[2] \in Nat /\ e[2] < Count
      BY <2>3, EntryPair DEF Waits, Locals
    <3>2. CASE t = "task"
      <4>1. /\ pc'["life"] = pc["life"] /\ blk'["life"] = blk["life"]
            /\ local'["life"] = local["life"]
        BY <1>0, <2>1, <3>2
      <4> QED BY <2>1, <3>1, <4>1, AheadSame
    <3>3. CASE t = "life" /\ PassLock(t)
      <4>1. /\ pc'["life"] = "pass_block" /\ blk'["life"] = head
            /\ local'["life"] = local["life"]
        BY <1>0, <1>2, <3>3 DEF PassLock, Goto
      <4>2. local["life"] = 0
        BY <1>0, <3>3 DEF PassLock, Ground, Calm, LocalInv
      <4>3. head # None /\ Reaches(head, e[1])
        BY <2>3, <3>1 DEF Ground, ListInv
      <4>4. Reaches(blk["life"], e[1])'
        BY <2>1, <4>1, <4>3 DEF Reaches, Closed
      <4> QED BY <3>1, <4>1, <4>2, <4>3, <4>4 DEF Ahead, Passing
    <3>4. CASE t = "life" /\ PassBlock(t)
      <4>1. /\ pc["life"] = "pass_block" /\ local["life"] = 0
            /\ local'["life"] = local["life"] /\ blk["life"] \in Blocks
        BY <1>0, <1>2, <3>4 DEF PassBlock, Ground, Calm, LocalInv
      <4>2. CASE Registered(blk["life"])
        <5>1. pc'["life"] = "pass_entry" /\ blk' = blk
          BY <1>0, <3>4, <4>1, <4>2 DEF PassBlock, Goto
        <5>2. Reaches(blk["life"], e[1])' <=> Reaches(blk["life"], e[1])
          BY <2>1, <5>1 DEF Reaches, Closed
        <5> QED BY <3>1, <4>1, <5>1, <5>2 DEF Ahead, Passing
      <4>3. CASE ~Registered(blk["life"])
        <5>1. pc'["life"] = "pass_block" /\ blk'["life"] = next[blk["life"]]
          BY <1>0, <3>4, <4>1, <4>3 DEF PassBlock, Goto
        <5>2. e[1] # blk["life"]
          BY <2>3, <4>3
        <5> QED BY <2>1, <3>1, <4>1, <5>1, <5>2, AheadBlock
      <4> QED BY <4>2, <4>3
    <3>5. CASE t = "life" /\ PassEntry(t)
      <4>1. /\ pc["life"] = "pass_entry" /\ local["life"] \in 0 .. Count
            /\ blk["life"] \in Blocks
        BY <1>0, <3>5 DEF PassEntry, TypeInv, CursorInv
      <4>2. CASE local["life"] = Count
        <5>1. /\ pc'["life"] = "pass_block" /\ blk'["life"] = next[blk["life"]]
              /\ local'["life"] = 0
          BY <1>0, <3>5, <4>2 DEF PassEntry, Goto
        <5>2. e[1] # blk["life"]
          BY <3>1, <4>1, <4>2 DEF Ahead
        <5> QED BY <2>1, <3>1, <4>1, <5>1, <5>2, AheadBlock
      <4>3. CASE local["life"] # Count
        <5>1. /\ ~dirty[Here("life")] /\ pc'["life"] = "pass_entry"
              /\ local' = [local EXCEPT !["life"] = @ + 1]
              /\ blk' = blk
          <6>1. ~(pc' = [pc EXCEPT !["life"] = "pass_write"])
            BY <1>0, <3>5
          <6> QED BY <1>0, <3>5, <4>1, <4>3, <6>1 DEF PassEntry, AtBound, Goto
        <5>2. \A u \in Threads : pc[u] # "pass_fail"
          BY <1>0, <4>1, WriterAlone DEF Using
        <5>3. e # Here("life")
          BY <2>3, <5>1, <5>2 DEF Waits
        <5> QED BY <2>1, <3>1, <4>1, <5>1, <5>3, AheadOn
      <4> QED BY <4>2, <4>3
    <3> QED BY <1>0, <3>2, <3>3, <3>4, <3>5
  <2>4. pc'["life"] \in Flushing
    BY <1>0, <2>1 DEF Flushing, Passing
  <2>5. \A e \in Entries : entry'[e] >= entry[e]
    BY <1>0, <2>1, FlushNat
  <2> QED BY <1>0, <2>1, <2>2, <2>3, <2>4, <2>5, OwedFrame
<1> QED BY <1>1, <1>2

\* Every step keeps what a flush owes saved or ahead of it.
LEMMA OwedNext ==
    ASSUME Ground, WriteInv, StoredInv, OwedInv, [Next]_vars
    PROVE  OwedInv'
<1> USE ConstantsAssumption
<1>0. /\ pc \in [Threads -> PcNames]
      /\ entry \in [Entries -> Values] /\ dirty \in [Entries -> BOOLEAN]
      /\ owed \in [Ids -> Values]
      /\ TypeInv /\ Threads = {"life", "task"}
  BY DEF Ground, TypeInv, TypeOK, ThreadTypes, ValueTypes, HistoryTypes, Threads
<1>1. CASE Persist \/ Stop
  BY <1>1, OwedBegin
<1>2. CASE ~Persist /\ ~Stop /\ (op \notin {"persist", "stop"} \/ pc["life"] \notin Flushing)
  <2>1. \A id \in Ids : owed'[id] = 0
    BY <1>0, <1>2, OwedSteps DEF OwedInv
  <2> QED BY <1>0, <2>1, OwedNone
<1>3. CASE ~Persist /\ ~Stop /\ op \in {"persist", "stop"} /\ pc["life"] \in Flushing
  \* Steps that leave the threads where they are, or where it does not matter.
  <2>f. ASSUME UNCHANGED <<vol, base, next, record, op, dict, blk, local>>,
               pc'["life"] = pc["life"]
                    \/ (pc["life"] = "stop_cancel" /\ pc'["life"] = "pass_lock"),
               pc'["task"] = pc["task"] \/ {pc["task"], pc'["task"]} \subseteq
                    {"idle", "pass_lock", "task_end"},
               \A e \in Entries : Registered(e[1]) /\ owed'[Id(e)] > 0 =>
                    entry'[e] >= entry[e] /\ (dirty[e] => dirty'[e])
        PROVE  OwedInv'
    <3>1. \A id \in Ids : owed'[id] \in {owed[id], 0}
      BY <1>0, <1>3, OwedSteps
    <3>2. pc'["life"] \in Flushing
      BY <1>3, <2>f DEF Flushing, Passing
    <3>3. \A u \in Threads :
            /\ pc'[u] = "pass_write" <=> pc[u] = "pass_write"
            /\ pc'[u] = "pass_fail" <=> pc[u] = "pass_fail"
            /\ Here(u)' = Here(u)
      BY <1>0, <2>f DEF Here
    <3>4. ASSUME NEW e \in Entries, Ahead(e)
          PROVE  Ahead(e)'
      <4>1. CASE pc'["life"] = pc["life"]
        BY <2>f, <3>4, <4>1, AheadSame
      <4>2. CASE pc'["life"] = "pass_lock"
        BY <4>2 DEF Ahead
      <4> QED BY <2>f, <4>1, <4>2
    <3>5. \A e \in Entries : Waits(e) => Ahead(e)'
      BY <3>4 DEF Waits
    <3> QED BY <1>0, <2>f, <3>1, <3>2, <3>3, <3>5, OwedFrame
  <2>1. ASSUME NEW e \in Entries, Add(e)
        PROVE  OwedInv'
    <3>1. /\ UNCHANGED <<vol, base, next, record, op, dict, blk, local, pc>>
          /\ entry' = [entry EXCEPT ![e] = @ + 1]
          /\ dirty' = [dirty EXCEPT ![e] = TRUE]
      BY <2>1 DEF Add, list, store, cursor
    <3>2. \A f \in Entries : entry'[f] >= entry[f] /\ (dirty[f] => dirty'[f])
      BY <1>0, <3>1, FlushNat
    <3> QED BY <2>f, <3>1, <3>2
  <2>2. ASSUME NEW e \in Entries, NEW v \in Values, Set(e, v)
        PROVE  OwedInv'
    <3>1. /\ UNCHANGED <<vol, base, next, record, op, dict, blk, local, pc>>
          /\ entry' = [entry EXCEPT ![e] = v]
          /\ dirty' = [dirty EXCEPT ![e] = TRUE]
          /\ owed' = [owed EXCEPT ![Id(e)] = 0]
      BY <2>2 DEF Set, list, store, cursor
    <3>2. owed'[Id(e)] = 0
      BY <1>0, <3>1, FlushNat
    <3>3. \A f \in Entries : owed'[Id(f)] > 0 =>
                entry'[f] >= entry[f] /\ (dirty[f] => dirty'[f])
      <4>1. SUFFICES ASSUME NEW f \in Entries, f # e
                     PROVE  entry'[f] >= entry[f] /\ (dirty[f] => dirty'[f])
        BY <3>2
      <4>2. entry'[f] = entry[f] /\ dirty'[f] = dirty[f]
        BY <1>0, <3>1, <4>1
      <4> QED BY <1>0, <4>2, FlushNat
    <3> QED BY <2>f, <3>1, <3>3
  <2>3. CASE StopCancel \/ TaskRun \/ TaskEnd \/ UNCHANGED vars
    <3>1. UNCHANGED <<vol, base, next, record, op, dict, blk, local, entry, dirty>>
      BY <2>3
         DEF StopCancel, TaskRun, TaskEnd, list, values, store, cursor, vars
    <3>2. /\ pc'["life"] = pc["life"]
                \/ (pc["life"] = "stop_cancel" /\ pc'["life"] = "pass_lock")
          /\ pc'["task"] = pc["task"] \/ {pc["task"], pc'["task"]} \subseteq
                {"idle", "pass_lock", "task_end"}
      BY <1>0, <2>3 DEF StopCancel, TaskRun, TaskEnd, Goto, vars
    <3>3. \A e \in Entries : entry'[e] >= entry[e] /\ (dirty[e] => dirty'[e])
      BY <1>0, <3>1, FlushNat
    <3> QED BY <2>f, <3>1, <3>2, <3>3
  <2>4. ASSUME NEW t \in Threads, Pass(t)
        PROVE  OwedInv'
    <3>1. CASE PassWrite(t) \/ PassFail(t)
      BY <1>3, <3>1, OwedWrite
    <3>2. CASE PassLock(t) \/ PassBlock(t) \/ PassEntry(t)
      <4>1. CASE pc'[t] # "pass_write"
        BY <1>3, <3>2, <4>1, OwedPass
      <4>2. CASE pc'[t] = "pass_write"
        <5>1. PassEntry(t)
          BY <1>0, <3>2, <4>2 DEF PassLock, PassBlock, PassReturn, Goto
        <5> QED BY <1>3, <4>2, <5>1, OwedClaim
      <4> QED BY <4>1, <4>2
    <3> QED BY <2>4, <3>1, <3>2 DEF Pass
  <2>5. CASE Crash
    <3>1. owed' = [id \in Ids |-> 0]
      BY <2>5 DEF Crash
    <3> QED BY <1>0, <3>1, OwedNone
  <2>6. ~Calls
    BY <1>3 DEF Calls, Start, Reset, Register, Unregister, Call, Idle, Flushing,
                Passing
  <2>7. LifeStep => StopCancel \/ Pass("life")
    BY <1>3
       DEF LifeStep, StartVolume, StartDone, StopUnload, ResetVolume, ResetZero,
           RegisterLoad, Load, LoadBlock, LoadZero, LoadGet, LoadPut, Flushing,
           Passing
  <2> QED
    BY <1>0, <2>1, <2>2, <2>3, <2>4, <2>5, <2>6, <2>7
       DEF Next, Counting, TaskStep
<1> QED BY <1>1, <1>2, <1>3

\* Nothing is registered, covered or owed at first.
LEMMA FlushInit == Init => FirstInv /\ KeptInv /\ OwedInv
<1> SUFFICES ASSUME Init
             PROVE  FirstInv /\ KeptInv /\ OwedInv
  OBVIOUS
<1>0. TypeInv
  BY TypeInit
<1>1. /\ \A b \in Blocks : ~Registered(b)
      /\ \A t \in Threads : pc[t] = "idle"
      /\ pc["life"] = "idle" /\ op = "none" /\ ~dict
      /\ \A id \in Ids : kept[id] = 0 /\ owed[id] = 0 /\ vol[id].value = 0
  BY DEF Init, Registered, Threads, Empty, NoRecord
<1>2. \A e \in Entries : ~Registered(e[1]) /\ Id(e) \in Ids
  BY <1>0, <1>1, EntryPair, FlushNat
<1>3. FirstInv
  BY <1>1 DEF FirstInv
<1>4. KeptInv
  BY <1>1, <1>2 DEF KeptInv, Up
<1>5. OwedInv
  BY <1>1, <1>2 DEF OwedInv
<1> QED BY <1>3, <1>4, <1>5

\* The application registers its blocks before it starts the store. With a block
\* registered later FlushIsDurable is false (the run of TalliesLate.cfg).
RegisteredFirst == "register_late" \notin Ops

\* A flush is durable: when no block is registered while the store runs, what had
\* been counted when tallies_persist() or tallies_stop() was called is on FLASH
\* once it has returned, and stays there through every pass of the task, restart
\* and power failure; but for a counter that is set, whose write fails before the
\* flush ends, or whose id another counter takes, and until a volume is erased.
THEOREM FlushDurable ==
    ASSUME RegisteredFirst
    PROVE  Spec => []FlushIsDurable
<1> DEFINE Inv == /\ TypeInv /\ Calm /\ ListInv /\ OwnInv
                  /\ LoadInv /\ WriteInv /\ StoredInv
                  /\ FirstInv /\ KeptInv /\ OwedInv
<1>1. Init => Inv
  BY TypeInit, StoreInit, FlushInit
<1>2. Inv /\ [Next]_vars => Inv'
  <2> SUFFICES ASSUME Inv, [Next]_vars
               PROVE  Inv'
    OBVIOUS
  <2>1. Ground
    BY DEF Ground
  <2>2. FirstInv'
    BY <2>1, FirstNext DEF RegisteredFirst
  <2>3. KeptInv'
    BY <2>1, <2>2, KeptNext
  <2>4. OwedInv'
    BY <2>1, OwedNext
  <2>5. /\ TypeInv' /\ Calm' /\ ListInv' /\ OwnInv'
        /\ LoadInv' /\ WriteInv' /\ StoredInv'
    BY <2>1, TypeNext, CallNext, ListNext, OwnNext, LoadNext, StoreNext
  <2> QED BY <2>2, <2>3, <2>4, <2>5
<1>3. Inv => FlushIsDurable
  <2>1. SUFFICES ASSUME Inv
                 PROVE  FlushIsDurable
    OBVIOUS
  <2>2. ASSUME Idle, started, dict, NEW e \in Entries, Registered(e[1])
        PROVE  kept[Id(e)] <= entry[e]
    <3>1. Up /\ Loaded(e)
      BY <2>2 DEF Idle, Up, Loaded, Pending, Loading
    <3> QED BY <2>1, <3>1 DEF KeptInv
  <2> QED BY <2>1, <2>2 DEF KeptInv, FlushIsDurable
<1> QED BY <1>1, <1>2, <1>3, PTL DEF Spec
=============================================================================
