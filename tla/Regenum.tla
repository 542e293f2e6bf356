------------------------------ MODULE Regenum ------------------------------
(***************************************************************************)
(* The registered enumerations of src/regenum.c: a list of types, each a   *)
(* name and a list of named values, and the lookups in it.  The types are  *)
(* registered by one thread, in an order of the application's; nothing     *)
(* locks the list.                                                         *)
(***************************************************************************)
EXTENDS Integers, Sequences, FiniteSets

CONSTANTS
    Enums,      \* the types of the application, by the id it registers them with
    Texts,      \* the texts that names and values are written in
    NotFound    \* E_NOTFOUND

REGENUM_TYPE_ID_MAX == 8191

\* The ids fit and the names in a type are distinct: what the application sees
\* to; regenum_register_type() checks the id alone.
ASSUME EnumsAssumption ==
    /\ DOMAIN Enums \subseteq 0 .. REGENUM_TYPE_ID_MAX
    /\ NotFound \notin Texts
    /\ NotFound \notin Int
    /\ \A id \in DOMAIN Enums :
        /\ Enums[id].type_name \in Texts
        /\ Enums[id].values \in Seq([name: Texts, value: Int])
        /\ \A i, j \in DOMAIN Enums[id].values :
            Enums[id].values[i].name = Enums[id].values[j].name => i = j

VARIABLE types      \* _regenum_head: the ids in the order of the list

\* The first of some places, NotFound of none.
FirstOf(places) ==
    IF places = {} THEN NotFound
    ELSE CHOOSE i \in places : \A j \in places : i <= j

\* regenum_type_by_id_internal()
Registered(id) == \E n \in DOMAIN types : types[n] = id

\* regenum_find_type_internal(): the id of the first type of that name
FindType(type_name) ==
    LET n == FirstOf({i \in DOMAIN types : Enums[types[i]].type_name = type_name})
    IN  IF n = NotFound THEN NotFound ELSE types[n]

\* regenum_register_type(), at the tail; a second type of the same id is refused.
RegisterType(id) ==
    /\ ~Registered(id)
    /\ types' = Append(types, id)

ValuesOf(id) == IF Registered(id) THEN Enums[id].values ELSE <<>>

PlaceOfName(id, name) ==
    FirstOf({i \in DOMAIN ValuesOf(id) : ValuesOf(id)[i].name = name})
PlaceOfValue(id, value) ==
    FirstOf({i \in DOMAIN ValuesOf(id) : ValuesOf(id)[i].value = value})

\* regenum_get_by_id_and_name()
GetByName(id, name) ==
    LET n == PlaceOfName(id, name)
    IN  IF n = NotFound THEN NotFound ELSE ValuesOf(id)[n].value

\* regenum_get_by_id_and_value()
GetByValue(id, value) ==
    LET n == PlaceOfValue(id, value)
    IN  IF n = NotFound THEN NotFound ELSE ValuesOf(id)[n].name

\* Mutant: stays at the last value.
GetNextStay(id, value) ==
    LET s == ValuesOf(id)
        n == PlaceOfValue(id, value)
    IN  IF s = <<>> THEN NotFound
        ELSE IF n = NotFound THEN s[1].value
        ELSE IF n = Len(s) THEN value
        ELSE s[n + 1].value

\* regenum_get_next_by_id(): after the last value, or one that is none of the
\* type's, the first.
GetNext(id, value) ==
    LET s == ValuesOf(id)
        n == PlaceOfValue(id, value)
    IN  IF s = <<>> THEN NotFound
        ELSE IF n = NotFound \/ n = Len(s) THEN s[1].value
        ELSE s[n + 1].value

\* regenum_get_prev_by_id(): before the first, or one that is none, the last.
GetPrev(id, value) ==
    LET s == ValuesOf(id)
        n == PlaceOfValue(id, value)
    IN  IF s = <<>> THEN NotFound
        ELSE IF n = NotFound \/ n = 1 THEN s[Len(s)].value
        ELSE s[n - 1].value

\* The lookups that name the type: regenum_get_by_name() and its like.
NextOfType(type_name, value) ==
    LET id == FindType(type_name)
    IN  IF id = NotFound THEN NotFound ELSE GetNext(id, value)

PrevOfType(type_name, value) ==
    LET id == FindType(type_name)
    IN  IF id = NotFound THEN NotFound ELSE GetPrev(id, value)

----------------------------------------------------------------------------
\* Stepping with next goes round through every value of a type, whether it is
\* found by its id or by its name, prev undoes next and next prev, and from a
\* value that is none of the type's both come to one.  No two values of a type
\* are the same, or next would not get past them.
StepsGoRound ==
    \A n \in DOMAIN types :
        LET id == types[n]
            name == Enums[id].type_name
            s == Enums[id].values
            values == {s[i].value : i \in DOMAIN s}
            step[i \in DOMAIN s] == IF i = 1 THEN s[1].value
                                    ELSE NextOfType(name, step[i - 1])
        IN  FindType(name) = id /\ values # {} /\ Cardinality(values) = Len(s) =>
                /\ {step[i] : i \in DOMAIN s} = values
                /\ \A v \in values :
                    /\ PrevOfType(name, GetNext(id, v)) = v
                    /\ NextOfType(name, GetPrev(id, v)) = v
                /\ {GetNext(id, NotFound), GetPrev(id, NotFound)} \subseteq values
=============================================================================
