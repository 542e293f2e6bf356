--------------------------- MODULE RegistryProofs ---------------------------
(***************************************************************************)
(* Proofs about Registry, for every set of keys, threads and texts, every  *)
(* set of enumerations, and any number of failures.                        *)
(***************************************************************************)
EXTENDS Registry, FiniteSetTheorems, WellFoundedInduction, TLAPS

----------------------------------------------------------------------------
(* Operators.                                                              *)

\* FirstOf finds the least of some places, and NotFound is none of them.
LEMMA FirstOfSome ==
    ASSUME NEW places \in SUBSET Nat, places # {}
    PROVE  /\ FirstOf(places) \in places
           /\ \A j \in places : FirstOf(places) <= j
           /\ FirstOf(places) # NotFound
<1>1. PICK i \in places : \A j \in places : ~ (<<j, i>> \in OpToRel(<, Nat))
  BY WFMin, NatLessThanWellFounded
<1>2. \A j \in places : i <= j
  <2>1. \A j \in places : ~ (j < i)
    BY <1>1, Zenon DEF OpToRel
  <2> QED BY <2>1
<1>3. NotFound \notin places
  <2>1. NotFound \notin Int
    BY EnumsAssumption, Zenon
  <2>2. Nat \subseteq Int
    OBVIOUS
  <2> QED BY <2>1, <2>2, Zenon
<1>4. FirstOf(places) = CHOOSE k \in places : \A j \in places : k <= j
  BY DEF FirstOf
<1> QED BY <1>2, <1>3, <1>4

LEMMA ShortWord ==
    ASSUME NEW n \in Int, 0 <= n, n <= REGISTRY_TYPE_NONE
    PROVE  n \in Words
<1>1. REGISTRY_TYPE_NONE \in Int
  BY DEF REGISTRY_TYPE_NONE
<1> QED BY <1>1, SMT DEF Words

\* A type word has 16 bits, its kind and its id are read back, and it is not
\* the word for "no type".
LEMMA TypeWordParts ==
    ASSUME NEW kind \in 0 .. 6, NEW id \in 0 .. REGENUM_TYPE_ID_MAX
    PROVE  /\ TypeWord(kind, id) \in Words
           /\ GetType(TypeWord(kind, id)) = kind
           /\ GetEnumType(TypeWord(kind, id)) = id
           /\ TypeWord(kind, id) # REGISTRY_TYPE_NONE
<1> DEFINE w == TypeWord(kind, id)
<1>1. w = kind + 8 * id
  BY SMTT(60) DEF TypeWord, REGENUM_TYPE_ID_MAX
<1> HIDE DEF w
<1>2. /\ kind \in Int /\ 0 <= kind /\ kind <= 6
      /\ id \in Int /\ 0 <= id /\ id <= 8191
  BY SMT DEF REGENUM_TYPE_ID_MAX
<1>3. /\ w \in Int /\ 0 <= w /\ w < 65535
      /\ w % 8 = kind
  BY <1>1, <1>2, SMT
<1>4. (w \div 8) % 8192 = id
  <2>1. w \div 8 = id
    BY <1>1, <1>2, SMT
  <2> QED BY <1>2, <2>1, SMT
<1>5. w \in Words
  <2>1. w <= REGISTRY_TYPE_NONE
    BY <1>3, SMT DEF REGISTRY_TYPE_NONE
  <2> QED BY <1>3, <2>1, ShortWord
<1> QED BY <1>3, <1>4, <1>5, SMT DEF w, GetType, GetEnumType, REGISTRY_TYPE_NONE

\* The word of an enumeration is one.
LEMMA EnumWord ==
    ASSUME NEW id \in DOMAIN Enums
    PROVE  /\ TypeWord(REGISTRY_TYPE_ENUM, id) \in Words
           /\ GetType(TypeWord(REGISTRY_TYPE_ENUM, id)) = REGISTRY_TYPE_ENUM
           /\ GetEnumType(TypeWord(REGISTRY_TYPE_ENUM, id)) = id
           /\ TypeWord(REGISTRY_TYPE_ENUM, id) # REGISTRY_TYPE_NONE
<1>1. id \in 0 .. REGENUM_TYPE_ID_MAX
  BY EnumsAssumption, Zenon
<1>2. REGISTRY_TYPE_ENUM \in 0 .. 6
  BY DEF REGISTRY_TYPE_ENUM
<1> QED BY <1>1, <1>2, TypeWordParts, Zenon

LEMMA PlainWords ==
    /\ REGISTRY_TYPE_STRING \in Words
    /\ REGISTRY_TYPE_INT \in Words
    /\ REGISTRY_TYPE_BLOB \in Words
    /\ REGISTRY_TYPE_NONE \in Words
    /\ 0 \in Words
    /\ GetType(REGISTRY_TYPE_STRING) = REGISTRY_TYPE_STRING
    /\ GetType(REGISTRY_TYPE_INT) = REGISTRY_TYPE_INT
    /\ GetType(REGISTRY_TYPE_BLOB) = REGISTRY_TYPE_BLOB
BY SMT DEF Words, GetType, REGISTRY_TYPE_STRING, REGISTRY_TYPE_INT,
           REGISTRY_TYPE_BLOB, REGISTRY_TYPE_NONE

LEMMA WordsAreInts == NotFound \notin Words /\ None \notin Words
<1>1. Words \subseteq Int
  BY SMT DEF Words
<1>2. NotFound \notin Int
  BY EnumsAssumption, Zenon
<1>3. None \notin Int
  BY ConstantsAssumption, Zenon
<1> QED BY <1>1, <1>2, <1>3, Zenon

\* A number that registry_enum_set_value() takes is one of the type's.
LEMMA EnumNumber ==
    ASSUME types \in Seq(DOMAIN Enums), NEW id, NEW n,
           GetByValue(id, n) # NotFound
    PROVE  /\ id \in DOMAIN Enums
           /\ Registered(id)
           /\ \E i \in DOMAIN Enums[id].values : Enums[id].values[i].value = n
<1> DEFINE places == {i \in DOMAIN ValuesOf(id) : ValuesOf(id)[i].value = n}
<1>1. places # {}
  BY DEF GetByValue, PlaceOfValue, FirstOf
<1>2. PICK i \in DOMAIN ValuesOf(id) : ValuesOf(id)[i].value = n
  BY <1>1
<1>3. Registered(id)
  <2>1. DOMAIN << >> = {}
    OBVIOUS
  <2> QED BY <1>2, <2>1 DEF ValuesOf
<1>4. id \in DOMAIN Enums
  BY <1>3 DEF Registered
<1> QED BY <1>2, <1>3, <1>4 DEF ValuesOf

\* What the setters store is well typed.
Storable(v) == v \in Values /\ WellTypedValue(v)

LEMMA StringStorable ==
    ASSUME NEW text \in Texts
    PROVE  Storable(StringSet(text))
BY PlainWords, Zenon DEF StringSet, Value, Storable, Values, WellTypedValue

LEMMA Int32Storable ==
    ASSUME NEW n \in Numbers
    PROVE  Storable(Int32Set(n))
BY PlainWords, Zenon DEF Int32Set, Value, Storable, Values, WellTypedValue

LEMMA BlobStorable ==
    ASSUME NEW text \in Texts
    PROVE  Storable(BlobValueSet(text))
BY PlainWords, Zenon DEF BlobValueSet, Value, Storable, Values, WellTypedValue, Blobs

LEMMA EnumStorable ==
    ASSUME types \in Seq(DOMAIN Enums), NEW id, NEW n,
           EnumSetValue(id, n) # NotFound
    PROVE  Storable(EnumSetValue(id, n))
<1> DEFINE v == [type |-> TypeWord(REGISTRY_TYPE_ENUM, id), data |-> n]
<1>1. GetByValue(id, n) # NotFound /\ EnumSetValue(id, n) = v
  BY DEF EnumSetValue, Value
<1>2. /\ id \in DOMAIN Enums
      /\ \E i \in DOMAIN Enums[id].values : Enums[id].values[i].value = n
  BY <1>1, EnumNumber
<1>3. v.type = TypeWord(REGISTRY_TYPE_ENUM, id) /\ v.data = n
  OBVIOUS
<1>4. WellTypedValue(v)
  BY <1>2, <1>3, Zenon DEF WellTypedValue
<1>5. n \in UNION {{Enums[e].values[i].value : i \in DOMAIN Enums[e].values} :
                     e \in DOMAIN Enums}
  BY <1>2
<1>6. v \in Values
  BY <1>2, <1>5, EnumWord, Zenon DEF Values
<1> QED BY <1>1, <1>4, <1>6 DEF Storable

LEMMA ParseStorable ==
    ASSUME types \in Seq(DOMAIN Enums), NEW word, NEW text \in Texts,
           Parse(word, text) # NotFound
    PROVE  Storable(Parse(word, text))
<1>1. ASSUME NumberSet(word, text) # NotFound
      PROVE  Storable(NumberSet(word, text))
  <2>1. text \in DOMAIN NumberOf
    BY <1>1, Zenon DEF NumberSet
  <2>4. NumberOf[text] \in Numbers
    BY <2>1, TextAssumption, Zenon
  <2>2. CASE GetType(word) = REGISTRY_TYPE_INT
    BY <2>1, <2>2, <2>4, Int32Storable, Zenon DEF NumberSet
  <2>3. CASE GetType(word) # REGISTRY_TYPE_INT
    BY <1>1, <2>1, <2>3, EnumStorable, Zenon DEF NumberSet
  <2> QED BY <2>2, <2>3
<1>2. ASSUME NEW id, EnumSetName(id, text) # NotFound
      PROVE  Storable(EnumSetName(id, text))
  BY <1>2, EnumStorable DEF EnumSetName
<1>3. PICK kind : kind = GetType(word)
  OBVIOUS
<1>4. /\ REGISTRY_TYPE_INT # REGISTRY_TYPE_STRING
      /\ REGISTRY_TYPE_ENUM \notin {REGISTRY_TYPE_STRING, REGISTRY_TYPE_INT}
      /\ REGISTRY_TYPE_BLOB \notin {REGISTRY_TYPE_STRING, REGISTRY_TYPE_INT,
                                    REGISTRY_TYPE_ENUM}
  BY DEF REGISTRY_TYPE_STRING, REGISTRY_TYPE_INT, REGISTRY_TYPE_ENUM,
         REGISTRY_TYPE_BLOB
<1>5. CASE kind = REGISTRY_TYPE_STRING
  <2>1. Parse(word, text) = StringSet(text)
    BY <1>3, <1>5, <1>4 DEF Parse
  <2> QED BY <2>1, StringStorable
<1>6. CASE kind = REGISTRY_TYPE_INT
  <2>1. Parse(word, text) = NumberSet(word, text)
    BY <1>3, <1>6, <1>4 DEF Parse
  <2> QED BY <2>1, <1>1
<1>7. CASE kind = REGISTRY_TYPE_ENUM
  <2>1. Parse(word, text) \in {EnumSetName(GetEnumType(word), text),
                               NumberSet(word, text)}
    BY <1>3, <1>7, <1>4 DEF Parse
  <2> QED BY <2>1, <1>1, <1>2
<1>8. CASE kind = REGISTRY_TYPE_BLOB
  <2>1. Parse(word, text) = BlobValueSet(text)
    BY <1>3, <1>8, <1>4 DEF Parse
  <2> QED BY <2>1, BlobStorable
<1>9. CASE kind \notin {REGISTRY_TYPE_STRING, REGISTRY_TYPE_INT,
                        REGISTRY_TYPE_ENUM, REGISTRY_TYPE_BLOB}
  BY <1>3, <1>9 DEF Parse
<1> QED BY <1>5, <1>6, <1>7, <1>8, <1>9

----------------------------------------------------------------------------
(* The inductive invariant.                                                *)

Keyed  == {"get", "length", "hint", "hinted", "type", "typed", "set", "delete"}
Texted == {"length", "hint", "hinted", "type", "typed"}
Labels == Sections \union {"idle", "hinted", "typed"}

\* A call that is at label has what it needs there.
CallOK(label, c) ==
    /\ c \in Calls
    /\ label \in Keyed => c.key \in Keys
    /\ label \in Texted => c.text \in Texts

ThreadTypes ==
    /\ inst \in BOOLEAN
    /\ mutex \in Threads \union {None, Absent}
    /\ scratch \in [key: Keys \union {None}, value: Values \union {None}]
    /\ pc \in [Threads -> Labels]
    /\ call \in [Threads -> Calls]

\* The mutex exists while the registry does, its holder alone is in a section,
\* and the scratch record is the holder's; a set has a storable value in it.
ThreadInv ==
    /\ ThreadTypes
    /\ mutex = Absent <=> ~inst
    /\ ~inst => \A t \in Threads : pc[t] = "idle"
    /\ \A t \in Threads :
        /\ CallOK(pc[t], call[t])
        /\ pc[t] \in Sections => mutex = t /\ scratch.key = call[t].key
        /\ pc[t] = "set" => Storable(scratch.value)

DataInv ==
    /\ types \in Seq(DOMAIN Enums)
    /\ store \in [Keys -> Values \union {None}]
    /\ WellTyped
    /\ it \in Keys \union {None}
    /\ touched \in SUBSET Threads
    /\ walk \in [on: BOOLEAN, due: SUBSET Keys]
    /\ accidents \in 0 .. MaxAccidents

Inv == ThreadInv /\ DataInv

data == <<types, store, it, touched, walk, accidents>>

LEMMA DataFrame ==
    ASSUME DataInv, UNCHANGED data
    PROVE  DataInv'
BY Zenon DEF DataInv, data, WellTyped

\* Taking the mutex.
EnterOK(section, c, v) ==
    /\ section \in Sections
    /\ CallOK(section, c)
    /\ v \in Values \union {None}
    /\ section = "set" => Storable(v)

LEMMA EnterInv ==
    ASSUME Inv, NEW t \in Threads, NEW section, NEW c, NEW v,
           EnterOK(section, c, v), Enter(t, section, c, v)
    PROVE  Inv'
<1>1. /\ mutex = None
      /\ mutex' = t
      /\ pc' = [pc EXCEPT ![t] = section]
      /\ call' = [call EXCEPT ![t] = c]
      /\ scratch' = [key |-> c.key, value |-> v]
      /\ inst' = inst
  BY Zenon DEF Enter, Lock, ScratchSetKey
<1>2. ThreadTypes'
  <2>1. c.key \in Keys \union {None}
    BY DEF EnterOK, CallOK, Calls
  <2>2. section \in Labels /\ c \in Calls /\ v \in Values \union {None}
    BY DEF EnterOK, Labels, CallOK
  <2> QED BY <1>1, <2>1, <2>2 DEF Inv, ThreadInv, ThreadTypes
<1>3. inst
  <2>1. mutex # Absent
    BY <1>1, ConstantsAssumption
  <2> QED BY <2>1 DEF Inv, ThreadInv
<1>4. mutex' # Absent /\ t # None
  BY <1>1, ConstantsAssumption
<1>5. \A u \in Threads : u # t => pc[u] \notin Sections
  BY <1>1, <1>4, ConstantsAssumption DEF Inv, ThreadInv
<1>6. ASSUME NEW u \in Threads
      PROVE  /\ CallOK(pc'[u], call'[u])
             /\ pc'[u] \in Sections => mutex' = u /\ scratch'.key = call'[u].key
             /\ pc'[u] = "set" => Storable(scratch'.value)
  <2>1. CASE u = t
    <3>1. pc'[u] = section /\ call'[u] = c
      BY <1>1, <2>1 DEF Inv, ThreadInv, ThreadTypes
    <3>2. scratch'.key = c.key /\ scratch'.value = v
      BY <1>1
    <3> QED BY <1>1, <2>1, <3>1, <3>2, Zenon DEF EnterOK
  <2>2. CASE u # t
    <3>1. pc'[u] = pc[u] /\ call'[u] = call[u]
      BY <1>1, <2>2 DEF Inv, ThreadInv, ThreadTypes
    <3>2. pc'[u] \notin Sections
      BY <1>5, <2>2, <3>1
    <3>3. pc'[u] # "set"
      BY <3>2 DEF Sections
    <3> QED BY <3>1, <3>2, <3>3, Zenon DEF Inv, ThreadInv
  <2> QED BY <2>1, <2>2
<1>7. ThreadInv'
  <2>1. (mutex = Absent <=> ~inst)'
    BY <1>1, <1>3, <1>4
  <2>2. inst'
    BY <1>1, <1>3
  <2> QED BY <1>2, <1>6, <2>1, <2>2, Zenon DEF ThreadInv
<1>8. DataInv'
  BY DataFrame DEF Enter, data, Inv
<1> QED BY <1>7, <1>8 DEF Inv

\* Giving the mutex back.
LEMMA LeaveInv ==
    ASSUME ThreadInv, NEW t \in Threads, NEW label \in {"idle", "hinted", "typed"},
           NEW c, CallOK(label, c), pc[t] \in Sections,
           Leave(t, label, c), inst' = inst
    PROVE  ThreadInv'
<1>1. /\ mutex' = None
      /\ pc' = [pc EXCEPT ![t] = label]
      /\ call' = [call EXCEPT ![t] = c]
      /\ scratch' = [key |-> None, value |-> None]
  BY Zenon DEF Leave, ScratchSetKey, NoScratch
<1>2. ThreadTypes'
  BY <1>1 DEF ThreadInv, ThreadTypes, CallOK, Labels
<1>3. mutex = t /\ inst /\ mutex' # Absent
  BY <1>1, ConstantsAssumption DEF ThreadInv
<1>4. ASSUME NEW u \in Threads
      PROVE  CallOK(pc'[u], call'[u]) /\ pc'[u] \notin Sections
  <2>1. CASE u = t
    <3>1. pc'[u] = label /\ call'[u] = c
      BY <1>1, <2>1 DEF ThreadInv, ThreadTypes
    <3>2. label \notin Sections
      BY DEF Sections
    <3> QED BY <3>1, <3>2, Zenon
  <2>2. CASE u # t
    <3>1. pc'[u] = pc[u] /\ call'[u] = call[u]
      BY <1>1, <2>2 DEF ThreadInv, ThreadTypes
    <3>2. pc[u] \notin Sections
      BY <1>3, <2>2, Zenon DEF ThreadInv
    <3> QED BY <3>1, <3>2, Zenon DEF ThreadInv
  <2> QED BY <2>1, <2>2
<1>5. \A u \in Threads : pc'[u] # "set"
  BY <1>4 DEF Sections
<1>6. inst' /\ (mutex = Absent <=> ~inst)'
  BY <1>3
<1> QED BY <1>2, <1>4, <1>5, <1>6, Zenon DEF ThreadInv

LEMMA NoCallOK == CallOK("idle", NoCall)
<1>1. NoCall \in Calls
  BY PlainWords DEF NoCall, Calls
<1> QED BY <1>1 DEF CallOK, Keyed, Texted

----------------------------------------------------------------------------
(* Calls that begin.                                                       *)

\* Thread t begins a call; only a call that has asked for the type before sets
\* a value for registry_set_strval() or regadd.
Starts(t) ==
    /\ pc[t] = "idle"
    /\ \E section \in Sections, c \in Calls, v \in Values \union {None} :
        /\ EnterOK(section, c, v)
        /\ section = "set" => c.op = "set"
        /\ section = "type" => c.op = "strval"
        /\ Enter(t, section, c, v)

LEMMA BeginStarts ==
    ASSUME NEW t \in Threads, NEW section \in Sections,
           NEW op \in {"get", "set", "delete", "erase", "repair", "strval",
                       "reg", "regadd", "first", "next"},
           NEW k \in Keys \union {None}, NEW word \in Words,
           NEW text \in Texts \union {NotFound}, NEW v \in Values \union {None},
           section \in Keyed => k \in Keys,
           section \in Texted => text \in Texts,
           section = "set" => Storable(v) /\ op = "set",
           section = "type" => op = "strval",
           pc[t] = "idle",
           Begin(t, section, op, k, word, text, v)
    PROVE  Starts(t)
<1> DEFINE c == [op |-> op, key |-> k, word |-> word, text |-> text]
<1>1. c \in Calls /\ c.key = k /\ c.text = text /\ c.op = op
  BY DEF Calls
<1>2. Enter(t, section, c, v)
  BY Zenon DEF Begin
<1> HIDE DEF c
<1>3. CallOK(section, c)
  BY <1>1, Zenon DEF CallOK
<1>4. EnterOK(section, c, v)
  BY <1>3, Zenon DEF EnterOK
<1> QED BY <1>1, <1>2, <1>4, Zenon DEF Starts

LEMMA GetStarts ==
    ASSUME NEW t \in Threads, NEW k \in Keys, pc[t] = "idle", ValueGet(t, k)
    PROVE  Starts(t)
BY BeginStarts, PlainWords DEF ValueGet, Keyed, Texted, Sections

LEMMA SetStarts ==
    ASSUME NEW t \in Threads, NEW k \in Keys, NEW v, pc[t] = "idle",
           ValueSet(t, k, v), Storable(v)
    PROVE  Starts(t)
<1>1. v \in Values
  BY DEF Storable
<1> QED BY <1>1, BeginStarts, PlainWords DEF ValueSet, Keyed, Texted, Sections

LEMMA DeleteStarts ==
    ASSUME NEW t \in Threads, NEW k \in Keys, pc[t] = "idle", ValueDelete(t, k)
    PROVE  Starts(t)
BY BeginStarts, PlainWords DEF ValueDelete, Keyed, Texted, Sections

LEMMA TextStarts ==
    ASSUME NEW t \in Threads, NEW k \in Keys, NEW word \in Words,
           NEW text \in Texts, pc[t] = "idle",
           \/ SetStrval(t, k, word, text)
           \/ t = Shell /\ (Reg(k, text) \/ Regadd(k, word, text))
    PROVE  Starts(t)
<1>1. CASE SetStrval(t, k, word, text)
  BY <1>1, BeginStarts DEF SetStrval, Keyed, Texted, Sections
<1>2. CASE t = Shell /\ Reg(k, text)
  BY <1>2, BeginStarts, PlainWords DEF Reg, Keyed, Texted, Sections
<1>3. CASE t = Shell /\ Regadd(k, word, text)
  BY <1>3, BeginStarts DEF Regadd, Keyed, Texted, Sections
<1> QED BY <1>1, <1>2, <1>3

LEMMA PlainStarts ==
    ASSUME pc[Shell] = "idle",
           \/ RegistryErase(Shell) \/ RegistryRepair(Shell)
           \/ RegistryFirst \/ RegistryNext
    PROVE  Starts(Shell)
<1> USE ConstantsAssumption, BeginStarts, PlainWords DEF Keyed, Texted, Sections
<1>1. CASE RegistryErase(Shell)
  BY <1>1 DEF RegistryErase
<1>2. CASE RegistryRepair(Shell)
  BY <1>2 DEF RegistryRepair
<1>3. CASE RegistryFirst
  BY <1>3 DEF RegistryFirst
<1>4. CASE RegistryNext
  BY <1>4 DEF RegistryNext
<1> QED BY <1>1, <1>2, <1>3, <1>4

\* The name of a registered type is found, and regadd makes a word of its id.
LEMMA ArgWordsAreWords ==
    ASSUME types \in Seq(DOMAIN Enums)
    PROVE  ArgWords \subseteq Words
<1>1. ASSUME NEW n \in DOMAIN types
      PROVE  FindType(Enums[types[n]].type_name) \in DOMAIN Enums
  <2> DEFINE name == Enums[types[n]].type_name
             places == {i \in DOMAIN types : Enums[types[i]].type_name = name}
  <2>1. places # {} /\ places \in SUBSET Nat
    BY <1>1
  <2>2. FirstOf(places) \in places /\ FirstOf(places) # NotFound
    BY <2>1, FirstOfSome
  <2>3. FindType(name) = types[FirstOf(places)]
    BY <2>2, Zenon DEF FindType
  <2> QED BY <2>2, <2>3
<1>2. ASSUME NEW w \in ArgWords
      PROVE  w \in Words
  <2>1. CASE w \in {REGISTRY_TYPE_STRING, REGISTRY_TYPE_INT}
    BY <2>1, PlainWords
  <2>2. CASE w \notin {REGISTRY_TYPE_STRING, REGISTRY_TYPE_INT}
    <3>1. PICK id \in {types[n] : n \in DOMAIN types} :
            w = TypeWord(REGISTRY_TYPE_ENUM, FindType(Enums[id].type_name))
      BY <2>2, <1>2, Zenon DEF ArgWords
    <3> QED BY <3>1, <1>1, EnumWord, Zenon
  <2> QED BY <2>1, <2>2
<1> QED BY <1>2

LEMMA CommandStarts ==
    ASSUME Inv, Ready(Shell), Command
    PROVE  Starts(Shell)
<1>1. Shell \in Threads /\ pc[Shell] = "idle"
  BY ConstantsAssumption DEF Ready
<1>2. ArgWords \subseteq Words
  BY ArgWordsAreWords DEF Inv, DataInv
<1>3. ASSUME NEW k \in Keys, ValueDelete(Shell, k) \/ ValueGet(Shell, k)
      PROVE  Starts(Shell)
  BY <1>1, <1>3, DeleteStarts, GetStarts, Zenon
<1>4. ASSUME NEW k \in Keys, NEW text \in Texts, Reg(k, text)
      PROVE  Starts(Shell)
  BY <1>1, <1>4, PlainWords, TextStarts, Zenon
<1>5. ASSUME NEW k \in Keys, NEW text \in Texts, NEW word \in ArgWords,
             Regadd(k, word, text)
      PROVE  Starts(Shell)
  BY <1>1, <1>2, <1>5, TextStarts, Zenon
<1> QED BY <1>1, <1>3, <1>4, <1>5, PlainStarts, Zenon DEF Command

LEMMA CallStarts ==
    ASSUME Inv, NEW t \in Threads, Ready(t), Call(t)
    PROVE  Starts(t)
<1>1. pc[t] = "idle" /\ types \in Seq(DOMAIN Enums)
  BY DEF Ready, Inv, DataInv
<1>2. PICK k \in Keys :
        \/ ValueGet(t, k) \/ ValueDelete(t, k)
        \/ \E text \in Texts :
            \/ ValueSet(t, k, StringSet(text))
            \/ ValueSet(t, k, BlobValueSet(text))
            \/ \E id \in DOMAIN Enums : ValueSet(t, k, EnumSetName(id, text))
            \/ \E word \in Asked : SetStrval(t, k, word, text)
        \/ \E n \in Numbers :
            \/ ValueSet(t, k, Int32Set(n))
            \/ \E id \in DOMAIN Enums : ValueSet(t, k, EnumSetValue(id, n))
  BY Zenon DEF Call
<1>3. CASE ValueGet(t, k) \/ ValueDelete(t, k)
  BY <1>1, <1>3, GetStarts, DeleteStarts, Zenon
<1>4. ASSUME NEW text \in Texts, ValueSet(t, k, StringSet(text))
      PROVE  Starts(t)
  BY <1>1, <1>4, SetStarts, StringStorable, Zenon
<1>5. ASSUME NEW text \in Texts, ValueSet(t, k, BlobValueSet(text))
      PROVE  Starts(t)
  BY <1>1, <1>5, SetStarts, BlobStorable, Zenon
<1>6. ASSUME NEW text \in Texts, NEW id, ValueSet(t, k, EnumSetName(id, text))
      PROVE  Starts(t)
  <2>1. EnumSetName(id, text) # NotFound
    BY <1>6, Zenon DEF ValueSet
  <2>2. Storable(EnumSetName(id, text))
    BY <1>1, <2>1, EnumStorable DEF EnumSetName
  <2> QED BY <1>1, <1>6, <2>2, SetStarts, Zenon
<1>7. ASSUME NEW text \in Texts, NEW word \in Asked, SetStrval(t, k, word, text)
      PROVE  Starts(t)
  BY <1>1, <1>7, ConstantsAssumption, TextStarts
<1>8. ASSUME NEW n \in Numbers, ValueSet(t, k, Int32Set(n))
      PROVE  Starts(t)
  BY <1>1, <1>8, SetStarts, Int32Storable, Zenon
<1>9. ASSUME NEW n, NEW id, ValueSet(t, k, EnumSetValue(id, n))
      PROVE  Starts(t)
  <2>1. EnumSetValue(id, n) # NotFound
    BY <1>9, Zenon DEF ValueSet
  <2> QED BY <1>1, <1>9, <2>1, SetStarts, EnumStorable, Zenon
<1> QED BY <1>2, <1>3, <1>4, <1>5, <1>6, <1>7, <1>8, <1>9, Zenon

\* A call that begins keeps the invariant.
LEMMA StartsInv ==
    ASSUME Inv, NEW t \in Threads, Starts(t)
    PROVE  Inv'
BY EnterInv, Zenon DEF Starts

----------------------------------------------------------------------------
(* Steps with the mutex held.                                              *)

\* A call that returns, or goes on, without touching the volume.
LEMMA ReturnInv ==
    ASSUME Inv, NEW t \in Threads, pc[t] \in Sections, Return(t),
           UNCHANGED <<types, store, inst, accidents>>,
           it' \in Keys \union {None}, walk' \in [on: BOOLEAN, due: SUBSET Keys]
    PROVE  Inv'
<1>1. ThreadInv'
  BY LeaveInv, NoCallOK, Zenon DEF Inv, Return
<1>2. touched' \in SUBSET Threads
  BY DEF Inv, DataInv, Return
<1>3. DataInv'
  BY <1>2, Zenon DEF Inv, DataInv, WellTyped
<1> QED BY <1>1, <1>3 DEF Inv

LEMMA GoOnInv ==
    ASSUME Inv, NEW t \in Threads, pc[t] \in {"length", "type"},
           NEW label \in {"hinted", "typed"}, NEW word \in Words \union {NotFound},
           GoOn(t, label, word),
           UNCHANGED <<types, store, inst, it, walk, accidents>>
    PROVE  Inv'
<1>1. pc[t] \in Sections
  BY DEF Sections
<1>2. CASE word = NotFound
  BY <1>1, <1>2, ReturnInv, Zenon DEF GoOn, Inv, DataInv
<1>3. CASE word # NotFound
  <2> DEFINE c == [call[t] EXCEPT !.word = word]
  <2>1. Leave(t, label, c) /\ UNCHANGED touched
    BY <1>3, Zenon DEF GoOn
  <2>2. call[t] \in Calls /\ call[t].key \in Keys /\ call[t].text \in Texts
    BY Zenon DEF Inv, ThreadInv, ThreadTypes, CallOK, Keyed, Texted
  <2>3. c \in Calls /\ c.key = call[t].key /\ c.text = call[t].text
    BY <1>3, <2>2 DEF Calls
  <2> HIDE DEF c
  <2>4. CallOK(label, c)
    BY <2>2, <2>3, Zenon DEF CallOK
  <2>5. ThreadInv'
    BY <1>1, <2>1, <2>4, LeaveInv, Zenon DEF Inv
  <2>6. DataInv'
    BY <2>1, DataFrame DEF Inv, data
  <2> QED BY <2>5, <2>6 DEF Inv
<1> QED BY <1>2, <1>3

\* What is found in a section is a value of the volume.
LEMMA FoundValue ==
    ASSUME Inv, NEW t \in Threads, pc[t] \in Sections \intersect Keyed
    PROVE  /\ scratch.key = call[t].key
           /\ call[t].key \in Keys
           /\ Found = store[call[t].key]
           /\ Found \in Values \union {None}
<1>1. scratch.key = call[t].key /\ call[t].key \in Keys
  BY Zenon DEF Inv, ThreadInv, CallOK
<1> QED BY <1>1 DEF Inv, DataInv, Found

LEMMA GetStep ==
    ASSUME Inv, NEW t \in Threads, Get(t)
    PROVE  Inv'
<1>1. pc[t] \in Sections
  BY DEF Get, Sections
<1> QED BY <1>1, ReturnInv, Zenon DEF Get, Inv, DataInv

LEMMA LengthStep ==
    ASSUME Inv, NEW t \in Threads, Length(t)
    PROVE  Inv'
<1>1. pc[t] \in {"length", "type"} /\ call[t].word \in Words
  BY DEF Length, Inv, ThreadInv, ThreadTypes, Calls
<1> QED BY <1>1, GoOnInv, Zenon DEF Length

LEMMA WordForWords ==
    ASSUME NEW stored \in Words \union {None}, NEW word \in Words
    PROVE  WordFor(stored, word) \in Words \union {NotFound}
BY DEF WordFor

LEMMA ValueTypeWords ==
    ASSUME NEW v \in Values \union {None}
    PROVE  ValueType(v) \in Words \union {None}
BY DEF ValueType, Values

LEMMA TypeStep ==
    ASSUME Inv, NEW t \in Threads, Type(t)
    PROVE  Inv'
<1>1. pc[t] = "type" /\ pc[t] \in Sections \intersect Keyed
  BY DEF Type, Sections, Keyed
<1>2. call[t].word \in Words
  BY DEF Inv, ThreadInv, ThreadTypes, Calls
<1>3. WordFor(ValueType(Found), call[t].word) \in Words \union {NotFound}
  BY <1>1, <1>2, FoundValue, ValueTypeWords, WordForWords, Zenon
<1> QED BY <1>1, <1>3, GoOnInv, Zenon DEF Type

LEMMA HintStep ==
    ASSUME Inv, NEW t \in Threads, Hint(t)
    PROVE  Inv'
<1> DEFINE word == IF ValueType(Found) = None THEN REGISTRY_TYPE_NONE
                   ELSE ValueType(Found)
           c == [call[t] EXCEPT !.op = "strval", !.word = word]
<1>1. pc[t] = "hint" /\ pc[t] \in Sections \intersect Keyed
  BY DEF Hint, Sections, Keyed
<1>2. word \in Words
  <2>1. ValueType(Found) \in Words \union {None}
    BY <1>1, FoundValue, ValueTypeWords, Zenon
  <2> QED BY <2>1, PlainWords, Zenon
<1>3. call[t] \in Calls /\ call[t].key \in Keys /\ call[t].text \in Texts
  BY <1>1, Zenon DEF Inv, ThreadInv, ThreadTypes, CallOK, Keyed, Texted
<1>4. Leave(t, "hinted", c) /\ UNCHANGED data /\ inst' = inst
  BY Zenon DEF Hint, data
<1> HIDE DEF word
<1>5. c \in Calls /\ c.key = call[t].key /\ c.text = call[t].text
  BY <1>2, <1>3 DEF Calls
<1> HIDE DEF c
<1>6. CallOK("hinted", c)
  BY <1>3, <1>5, Zenon DEF CallOK
<1>7. ThreadInv'
  BY <1>1, <1>4, <1>6, LeaveInv, Zenon DEF Inv
<1> QED BY <1>4, <1>7, DataFrame, Zenon DEF Inv

LEMMA HintedStep ==
    ASSUME Inv, NEW t \in Threads, Hinted(t)
    PROVE  Inv'
<1>1. pc[t] = "hinted" /\ Enter(t, "type", call[t], None)
  BY Zenon DEF Hinted
<1>2. EnterOK("type", call[t], None)
  <2>1. CallOK("hinted", call[t])
    BY <1>1, Zenon DEF Inv, ThreadInv
  <2>2. CallOK("type", call[t])
    BY <2>1 DEF CallOK, Keyed, Texted
  <2> QED BY <2>2 DEF EnterOK, Sections
<1> QED BY <1>1, <1>2, EnterInv, Zenon

\* Thread t goes back to idle without the mutex.
LEMMA TypedStep ==
    ASSUME Inv, NEW t \in Threads, Typed(t)
    PROVE  Inv'
<1> DEFINE v == Parse(call[t].word, call[t].text)
           c == [call[t] EXCEPT !.word = 0, !.text = NotFound]
<1>1. pc[t] = "typed" /\ types \in Seq(DOMAIN Enums)
  BY DEF Typed, Inv, DataInv
<1>2. call[t] \in Calls /\ call[t].key \in Keys /\ call[t].text \in Texts
  BY <1>1, Zenon DEF Inv, ThreadInv, ThreadTypes, CallOK, Keyed, Texted
<1>3. CASE v # NotFound
  <2>1. Storable(v) /\ v \in Values
    BY <1>1, <1>2, <1>3, ParseStorable DEF Storable
  <2>2. Enter(t, "set", c, v)
    BY <1>3, Zenon DEF Typed
  <2> HIDE DEF v
  <2>3. c \in Calls /\ c.key = call[t].key
    BY <1>2, PlainWords DEF Calls
  <2> HIDE DEF c
  <2>4. CallOK("set", c)
    BY <1>2, <2>3 DEF CallOK, Texted
  <2>5. EnterOK("set", c, v)
    BY <2>1, <2>4 DEF EnterOK, Sections
  <2> QED BY <2>2, <2>5, EnterInv
<1>4. CASE v = NotFound
  <2>1. /\ pc' = [pc EXCEPT ![t] = "idle"]
        /\ call' = [call EXCEPT ![t] = NoCall]
        /\ touched' = touched \ {t}
        /\ UNCHANGED <<types, store, inst, mutex, scratch, it, walk, accidents>>
    BY <1>4, Zenon DEF Typed
  <2>2. NoCall \in Calls
    BY NoCallOK, Zenon DEF CallOK
  <2>3. ThreadTypes'
    BY <2>1, <2>2 DEF Inv, ThreadInv, ThreadTypes, Labels
  <2>4. ASSUME NEW u \in Threads
        PROVE  \/ pc'[u] = "idle" /\ call'[u] = NoCall
               \/ pc'[u] = pc[u] /\ call'[u] = call[u]
    BY <2>1 DEF Inv, ThreadInv, ThreadTypes
  <2>5. ThreadInv'
    <3>1. inst
      BY <1>1, Zenon DEF Inv, ThreadInv
    <3>2. inst' = inst /\ mutex' = mutex /\ scratch' = scratch
      BY <2>1
    <3>3. "idle" \notin Sections /\ "idle" # "set"
      BY DEF Sections
    <3> QED BY <2>3, <2>4, <3>1, <3>2, <3>3, NoCallOK, Zenon DEF Inv, ThreadInv
  <2>6. DataInv'
    <3>1. touched' \in SUBSET Threads
      BY <2>1 DEF Inv, DataInv
    <3> QED BY <2>1, <3>1, Zenon DEF Inv, DataInv, WellTyped
  <2> QED BY <2>5, <2>6 DEF Inv
<1> QED BY <1>3, <1>4

----------------------------------------------------------------------------
(* Steps that change the volume.                                           *)

\* A volume of which every value is storable.
StoreOK(s) ==
    /\ s \in [Keys -> Values \union {None}]
    /\ \A k \in Keys : s[k] # None => WellTypedValue(s[k])

LEMMA StoreIsOK ==
    ASSUME Inv
    PROVE  StoreOK(store)
BY Zenon DEF Inv, DataInv, WellTyped, StoreOK

LEMMA StoreSet ==
    ASSUME Inv, NEW k \in Keys, NEW v, Storable(v)
    PROVE  StoreOK([store EXCEPT ![k] = v])
<1> DEFINE s == [store EXCEPT ![k] = v]
<1>1. s \in [Keys -> Values \union {None}]
  BY DEF Inv, DataInv, Storable
<1>2. ASSUME NEW m \in Keys
      PROVE  s[m] = IF m = k THEN v ELSE store[m]
  BY DEF Inv, DataInv
<1> HIDE DEF s
<1>3. \A m \in Keys : s[m] # None => WellTypedValue(s[m])
  BY <1>2, Zenon DEF Inv, DataInv, WellTyped, Storable
<1>4. StoreOK(s)
  BY <1>1, <1>3, Zenon DEF StoreOK
<1> QED BY <1>4 DEF s

LEMMA StoreDelete ==
    ASSUME Inv, NEW k \in Keys
    PROVE  StoreOK([store EXCEPT ![k] = None])
<1> DEFINE s == [store EXCEPT ![k] = None]
<1>1. s \in [Keys -> Values \union {None}]
  BY DEF Inv, DataInv
<1>2. ASSUME NEW m \in Keys
      PROVE  s[m] = IF m = k THEN None ELSE store[m]
  BY DEF Inv, DataInv
<1> HIDE DEF s
<1>3. \A m \in Keys : s[m] # None => WellTypedValue(s[m])
  BY <1>2, Zenon DEF Inv, DataInv, WellTyped
<1>4. StoreOK(s)
  BY <1>1, <1>3, Zenon DEF StoreOK
<1> QED BY <1>4 DEF s

LEMMA StoreErase == StoreOK([k \in Keys |-> None])
BY DEF StoreOK

\* A section that changes the volume, or fails to.
LEMMA ChangeInv ==
    ASSUME Inv, NEW t \in Threads, pc[t] \in Sections, NEW effect, StoreOK(effect),
           Outcome(effect), NEW freed, WalkOver(freed), ReturnChanged(t),
           UNCHANGED <<types, inst>>
    PROVE  Inv'
<1>1. StoreOK(store')
  BY StoreIsOK, Zenon DEF Outcome
<1>2. accidents' \in 0 .. MaxAccidents
  BY ConstantsAssumption DEF Outcome, Inv, DataInv
<1>3. it' \in Keys \union {None} /\ walk' \in [on: BOOLEAN, due: SUBSET Keys]
  <2>1. /\ it \in Keys \union {None}
        /\ walk \in [on: BOOLEAN, due: SUBSET Keys]
        /\ walk.due \subseteq Keys
    BY DEF Inv, DataInv
  <2>2. CASE it = None
    BY <2>1, <2>2, Zenon DEF WalkOver
  <2>3. CASE it # None /\ it \in freed
    <3>1. it' = None /\ walk' = [on |-> TRUE, due |-> {}]
      BY <2>3, Zenon DEF WalkOver, WalkDue
    <3> QED BY <3>1
  <2>4. CASE it # None /\ it \notin freed
    <3> DEFINE due == {k \in walk.due : store'[k] # None /\ ~Empty(store'[k])}
    <3>1. it' = it /\ walk' = [on |-> TRUE, due |-> due]
      BY <2>4, Zenon DEF WalkOver, WalkDue
    <3>2. due \in SUBSET Keys
      BY <2>1
    <3> HIDE DEF due
    <3> QED BY <2>1, <3>1, <3>2
  <2> QED BY <2>2, <2>3, <2>4
<1>4. touched' \in SUBSET Threads
  BY DEF ReturnChanged, Inv, DataInv
<1>5. ThreadInv'
  BY LeaveInv, NoCallOK, Zenon DEF Inv, ReturnChanged
<1>6. DataInv'
  BY <1>1, <1>2, <1>3, <1>4, Zenon DEF Inv, DataInv, WellTyped, StoreOK
<1> QED BY <1>5, <1>6 DEF Inv

LEMMA SetStep ==
    ASSUME Inv, NEW t \in Threads, Set(t)
    PROVE  Inv'
<1>1. pc[t] = "set" /\ pc[t] \in Sections \intersect Keyed
  BY DEF Set, Sections, Keyed
<1>2. Storable(scratch.value) /\ scratch.key \in Keys
  BY <1>1, FoundValue, Zenon DEF Inv, ThreadInv
<1>3. StoreOK([store EXCEPT ![scratch.key] = scratch.value])
  BY <1>2, StoreSet
<1>4. PICK swap \in BOOLEAN : WalkOver(Replaced(swap))
  BY Zenon DEF Set
<1> QED BY <1>1, <1>3, <1>4, ChangeInv, Zenon DEF Set

LEMMA DeleteStep ==
    ASSUME Inv, NEW t \in Threads, Delete(t)
    PROVE  Inv'
<1>1. pc[t] \in Sections \intersect Keyed
  BY DEF Delete, Sections, Keyed
<1>2. StoreOK([store EXCEPT ![scratch.key] = None])
  BY <1>1, FoundValue, StoreDelete
<1> QED BY <1>1, <1>2, ChangeInv, Zenon DEF Delete

LEMMA EraseStep ==
    ASSUME Inv, NEW t \in Threads, Erase(t)
    PROVE  Inv'
<1>1. pc[t] \in Sections
  BY DEF Erase, Sections
<1> QED BY <1>1, StoreErase, ChangeInv, Zenon DEF Erase

LEMMA RepairStep ==
    ASSUME Inv, NEW t \in Threads, Repair(t)
    PROVE  Inv'
<1>1. pc[t] \in Sections
  BY DEF Repair, Sections
<1> QED BY <1>1, StoreIsOK, ChangeInv, Zenon DEF Repair

----------------------------------------------------------------------------
(* Enumeration, and the application.                                       *)

NoWalks == NoWalk \in [on: BOOLEAN, due: SUBSET Keys]

LEMMA NoWalkIsOne == NoWalks
BY DEF NoWalks, NoWalk

LEMMA LeastKey ==
    ASSUME NEW keys \in SUBSET Keys, keys # {}
    PROVE  Least(keys) \in keys /\ \A k \in keys : Least(keys) <= k
<1>1. keys \in SUBSET Nat
  BY ConstantsAssumption
<1> QED BY <1>1, FirstOfSome, Zenon DEF Least

LEMMA ComeToTypes ==
    ASSUME Inv, NEW k \in Keys, NEW due \in SUBSET Keys, ComeTo(k, due)
    PROVE  it' \in Keys \union {None} /\ walk' \in [on: BOOLEAN, due: SUBSET Keys]
<1>1. CASE Empty(store[k])
  BY <1>1, NoWalkIsOne, Zenon DEF ComeTo, NoWalks
<1>2. CASE ~Empty(store[k])
  <2>1. it' = k /\ walk' = [on |-> TRUE, due |-> due \ {k}]
    BY <1>2, Zenon DEF ComeTo, WalkDue
  <2> QED BY <2>1
<1> QED BY <1>1, <1>2

LEMMA FirstStep ==
    ASSUME Inv, NEW t \in Threads, First(t)
    PROVE  Inv'
<1>1. pc[t] \in Sections
  BY DEF First, Sections
<1>2. Present \in SUBSET Keys
  BY DEF Present
<1>3. CASE Present = {}
  BY <1>1, <1>3, NoWalkIsOne, ReturnInv, Zenon DEF First, ComeToEnd, NoWalks
<1>4. CASE Present # {}
  <2> DEFINE due == {k \in Present : ~Empty(store[k])}
  <2>1. ComeTo(Least(Present), due)
    BY <1>4, Zenon DEF First
  <2>2. Least(Present) \in Keys /\ due \in SUBSET Keys
    BY <1>2, <1>4, LeastKey
  <2> HIDE DEF due
  <2>3. it' \in Keys \union {None} /\ walk' \in [on: BOOLEAN, due: SUBSET Keys]
    BY <2>1, <2>2, ComeToTypes
  <2> QED BY <1>1, <2>3, ReturnInv, Zenon DEF First
<1> QED BY <1>3, <1>4

LEMMA NextRecordStep ==
    ASSUME Inv, NEW t \in Threads, NextRecord(t)
    PROVE  Inv'
<1> DEFINE after == {k \in Present : k > it}
<1>1. pc[t] \in Sections
  BY DEF NextRecord, Sections
<1>2. after \in SUBSET Keys /\ walk.due \in SUBSET Keys
  BY DEF Present, Inv, DataInv
<1>3. /\ IF after = {} THEN ComeToEnd ELSE ComeTo(Least(after), walk.due)
      /\ Return(t)
      /\ UNCHANGED <<types, store, inst, accidents>>
  BY Zenon DEF NextRecord
<1> HIDE DEF after
<1>4. it' \in Keys \union {None} /\ walk' \in [on: BOOLEAN, due: SUBSET Keys]
  <2>1. CASE after = {}
    BY <1>3, <2>1, NoWalkIsOne DEF ComeToEnd, NoWalks
  <2>2. CASE after # {}
    <3>1. Least(after) \in Keys
      BY <1>2, <2>2, LeastKey
    <3> QED BY <1>2, <1>3, <2>2, <3>1, ComeToTypes, Zenon
  <2> QED BY <2>1, <2>2
<1> QED BY <1>1, <1>3, <1>4, ReturnInv, Zenon

LEMMA NextDanglingStep ==
    ASSUME Inv, NEW t \in Threads, NextDangling(t)
    PROVE  Inv'
<1>1. pc[t] \in Sections
  BY DEF NextDangling, Sections
<1>2. it' \in Keys \union {None} /\ walk' \in [on: BOOLEAN, due: SUBSET Keys]
  BY NoWalkIsOne, Zenon DEF NextDangling, ComeToEnd, NoWalks, Inv, DataInv
<1> QED BY <1>1, <1>2, ReturnInv, Zenon DEF NextDangling

LEMMA ThreadFrame ==
    ASSUME ThreadInv, UNCHANGED <<inst, mutex, scratch, pc, call>>
    PROVE  ThreadInv'
BY Zenon DEF ThreadInv, ThreadTypes

LEMMA RegisterStep ==
    ASSUME Inv, NEW id \in DOMAIN Enums, Register(id)
    PROVE  Inv'
<1>1. types' \in Seq(DOMAIN Enums)
  BY DEF Register, RegisterType, Inv, DataInv
<1>2. ThreadInv'
  BY ThreadFrame, Zenon DEF Register, threads, Inv
<1>3. DataInv'
  BY <1>1, Zenon DEF Register, Inv, DataInv, WellTyped
<1> QED BY <1>2, <1>3 DEF Inv

\* Every thread is idle, and the mutex is free or deleted.
LEMMA IdleInv ==
    ASSUME ThreadInv, \A t \in Threads : pc[t] = "idle",
           inst' \in BOOLEAN, mutex' = IF inst' THEN None ELSE Absent,
           UNCHANGED <<scratch, pc, call>>
    PROVE  ThreadInv'
<1>1. ThreadTypes'
  BY Zenon DEF ThreadInv, ThreadTypes
<1>2. mutex' = Absent <=> ~inst'
  BY ConstantsAssumption
<1>3. "idle" \notin Sections /\ "idle" # "set"
  BY DEF Sections
<1> QED BY <1>1, <1>2, <1>3, Zenon DEF ThreadInv

LEMMA StartStep ==
    ASSUME Inv, Start
    PROVE  Inv'
<1>1. ThreadInv'
  BY IdleInv, Zenon DEF Start, threads, Inv, ThreadInv
<1>2. DataInv'
  BY DataFrame DEF Start, data, Inv
<1> QED BY <1>1, <1>2 DEF Inv

LEMMA StopStep ==
    ASSUME Inv, Stop
    PROVE  Inv'
<1>1. ThreadInv'
  BY IdleInv, Zenon DEF Stop, threads, Inv
<1>2. DataInv'
  BY DataFrame DEF Stop, data, Inv
<1> QED BY <1>1, <1>2 DEF Inv

LEMMA PowerFailureStep ==
    ASSUME Inv, PowerFailure
    PROVE  Inv'
<1>1. StoreOK(store')
  <2>1. CASE store' = store
    BY <2>1, StoreIsOK
  <2>2. ASSUME NEW t \in Threads, pc[t] = "set",
               store' = [store EXCEPT ![scratch.key] = scratch.value]
        PROVE  StoreOK(store')
    <3>1. pc[t] \in Sections \intersect Keyed
      BY <2>2 DEF Sections, Keyed
    <3>2. Storable(scratch.value) /\ scratch.key \in Keys
      BY <2>2, <3>1, FoundValue, Zenon DEF Inv, ThreadInv
    <3> QED BY <2>2, <3>2, StoreSet
  <2>3. ASSUME NEW t \in Threads, pc[t] = "delete",
               store' = [store EXCEPT ![scratch.key] = None]
        PROVE  StoreOK(store')
    <3>1. pc[t] \in Sections \intersect Keyed
      BY <2>3 DEF Sections, Keyed
    <3> QED BY <2>3, <3>1, FoundValue, StoreDelete
  <2>4. CASE store' = [k \in Keys |-> None]
    BY <2>4, StoreErase
  <2>5. \/ store' = store
        \/ \E t \in Threads :
            /\ pc[t] \in {"set", "delete"}
            /\ store' = [store EXCEPT ![scratch.key] =
                            IF pc[t] = "set" THEN scratch.value ELSE None]
        \/ store' = [k \in Keys |-> None]
    BY Zenon DEF PowerFailure
  <2>6. ASSUME NEW t \in Threads, pc[t] \in {"set", "delete"},
               store' = [store EXCEPT ![scratch.key] =
                            IF pc[t] = "set" THEN scratch.value ELSE None]
        PROVE  StoreOK(store')
    <3>1. CASE pc[t] = "set"
      BY <2>2, <2>6, <3>1, Zenon
    <3>2. CASE pc[t] # "set"
      BY <2>3, <2>6, <3>2, Zenon
    <3> QED BY <3>1, <3>2
  <2> QED BY <2>1, <2>4, <2>5, <2>6
<1>2. /\ types' = <<>> /\ it' = None /\ walk' = NoWalk /\ touched' = {}
      /\ ~inst' /\ inst' = FALSE /\ mutex' = Absent /\ scratch' = NoScratch
      /\ pc' = [t \in Threads |-> "idle"] /\ call' = [t \in Threads |-> NoCall]
  BY Zenon DEF PowerFailure
<1>3. accidents' \in 0 .. MaxAccidents
  BY ConstantsAssumption DEF PowerFailure, Inv, DataInv
<1>4. DataInv'
  BY <1>1, <1>2, <1>3, NoWalkIsOne DEF DataInv, StoreOK, WellTyped, NoWalks
<1>5. ThreadInv'
  <2>1. NoCall \in Calls
    BY NoCallOK, Zenon DEF CallOK
  <2>2. ThreadTypes'
    BY <1>2, <2>1 DEF ThreadTypes, NoScratch, ScratchSetKey, Labels
  <2>3. \A t \in Threads : pc'[t] = "idle" /\ call'[t] = NoCall
    BY <1>2
  <2>4. "idle" \notin Sections /\ "idle" # "set"
    BY DEF Sections
  <2>5. mutex' = Absent <=> ~inst'
    BY <1>2
  <2> QED BY <2>2, <2>3, <2>4, <2>5, NoCallOK, Zenon DEF ThreadInv
<1> QED BY <1>4, <1>5 DEF Inv

----------------------------------------------------------------------------
(* The invariant.                                                          *)

\* A step of the specification is one of the application as a whole, or of one
\* thread.
LEMMA NextCases ==
    ASSUME Inv, Next
    PROVE  \/ \E id \in DOMAIN Enums : Register(id)
           \/ Start \/ Stop \/ PowerFailure
           \/ \E t \in Threads : Starts(t) \/ Step(t)
<1>1. Shell \in Threads
  BY ConstantsAssumption
<1> QED BY <1>1, CommandStarts, CallStarts, Zenon DEF Next

LEMMA StepInv ==
    ASSUME Inv, NEW t \in Threads, Step(t)
    PROVE  Inv'
BY GetStep, LengthStep, HintStep, HintedStep, TypeStep, TypedStep, SetStep,
   DeleteStep, EraseStep, RepairStep, FirstStep, NextRecordStep,
   NextDanglingStep, Zenon DEF Step

LEMMA InitInv ==
    ASSUME Init
    PROVE  Inv
<1>1. /\ types = <<>> /\ it = None /\ walk = NoWalk /\ touched = {}
      /\ ~inst /\ inst = FALSE /\ mutex = Absent /\ scratch = NoScratch
      /\ pc = [t \in Threads |-> "idle"] /\ call = [t \in Threads |-> NoCall]
      /\ store = [k \in Keys |-> None]
  BY Zenon DEF Init
<1>2. accidents \in 0 .. MaxAccidents
  BY ConstantsAssumption DEF Init
<1>3. StoreOK(store)
  BY <1>1, StoreErase
<1>4. DataInv
  BY <1>1, <1>2, <1>3, NoWalkIsOne DEF DataInv, StoreOK, WellTyped, NoWalks
<1>5. NoCall \in Calls
  BY NoCallOK, Zenon DEF CallOK
<1>6. ThreadTypes
  BY <1>1, <1>5 DEF ThreadTypes, NoScratch, ScratchSetKey, Labels
<1>7. \A t \in Threads : pc[t] = "idle" /\ call[t] = NoCall
  BY <1>1
<1>8. "idle" \notin Sections /\ "idle" # "set"
  BY DEF Sections
<1>9. mutex = Absent <=> ~inst
  BY <1>1
<1>10. ThreadInv
  BY <1>6, <1>7, <1>8, <1>9, NoCallOK, Zenon DEF ThreadInv
<1> QED BY <1>4, <1>10 DEF Inv

LEMMA NextInv ==
    ASSUME Inv, [Next]_vars
    PROVE  Inv'
<1>1. CASE UNCHANGED vars
  <2>1. UNCHANGED data /\ UNCHANGED <<inst, mutex, scratch, pc, call>>
    BY <1>1, Zenon DEF vars, threads, data
  <2> QED BY <2>1, DataFrame, ThreadFrame, Zenon DEF Inv
<1>2. CASE Next
  BY <1>2, NextCases, RegisterStep, StartStep, StopStep, PowerFailureStep,
     StartsInv, StepInv, Zenon
<1> QED BY <1>1, <1>2

LEMMA InvHolds == Spec => []Inv
<1>1. Init => Inv
  BY InitInv
<1>2. Inv /\ [Next]_vars => Inv'
  BY NextInv
<1> QED BY <1>1, <1>2, PTL DEF Spec

\* Every variable keeps its type: registry.c stores no value of an unknown form
\* and goes on with no call that lacks what it needs.
THEOREM TypeCorrect == Spec => []TypeOK
<1>1. Inv => TypeOK
  BY Zenon DEF Inv, ThreadInv, ThreadTypes, DataInv, TypeOK, Labels
<1> QED BY <1>1, InvHolds, PTL

\* The scratch record that all threads share holds, in a section, the key of
\* the thread whose section it is, through any number of calls, failures and
\* restarts.
THEOREM ScratchCorrect == Spec => []ScratchIsOwn
<1>1. Inv => ScratchIsOwn
  BY Zenon DEF Inv, ThreadInv, ScratchIsOwn
<1> QED BY <1>1, InvHolds, PTL

\* Every value in the volume has bytes of its type, and the number of an
\* enumerated one is one of its type's: whatever setter or command stored it,
\* and whatever other threads did between the calls it is made of.
THEOREM ValuesWellTyped == Spec => []WellTyped
<1>1. Inv => WellTyped
  BY DEF Inv, DataInv
<1> QED BY <1>1, InvHolds, PTL

----------------------------------------------------------------------------
(* Printing and setting a value.                                           *)

LEMMA KindsDiffer ==
    /\ REGISTRY_TYPE_INT # REGISTRY_TYPE_STRING
    /\ REGISTRY_TYPE_ENUM # REGISTRY_TYPE_STRING
    /\ REGISTRY_TYPE_ENUM # REGISTRY_TYPE_INT
    /\ REGISTRY_TYPE_BLOB # REGISTRY_TYPE_STRING
    /\ REGISTRY_TYPE_BLOB # REGISTRY_TYPE_INT
    /\ REGISTRY_TYPE_BLOB # REGISTRY_TYPE_ENUM
BY DEF REGISTRY_TYPE_STRING, REGISTRY_TYPE_INT, REGISTRY_TYPE_ENUM,
       REGISTRY_TYPE_BLOB

\* The kinds of a well-typed value.
LEMMA WellTypedKinds ==
    ASSUME NEW v, WellTypedValue(v)
    PROVE  \/ /\ v.type = REGISTRY_TYPE_STRING /\ v.data \in Texts
              /\ GetType(v.type) = REGISTRY_TYPE_STRING
           \/ /\ v.type = REGISTRY_TYPE_INT /\ v.data \in Numbers
              /\ GetType(v.type) = REGISTRY_TYPE_INT
           \/ v.type = REGISTRY_TYPE_BLOB /\ GetType(v.type) = REGISTRY_TYPE_BLOB
           \/ /\ GetType(v.type) = REGISTRY_TYPE_ENUM
              /\ GetEnumType(v.type) \in DOMAIN Enums
              /\ v.type = TypeWord(REGISTRY_TYPE_ENUM, GetEnumType(v.type))
              /\ \E i \in DOMAIN Enums[GetEnumType(v.type)].values :
                    Enums[GetEnumType(v.type)].values[i].value = v.data
BY PlainWords, EnumWord, Zenon DEF WellTypedValue

LEMMA SeqElement ==
    ASSUME NEW S, NEW q \in Seq(S), NEW i \in DOMAIN q
    PROVE  q[i] \in S
OBVIOUS

\* The number that an enumeration has for a value has a name, and that name
\* the number.
LEMMA NameAndNumber ==
    ASSUME NEW id \in DOMAIN Enums, Registered(id), NEW n,
           \E i \in DOMAIN Enums[id].values : Enums[id].values[i].value = n
    PROVE  /\ GetByValue(id, n) \in Texts
           /\ GetByValue(id, n) # NotFound
           /\ GetByName(id, GetByValue(id, n)) = n
           /\ n # NotFound
<1> DEFINE s == Enums[id].values
           ofValue == {i \in DOMAIN s : s[i].value = n}
<1>1. /\ s \in Seq([name: Texts, value: Int])
      /\ NotFound \notin Texts
      /\ \A i, j \in DOMAIN s : s[i].name = s[j].name => i = j
  BY EnumsAssumption, Zenon
<1>2. NotFound \notin Int
  BY EnumsAssumption, Zenon
<1>3. ValuesOf(id) = s
  BY DEF ValuesOf
<1> HIDE DEF s
<1>4. DOMAIN s \in SUBSET Nat
  BY <1>1
<1>5. ofValue # {} /\ ofValue \in SUBSET Nat
  BY <1>4 DEF s
<1>6. PICK i \in ofValue : i = FirstOf(ofValue) /\ i # NotFound
  BY <1>5, FirstOfSome
<1>7. GetByValue(id, n) = s[i].name
  BY <1>3, <1>6 DEF GetByValue, PlaceOfValue
<1>8. s[i].name \in Texts /\ s[i].value = n /\ n \in Int
  <2>1. s[i] \in [name: Texts, value: Int]
    BY <1>1, <1>6, SeqElement, Zenon
  <2>2. s[i].value = n
    BY <1>6
  <2> QED BY <2>1, <2>2
<1> DEFINE ofName == {j \in DOMAIN s : s[j].name = s[i].name}
<1>9. ofName # {} /\ ofName \in SUBSET Nat
  BY <1>4, <1>6
<1>10. FirstOf(ofName) \in ofName /\ FirstOf(ofName) # NotFound
  BY <1>9, FirstOfSome
<1>11. FirstOf(ofName) = i
  BY <1>1, <1>6, <1>10
<1>12. GetByName(id, s[i].name) = s[i].value
  BY <1>3, <1>10, <1>11 DEF GetByName, PlaceOfName
<1> QED BY <1>1, <1>2, <1>7, <1>8, <1>12

LEMMA RoundTrip ==
    ASSUME Inv, NEW v \in Values, WellTypedValue(v),
           GetType(v.type) # REGISTRY_TYPE_BLOB,
           GetType(v.type) = REGISTRY_TYPE_ENUM => Registered(GetEnumType(v.type))
    PROVE  GetStrval(v) # NotFound /\ Parse(v.type, GetStrval(v)) = v
<1>1. v = [type |-> v.type, data |-> v.data]
  BY DEF Values
<1>2. NotFound \notin Texts
  BY EnumsAssumption, Zenon
<1>3. CASE /\ v.type = REGISTRY_TYPE_STRING /\ v.data \in Texts
           /\ GetType(v.type) = REGISTRY_TYPE_STRING
  <2>1. GetStrval(v) = v.data
    BY <1>3, Zenon DEF GetStrval
  <2>2. Parse(v.type, v.data) = StringSet(v.data)
    BY <1>3, KindsDiffer DEF Parse
  <2> QED BY <1>1, <1>2, <1>3, <2>1, <2>2 DEF StringSet, Value
<1>4. CASE /\ v.type = REGISTRY_TYPE_INT /\ v.data \in Numbers
           /\ GetType(v.type) = REGISTRY_TYPE_INT
  <2> DEFINE text == TextOf[v.data]
  <2>1. GetStrval(v) = text
    BY <1>4, KindsDiffer, Zenon DEF GetStrval
  <2>2. text \in DOMAIN NumberOf /\ NumberOf[text] = v.data /\ text \in Texts
    BY <1>4, TextAssumption, Zenon
  <2> HIDE DEF text
  <2>3. Parse(v.type, text) = NumberSet(v.type, text)
    BY <1>4, KindsDiffer DEF Parse
  <2>4. NumberSet(v.type, text) = Int32Set(v.data)
    BY <1>4, <2>2, Zenon DEF NumberSet
  <2> QED BY <1>1, <1>2, <1>4, <2>1, <2>2, <2>3, <2>4 DEF Int32Set, Value
<1>5. CASE /\ GetType(v.type) = REGISTRY_TYPE_ENUM
           /\ GetEnumType(v.type) \in DOMAIN Enums
           /\ v.type = TypeWord(REGISTRY_TYPE_ENUM, GetEnumType(v.type))
           /\ \E i \in DOMAIN Enums[GetEnumType(v.type)].values :
                Enums[GetEnumType(v.type)].values[i].value = v.data
  <2> DEFINE id == GetEnumType(v.type)
             text == GetByValue(id, v.data)
  <2>1. GetStrval(v) = text
    BY <1>5, KindsDiffer, Zenon DEF GetStrval
  <2>2. /\ text \in Texts /\ text # NotFound
        /\ GetByName(id, text) = v.data /\ v.data # NotFound
    BY <1>5, NameAndNumber
  <2>3. EnumSetValue(id, v.data) = Value(v.type, v.data)
    BY <1>5, <2>2, Zenon DEF EnumSetValue
  <2> HIDE DEF text
  <2>4. Parse(v.type, text) = EnumSetName(id, text)
    BY <1>5, <2>2, KindsDiffer DEF Parse
  <2>5. EnumSetName(id, text) = EnumSetValue(id, v.data)
    BY <2>2, Zenon DEF EnumSetName
  <2> QED BY <1>1, <2>1, <2>2, <2>3, <2>4, <2>5, Zenon DEF Value
<1> QED BY <1>3, <1>4, <1>5, WellTypedKinds, Zenon

\* What registry_get_strval() prints of any value but a blob,
\* registry_set_strval() takes for that value, for every set of enumerations
\* with distinct names in each, whatever numbers are among the names.
THEOREM RoundTripCorrect == Spec => []StrvalRoundTrip
<1>1. Inv => StrvalRoundTrip
  <2> SUFFICES ASSUME Inv PROVE StrvalRoundTrip
    OBVIOUS
  <2>1. \A k \in Keys : store[k] # None =>
            store[k] \in Values /\ WellTypedValue(store[k])
    BY DEF Inv, DataInv, WellTyped
  <2> QED BY <2>1, RoundTrip, Zenon DEF StrvalRoundTrip
<1> QED BY <1>1, InvHolds, PTL

----------------------------------------------------------------------------
(* Enumerations.                                                           *)

\* A walk is not affected by a step that leaves it and the volume alone.
LEMMA WalkFrame ==
    ASSUME EnumerationComplete, UNCHANGED <<store, it, walk>>
    PROVE  EnumerationComplete'
BY Zenon DEF EnumerationComplete

LEMMA WalkEnds ==
    ASSUME walk' = NoWalk \/ walk' = WalkDue({})
    PROVE  EnumerationComplete'
BY DEF EnumerationComplete, NoWalk, WalkDue

\* A change of the volume: what it frees or empties is no longer owed.
LEMMA WalkOverComplete ==
    ASSUME EnumerationComplete, NEW freed, WalkOver(freed)
    PROVE  EnumerationComplete'
<1>1. CASE it = None
  <2>1. walk.due = {}
    BY <1>1, Zenon DEF EnumerationComplete
  <2>2. walk' = walk /\ it' = it
    BY <1>1, Zenon DEF WalkOver
  <2> QED BY <2>1, <2>2, Zenon DEF EnumerationComplete
<1>2. CASE it # None /\ it \in freed
  BY <1>2, WalkEnds, Zenon DEF WalkOver
<1>3. CASE it # None /\ it \notin freed
  <2> DEFINE due == {k \in walk.due : store'[k] # None /\ ~Empty(store'[k])}
  <2>1. it' = it /\ walk' = [on |-> TRUE, due |-> due]
    BY <1>3, Zenon DEF WalkOver, WalkDue
  <2>2. walk'.due = due
    BY <2>1
  <2>3. \A k \in due : it # None /\ k > it /\ store'[k] # None
    BY DEF EnumerationComplete
  <2> HIDE DEF due
  <2> QED BY <2>1, <2>2, <2>3, Zenon DEF EnumerationComplete
<1> QED BY <1>1, <1>2, <1>3

\* The iterator comes to the least of the keys before it, which hold all that
\* is owed.
LEMMA ComeToComplete ==
    ASSUME NEW keys \in SUBSET Keys, keys # {}, NEW due \in SUBSET keys,
           \A k \in keys : store'[k] # None,
           ComeTo(Least(keys), due)
    PROVE  EnumerationComplete'
<1> DEFINE least == Least(keys)
<1>1. least \in keys /\ \A k \in keys : least <= k
  BY LeastKey
<1> HIDE DEF least
<1>2. CASE Empty(store[least])
  BY <1>2, WalkEnds, Zenon DEF ComeTo, least
<1>3. CASE ~Empty(store[least])
  <2>1. it' = least /\ walk' = [on |-> TRUE, due |-> due \ {least}]
    BY <1>3, Zenon DEF ComeTo, WalkDue, least
  <2>2. keys \subseteq Nat /\ least # None
    BY <1>1, ConstantsAssumption
  <2>3. \A k \in due \ {least} : k > least
    BY <1>1, <2>2
  <2>4. walk'.due = due \ {least}
    BY <2>1
  <2> QED BY <2>1, <2>2, <2>3, <2>4 DEF EnumerationComplete
<1> QED BY <1>2, <1>3

LEMMA FirstComplete ==
    ASSUME Inv, NEW t \in Threads, First(t)
    PROVE  EnumerationComplete'
<1>1. CASE Present = {}
  BY <1>1, WalkEnds, Zenon DEF First, ComeToEnd
<1>2. CASE Present # {}
  <2> DEFINE due == {k \in Present : ~Empty(store[k])}
  <2>1. ComeTo(Least(Present), due) /\ store' = store
    BY <1>2, Zenon DEF First
  <2>2. Present \in SUBSET Keys /\ due \in SUBSET Present
    BY DEF Present
  <2> HIDE DEF due
  <2>3. \A k \in Present : store'[k] # None
    BY <2>1 DEF Present
  <2> QED BY <1>2, <2>1, <2>2, <2>3, ComeToComplete
<1> QED BY <1>1, <1>2

LEMMA NextRecordComplete ==
    ASSUME Inv, EnumerationComplete, NEW t \in Threads, NextRecord(t)
    PROVE  EnumerationComplete'
<1> DEFINE after == {k \in Present : k > it}
<1>1. /\ IF after = {} THEN ComeToEnd ELSE ComeTo(Least(after), walk.due)
      /\ store' = store
  BY Zenon DEF NextRecord
<1>2. after \in SUBSET Keys /\ \A k \in after : store[k] # None
  BY DEF Present
<1>3. walk.due \in SUBSET after
  BY DEF EnumerationComplete, Present, Inv, DataInv
<1> HIDE DEF after
<1>4. CASE after = {}
  BY <1>1, <1>4, WalkEnds, Zenon DEF ComeToEnd
<1>5. CASE after # {}
  <2>1. \A k \in after : store'[k] # None
    BY <1>1, <1>2, Zenon
  <2> QED BY <1>1, <1>2, <1>3, <1>5, <2>1, ComeToComplete, Zenon
<1> QED BY <1>4, <1>5

LEMMA NextDanglingComplete ==
    ASSUME EnumerationComplete, NEW t \in Threads, NextDangling(t)
    PROVE  EnumerationComplete'
<1>1. CASE ComeToEnd
  BY <1>1, WalkEnds, Zenon DEF ComeToEnd
<1>2. CASE UNCHANGED <<it, walk>>
  BY <1>2, WalkFrame, Zenon DEF NextDangling
<1> QED BY <1>1, <1>2, Zenon DEF NextDangling

LEMMA StepComplete ==
    ASSUME Inv, EnumerationComplete, NEW t \in Threads, Step(t)
    PROVE  EnumerationComplete'
<1>1. CASE Get(t) \/ Length(t) \/ Hint(t) \/ Type(t)
  BY <1>1, WalkFrame, Zenon DEF Get, Length, Hint, Type
<1>2. CASE Hinted(t) \/ Typed(t)
  BY <1>2, WalkFrame, Zenon DEF Hinted, Typed, Enter
<1>3. CASE Set(t) \/ Delete(t) \/ Erase(t) \/ Repair(t)
  BY <1>3, WalkOverComplete, Zenon DEF Set, Delete, Erase, Repair
<1> QED BY <1>1, <1>2, <1>3, FirstComplete, NextRecordComplete,
           NextDanglingComplete, Zenon DEF Step

LEMMA NextComplete ==
    ASSUME Inv, EnumerationComplete, [Next]_vars
    PROVE  EnumerationComplete'
<1>1. CASE UNCHANGED vars
  BY <1>1, WalkFrame, Zenon DEF vars
<1>2. CASE (\E id \in DOMAIN Enums : Register(id)) \/ Start \/ Stop
  BY <1>2, WalkFrame, Zenon DEF Register, Start, Stop
<1>3. CASE PowerFailure
  BY <1>3, WalkEnds, Zenon DEF PowerFailure
<1>4. ASSUME NEW t \in Threads, Starts(t)
      PROVE  EnumerationComplete'
  BY <1>4, WalkFrame, Zenon DEF Starts, Enter
<1> QED BY <1>1, <1>2, <1>3, <1>4, NextCases, StepComplete, Zenon

\* An enumeration reaches every value that it owes its caller, in the order of
\* the keys, for every set of keys, whatever other threads set and delete
\* between its calls, until the entry that it is at is freed.
THEOREM EnumerationCorrect == Spec => []EnumerationComplete
<1>1. Init => EnumerationComplete
  BY DEF Init, EnumerationComplete, NoWalk
<1>2. Inv /\ EnumerationComplete /\ [Next]_vars => EnumerationComplete'
  BY NextComplete
<1> QED BY <1>1, <1>2, InvHolds, PTL DEF Spec

----------------------------------------------------------------------------
(* Calls made of two sections: the value that the first has found, and     *)
(* that the second overwrites.                                             *)

Live(v) == v # None /\ ~Empty(v)

\* Unless another thread has changed the value since: the text is parsed for
\* the type that is stored, and regadd goes on to set no value that exists.
TextOK(t) ==
    t \notin touched =>
        /\ pc[t] = "typed" /\ Live(store[call[t].key]) =>
                call[t].word = store[call[t].key].type
        /\ pc[t] = "set" /\ call[t].op \in {"strval", "regadd"}
            /\ Live(store[call[t].key]) =>
                scratch.value.type = store[call[t].key].type
        /\ pc[t] \in {"hinted", "type", "typed", "set"} /\ call[t].op = "regadd" =>
                ~Live(store[call[t].key])

TextInv == \A t \in Threads : TextOK(t)

\* The text of a value that has its own type, once parsed, has it still.
LEMMA ParseKeepsType ==
    ASSUME NEW v, WellTypedValue(v), NEW text, Parse(v.type, text) # NotFound
    PROVE  Parse(v.type, text).type = v.type
<1>1. ASSUME NEW id, NEW n, EnumSetValue(id, n) # NotFound
      PROVE  EnumSetValue(id, n).type = TypeWord(REGISTRY_TYPE_ENUM, id)
  <2>1. EnumSetValue(id, n) = [type |-> TypeWord(REGISTRY_TYPE_ENUM, id), data |-> n]
    BY <1>1, Zenon DEF EnumSetValue, Value
  <2> QED BY <2>1
<1>2. ASSUME NEW id, EnumSetName(id, text) # NotFound
      PROVE  EnumSetName(id, text).type = TypeWord(REGISTRY_TYPE_ENUM, id)
  <2>1. EnumSetName(id, text) = EnumSetValue(id, GetByName(id, text))
    BY <1>2, Zenon DEF EnumSetName
  <2> QED BY <1>1, <1>2, <2>1, Zenon
<1>3. CASE v.type = REGISTRY_TYPE_STRING /\ GetType(v.type) = REGISTRY_TYPE_STRING
  <2>1. Parse(v.type, text) = [type |-> REGISTRY_TYPE_STRING, data |-> text]
    BY <1>3, KindsDiffer DEF Parse, StringSet, Value
  <2> QED BY <1>3, <2>1
<1>4. CASE v.type = REGISTRY_TYPE_INT /\ GetType(v.type) = REGISTRY_TYPE_INT
  <2>1. Parse(v.type, text) = NumberSet(v.type, text)
    BY <1>4, KindsDiffer DEF Parse
  <2>2. NumberSet(v.type, text) = Int32Set(NumberOf[text])
    BY <1>4, <2>1, Zenon DEF NumberSet
  <2> QED BY <1>4, <2>1, <2>2 DEF Int32Set, Value
<1>5. CASE v.type = REGISTRY_TYPE_BLOB /\ GetType(v.type) = REGISTRY_TYPE_BLOB
  <2>1. Parse(v.type, text) = BlobValueSet(text)
    BY <1>5, KindsDiffer DEF Parse
  <2> QED BY <1>5, <2>1 DEF BlobValueSet, Value
<1>6. CASE /\ GetType(v.type) = REGISTRY_TYPE_ENUM
           /\ v.type = TypeWord(REGISTRY_TYPE_ENUM, GetEnumType(v.type))
  <2> DEFINE id == GetEnumType(v.type)
  <2>1. Parse(v.type, text) = EnumSetName(id, text)
            \/ Parse(v.type, text) = NumberSet(v.type, text)
    BY <1>6, KindsDiffer DEF Parse
  <2>2. ASSUME NumberSet(v.type, text) # NotFound
        PROVE  NumberSet(v.type, text) = EnumSetValue(id, NumberOf[text])
    BY <1>6, <2>2, KindsDiffer, Zenon DEF NumberSet
  <2> QED BY <1>1, <1>2, <1>6, <2>1, <2>2, Zenon
<1> QED BY <1>3, <1>4, <1>5, <1>6, WellTypedKinds, Zenon

\* A thread that takes no step: its value is the same, or it is touched.
LEMMA TextFrame ==
    ASSUME NEW t \in Threads, TextOK(t), pc'[t] = pc[t], call'[t] = call[t],
           t \in touched => t \in touched',
           \/ pc[t] \notin {"hinted", "type", "typed", "set"}
           \/ t \in touched'
           \/ /\ store'[call[t].key] = store[call[t].key]
              /\ pc[t] = "set" => scratch' = scratch
    PROVE  TextOK(t)'
BY Zenon DEF TextOK, Live

\* The other threads, when one enters or leaves a section.
LEMMA OthersEnter ==
    ASSUME Inv, TextInv, NEW t \in Threads, NEW section, NEW c, NEW v,
           Enter(t, section, c, v), NEW u \in Threads, u # t
    PROVE  TextOK(u)'
<1>1. pc'[u] = pc[u] /\ call'[u] = call[u]
  BY DEF Enter, Inv, ThreadInv, ThreadTypes
<1>2. mutex = None /\ UNCHANGED <<store, touched>>
  BY Zenon DEF Enter, Lock
<1>3. pc[u] \notin Sections
  BY <1>2, ConstantsAssumption DEF Inv, ThreadInv
<1>4. pc[u] # "set"
  BY <1>3 DEF Sections
<1> QED BY <1>1, <1>2, <1>4, TextFrame, Zenon DEF TextInv

LEMMA OthersLeave ==
    ASSUME Inv, TextInv, NEW t \in Threads, pc[t] \in Sections,
           NEW label, NEW c, Leave(t, label, c), NEW u \in Threads, u # t,
           u \in touched => u \in touched',
           \/ store' = store
           \/ pc[u] \in {"hinted", "typed"}
                /\ store'[call[u].key] # store[call[u].key] => u \in touched'
    PROVE  TextOK(u)'
<1>1. pc'[u] = pc[u] /\ call'[u] = call[u]
  BY DEF Leave, Inv, ThreadInv, ThreadTypes
<1>2. pc[u] \notin Sections
  BY Zenon DEF Inv, ThreadInv
<1>3. pc[u] \notin {"set", "type"}
  BY <1>2 DEF Sections
<1> QED BY <1>1, <1>3, TextFrame, Zenon DEF TextInv

\* A thread at another label has nothing to show.
LEMMA TextNone ==
    ASSUME NEW t \in Threads, pc'[t] \notin {"hinted", "type", "typed", "set"}
    PROVE  TextOK(t)'
BY Zenon DEF TextOK

LEMMA StartsText ==
    ASSUME Inv, TextInv, NEW t \in Threads, Starts(t)
    PROVE  TextInv'
<1>1. PICK section \in Sections, c \in Calls, v \in Values \union {None} :
        /\ section = "set" => c.op = "set"
        /\ section = "type" => c.op = "strval"
        /\ Enter(t, section, c, v)
  BY Zenon DEF Starts
<1>2. pc'[t] = section /\ call'[t] = c
  BY <1>1 DEF Enter, Inv, ThreadInv, ThreadTypes
<1>3. TextOK(t)'
  BY <1>1, <1>2 DEF TextOK, Sections
<1> QED BY <1>1, <1>3, OthersEnter, Zenon DEF TextInv

\* A call that returns from its section.
LEMMA ReturnText ==
    ASSUME Inv, TextInv, NEW t \in Threads, pc[t] \in Sections,
           (Return(t) /\ store' = store) \/ ReturnChanged(t)
    PROVE  TextInv'
<1>1. Leave(t, "idle", NoCall)
  BY Zenon DEF Return, ReturnChanged
<1>2. pc'[t] = "idle"
  BY <1>1 DEF Leave, Inv, ThreadInv, ThreadTypes
<1>3. TextOK(t)'
  BY <1>2, TextNone
<1>4. ASSUME NEW u \in Threads, u # t
      PROVE  TextOK(u)'
  <2>1. u \in touched => u \in touched'
    BY <1>4 DEF Return, ReturnChanged
  <2>2. \/ store' = store
        \/ pc[u] \in {"hinted", "typed"}
             /\ store'[call[u].key] # store[call[u].key] => u \in touched'
    BY <1>4 DEF Return, ReturnChanged
  <2> QED BY <1>1, <1>4, <2>1, <2>2, OthersLeave, Zenon
<1> QED BY <1>3, <1>4, Zenon DEF TextInv

\* A call that goes on from its section.
LEMMA GoesOnText ==
    ASSUME Inv, TextInv, NEW t \in Threads, pc[t] \in Sections,
           NEW label, NEW c, Leave(t, label, c), UNCHANGED <<store, touched>>,
           TextOK(t)'
    PROVE  TextInv'
BY OthersLeave, Zenon DEF TextInv

LEMMA LengthText ==
    ASSUME Inv, TextInv, NEW t \in Threads, Length(t)
    PROVE  TextInv'
<1>1. pc[t] = "length" /\ pc[t] \in Sections \intersect Keyed
  BY DEF Length, Sections, Keyed
<1>2. call[t] \in Calls /\ call[t].word # NotFound
  <2>1. call[t] \in Calls /\ call[t].word \in Words
    BY DEF Inv, ThreadInv, ThreadTypes, Calls
  <2>2. NotFound \notin Words
    BY WordsAreInts
  <2> QED BY <2>1, <2>2
<1>3. CASE HasLength(Found)
  BY <1>1, <1>3, ReturnText, Zenon DEF Length, GoOn
<1>4. CASE ~HasLength(Found)
  <2> DEFINE c == [call[t] EXCEPT !.word = call[t].word]
  <2>1. Leave(t, "hinted", c) /\ UNCHANGED <<store, touched>>
    BY <1>2, <1>4, Zenon DEF Length, GoOn
  <2>2. c.key = call[t].key /\ c.op = call[t].op
    BY <1>2 DEF Calls
  <2> HIDE DEF c
  <2>3. pc'[t] = "hinted" /\ call'[t] = c
    BY <2>1 DEF Leave, Inv, ThreadInv, ThreadTypes
  <2>4. ~Live(store[call[t].key])
    BY <1>1, <1>4, FoundValue, Zenon DEF HasLength, Live
  <2>5. TextOK(t)'
    BY <2>1, <2>2, <2>3, <2>4 DEF TextOK, Live
  <2> QED BY <1>1, <2>1, <2>5, GoesOnText, Zenon
<1> QED BY <1>3, <1>4

LEMMA HintText ==
    ASSUME Inv, TextInv, NEW t \in Threads, Hint(t)
    PROVE  TextInv'
<1> DEFINE word == IF ValueType(Found) = None THEN REGISTRY_TYPE_NONE
                   ELSE ValueType(Found)
           c == [call[t] EXCEPT !.op = "strval", !.word = word]
<1>1. pc[t] \in Sections
  BY DEF Hint, Sections
<1>2. Leave(t, "hinted", c) /\ UNCHANGED <<store, touched>>
  BY Zenon DEF Hint
<1> HIDE DEF word
<1>3. c.op = "strval"
  BY DEF Inv, ThreadInv, ThreadTypes, Calls
<1> HIDE DEF c
<1>4. pc'[t] = "hinted" /\ call'[t] = c
  BY <1>2 DEF Leave, Inv, ThreadInv, ThreadTypes
<1>5. TextOK(t)'
  BY <1>3, <1>4 DEF TextOK
<1> QED BY <1>1, <1>2, <1>5, GoesOnText, Zenon

LEMMA HintedText ==
    ASSUME Inv, TextInv, NEW t \in Threads, Hinted(t)
    PROVE  TextInv'
<1>1. pc[t] = "hinted" /\ Enter(t, "type", call[t], None)
  BY Zenon DEF Hinted
<1>2. pc'[t] = "type" /\ call'[t] = call[t] /\ UNCHANGED <<store, touched>>
  BY <1>1 DEF Enter, Inv, ThreadInv, ThreadTypes
<1>3. TextOK(t)'
  BY <1>1, <1>2 DEF TextInv, TextOK, Live
<1> QED BY <1>1, <1>3, OthersEnter, Zenon DEF TextInv

LEMMA TypeText ==
    ASSUME Inv, TextInv, NEW t \in Threads, Type(t)
    PROVE  TextInv'
<1> DEFINE word == WordFor(ValueType(Found), call[t].word)
<1>1. pc[t] = "type" /\ pc[t] \in Sections \intersect Keyed
  BY DEF Type, Sections, Keyed
<1>2. CASE word = NotFound
  BY <1>1, <1>2, ReturnText, Zenon DEF Type, GoOn
<1>3. CASE word # NotFound
  <2> DEFINE c == [call[t] EXCEPT !.word = word]
  <2>1. Leave(t, "typed", c) /\ UNCHANGED <<store, touched>>
    BY <1>3, Zenon DEF Type, GoOn
  <2>2. ASSUME Live(store[call[t].key])
        PROVE  word = store[call[t].key].type
    <3>1. Found = store[call[t].key] /\ Found \in Values
      BY <1>1, <2>2, FoundValue DEF Live
    <3>2. ValueType(Found) = Found.type
      BY <2>2, <3>1, Zenon DEF ValueType, Live
    <3>3. Found.type # None
      <4>1. Found.type \in Words
        BY <3>1 DEF Values
      <4> QED BY <4>1, WordsAreInts, Zenon
    <3> QED BY <1>3, <3>1, <3>2, <3>3, Zenon DEF WordFor
  <2> HIDE DEF word
  <2>3. call[t] \in Calls
    BY DEF Inv, ThreadInv, ThreadTypes
  <2>4. c.key = call[t].key /\ c.op = call[t].op /\ c.word = word
    BY <2>3 DEF Calls
  <2> HIDE DEF c
  <2>5. pc'[t] = "typed" /\ call'[t] = c
    BY <2>1 DEF Leave, Inv, ThreadInv, ThreadTypes
  <2>6. TextOK(t)'
    BY <1>1, <2>1, <2>2, <2>4, <2>5 DEF TextInv, TextOK, Live
  <2> QED BY <1>1, <2>1, <2>6, GoesOnText, Zenon
<1> QED BY <1>2, <1>3

LEMMA TypedText ==
    ASSUME Inv, TextInv, NEW t \in Threads, Typed(t)
    PROVE  TextInv'
<1> DEFINE v == Parse(call[t].word, call[t].text)
           c == [call[t] EXCEPT !.word = 0, !.text = NotFound]
<1>1. pc[t] = "typed"
  BY DEF Typed
<1>2. call[t] \in Calls /\ call[t].key \in Keys
  BY <1>1, Zenon DEF Inv, ThreadInv, ThreadTypes, CallOK, Keyed, Texted
<1>3. CASE v # NotFound
  <2>1. Enter(t, "set", c, v)
    BY <1>3, Zenon DEF Typed
  <2>2. c.key = call[t].key /\ c.op = call[t].op
    BY <1>2 DEF Calls
  <2> HIDE DEF c
  <2>3. ASSUME Live(store[call[t].key]), t \notin touched
        PROVE  v.type = store[call[t].key].type
    <3>1. call[t].word = store[call[t].key].type
      BY <1>1, <2>3, Zenon DEF TextInv, TextOK
    <3>2. WellTypedValue(store[call[t].key])
      BY <1>2, <2>3, Zenon DEF Live, Inv, DataInv, WellTyped
    <3> QED BY <1>3, <3>1, <3>2, ParseKeepsType, Zenon
  <2> HIDE DEF v
  <2>4. pc'[t] = "set" /\ call'[t] = c /\ scratch'.value = v
            /\ UNCHANGED <<store, touched>>
    BY <2>1 DEF Enter, ScratchSetKey, Inv, ThreadInv, ThreadTypes
  <2>5. TextOK(t)'
    BY <1>1, <2>2, <2>3, <2>4 DEF TextInv, TextOK, Live
  <2> QED BY <2>1, <2>5, OthersEnter, Zenon DEF TextInv
<1>4. CASE v = NotFound
  <2>1. /\ pc' = [pc EXCEPT ![t] = "idle"]
        /\ call' = [call EXCEPT ![t] = NoCall]
        /\ touched' = touched \ {t}
        /\ UNCHANGED <<store, scratch>>
    BY <1>4, Zenon DEF Typed
  <2>2. pc'[t] = "idle"
    BY <2>1 DEF Inv, ThreadInv, ThreadTypes
  <2>3. TextOK(t)'
    BY <2>2, TextNone
  <2>4. ASSUME NEW u \in Threads, u # t
        PROVE  TextOK(u)'
    <3>1. /\ pc'[u] = pc[u] /\ call'[u] = call[u]
          /\ u \in touched => u \in touched'
      BY <2>1, <2>4 DEF Inv, ThreadInv, ThreadTypes
    <3> QED BY <2>1, <3>1, TextFrame, Zenon DEF TextInv
  <2> QED BY <2>3, <2>4, Zenon DEF TextInv
<1> QED BY <1>3, <1>4

LEMMA StepText ==
    ASSUME Inv, TextInv, NEW t \in Threads, Step(t)
    PROVE  TextInv'
<1>1. CASE Get(t) \/ First(t) \/ NextRecord(t) \/ NextDangling(t)
  <2>1. pc[t] \in Sections
    BY <1>1 DEF Get, First, NextRecord, NextDangling, Sections
  <2> QED BY <1>1, <2>1, ReturnText, Zenon DEF Get, First, NextRecord, NextDangling
<1>2. CASE Set(t) \/ Delete(t) \/ Erase(t) \/ Repair(t)
  <2>1. pc[t] \in Sections
    BY <1>2 DEF Set, Delete, Erase, Repair, Sections
  <2> QED BY <1>2, <2>1, ReturnText, Zenon DEF Set, Delete, Erase, Repair
<1> QED BY <1>1, <1>2, LengthText, HintText, HintedText, TypeText, TypedText,
           Zenon DEF Step

LEMMA NextText ==
    ASSUME Inv, TextInv, [Next]_vars
    PROVE  TextInv'
<1>1. CASE \/ UNCHANGED vars
           \/ (\E id \in DOMAIN Enums : Register(id)) \/ Start \/ Stop
  <2>1. UNCHANGED <<store, touched, pc, call, scratch>>
    BY <1>1, Zenon DEF vars, threads, Register, Start, Stop
  <2> QED BY <2>1, TextFrame, Zenon DEF TextInv
<1>2. CASE PowerFailure
  <2>1. \A t \in Threads : pc'[t] = "idle"
    BY <1>2 DEF PowerFailure
  <2>2. \A t \in Threads : pc'[t] \notin {"hinted", "type", "typed", "set"}
    BY <2>1
  <2> QED BY <2>2, TextNone, Zenon DEF TextInv
<1> QED BY <1>1, <1>2, NextCases, StartsText, StepText, Zenon

LEMMA TextInvHolds == Spec => [](Inv /\ TextInv)
<1>1. Init => Inv /\ TextInv
  <2> SUFFICES ASSUME Init PROVE Inv /\ TextInv
    OBVIOUS
  <2>1. \A t \in Threads : pc[t] = "idle"
    BY DEF Init
  <2> QED BY <2>1, InitInv DEF TextInv, TextOK
<1>2. (Inv /\ TextInv) /\ [Next]_vars => (Inv /\ TextInv)'
  BY NextInv, NextText
<1> QED BY <1>1, <1>2, PTL DEF Spec

\* A thread is in a set that ends: it is its own step, or the power fails, and
\* the volume has the value that was found, or the one that is set.
LEMMA SetEnds ==
    ASSUME Inv, Next, NEW t \in Threads, pc[t] = "set", pc'[t] = "idle"
    PROVE  \/ store' = store
           \/ store' = [store EXCEPT ![call[t].key] = scratch.value]
<1>1. pc[t] \in Sections /\ mutex = t /\ scratch.key = call[t].key
  BY Zenon DEF Inv, ThreadInv, Sections
<1>2. \A u \in Threads : pc[u] \in Sections => u = t
  BY <1>1, Zenon DEF Inv, ThreadInv
<1>3. ASSUME NEW u \in Threads, pc[u] \in {"delete", "erase"}
      PROVE  FALSE
  BY <1>2, <1>3 DEF Sections
<1>4. CASE (\E id \in DOMAIN Enums : Register(id)) \/ Start \/ Stop
  BY <1>4, Zenon DEF Register, Start, Stop
<1>5. CASE PowerFailure
  <2>1. \/ store' = store
        \/ \E u \in Threads :
            /\ pc[u] \in {"set", "delete"}
            /\ store' = [store EXCEPT ![scratch.key] =
                            IF pc[u] = "set" THEN scratch.value ELSE None]
        \/ \E u \in Threads : pc[u] = "erase"
    BY <1>5, Zenon DEF PowerFailure
  <2>2. ASSUME NEW u \in Threads, pc[u] \in {"set", "delete"},
               store' = [store EXCEPT ![scratch.key] =
                            IF pc[u] = "set" THEN scratch.value ELSE None]
        PROVE  store' = [store EXCEPT ![call[t].key] = scratch.value]
    BY <1>1, <1>3, <2>2, Zenon
  <2>3. ASSUME NEW u \in Threads, pc[u] = "erase"
        PROVE  FALSE
    BY <1>3, <2>3, Zenon
  <2> QED BY <2>1, <2>2, <2>3, Zenon
<1>6. ASSUME NEW u \in Threads, Starts(u)
      PROVE  store' = store
  BY <1>6, Zenon DEF Starts, Enter
<1>7. ASSUME NEW u \in Threads, Step(u)
      PROVE  \/ store' = store
             \/ store' = [store EXCEPT ![call[t].key] = scratch.value]
  <2>1. CASE Get(u) \/ Length(u) \/ Hint(u) \/ Type(u)
    BY <2>1, Zenon DEF Get, Length, Hint, Type
  <2>2. CASE Hinted(u) \/ Typed(u)
    BY <2>2, Zenon DEF Hinted, Typed, Enter
  <2>3. CASE First(u) \/ NextRecord(u) \/ NextDangling(u)
    BY <2>3, Zenon DEF First, NextRecord, NextDangling
  <2>4. CASE Set(u)
    BY <1>1, <2>4, Zenon DEF Set, Outcome
  <2>5. CASE Delete(u) \/ Erase(u)
    BY <1>3, <2>5, Zenon DEF Delete, Erase
  <2>6. CASE Repair(u)
    BY <2>6, Zenon DEF Repair, Outcome
  <2> QED BY <1>7, <2>1, <2>2, <2>3, <2>4, <2>5, <2>6, Zenon DEF Step
<1> QED BY <1>4, <1>5, <1>6, <1>7, NextCases, Zenon

\* registry_set_strval() and the commands leave the type of a value as it is,
\* for every set of threads, unless another one has changed the value between
\* the two sections of the call.
THEOREM StrvalCorrect == Spec => StrvalKeepsType
<1>1. Inv /\ TextInv /\ [Next]_vars =>
        [\A t \in Threads :
            LET v == store[call[t].key]
            IN  /\ pc[t] = "set" /\ pc'[t] = "idle"
                /\ call[t].op \in {"strval", "regadd"}
                /\ t \notin touched
                /\ v # None /\ ~Empty(v)
                => store'[call[t].key].type = v.type]_vars
  <2> SUFFICES ASSUME Inv, TextInv, Next, NEW t \in Threads,
                      pc[t] = "set", pc'[t] = "idle",
                      call[t].op \in {"strval", "regadd"}, t \notin touched,
                      store[call[t].key] # None, ~Empty(store[call[t].key])
               PROVE  store'[call[t].key].type = store[call[t].key].type
    BY Zenon
  <2>1. scratch.value.type = store[call[t].key].type
    BY Zenon DEF TextInv, TextOK, Live
  <2>2. call[t].key \in Keys /\ store \in [Keys -> Values \union {None}]
    BY Zenon DEF Inv, ThreadInv, CallOK, Keyed, DataInv
  <2> QED BY <2>1, <2>2, SetEnds
<1> QED BY <1>1, TextInvHolds, PTL DEF Spec, StrvalKeepsType

\* regadd changes no value that exists, for every set of threads, unless
\* another one has set it since the command looked.
THEOREM RegaddCorrect == Spec => RegaddAddsOnly
<1>1. TextInv =>
        [\A t \in Threads :
            LET v == store[call[t].key]
            IN  /\ pc[t] = "set" /\ pc'[t] = "idle"
                /\ call[t].op = "regadd"
                /\ t \notin touched
                => v = None \/ Empty(v)]_vars
  BY DEF TextInv, TextOK, Live
<1> QED BY <1>1, TextInvHolds, PTL DEF RegaddAddsOnly

----------------------------------------------------------------------------
(* Stepping through the values of an enumeration.                          *)

Distinct(s) == \A i, j \in DOMAIN s : s[i].value = s[j].value => i = j

\* As many values as there are places for them: no two are the same.
LEMMA DistinctValues ==
    ASSUME NEW s, NEW N \in Nat, DOMAIN s = 1 .. N,
           Cardinality({s[i].value : i \in DOMAIN s}) = N
    PROVE  Distinct(s)
<1> DEFINE V == {s[i].value : i \in 1 .. N}
           f == [i \in 1 .. N |-> s[i].value]
<1>1. f \in Surjection(1 .. N, V)
  BY DEF Surjection
<1>2. IsFiniteSet(1 .. N) /\ Cardinality(1 .. N) = N
  BY FS_Interval
<1>3. Cardinality(V) = N
  OBVIOUS
<1> HIDE DEF V, f
<1>4. f \in Injection(1 .. N, V)
  BY <1>1, <1>2, <1>3, FS_Surjection
<1>5. \A i, j \in 1 .. N : f[i] = f[j] => i = j
  BY <1>4 DEF Injection, IsInjective
<1> QED BY <1>5 DEF f, Distinct

\* Where the values are distinct, the lookups find each at its place, next is
\* the one after it and prev the one before it, and past an end the other end.
LEMMA StepOfPlace ==
    ASSUME NEW id \in DOMAIN Enums, Registered(id), NEW s,
           s = Enums[id].values,
           Distinct(s),
           NEW i \in 1 .. Len(s)
    PROVE  /\ GetNext(id, s[i].value) = s[IF i = Len(s) THEN 1 ELSE i + 1].value
           /\ GetPrev(id, s[i].value) = s[IF i = 1 THEN Len(s) ELSE i - 1].value
<1> DEFINE places == {j \in DOMAIN s : s[j].value = s[i].value}
<1>1. s \in Seq([name: Texts, value: Int]) /\ NotFound \notin Int
  BY EnumsAssumption, Zenon
<1>2. Len(s) \in Nat /\ DOMAIN s = 1 .. Len(s) /\ s # <<>>
  BY <1>1
<1>3. ValuesOf(id) = s
  BY DEF ValuesOf
<1>4. places # {} /\ places \in SUBSET Nat
  BY <1>2
<1>5. FirstOf(places) \in places /\ FirstOf(places) # NotFound
  BY <1>4, FirstOfSome
<1>6. FirstOf(places) = i
  BY <1>2, <1>5 DEF Distinct
<1>7. PlaceOfValue(id, s[i].value) = i /\ i # NotFound
  BY <1>3, <1>5, <1>6 DEF PlaceOfValue
<1>8. GetNext(id, s[i].value) = IF i = Len(s) THEN s[1].value ELSE s[i + 1].value
  BY <1>2, <1>3, <1>7 DEF GetNext
<1>9. GetPrev(id, s[i].value) = IF i = 1 THEN s[Len(s)].value ELSE s[i - 1].value
  BY <1>2, <1>3, <1>7 DEF GetPrev
<1> QED BY <1>8, <1>9

\* From a value that is none of the type's.
LEMMA StepOfNone ==
    ASSUME NEW id \in DOMAIN Enums, Registered(id), NEW s,
           s = Enums[id].values, s # <<>>
    PROVE  /\ GetNext(id, NotFound) = s[1].value
           /\ GetPrev(id, NotFound) = s[Len(s)].value
<1> DEFINE places == {j \in DOMAIN s : s[j].value = NotFound}
<1>1. s \in Seq([name: Texts, value: Int]) /\ NotFound \notin Int
  BY EnumsAssumption, Zenon
<1>2. \A j \in DOMAIN s : s[j].value \in Int
  <2> SUFFICES ASSUME NEW j \in DOMAIN s PROVE s[j].value \in Int
    OBVIOUS
  <2>1. s[j] \in [name: Texts, value: Int]
    BY <1>1, SeqElement, Zenon
  <2> QED BY <2>1
<1>3. ValuesOf(id) = s
  BY DEF ValuesOf
<1>4. places = {}
  BY <1>1, <1>2
<1>5. PlaceOfValue(id, NotFound) = NotFound
  BY <1>3, <1>4 DEF PlaceOfValue, FirstOf
<1> QED BY <1>3, <1>5 DEF GetNext, GetPrev

\* A step by the name of a type is the one by its id.
LEMMA StepOfName ==
    ASSUME NEW id \in DOMAIN Enums, NEW name, FindType(name) = id, NEW value
    PROVE  /\ NextOfType(name, value) = GetNext(id, value)
           /\ PrevOfType(name, value) = GetPrev(id, value)
<1>1. id \in Int /\ NotFound \notin Int
  <2>1. NotFound \notin Int /\ DOMAIN Enums \subseteq 0 .. REGENUM_TYPE_ID_MAX
    BY EnumsAssumption, Zenon
  <2>2. 0 .. REGENUM_TYPE_ID_MAX \subseteq Int
    BY DEF REGENUM_TYPE_ID_MAX
  <2> QED BY <2>1, <2>2, Zenon
<1>2. id # NotFound
  BY <1>1
<1> QED BY <1>2 DEF NextOfType, PrevOfType

\* The walk of StepsGoRound.
WalkOf(name, s) ==
    CHOOSE f : f = [i \in DOMAIN s |->
        IF i = 1 THEN s[1].value ELSE NextOfType(name, f[i - 1])]

\* It comes to the i-th value in the i-th step.
InOrder(id, name) ==
    LET s == Enums[id].values
    IN  \A i \in DOMAIN s : WalkOf(name, s)[i] = s[i].value

\* The least place where it did not would follow one where it did.
LEMMA WalkInOrder ==
    ASSUME NEW id \in DOMAIN Enums, Registered(id), Distinct(Enums[id].values),
           NEW name, FindType(name) = id
    PROVE  InOrder(id, name)
<1> DEFINE s == Enums[id].values
           D == DOMAIN s
           to(x) == NextOfType(name, x)
           g == [i \in D |-> s[i].value]
           body(h) == [i \in D |-> IF i = 1 THEN s[1].value ELSE to(h[i - 1])]
           step == CHOOSE h : h = body(h)
<1>1. Len(s) \in Nat /\ D = 1 .. Len(s)
  <2>1. s \in Seq([name: Texts, value: Int])
    BY EnumsAssumption, Zenon
  <2> QED BY <2>1
<1>2. \A i \in D : i # 1 => i - 1 \in D /\ to(s[i - 1].value) = s[i].value
  <2> SUFFICES ASSUME NEW i \in D, i # 1
               PROVE  i - 1 \in D /\ to(s[i - 1].value) = s[i].value
    OBVIOUS
  <2>1. /\ i - 1 \in 1 .. Len(s) /\ i - 1 # Len(s) /\ i - 1 + 1 = i
    BY <1>1
  <2>2. GetNext(id, s[i - 1].value) = s[i].value
    BY <2>1, StepOfPlace
  <2> QED BY <1>1, <2>1, <2>2, StepOfName
<1>3. step = WalkOf(name, s)
  BY DEF WalkOf
<1> HIDE DEF to
<1>4. g = body(g)
  <2>1. \A i \in D : g[i] = IF i = 1 THEN s[1].value ELSE to(g[i - 1])
    BY <1>2
  <2> HIDE DEF step
  <2>2. DOMAIN g = D /\ g = [i \in D |-> g[i]]
    OBVIOUS
  <2> HIDE DEF g
  <2> QED BY <2>1, <2>2
<1>5. step = body(step)
  <2> HIDE DEF g
  <2> QED BY <1>4
<1> HIDE DEF step
<1>6. \A i \in D : step[i] = IF i = 1 THEN s[1].value ELSE to(step[i - 1])
  BY <1>5
<1> DEFINE B == {i \in D : step[i] # s[i].value}
<1>7. B = {}
  <2> SUFFICES ASSUME B # {} PROVE FALSE
    OBVIOUS
  <2>1. B \in SUBSET Nat
    BY <1>1
  <2>2. PICK i \in B : \A j \in B : i <= j
    BY <2>1, FirstOfSome
  <2>3. i \in D /\ i # 1 /\ step[i] # s[i].value
    BY <1>6
  <2>4. i - 1 \notin B
    BY <2>1, <2>2
  <2>5. step[i - 1] = s[i - 1].value
    BY <1>2, <2>3, <2>4
  <2> HIDE DEF B, D
  <2> QED BY <1>2, <1>6, <2>3, <2>5
<1>8. \A i \in DOMAIN s : step[i] = s[i].value
  BY <1>7
<1> QED BY <1>3, <1>8 DEF InOrder

\* Prev undoes next, and next prev.
LEMMA StepsUndo ==
    ASSUME NEW id \in DOMAIN Enums, Registered(id), NEW s,
           s = Enums[id].values,
           Distinct(s),
           NEW i \in 1 .. Len(s)
    PROVE  /\ GetPrev(id, GetNext(id, s[i].value)) = s[i].value
           /\ GetNext(id, GetPrev(id, s[i].value)) = s[i].value
<1>1. Len(s) \in Nat
  <2>1. s \in Seq([name: Texts, value: Int])
    BY EnumsAssumption, Zenon
  <2> QED BY <2>1
<1> DEFINE next == IF i = Len(s) THEN 1 ELSE i + 1
           prev == IF i = 1 THEN Len(s) ELSE i - 1
<1>2. /\ next \in 1 .. Len(s) /\ prev \in 1 .. Len(s)
      /\ (IF next = 1 THEN Len(s) ELSE next - 1) = i
      /\ (IF prev = Len(s) THEN 1 ELSE prev + 1) = i
  BY <1>1
<1>3. /\ GetNext(id, s[i].value) = s[next].value
      /\ GetPrev(id, s[i].value) = s[prev].value
  BY StepOfPlace
<1> HIDE DEF next, prev
<1>4. GetPrev(id, s[next].value) = s[i].value
  BY <1>2, StepOfPlace
<1>5. GetNext(id, s[prev].value) = s[i].value
  BY <1>2, StepOfPlace
<1> QED BY <1>3, <1>4, <1>5

\* Next and previous go round through every value of an enumeration, whatever
\* is registered, and undo each other (regenum_get_next_by_id(),
\* regenum_get_prev_by_id() and those by name).
THEOREM StepsCorrect == Spec => []StepsGoRound
<1>1. Inv => StepsGoRound
  <2> SUFFICES ASSUME types \in Seq(DOMAIN Enums) PROVE StepsGoRound
    BY DEF Inv, DataInv
  <2> SUFFICES ASSUME NEW n \in DOMAIN types
               PROVE  LET id == types[n]
                          name == Enums[id].type_name
                          s == Enums[id].values
                          values == {s[i].value : i \in DOMAIN s}
                          step == WalkOf(name, s)
                      IN  FindType(name) = id /\ values # {}
                          /\ Cardinality(values) = Len(s) =>
                            /\ {step[i] : i \in DOMAIN s} = values
                            /\ \A v \in values :
                                /\ PrevOfType(name, GetNext(id, v)) = v
                                /\ NextOfType(name, GetPrev(id, v)) = v
                            /\ {GetNext(id, NotFound), GetPrev(id, NotFound)}
                                \subseteq values
    BY DEF StepsGoRound, WalkOf
  <2> DEFINE id == types[n]
             name == Enums[id].type_name
             s == Enums[id].values
             values == {s[i].value : i \in DOMAIN s}
  <2> SUFFICES ASSUME FindType(name) = id, values # {},
                      Cardinality(values) = Len(s)
               PROVE  /\ {WalkOf(name, s)[i] : i \in DOMAIN s} = values
                      /\ \A v \in values :
                            /\ PrevOfType(name, GetNext(id, v)) = v
                            /\ NextOfType(name, GetPrev(id, v)) = v
                      /\ {GetNext(id, NotFound), GetPrev(id, NotFound)}
                            \subseteq values
    OBVIOUS
  <2>1. id \in DOMAIN Enums /\ Registered(id)
    BY DEF Registered
  <2>2. s \in Seq([name: Texts, value: Int])
    BY <2>1, EnumsAssumption, Zenon
  <2>3. Len(s) \in Nat /\ DOMAIN s = 1 .. Len(s)
    BY <2>2
  <2>4. Distinct(s)
    <3>1. Cardinality({s[i].value : i \in DOMAIN s}) = Len(s)
      BY Zenon
    <3> QED BY <2>3, <3>1, DistinctValues
  <2>5. {WalkOf(name, s)[i] : i \in DOMAIN s} = values
    <3>1. \A i \in DOMAIN s : WalkOf(name, s)[i] = s[i].value
      BY <2>1, <2>4, WalkInOrder DEF InOrder
    <3> QED BY <3>1
  <2>6. ASSUME NEW v \in values
        PROVE  /\ PrevOfType(name, GetNext(id, v)) = v
               /\ NextOfType(name, GetPrev(id, v)) = v
    <3>1. PICK i \in 1 .. Len(s) : v = s[i].value
      BY <2>3
    <3>2. /\ GetPrev(id, GetNext(id, v)) = v
          /\ GetNext(id, GetPrev(id, v)) = v
      BY <2>1, <2>4, <3>1, StepsUndo
    <3> QED BY <2>1, <3>2, StepOfName
  <2>7. {GetNext(id, NotFound), GetPrev(id, NotFound)} \subseteq values
    <3>1. s # <<>> /\ 1 \in DOMAIN s /\ Len(s) \in DOMAIN s
      BY <2>2, <2>3
    <3>2. GetNext(id, NotFound) = s[1].value
          /\ GetPrev(id, NotFound) = s[Len(s)].value
      BY <2>1, <3>1, StepOfNone
    <3> QED BY <3>1, <3>2
  <2> QED BY <2>5, <2>6, <2>7
<1> QED BY <1>1, InvHolds, PTL
=============================================================================
