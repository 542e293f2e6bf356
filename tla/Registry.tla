------------------------------ MODULE Registry ------------------------------
(***************************************************************************)
(* The registry of src/registry.c: typed values in a record volume, read,  *)
(* set, deleted and enumerated by several threads, and the registered      *)
(* enumerations that name some of them.  One mutex guards the volume, the  *)
(* scratch record and the iterator; a call that first asks for the type of *)
(* a value and then sets it takes the mutex for each.                      *)
(*                                                                         *)
(* The volume is what KVStore promises of src/nvram/nvol3.c: an operation  *)
(* takes effect or not, EOK means that it has.                             *)
(***************************************************************************)
EXTENDS Regenum

CONSTANTS
    Keys,           \* REGISTRY_KEY_T, in the order of strcmp()
    Threads,
    Shell,          \* the thread that runs the commands; the others are the application
    None,           \* "no value", "no thread", "no key"
    Absent,         \* the mutex that does not exist
    NumberOf,       \* get_int_from_str(): the number a text stands for
    TextOf,         \* the text that "%d" makes of a number
    BlobOf,         \* the bytes that a text stands for
    NoBytes,        \* the blob of no bytes
    Asked,          \* bound: the type words that the application asks for
    MaxAccidents    \* bound: power failures and volume operations that fail

Blobs   == {BlobOf[text] : text \in Texts}
Numbers == DOMAIN TextOf

\* Type words have 16 bits; this one is no type.
REGISTRY_TYPE_NONE == 65535
Words == 0 .. REGISTRY_TYPE_NONE

ASSUME ConstantsAssumption ==
    /\ Keys \subseteq Nat
    /\ Shell \in Threads
    /\ Asked \subseteq Words
    /\ {None, Absent} \intersect (Threads \union Keys \union Texts) = {}
    /\ None # Absent
    /\ None \notin Int
    /\ MaxAccidents \in Nat

ASSUME TextAssumption ==
    /\ DOMAIN NumberOf \subseteq Texts
    /\ DOMAIN BlobOf = Texts
    /\ Numbers \subseteq Int
    /\ \A n \in Numbers : TextOf[n] \in DOMAIN NumberOf /\ NumberOf[TextOf[n]] = n
    /\ \A text \in DOMAIN NumberOf : NumberOf[text] \in Numbers

VARIABLES
    store,      \* the volume
    inst,       \* _registry_inst is set
    mutex,      \* _registry_mutex: its holder, None or Absent
    scratch,    \* _registry_scratch_value, while the mutex is held
    it,         \* _registry_it: the key of the entry that it is at, None when that is freed
    pc, call,   \* the threads and their calls
    \* history and environment
    touched,    \* the threads whose key another one has set or deleted
    walk,       \* the enumeration in progress
    accidents

threads == <<pc, call>>
vars    == <<types, store, inst, mutex, scratch, it, threads, touched, walk,
             accidents>>

----------------------------------------------------------------------------
(* Type words: REGISTRY_TYPE() and its like.                               *)

REGISTRY_TYPE_STRING == 0
REGISTRY_TYPE_INT    == 1
REGISTRY_TYPE_ENUM   == 2
REGISTRY_TYPE_BLOB   == 3

TypeWord(kind, enum_type) == ((kind % 8) + 8 * (enum_type % 8192)) % 65536

GetType(w)     == w % 8
GetEnumType(w) == (w \div 8) % 8192

\* A value: its type word and its bytes.
Value(word, data) == [type |-> word, data |-> data]

Values ==
    [type: Words,
     data: Texts \union Numbers \union Blobs \union
           UNION {{Enums[id].values[i].value : i \in DOMAIN Enums[id].values} :
                    id \in DOMAIN Enums}]

\* nvol3_record_get() of an empty value returns no more than the length of the
\* key and the type: the registry takes it for absent.
Empty(v) == v.data = NoBytes

----------------------------------------------------------------------------
(* What is read of a value.                                                *)

\* registry_value_type(), None for EFAIL
ValueType(v) == IF v = None \/ Empty(v) THEN None ELSE v.type

\* registry_value_length() > 0
HasLength(v) == v # None /\ ~Empty(v)

\* registry_get_strval(): the text of a value that is not a blob.
GetStrval(v) ==
    LET kind == GetType(v.type)
    IN  IF kind = REGISTRY_TYPE_STRING THEN v.data
        ELSE IF kind = REGISTRY_TYPE_ENUM
             THEN GetByValue(GetEnumType(v.type), v.data)
        ELSE TextOf[v.data]

----------------------------------------------------------------------------
(* What is set: the value that a call asks registry_value_set() to store,  *)
(* NotFound when it asks for none.                                         *)

StringSet(text) == Value(REGISTRY_TYPE_STRING, text)

Int32Set(n) == Value(REGISTRY_TYPE_INT, n)

BlobValueSet(text) == Value(REGISTRY_TYPE_BLOB, BlobOf[text])

\* Mutant: any number of a type that is registered.
EnumSetAny(id, n) ==
    IF Registered(id) THEN Value(TypeWord(REGISTRY_TYPE_ENUM, id), n)
    ELSE NotFound

\* registry_enum_set_value()
EnumSetValue(id, n) ==
    IF GetByValue(id, n) # NotFound
    THEN Value(TypeWord(REGISTRY_TYPE_ENUM, id), n)
    ELSE NotFound

\* registry_enum_set_name()
EnumSetName(id, name) ==
    IF GetByName(id, name) # NotFound THEN EnumSetValue(id, GetByName(id, name))
    ELSE NotFound

\* Mutant: does not look whether the text is a number.
ParseUnchecked(word, text) ==
    IF GetType(word) = REGISTRY_TYPE_INT
    THEN Int32Set(IF text \in DOMAIN NumberOf THEN NumberOf[text] ELSE NotFound)
    ELSE StringSet(text)

\* The value for a text that is a number.
NumberSet(word, text) ==
    IF text \notin DOMAIN NumberOf THEN NotFound
    ELSE IF GetType(word) = REGISTRY_TYPE_INT THEN Int32Set(NumberOf[text])
    ELSE EnumSetValue(GetEnumType(word), NumberOf[text])

\* Mutant: tries the number before the name.
ParseNumberFirst(word, text) ==
    LET kind == GetType(word)
        id == GetEnumType(word)
    IN  CASE kind = REGISTRY_TYPE_STRING -> StringSet(text)
          [] kind = REGISTRY_TYPE_INT -> NumberSet(word, text)
          [] kind = REGISTRY_TYPE_ENUM ->
                IF text \in DOMAIN NumberOf
                THEN EnumSetValue(id, NumberOf[text])
                ELSE EnumSetName(id, text)
          [] kind = REGISTRY_TYPE_BLOB -> BlobValueSet(text)
          [] OTHER -> NotFound

\* _set_strval(): an enumerated value by its name or else by its number.
Parse(word, text) ==
    LET kind == GetType(word)
        id == GetEnumType(word)
    IN  CASE kind = REGISTRY_TYPE_STRING -> StringSet(text)
          [] kind = REGISTRY_TYPE_INT -> NumberSet(word, text)
          [] kind = REGISTRY_TYPE_ENUM ->
                IF GetByName(id, text) # NotFound THEN EnumSetName(id, text)
                ELSE NumberSet(word, text)
          [] kind = REGISTRY_TYPE_BLOB -> BlobValueSet(text)
          [] OTHER -> NotFound

\* Mutant: a type that is asked for wins over the one that is stored.
WordAsked(stored, word) ==
    IF word # REGISTRY_TYPE_NONE \/ stored = None THEN word ELSE stored

\* registry_set_strval(): the type that the text is parsed for, NotFound for
\* one that is not the stored one.
WordFor(stored, word) ==
    IF stored = None \/ word = stored THEN word
    ELSE IF word = REGISTRY_TYPE_NONE THEN stored
    ELSE NotFound

----------------------------------------------------------------------------
(* Calls.  pc names what the thread does next; in the Sections it holds    *)
(* the mutex, and the scratch record has its key.                          *)

Sections == {"get", "length", "hint", "type", "set", "delete", "erase",
             "repair", "first", "next"}

NoCall == [op |-> "none", key |-> None, word |-> 0, text |-> NotFound]
\* An enumeration: the keys that it still owes its caller.
NoWalk == [on |-> FALSE, due |-> {}]
WalkDue(due) == [on |-> TRUE, due |-> due]

\* scratch_set_key(); the value of a set, or None.  What it holds when the mutex
\* is given back is not read again.
ScratchSetKey(k, v) == [key |-> k, value |-> v]
NoScratch == ScratchSetKey(None, None)

\* Mutant: does not wait for the holder.
LockBusy(t) == mutex # Absent /\ mutex' = t

\* os_mutex_lock()
Lock(t) == mutex = None /\ mutex' = t

\* Thread t takes the mutex in call c and fills the scratch record.
Enter(t, section, c, v) ==
    /\ Lock(t)
    /\ pc' = [pc EXCEPT ![t] = section]
    /\ call' = [call EXCEPT ![t] = c]
    /\ scratch' = ScratchSetKey(c.key, v)
    /\ UNCHANGED <<types, store, inst, it, touched, walk, accidents>>

Begin(t, section, op, k, word, text, v) ==
    Enter(t, section, [op |-> op, key |-> k, word |-> word, text |-> text], v)

\* A call may begin.
Ready(t) == inst /\ pc[t] = "idle"

\* os_mutex_unlock() after which the call goes on at label.
Leave(t, label, c) ==
    /\ mutex' = None
    /\ scratch' = NoScratch
    /\ pc' = [pc EXCEPT ![t] = label]
    /\ call' = [call EXCEPT ![t] = c]

\* The call returns.
Return(t) == Leave(t, "idle", NoCall) /\ touched' = touched \ {t}

\* registry_value_get() and what is built on it
ValueGet(t, k) == Begin(t, "get", "get", k, 0, NotFound, None)

\* registry_value_set(), by one of the typed setters
ValueSet(t, k, v) ==
    v # NotFound /\ Begin(t, "set", "set", k, 0, NotFound, v)

ValueDelete(t, k) == Begin(t, "delete", "delete", k, 0, NotFound, None)

RegistryErase(t)  == Begin(t, "erase", "erase", None, 0, NotFound, None)
RegistryRepair(t) == Begin(t, "repair", "repair", None, 0, NotFound, None)

\* registry_set_strval() first asks for the type.
SetStrval(t, k, word, text) == Begin(t, "type", "strval", k, word, text, None)

\* The commands of the shell.  reg sets a value with the type that it finds.
Reg(k, text) == Begin(Shell, "hint", "reg", k, 0, text, None)

\* The types that regadd knows: reg_parse_type_arg(), by name; without one, the
\* type that fits the text.
ArgWords ==
    {REGISTRY_TYPE_STRING, REGISTRY_TYPE_INT} \union
    {TypeWord(REGISTRY_TYPE_ENUM, FindType(Enums[id].type_name)) :
        id \in {types[n] : n \in DOMAIN types}}

\* qshell_cmd_regadd() sets one that it does not find.
Regadd(k, word, text) == Begin(Shell, "length", "regadd", k, word, text, None)

\* reg_show() enumerates and reads the blobs that it comes to.
RegistryFirst ==
    walk = NoWalk /\ Begin(Shell, "first", "first", None, 0, NotFound, None)
RegistryNext ==
    walk # NoWalk /\ Begin(Shell, "next", "next", None, 0, NotFound, None)

----------------------------------------------------------------------------
(* What is done with the mutex held.                                       *)

Found == store[scratch.key]

Get(t) ==
    /\ pc[t] = "get"
    /\ Return(t)
    /\ UNCHANGED <<types, store, inst, it, walk, accidents>>

\* The call goes on with another word, or fails.
GoOn(t, label, word) ==
    IF word = NotFound THEN Return(t)
    ELSE Leave(t, label, [call[t] EXCEPT !.word = word]) /\ UNCHANGED touched

\* qshell_cmd_regadd(): a setting that exists is left alone.
Length(t) ==
    /\ pc[t] = "length"
    /\ GoOn(t, "hinted", IF HasLength(Found) THEN NotFound ELSE call[t].word)
    /\ UNCHANGED <<types, store, inst, it, walk, accidents>>

\* qshell_cmd_reg(): the hint
Hint(t) ==
    /\ pc[t] = "hint"
    /\ Leave(t, "hinted",
             [call[t] EXCEPT
                !.op = "strval",
                !.word = IF ValueType(Found) = None THEN REGISTRY_TYPE_NONE
                         ELSE ValueType(Found)])
    /\ UNCHANGED touched
    /\ UNCHANGED <<types, store, inst, it, walk, accidents>>

Hinted(t) == pc[t] = "hinted" /\ Enter(t, "type", call[t], None)

Type(t) ==
    /\ pc[t] = "type"
    /\ GoOn(t, "typed", WordFor(ValueType(Found), call[t].word))
    /\ UNCHANGED <<types, store, inst, it, walk, accidents>>

\* _set_strval(): the text is parsed before the mutex is taken again.
Typed(t) ==
    LET v == Parse(call[t].word, call[t].text)
    IN  /\ pc[t] = "typed"
        /\ \/ /\ v # NotFound
              /\ Enter(t, "set", [call[t] EXCEPT !.word = 0, !.text = NotFound], v)
           \/ /\ v = NotFound
              /\ pc' = [pc EXCEPT ![t] = "idle"]
              /\ call' = [call EXCEPT ![t] = NoCall]
              /\ touched' = touched \ {t}
              /\ UNCHANGED <<types, store, inst, mutex, scratch, it, walk, accidents>>

\* A volume operation returns EOK and has its effect, or an error and has it or
\* not.
Outcome(effect) ==
    \/ store' = effect /\ UNCHANGED accidents
    \/ /\ accidents < MaxAccidents
       /\ accidents' = accidents + 1
       /\ store' \in {store, effect}

\* Thread t returns from a section that has changed the values of some keys.
ReturnChanged(t) ==
    /\ Leave(t, "idle", NoCall)
    /\ touched' = (touched \union {u \in Threads : pc[u] \in {"hinted", "typed"}
                                    /\ store'[call[u].key] # store[call[u].key]})
                    \ {t}

\* The entries of the lookup table that a set replaces: all in a sector swap,
\* and that of a value which turns empty or is so no longer, for the table
\* caches empty values.
Replaced(swap) ==
    IF swap THEN Keys
    ELSE {k \in Keys : store[k] # store'[k] /\
            (store[k] = None \/ store'[k] = None
             \/ Empty(store[k]) # Empty(store'[k]))}

\* What becomes of the enumeration when those entries are freed; values that
\* are gone or empty in between are no longer owed.
WalkOver(freed) ==
    IF it = None THEN UNCHANGED <<it, walk>>
    ELSE IF it \in freed THEN it' = None /\ walk' = WalkDue({})
    ELSE /\ walk' = WalkDue({k \in walk.due : store'[k] # None /\ ~Empty(store'[k])})
         /\ UNCHANGED it

\* nvol3_record_set(), which may find the sector full
Set(t) ==
    /\ pc[t] = "set"
    /\ Outcome([store EXCEPT ![scratch.key] = scratch.value])
    /\ \E swap \in BOOLEAN : WalkOver(Replaced(swap))
    /\ ReturnChanged(t)
    /\ UNCHANGED <<types, inst>>

Delete(t) ==
    /\ pc[t] = "delete"
    /\ Outcome([store EXCEPT ![scratch.key] = None])
    /\ WalkOver(Replaced(FALSE))
    /\ ReturnChanged(t)
    /\ UNCHANGED <<types, inst>>

\* nvol3_reset()
Erase(t) ==
    /\ pc[t] = "erase"
    /\ Outcome([k \in Keys |-> None])
    /\ WalkOver(Keys)
    /\ ReturnChanged(t)
    /\ UNCHANGED <<types, inst>>

\* nvol3_repair()
Repair(t) ==
    /\ pc[t] = "repair"
    /\ Outcome(store)
    /\ WalkOver(Keys)
    /\ ReturnChanged(t)
    /\ UNCHANGED <<types, inst>>

----------------------------------------------------------------------------
(* Enumeration, in the order of the keys.                                  *)

Present == {k \in Keys : store[k] # None}

\* Mutant: the greatest.
Greatest(keys) == CHOOSE k \in keys : \A m \in keys : m <= k

\* reg_cmp()
Least(keys) == FirstOf(keys)

\* The iterator comes to key k, of the keys in due: E_INVAL for an empty value.
ComeTo(k, due) ==
    IF Empty(store[k]) THEN it' = None /\ walk' = NoWalk
    ELSE it' = k /\ walk' = WalkDue(due \ {k})

\* E_EOF
ComeToEnd == it' = None /\ walk' = NoWalk

\* registry_first()
First(t) ==
    /\ pc[t] = "first"
    /\ IF Present = {} THEN ComeToEnd
       ELSE ComeTo(Least(Present), {k \in Present : ~Empty(store[k])})
    /\ Return(t)
    /\ UNCHANGED <<types, store, inst, accidents>>

\* registry_next()
NextRecord(t) ==
    LET after == {k \in Present : k > it}
    IN  /\ pc[t] = "next"
        /\ it # None
        /\ IF after = {} THEN ComeToEnd ELSE ComeTo(Least(after), walk.due)
        /\ Return(t)
        /\ UNCHANGED <<types, store, inst, accidents>>

\* The entry that the iterator points to is freed: no telling what comes next.
NextDangling(t) ==
    /\ pc[t] = "next"
    /\ it = None
    /\ ComeToEnd \/ UNCHANGED <<it, walk>>
    /\ Return(t)
    /\ UNCHANGED <<types, store, inst, accidents>>

----------------------------------------------------------------------------
(* The application.                                                        *)

Register(id) ==
    /\ RegisterType(id)
    /\ UNCHANGED <<store, inst, mutex, scratch, it, threads, touched, walk, accidents>>

\* registry_init() and registry_start()
Start ==
    /\ ~inst
    /\ inst' = TRUE
    /\ mutex' = None
    /\ UNCHANGED <<types, store, scratch, it, threads, touched, walk, accidents>>

\* registry_stop(), when no call and no enumeration is in progress.
Stop ==
    /\ inst
    /\ \A t \in Threads : pc[t] = "idle"
    /\ walk = NoWalk
    /\ inst' = FALSE
    /\ mutex' = Absent
    /\ UNCHANGED <<types, store, scratch, it, threads, touched, walk, accidents>>

\* RAM is lost; the operation in progress has taken effect or not.
PowerFailure ==
    /\ inst
    /\ accidents < MaxAccidents
    /\ accidents' = accidents + 1
    /\ store' \in {store} \union
         {[store EXCEPT ![scratch.key] = IF pc[t] = "set" THEN scratch.value
                                         ELSE None] :
            t \in {u \in Threads : pc[u] \in {"set", "delete"}}} \union
         {[k \in Keys |-> None] : t \in {u \in Threads : pc[u] = "erase"}}
    /\ types' = <<>>
    /\ inst' = FALSE
    /\ mutex' = Absent
    /\ scratch' = NoScratch
    /\ it' = None
    /\ pc' = [t \in Threads |-> "idle"]
    /\ call' = [t \in Threads |-> NoCall]
    /\ touched' = {}
    /\ walk' = NoWalk

Init ==
    /\ types = <<>>
    /\ store = [k \in Keys |-> None]
    /\ inst = FALSE
    /\ mutex = Absent
    /\ scratch = NoScratch
    /\ it = None
    /\ pc = [t \in Threads |-> "idle"]
    /\ call = [t \in Threads |-> NoCall]
    /\ touched = {}
    /\ walk = NoWalk
    /\ accidents = 0

\* Calls of the application.
Call(t) ==
    \E k \in Keys :
        \/ ValueGet(t, k)
        \/ ValueDelete(t, k)
        \/ \E text \in Texts :
            \/ ValueSet(t, k, StringSet(text))
            \/ ValueSet(t, k, BlobValueSet(text))
            \/ \E id \in DOMAIN Enums : ValueSet(t, k, EnumSetName(id, text))
            \/ \E word \in Asked : SetStrval(t, k, word, text)
        \/ \E n \in Numbers :
            \/ ValueSet(t, k, Int32Set(n))
            \/ \E id \in DOMAIN Enums : ValueSet(t, k, EnumSetValue(id, n))

Command ==
    \/ /\ walk = NoWalk
       /\ \/ \E k \in Keys :
                \/ ValueDelete(Shell, k)
                \/ \E text \in Texts :
                    Reg(k, text) \/ \E word \in ArgWords : Regadd(k, word, text)
          \/ RegistryErase(Shell)
          \/ RegistryRepair(Shell)
    \/ \E k \in Keys : ValueGet(Shell, k)
    \/ RegistryFirst
    \/ RegistryNext

Step(t) ==
    \/ Get(t) \/ Length(t) \/ Hint(t) \/ Hinted(t) \/ Type(t) \/ Typed(t)
    \/ Set(t) \/ Delete(t) \/ Erase(t) \/ Repair(t)
    \/ First(t) \/ NextRecord(t) \/ NextDangling(t)

Next ==
    \/ \E id \in DOMAIN Enums : Register(id)
    \/ Start \/ Stop \/ PowerFailure
    \/ Ready(Shell) /\ Command
    \/ \E t \in Threads \ {Shell} : Ready(t) /\ Call(t)
    \/ \E t \in Threads : Step(t)

Spec == Init /\ [][Next]_vars

----------------------------------------------------------------------------
(* Properties.                                                             *)

Calls == [op: {"none", "get", "set", "delete", "erase", "repair", "strval",
               "reg", "regadd", "first", "next"},
          key: Keys \union {None}, word: Words, text: Texts \union {NotFound}]

TypeOK ==
    /\ types \in Seq(DOMAIN Enums)
    /\ store \in [Keys -> Values \union {None}]
    /\ inst \in BOOLEAN
    /\ mutex \in Threads \union {None, Absent}
    /\ scratch \in [key: Keys \union {None}, value: Values \union {None}]
    /\ it \in Keys \union {None}
    /\ pc \in [Threads -> Sections \union {"idle", "hinted", "typed"}]
    /\ call \in [Threads -> Calls]
    /\ touched \in SUBSET Threads
    /\ walk \in [on: BOOLEAN, due: SUBSET Keys]
    /\ accidents \in 0 .. MaxAccidents

\* The scratch record that all calls share holds the key of the thread whose
\* section it is.
ScratchIsOwn ==
    \A t \in Threads :
        pc[t] \in Sections => mutex = t /\ scratch.key = call[t].key

\* The bytes of every value are of its type, whoever set it and however, and
\* the number of an enumerated one has a name: a reader that goes by the type
\* reads what was meant.
WellTypedValue(v) ==
    \/ v.type = REGISTRY_TYPE_STRING /\ v.data \in Texts
    \/ v.type = REGISTRY_TYPE_INT /\ v.data \in Numbers
    \/ v.type = REGISTRY_TYPE_BLOB /\ v.data \in Blobs
    \/ \E id \in DOMAIN Enums :
        /\ v.type = TypeWord(REGISTRY_TYPE_ENUM, id)
        /\ \E i \in DOMAIN Enums[id].values : Enums[id].values[i].value = v.data

WellTyped == \A k \in Keys : store[k] # None => WellTypedValue(store[k])

\* What registry_get_strval() prints of a value registry_set_strval() takes for
\* that value, also where an enumeration has numbers for names.
StrvalRoundTrip ==
    \A k \in Keys :
        LET v == store[k]
            kind == GetType(v.type)
            text == GetStrval(v)
        IN  /\ v # None
            /\ kind # REGISTRY_TYPE_BLOB
            /\ kind = REGISTRY_TYPE_ENUM => Registered(GetEnumType(v.type))
            => text # NotFound /\ Parse(v.type, text) = v

\* Setting a text leaves the type of the value as it is, unless another thread
\* has changed the value since the call asked for its type.
StrvalKeepsType ==
    [][\A t \in Threads :
          LET v == store[call[t].key]
          IN  /\ pc[t] = "set" /\ pc'[t] = "idle"
              /\ call[t].op \in {"strval", "regadd"}
              /\ t \notin touched
              /\ v # None /\ ~Empty(v)
              => store'[call[t].key].type = v.type]_vars

\* The command regadd changes no value that exists, unless another thread has
\* set it since the command looked for it.
RegaddAddsOnly ==
    [][\A t \in Threads :
          LET v == store[call[t].key]
          IN  /\ pc[t] = "set" /\ pc'[t] = "idle"
              /\ call[t].op = "regadd"
              /\ t \notin touched
              => v = None \/ Empty(v)]_vars

\* An enumeration in progress still has before it every value that has been
\* there all the while and that it has not come to, and each is there, as long
\* as no sector swap, repair or erase and no delete of the entry it is at has
\* freed what the iterator points to, and no empty value has ended it.
EnumerationComplete ==
    \A k \in walk.due : it # None /\ k > it /\ store[k] # None
=============================================================================
