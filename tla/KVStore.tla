------------------------------ MODULE KVStore ------------------------------
(***************************************************************************)
(* What a record volume promises: a map from keys to values on FLASH on    *)
(* which every operation is atomic, also when it fails or power does.      *)
(***************************************************************************)
CONSTANTS Keys, Vals, None

VARIABLES
    store,      \* the persistent map; None: no record
    req,        \* the operation in progress
    open,       \* the volume is loaded and waits for its caller
    answer,     \* what a read returns, while open
    result      \* the result of the last operation

vars == <<store, req, open, answer, result>>

Nothing == [k \in Keys |-> None]
NoReq   == [op |-> "none", key |-> None, val |-> None]

Requests ==
    [op: {"record_set", "entry_save"}, key: Keys, val: Vals]
        \union [op: {"record_delete"}, key: Keys, val: {None}]
        \union [op: {"reset", "delete"}, key: {None}, val: {None}]

\* The map after the operation in progress.
Effect ==
    IF req.op \in {"reset", "delete"} THEN Nothing
    ELSE [store EXCEPT ![req.key] = req.val]

\* A loaded volume answers reads with what is on FLASH.
Answers == answer' = IF open' THEN store' ELSE Nothing

Init ==
    /\ store = Nothing
    /\ req = NoReq
    /\ open = FALSE
    /\ answer = Nothing
    /\ result = "none"

Start(r) ==
    /\ open
    /\ req' = r
    /\ open' = FALSE
    /\ UNCHANGED <<store, result>>

\* The operation takes effect before it returns.
Commit ==
    /\ req # NoReq
    /\ store' = Effect
    /\ UNCHANGED <<req, open, result>>

\* It may fail and have taken effect or not, but EOK means that it has.
Finish ==
    /\ req # NoReq
    /\ store' \in {store, Effect}
    /\ result' \in {"EOK", "FAIL"}
    /\ result' = "EOK" => store' = Effect
    /\ open' = (req.op # "delete")
    /\ req' = NoReq

\* Maintenance, unload and load change nothing on the map.
Maintain ==
    /\ req = NoReq
    /\ open' \in BOOLEAN
    /\ result' \in {result, "EOK", "FAIL"}
    /\ UNCHANGED <<store, req>>

PowerFailure ==
    /\ store' \in IF req = NoReq THEN {store} ELSE {store, Effect}
    /\ req' = NoReq
    /\ open' = FALSE
    /\ result' = "none"

Next ==
    /\ \/ \E r \in Requests : Start(r)
       \/ Commit
       \/ Finish
       \/ Maintain
       \/ PowerFailure
    /\ Answers

Spec == Init /\ [][Next]_vars
=============================================================================
