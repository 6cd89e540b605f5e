------------------------------ MODULE KVStore ------------------------------
(***************************************************************************)
(* What the storage engine promises its callers: a map from keys to values *)
(* whose operations take effect, one at a time, at some moment between the *)
(* call and the answer (db_engine.h, class Engine).  A write the engine    *)
(* answers kIOError has no effect; when the process dies, at most one      *)
(* write whose caller never got an answer may still have taken effect.     *)
(***************************************************************************)
CONSTANTS
    Threads,     \* threads that call the engine
    Keys,        \* keys a caller may name
    Values,      \* values a caller may store
    EmptyKey,    \* the key "" that every operation refuses
    NoValue      \* the value of a key that is not in the store

VARIABLES
    store,       \* the map the callers believe in
    status,      \* "down", "serving" or "closed"
    request,     \* request[t]: the operation t has called and that has not taken effect
    answer       \* answer[t]: what t's last operation returns

vars == <<store, status, request, answer>>

\* The three operations of the engine's interface, as the callers name them.
Requests ==
    [op : {"put"}, key : Keys \cup {EmptyKey}, value : Values]
    \cup [op : {"get", "delete"}, key : Keys \cup {EmptyKey}, value : {NoValue}]

Answer(s, v) == [status |-> s, value |-> v]
Answers ==
    [status : {"kSuccess", "kKeyNotFound", "kDataCorrupted", "kIOError", "kInvalid"},
     value : Values \cup {NoValue}]
NoRequest == [op |-> "get", key |-> EmptyKey, value |-> NoValue]
Nothing == Answer("kInvalid", NoValue)

Init ==
    /\ store = [k \in Keys |-> NoValue]
    /\ status = "down"
    /\ request = [t \in Threads |-> NoRequest]
    /\ answer = [t \in Threads |-> Nothing]

Waiting(t) == request[t] # NoRequest

Call(t, r) ==
    /\ status \in {"serving", "closed"}
    /\ ~Waiting(t)
    /\ request' = [request EXCEPT ![t] = IF r.key = EmptyKey THEN NoRequest ELSE r]
    /\ answer' = [answer EXCEPT ![t] = Nothing]
    /\ UNCHANGED <<store, status>>

\* The operation of t takes effect and its answer is fixed.
TakeEffect(t, s, a) ==
    /\ store' = s
    /\ answer' = [answer EXCEPT ![t] = a]
    /\ request' = [request EXCEPT ![t] = NoRequest]
    /\ UNCHANGED status

IsWrite(t) == request[t].op \in {"put", "delete"}
Written(t) == [store EXCEPT ![request[t].key] = request[t].value]

PutOrDelete(t) ==
    /\ Waiting(t)
    /\ status = "serving"
    /\ IsWrite(t)
    /\ request[t].op = "delete" => store[request[t].key] # NoValue
    /\ TakeEffect(t, Written(t), Answer("kSuccess", NoValue))

DeleteMissing(t) ==
    /\ Waiting(t)
    /\ request[t].op = "delete"
    /\ store[request[t].key] = NoValue
    /\ TakeEffect(t, store, Answer("kKeyNotFound", NoValue))

FailToWrite(t) ==
    /\ Waiting(t)
    /\ IsWrite(t)
    /\ request[t].op = "delete" => store[request[t].key] # NoValue
    /\ TakeEffect(t, store, Answer("kIOError", NoValue))

\* A closed engine still knows which keys exist but cannot read their values.
Get(t) ==
    /\ Waiting(t)
    /\ request[t].op = "get"
    /\ LET v == store[request[t].key] IN
       TakeEffect(t, store,
           IF v = NoValue THEN Answer("kKeyNotFound", NoValue)
           ELSE IF status = "closed" THEN Answer("kDataCorrupted", NoValue)
           ELSE Answer("kSuccess", v))

Close ==
    /\ status = "serving"
    /\ \A t \in Threads : ~Waiting(t)
    /\ status' = "closed"
    /\ UNCHANGED <<store, request, answer>>

Open ==
    /\ status = "down"
    /\ status' = "serving"
    /\ UNCHANGED <<store, request, answer>>

\* The process stops; the callers and their pending operations go with it.
Stop ==
    /\ status # "down"
    /\ status' = "down"
    /\ \/ UNCHANGED store
       \/ \E t \in Threads : Waiting(t) /\ IsWrite(t) /\ store' = Written(t)
    /\ request' = [t \in Threads |-> NoRequest]
    /\ answer' = [t \in Threads |-> Nothing]

Operate(t) ==
    \/ \E r \in Requests : Call(t, r)
    \/ PutOrDelete(t)
    \/ DeleteMissing(t)
    \/ FailToWrite(t)
    \/ Get(t)

Next == Open \/ Close \/ Stop \/ \E t \in Threads : Operate(t)

Spec == Init /\ [][Next]_vars
=============================================================================
