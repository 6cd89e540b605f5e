-------------------------- MODULE EngineRefinement --------------------------
(***************************************************************************)
(* The engine implements KVStore.  The map is what the index leads to; when *)
(* there is no index (the process is down, or Open is replaying) it is what *)
(* the log will rebuild.  A write takes effect when the index is updated, a *)
(* read when it looks the key up.                                           *)
(***************************************************************************)
EXTENDS Engine

EndOfLog == Position(ActiveId, Len(file))

LoggedValue(k) ==
    LET live == {p \in LogPositions(file) : Latest(file, k, p, EndOfLog) /\ Record(file, p).type = NORMAL}
    IN  IF live = {} THEN NoValue ELSE Record(file, CHOOSE p \in live : TRUE).value

IndexedValue(k) == IF index[k] = NoPos THEN NoValue ELSE Record(file, index[k]).value

storeBar == [k \in Keys |-> IF Serving THEN IndexedValue(k) ELSE LoggedValue(k)]
statusBar ==
    CASE phase = "open" -> "serving" [] phase = "closed" -> "closed" [] OTHER -> "down"
requestBar == [t \in Threads |-> IF pc[t] = "read" THEN NoOp ELSE op[t]]
answerBar == [t \in Threads |-> IF pc[t] = "read" THEN ReadAnswer(pos[t]) ELSE ans[t]]

Abstract == INSTANCE KVStore WITH
    store <- storeBar, status <- statusBar,
    request <- requestBar, answer <- answerBar

\* Put, Get and Delete of several threads, restarts and kills between any two of their
\* steps, are linearizable operations on one map, and no answered write is lost.
ImplementsKVStore == Abstract!Spec

-----------------------------------------------------------------------------
(* What the map adds to the engine's inductive invariant, for an engine    *)
(* whose writes are whole or fail whole and that starts without archives.  *)

\* A write stores its record or fails without a trace, and nothing is archived.
WholeWrites == Faults \subseteq {"error", "crash"} /\ Archive = <<>>

\* The file is whole records, and the engine writes at its end.
WholeInv == WellFormed(file, Len(file)) /\ (Serving => Untorn)

\* A thread outside the engine has no operation, and no answer from before the start.
AtRestInv == \A t \in Threads : pc[t] = "idle" => op[t] = NoOp
SilentInv == ~Serving => \A t \in Threads : ans[t] = NoAnswer

\* Nobody takes the key away from a Delete that has found it.
DeleteInv ==
    \A t \in Threads :
        pc[t] \in {"append", "index"} /\ op[t].op = "delete" => index[op[t].key] # NoPos

RInv == WholeInv /\ AtRestInv /\ SilentInv /\ DeleteInv
=============================================================================
