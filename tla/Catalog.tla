------------------------------- MODULE Catalog -------------------------------
(***************************************************************************)
(* The catalogue of problems and favourites that handlers_algo.cpp keeps   *)
(* in the storage engine.  The I/O threads run the handlers side by side;  *)
(* one action is one call of the engine, which is taken for the atomic map *)
(* that KVStore specifies.  Writers hold data_mutex, readers take no lock. *)
(*                                                                         *)
(* A problem is its algorithm list and its tags; a favourite is the set of *)
(* its problem_ids; the other fields are carried along and left out.       *)
(***************************************************************************)
EXTENDS Integers, Sequences, FiniteSets, SequencesExt, Functions

CONSTANTS
    Writers,    \* the threads that may run a handler that changes the catalogue
    Readers,    \* those that may run one that only reads it
    NoThread,
    MaxId,      \* MaxId[kind]: bound on the ids created in a behaviour
    Algos,      \* algorithm lists a request may carry
    Lists,      \* further lists that changes of the tags are checked with
    New,        \* the tag every new problem gets
    Null,       \* the JSON null a moved-from tag leaves
    Absent      \* what a Get of a missing key answers

Kinds == {"problem", "fav"}

Threads == Writers \cup Readers
Problems == 1..MaxId["problem"]
Favs == 1..MaxId["fav"]
Tags == {New, Null} \cup UNION {ToSet(a) : a \in Algos}
Records == [algo : Algos, tags : Seq(Tags)]

ASSUME ConstantsAssumption ==
    /\ NoThread \notin Threads
    /\ MaxId \in [Kinds -> Nat \ {0}]
    /\ \A algo \in Algos \cup Lists : algo \in Seq(ToSet(algo))
    /\ <<>> \in Algos
    /\ Absent \notin Records /\ \A s \in SUBSET Problems : s # Absent

VARIABLES
    next,       \* "sys:next_problem_id", "sys:next_fav_id"; 0 while absent
    ids,        \* "sys:problem_ids", "sys:fav_ids"
    problem,    \* "problem:<id>"
    fav,        \* "fav:<id>"
    mutex,      \* who holds data_mutex
    pc,         \* the engine call each thread is about to make
    loc,        \* the locals of its handler
    answered,   \* ids whose creation was answered, until they are deleted
    kept,       \* <<favourite, problem>> pairs answered, until they are removed
    sure,       \* what was answered before a reader began and was not undone since
    harmed      \* a handler was cut short by the end of the process

db == <<next, ids, problem, fav>>
history == <<answered, kept, sure, harmed>>
vars == <<db, mutex, pc, loc, history>>

NoLocal ==
    [kind |-> "problem", id |-> 0, fid |-> 0, algo |-> <<>>, list |-> <<>>, todo |-> <<>>,
     set |-> {}, record |-> Absent, changed |-> FALSE, starred |-> {}, shown |-> {}]
Nothing == [problems |-> {}, pairs |-> {}]

Init ==
    /\ next = [k \in Kinds |-> 0]
    /\ ids = [k \in Kinds |-> <<>>]
    /\ problem = [p \in Problems |-> Absent]
    /\ fav = [f \in Favs |-> Absent]
    /\ mutex = NoThread
    /\ pc = [t \in Threads |-> "idle"]
    /\ loc = [t \in Threads |-> NoLocal]
    /\ answered = [k \in Kinds |-> {}]
    /\ kept = {}
    /\ sure = [t \in Threads |-> Nothing]
    /\ harmed = FALSE

-----------------------------------------------------------------------------
(* Tags.                                                                   *)

\* std::remove, then erase up to the end.
Without(s, e) == FoldLeft(LAMBDA left, x : IF x = e THEN left ELSE Append(left, x), <<>>, s)

RemoveNone(tags, a) == tags   \* faulty variant

\* std::remove, then erase of one element: of several equal tags the others stay,
\* and a tag that was moved forward leaves a null behind.
RemoveTag(tags, a) ==
    LET left == Without(tags, a)
        rest == SubSeq(tags, Len(left) + 2, Len(tags)) IN
    left \o [i \in DOMAIN rest |-> IF rest[i] = a THEN a ELSE Null]

RemoveOld(tags, old, new) ==
    FoldLeft(LAMBDA ts, a : IF a \in ToSet(new) THEN ts ELSE RemoveTag(ts, a), tags, old)

AddNew(tags, new) ==
    FoldLeft(LAMBDA ts, a : IF a \in ToSet(ts) THEN ts ELSE Append(ts, a), tags, new)

\* The tags handleUpdateProblem stores when the algorithm goes from old to new.
Retagged(tags, old, new) == IF old = new THEN tags ELSE AddNew(RemoveOld(tags, old, new), new)

\* get<std::string>() of a null throws: looking for a new tag stops at the first hit.
Throws(tags, old, new) ==
    /\ old # new
    /\ LET left == RemoveOld(tags, old, new) IN
       \E i \in DOMAIN left :
           left[i] = Null /\ \E a \in ToSet(new) : a \notin ToSet(SubSeq(left, 1, i - 1))

-----------------------------------------------------------------------------
(* Handlers.                                                               *)

LockForgotten(t) ==    \* faulty variant
    /\ pc[t] = "idle"
    /\ mutex' = t
Locked(t) ==
    /\ pc[t] = "idle" /\ mutex = NoThread
    /\ mutex' = t

At(t, label) == pc[t] = label
Go(t, label, l) ==
    /\ pc' = [pc EXCEPT ![t] = label]
    /\ loc' = [loc EXCEPT ![t] = l]

\* The handler answers: its lock_guard goes and its locals with it.
Finish(t) ==
    /\ Go(t, "idle", NoLocal)
    /\ mutex' = IF mutex = t THEN NoThread ELSE mutex

\* handleAddProblem and handleCreateFavorite differ in the keys they use.
CreateGetNext(t, kind, algo) ==
    /\ Locked(t)
    /\ next[kind] < MaxId[kind]
    /\ Go(t, "putNext", [NoLocal EXCEPT !.kind = kind, !.id = next[kind] + 1, !.algo = algo])
    /\ UNCHANGED <<db, history>>

CreatePutNext(t) ==
    /\ At(t, "putNext")
    /\ next' = [next EXCEPT ![loc[t].kind] = loc[t].id]
    /\ Go(t, "putItem", loc[t])
    /\ UNCHANGED <<ids, problem, fav, mutex, history>>

CreatePutItem(t) ==
    /\ At(t, "putItem")
    /\ IF loc[t].kind = "problem"
       THEN /\ problem' = [problem EXCEPT ![loc[t].id] =
                   [algo |-> loc[t].algo, tags |-> <<New>> \o loc[t].algo]]
            /\ UNCHANGED fav
       ELSE fav' = [fav EXCEPT ![loc[t].id] = {}] /\ UNCHANGED problem
    /\ Go(t, "getIds", loc[t])
    /\ UNCHANGED <<next, ids, mutex, history>>

CreateGetIds(t) ==
    /\ At(t, "getIds")
    /\ Go(t, "putIds", [loc[t] EXCEPT !.list = ids[loc[t].kind]])
    /\ UNCHANGED <<db, mutex, history>>

CreatePutIds(t) ==
    LET l == loc[t] IN
    /\ At(t, "putIds")
    /\ ids' = [ids EXCEPT ![l.kind] = Append(l.list, l.id)]
    /\ answered' = [answered EXCEPT ![l.kind] = @ \cup {l.id}]
    /\ Finish(t)
    /\ UNCHANGED <<next, problem, fav, kept, sure, harmed>>

\* handleAddToFavorite does not ask whether the problem exists.
AddGetFav(t, f, p) ==
    /\ Locked(t)
    /\ fav[f] # Absent
    /\ Go(t, "putFav", [NoLocal EXCEPT !.id = p, !.fid = f, !.set = fav[f]])
    /\ UNCHANGED <<db, history>>

AddPutOnly(t) ==   \* faulty variant: the other problems of the favourite are dropped
    LET l == loc[t] IN
    /\ At(t, "putFav")
    /\ fav' = [fav EXCEPT ![l.fid] = {l.id}]
    /\ kept' = kept \cup {<<l.fid, l.id>>}
    /\ Finish(t)
    /\ UNCHANGED <<next, ids, problem, answered, sure, harmed>>
AddPutFav(t) ==
    LET l == loc[t] IN
    /\ At(t, "putFav")
    /\ fav' = [fav EXCEPT ![l.fid] = l.set \cup {l.id}]
    /\ kept' = kept \cup {<<l.fid, l.id>>}
    /\ Finish(t)
    /\ UNCHANGED <<next, ids, problem, answered, sure, harmed>>

\* handleUpdateProblem.
UpdateGetProblem(t, p, algo) ==
    /\ Locked(t)
    /\ problem[p] # Absent
    /\ ~Throws(problem[p].tags, problem[p].algo, algo)
    /\ Go(t, "putProblem", [NoLocal EXCEPT !.id = p, !.record =
           [algo |-> algo, tags |-> Retagged(problem[p].tags, problem[p].algo, algo)]])
    /\ UNCHANGED <<db, history>>

UpdatePutProblem(t) ==
    /\ At(t, "putProblem")
    /\ problem' = [problem EXCEPT ![loc[t].id] = loc[t].record]
    /\ Finish(t)
    /\ UNCHANGED <<next, ids, fav, history>>

-----------------------------------------------------------------------------
(* handleDeleteProblem, and the walk over the favourites it shares with    *)
(* handleRemoveFromFavorite.                                               *)

Undone(problems, pairs) ==
    sure' = [t \in Threads |-> [problems |-> sure[t].problems \ problems,
                                pairs |-> sure[t].pairs \ pairs]]

\* Faulty variant: the index and the favourites are left as they are.
DeleteOnly(t, p) ==
    /\ Locked(t)
    /\ problem[p] # Absent
    /\ problem' = [problem EXCEPT ![p] = Absent]
    /\ answered' = [answered EXCEPT !["problem"] = @ \ {p}]
    /\ Undone({p}, {})
    /\ Go(t, "sweep", [NoLocal EXCEPT !.id = p])
    /\ UNCHANGED <<next, ids, fav, kept, harmed>>
DeleteProblem(t, p) ==
    /\ Locked(t)
    /\ problem[p] # Absent
    /\ problem' = [problem EXCEPT ![p] = Absent]
    /\ answered' = [answered EXCEPT !["problem"] = @ \ {p}]
    /\ Undone({p}, {})
    /\ Go(t, "getProblemIds", [NoLocal EXCEPT !.id = p])
    /\ UNCHANGED <<next, ids, fav, kept, harmed>>

DeleteGetIds(t) ==
    LET left == Without(ids["problem"], loc[t].id) IN
    /\ At(t, "getProblemIds")
    /\ IF left # ids["problem"]
       THEN Go(t, "putProblemIds", [loc[t] EXCEPT !.list = left])
       ELSE Go(t, "getFavIds", loc[t])
    /\ UNCHANGED <<db, mutex, history>>

DeletePutIds(t) ==
    /\ At(t, "putProblemIds")
    /\ ids' = [ids EXCEPT !["problem"] = loc[t].list]
    /\ Go(t, "getFavIds", loc[t])
    /\ UNCHANGED <<next, problem, fav, mutex, history>>

\* handleRemoveFromFavorite: fid = 0 stands for the -1 that means every favourite.
RemoveFromFavorite(t, p, f) ==
    /\ Locked(t)
    /\ Go(t, "sweep", [NoLocal EXCEPT !.id = p, !.fid = f, !.list = ids["fav"], !.todo = ids["fav"]])
    /\ UNCHANGED <<db, history>>

SweepGetIds(t) ==
    /\ At(t, "getFavIds")
    /\ Go(t, "sweep", [loc[t] EXCEPT !.list = ids["fav"], !.todo = ids["fav"]])
    /\ UNCHANGED <<db, mutex, history>>

Hit(l, f) == l.fid \in {0, f} /\ fav[f] # Absent /\ l.id \in fav[f]

SweepGet(t) ==
    LET l == loc[t] IN
    /\ At(t, "sweep") /\ l.todo # <<>>
    /\ IF Hit(l, Head(l.todo))
       THEN Go(t, "sweepPut", [l EXCEPT !.set = fav[Head(l.todo)] \ {l.id}])
       ELSE Go(t, "sweep", [l EXCEPT !.todo = Tail(@)])
    /\ UNCHANGED <<db, mutex, history>>

\* A favourite that becomes empty is deleted, and later taken from the index.
SweepPut(t) ==
    LET l == loc[t]
        f == Head(l.todo) IN
    /\ At(t, "sweepPut")
    /\ fav' = [fav EXCEPT ![f] = IF l.set = {} THEN Absent ELSE l.set]
    /\ Go(t, "sweep", IF l.set = {}
                      THEN [l EXCEPT !.todo = Tail(@), !.changed = TRUE,
                                     !.list = Without(@, f)]
                      ELSE [l EXCEPT !.todo = Tail(@)])
    /\ kept' = kept \ {<<f, l.id>>}
    /\ answered' = IF l.set = {} THEN [answered EXCEPT !["fav"] = @ \ {f}] ELSE answered
    /\ Undone({}, {<<f, l.id>>})
    /\ UNCHANGED <<next, ids, problem, mutex, harmed>>

SweepEndForgets(t) ==   \* faulty variant: the index of the favourites is not written
    /\ At(t, "sweep") /\ loc[t].todo = <<>>
    /\ Finish(t)
    /\ UNCHANGED <<db, history>>
SweepEnd(t) ==
    /\ At(t, "sweep") /\ loc[t].todo = <<>>
    /\ ids' = IF loc[t].changed THEN [ids EXCEPT !["fav"] = loc[t].list] ELSE ids
    /\ Finish(t)
    /\ UNCHANGED <<next, problem, fav, history>>

-----------------------------------------------------------------------------
(* Readers: handleGetProblems, handleGetAllTags, handleGetFavorites.       *)

\* handleGetProblems reads the problem index first; f = 0 is no filter.
GetProblems(t, f) ==
    /\ pc[t] = "idle"
    /\ Go(t, IF f = 0 THEN "favIds" ELSE "filter",
          [NoLocal EXCEPT !.fid = f, !.list = ids["problem"], !.set = Problems])
    /\ sure' = [sure EXCEPT ![t] =
           [problems |-> answered["problem"], pairs |-> {x \in kept : x[1] \in answered["fav"]}]]
    /\ UNCHANGED <<db, mutex, answered, kept, harmed>>

ReadFilter(t) ==
    LET f == loc[t].fid IN
    /\ At(t, "filter")
    /\ Go(t, "favIds", [loc[t] EXCEPT !.set = IF fav[f] = Absent THEN {} ELSE fav[f]])
    /\ UNCHANGED <<db, mutex, history>>

ReadFavIds(t) ==
    /\ At(t, "favIds")
    /\ Go(t, "favs", [loc[t] EXCEPT !.todo = ids["fav"]])
    /\ UNCHANGED <<db, mutex, history>>

ReadFav(t) ==
    LET l == loc[t] IN
    /\ At(t, "favs") /\ l.todo # <<>>
    /\ Go(t, "favs", [l EXCEPT !.todo = Tail(@),
           !.starred = IF fav[Head(l.todo)] = Absent THEN @ ELSE @ \cup fav[Head(l.todo)]])
    /\ UNCHANGED <<db, mutex, history>>

\* handleGetFavorites makes the same walk over the favourites; handleGetAllTags makes
\* the one over the problems that follows.
FavsDone(t) ==
    /\ At(t, "favs") /\ loc[t].todo = <<>>
    /\ Go(t, "problems", [loc[t] EXCEPT !.todo = loc[t].list])
    /\ UNCHANGED <<db, mutex, history>>

\* Faulty variant: a listed problem without a record ends the walk.
ReadProblemStops(t) ==
    LET l == loc[t]
        p == Head(l.todo) IN
    /\ At(t, "problems") /\ l.todo # <<>>
    /\ Go(t, "problems", IF problem[p] = Absent THEN [l EXCEPT !.todo = <<>>]
           ELSE [l EXCEPT !.todo = Tail(@),
                          !.shown = IF p \in l.set THEN @ \cup {p} ELSE @])
    /\ UNCHANGED <<db, mutex, history>>

\* A listed problem without a record is passed over.
ReadProblem(t) ==
    LET l == loc[t]
        p == Head(l.todo) IN
    /\ At(t, "problems") /\ l.todo # <<>>
    /\ Go(t, "problems", [l EXCEPT !.todo = Tail(@),
           !.shown = IF p \in l.set /\ problem[p] # Absent THEN @ \cup {p} ELSE @])
    /\ UNCHANGED <<db, mutex, history>>

ReaderAnswers(t) ==
    /\ At(t, "problems") /\ loc[t].todo = <<>>
    /\ Finish(t)
    /\ sure' = [sure EXCEPT ![t] = Nothing]
    /\ UNCHANGED <<db, answered, kept, harmed>>

-----------------------------------------------------------------------------
\* The process ends and is started again: a kill, or an exception that leaves a
\* handler (an id that is no number, a null among the tags).  Every call of the
\* engine that was made has its effect.
Restart ==
    /\ harmed' = (harmed \/ mutex # NoThread)
    /\ mutex' = NoThread
    /\ pc' = [t \in Threads |-> "idle"]
    /\ loc' = [t \in Threads |-> NoLocal]
    /\ sure' = [t \in Threads |-> Nothing]
    /\ UNCHANGED <<db, answered, kept>>

Write(t) ==
    \/ \E algo \in Algos : CreateGetNext(t, "problem", algo)
    \/ CreateGetNext(t, "fav", <<>>)
    \/ \E f \in Favs, p \in Problems : AddGetFav(t, f, p)
    \/ \E p \in Problems, algo \in Algos : UpdateGetProblem(t, p, algo)
    \/ \E p \in Problems : DeleteProblem(t, p)
    \/ \E p \in Problems, f \in Favs \cup {0} : RemoveFromFavorite(t, p, f)

Read(t) == \E f \in Favs \cup {0} : GetProblems(t, f)

Step(t) ==
    \/ CreatePutNext(t) \/ CreatePutItem(t) \/ CreateGetIds(t) \/ CreatePutIds(t)
    \/ AddPutFav(t) \/ UpdatePutProblem(t)
    \/ DeleteGetIds(t) \/ DeletePutIds(t)
    \/ SweepGetIds(t) \/ SweepGet(t) \/ SweepPut(t) \/ SweepEnd(t)
    \/ ReadFilter(t) \/ ReadFavIds(t) \/ ReadFav(t) \/ FavsDone(t)
    \/ ReadProblem(t) \/ ReaderAnswers(t)

Next ==
    \/ \E t \in Writers : Write(t)
    \/ \E t \in Readers : Read(t)
    \/ \E t \in Threads : Step(t)
    \/ Restart

Spec == Init /\ [][Next]_vars

-----------------------------------------------------------------------------
Listed(k) == ToSet(ids[k])
Stored(k) ==
    IF k = "problem" THEN {p \in Problems : problem[p] # Absent}
                     ELSE {f \in Favs : fav[f] # Absent}

TypeOK ==
    /\ \A k \in Kinds :
           /\ next[k] \in 0..MaxId[k]
           /\ Listed(k) \cup Stored(k) \cup answered[k] \subseteq 1..next[k]
           /\ IsInjective(ids[k])
    /\ \A p \in Stored("problem") :
           problem[p].algo \in Algos /\ ToSet(problem[p].tags) \subseteq Tags
    /\ \A f \in Stored("fav") : fav[f] \subseteq Problems
    /\ mutex \in Threads \cup {NoThread}
    /\ kept \subseteq Favs \X Problems

\* An id is never handed out twice: no handler is about to write a record over one
\* that is stored or listed, whatever was deleted or cut short before
\* (sys:next_problem_id is written before the record, and never goes back).
IdIsFresh ==
    \A t \in Threads : pc[t] = "putItem" =>
        loc[t].id \notin Stored(loc[t].kind) \cup Listed(loc[t].kind)

\* What a client was told is done stays done until it is undone: a problem or a
\* favourite is stored and listed, and a problem added to a favourite is in it, however
\* the read-modify-writes of the handlers and ends of the process interleave.
AnsweredIsKept ==
    /\ \A k \in Kinds : answered[k] \subseteq Stored(k) \cap Listed(k)
    /\ \A x \in kept : fav[x[1]] # Absent /\ x[2] \in fav[x[1]]

\* Between two handlers the index lists exactly the records, unless the process was
\* once cut short in the middle of one.
IndexesAgree ==
    mutex = NoThread /\ ~harmed => \A k \in Kinds : Listed(k) = Stored(k)

\* When a problem has been taken out of every favourite (it was deleted, or no
\* favourite was named), no listed favourite still refers to it.
RemovalIsComplete ==
    \A t \in Threads : pc[t] = "sweep" /\ loc[t].todo = <<>> /\ loc[t].fid = 0 =>
        \A f \in Listed("fav") \cap Stored("fav") : loc[t].id \notin fav[f]

\* GetProblems takes no lock and makes many reads, and yet shows every problem that
\* was there before it began and is not deleted, with a star if it stood in a
\* favourite all along.
ReadersSeeWhatStands ==
    \A t \in Threads : pc[t] = "problems" /\ loc[t].todo = <<>> =>
        /\ sure[t].problems \cap loc[t].set \subseteq loc[t].shown
        /\ {x[2] : x \in sure[t].pairs} \subseteq loc[t].starred

\* A change of the algorithm takes away exactly the tags of the old list and adds
\* those of the new one, as long as no tag occurs twice.
TagsFollowAlgorithm ==
    \A p \in Stored("problem") : \A new \in Algos \cup Lists :
        LET old == problem[p].algo
            tags == problem[p].tags IN
        IsInjective(tags) /\ old # new =>
            ToSet(Retagged(tags, old, new)) = (ToSet(tags) \ ToSet(old)) \cup ToSet(new)

=============================================================================
