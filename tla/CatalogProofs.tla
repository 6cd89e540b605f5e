--------------------------- MODULE CatalogProofs ---------------------------
(***************************************************************************)
(* What the catalogue promises for any number of threads, problems and     *)
(* favourites, for lists of tags of any length, and wherever the process   *)
(* ends: no id is handed out twice, what was answered stands, the indexes  *)
(* list the records unless a handler was cut short, a delete leaves no     *)
(* favourite behind, and a reader, which takes no lock, misses nothing.    *)
(*                                                                         *)
(* A handler holds data_mutex from its first read to its last write, so    *)
(* only the holder's locals say anything of the engine; a reader's say     *)
(* what it has seen of the things that stood all along.  The handlers are  *)
(* taken step by step, each lemma <Action>Keeps for one action.            *)
(***************************************************************************)
EXTENDS Catalog, SequenceLemmas, TLAPS

-----------------------------------------------------------------------------
(* The inductive invariant.                                                *)

\* What the variables hold.
LocType ==
    [kind : Kinds, id : Nat, fid : Nat, algo : Algos, list : Seq(Nat), todo : Seq(Nat),
     set : SUBSET Problems, record : Records \cup {Absent}, changed : BOOLEAN,
     starred : SUBSET Problems, shown : SUBSET Problems]
StoreTypes ==
    /\ next \in [Kinds -> Nat] /\ \A k \in Kinds : next[k] <= MaxId[k]
    /\ ids \in [Kinds -> Seq(Nat)]
    /\ problem \in [Problems -> Records \cup {Absent}]
    /\ fav \in [Favs -> (SUBSET Problems) \cup {Absent}]
HistoryTypes ==
    /\ answered \in [Kinds -> SUBSET Nat]
    /\ kept \subseteq Favs \X Problems
    /\ sure \in [Threads -> [problems : SUBSET Nat, pairs : SUBSET (Favs \X Problems)]]
    /\ harmed \in BOOLEAN
Creating == {"putNext", "putItem", "getIds", "putIds"}
Deleting == {"getProblemIds", "putProblemIds", "getFavIds"}
Sweeping == {"sweep", "sweepPut"}
Changing == Creating \cup {"putFav", "putProblem"} \cup Deleting \cup Sweeping
Reading == {"filter", "favIds", "favs", "problems"}
ThreadTypes ==
    /\ mutex \in Threads \cup {NoThread}
    /\ pc \in [Threads -> Changing \cup Reading \cup {"idle"}]
    /\ loc \in [Threads -> LocType]

\* Ids come from the counters, an index lists none twice, and what was answered stands.
StoreInv ==
    /\ \A k \in Kinds : Once(ids[k]) /\ Listed(k) \cup Stored(k) \subseteq 1..next[k]
    /\ AnsweredIsKept
    /\ \A t \in Threads :
        /\ sure[t].problems \subseteq answered["problem"]
        /\ \A x \in sure[t].pairs : x \in kept /\ x[1] \in answered["fav"]

\* Who holds data_mutex is in a handler that changes the catalogue, and nobody else is.
MutexInv == \A t \in Threads : pc[t] \in Changing <=> mutex = t

\* Where a handler stands, the locals it goes on with are still true of the engine.
Created(l) ==
    /\ l.id \in 1..next[l.kind]
    /\ l.id \notin Listed(l.kind)
CreateInv(t) ==
    LET l == loc[t] IN
    /\ pc[t] = "putNext" => l.id = next[l.kind] + 1 /\ l.id <= MaxId[l.kind]
    /\ pc[t] \in {"putItem", "getIds", "putIds"} => Created(l)
    /\ pc[t] = "putItem" => l.id \notin Stored(l.kind)
    /\ pc[t] \in {"getIds", "putIds"} => l.id \in Stored(l.kind)
    /\ pc[t] = "putIds" => l.list = ids[l.kind]
ChangeInv(t) ==
    LET l == loc[t] IN
    /\ pc[t] = "putFav" =>
          l.id \in Problems /\ l.fid \in Favs /\ fav[l.fid] # Absent /\ l.set = fav[l.fid]
    /\ pc[t] = "putProblem" =>
          l.id \in Problems /\ problem[l.id] # Absent /\ l.record \in Records
DeleteInv(t) ==
    LET l == loc[t] IN
    /\ pc[t] \in {"getProblemIds", "putProblemIds"} => l.id \notin answered["problem"]
    /\ pc[t] = "putProblemIds" =>
          ToSet(l.list) = Listed("problem") \ {l.id} /\ Once(l.list)

\* A sweep has the favourites still to be looked at, and the index as it will be.
SweepInv(t) ==
    LET l == loc[t] IN
    /\ pc[t] \in Sweeping =>
          /\ answered["fav"] \subseteq ToSet(l.list) /\ ToSet(l.list) \subseteq Listed("fav")
          /\ Once(l.list) /\ (~l.changed => l.list = ids["fav"])
          /\ ToSet(l.todo) \subseteq Favs
          /\ l.fid = 0 => \A f \in Listed("fav") \cap Stored("fav") :
                              l.id \in fav[f] => f \in ToSet(l.todo)
    /\ pc[t] = "sweepPut" =>
          /\ l.todo # <<>> /\ fav[Head(l.todo)] # Absent
          /\ l.set = fav[Head(l.todo)] \ {l.id}
HandlerInv == \A t \in Threads : CreateInv(t) /\ ChangeInv(t) /\ DeleteInv(t) /\ SweepInv(t)

\* Unless a handler was cut short, the records and the index differ by what the handler
\* that holds the mutex has still to do.
Matches(k) == Listed(k) = Stored(k)
PartInv(t) ==
    LET l == loc[t] IN
    /\ pc[t] \in {"putNext", "putItem", "putFav", "putProblem", "getFavIds"} =>
          \A k \in Kinds : Matches(k)
    /\ pc[t] \in {"getIds", "putIds"} =>
          \A k \in Kinds : IF k = l.kind THEN Stored(k) = Listed(k) \cup {l.id} ELSE Matches(k)
    /\ pc[t] \in {"getProblemIds", "putProblemIds"} =>
          Stored("problem") = Listed("problem") \ {l.id} /\ Matches("fav")
    /\ pc[t] \in Sweeping => Matches("problem") /\ Stored("fav") = ToSet(l.list)
AgreeInv == IndexesAgree /\ (~harmed => \A t \in Threads : PartInv(t))

\* A reader has shown, or has still before it, what it was sure of.
ReadInv(t) ==
    LET l == loc[t] IN
    /\ pc[t] = "filter" => l.fid \in Favs
    /\ pc[t] \in {"filter", "favIds", "favs"} => sure[t].problems \subseteq ToSet(l.list)
    /\ pc[t] = "favs" =>
          /\ ToSet(l.todo) \subseteq Favs
          /\ \A x \in sure[t].pairs : x[1] \in ToSet(l.todo) \/ x[2] \in l.starred
    /\ pc[t] = "problems" =>
          /\ sure[t].problems \cap l.set \subseteq l.shown \cup ToSet(l.todo)
          /\ \A x \in sure[t].pairs : x[2] \in l.starred
ReaderInv == \A t \in Threads : ReadInv(t)

IInv ==
    /\ StoreTypes /\ HistoryTypes /\ ThreadTypes /\ StoreInv /\ MutexInv
    /\ HandlerInv /\ AgreeInv /\ ReaderInv

-----------------------------------------------------------------------------
(* The tags, and what std::remove makes of an index.                       *)

\* Without keeps or passes over one element after the other.
LEMMA WithoutRuns ==
    ASSUME NEW S, NEW s \in Seq(S), NEW e
    PROVE  \E h : /\ h[0] = <<>>
                  /\ \A i \in 1..Len(s) : h[i] = IF s[i] = e THEN h[i - 1] ELSE Append(h[i - 1], s[i])
                  /\ Without(s, e) = h[Len(s)]
<1> DEFINE n == Len(s)
           D == 1..n
           Is(f) == f = [a \in SUBSET D |->
                            IF a = {} THEN <<>>
                            ELSE LET x == Max(a) IN
                                 IF s[x] = e THEN f[a \ {x}] ELSE Append(f[a \ {x}], s[x])]
           f0 == CHOOSE f : Is(f)
<1>0. n \in Nat /\ DOMAIN s = D
  OBVIOUS
<1>1. Without(s, e) = f0[D]
  BY <1>0 DEF Without, FoldLeft, MapThenFoldSet
<1>2. \E f : Is(f)
  <2> DEFINE G == [p \in (1..n) \X Seq(S) |-> IF s[p[1]] = e THEN p[2] ELSE Append(p[2], s[p[1]])]
  <2>1. G \in [(1..n) \X Seq(S) -> Seq(S)]
    OBVIOUS
  <2>2. PICK g \in [SUBSET D -> Seq(S)] : FoldsTo(g, G, <<>>, n)
    <3>1. <<>> \in Seq(S)
      OBVIOUS
    <3> HIDE DEF G, n
    <3>2. HasFold(Seq(S), G, <<>>, n)
      BY <1>0, <2>1, <3>1, FoldExists
    <3> QED
      BY <3>2 DEF HasFold
  <2>3. ASSUME NEW a \in SUBSET D, a # {}
        PROVE  g[a] = IF s[Max(a)] = e THEN g[a \ {Max(a)}] ELSE Append(g[a \ {Max(a)}], s[Max(a)])
    <3>1. Max(a) \in 1..n
      BY <1>0, <2>3, MaxMember
    <3>2. g[a] = G[<<Max(a), g[a \ {Max(a)}]>>]
      BY <2>2, <2>3 DEF FoldsTo
    <3>3. a \ {Max(a)} \in SUBSET D
      OBVIOUS
    <3>4. g[a \ {Max(a)}] \in Seq(S)
      BY <2>2, <3>3
    <3> QED
      BY <3>1, <3>2, <3>4
  <2>4. g[{}] = <<>>
    BY <2>2 DEF FoldsTo
  <2> QED
    BY <2>2, <2>3, <2>4
<1>3. Is(f0)
  <2> HIDE DEF Is
  <2> QED
    BY <1>2
<1> HIDE DEF f0
<1>4. f0[{}] = <<>>
  BY <1>3
<1>5. ASSUME NEW i \in 1..n
      PROVE  f0[1..i] = IF s[i] = e THEN f0[1..(i - 1)] ELSE Append(f0[1..(i - 1)], s[i])
  <2>1. 1..i \in SUBSET D /\ 1..i # {} /\ Max(1..i) = i /\ (1..i) \ {i} = 1..(i - 1)
    BY <1>0, IntervalIs
  <2> QED
    BY <1>3, <2>1
<1> DEFINE h == [i \in 0..n |-> f0[1..i]]
<1>6. h[0] = <<>> /\ h[n] = f0[D]
  BY <1>0, <1>4, IntervalIs
<1>7. \A i \in 1..n : h[i] = IF s[i] = e THEN h[i - 1] ELSE Append(h[i - 1], s[i])
  BY <1>0, <1>5
<1> HIDE DEF h
<1> QED
  BY <1>1, <1>6, <1>7

\* It drops e, keeps the rest, and repeats nothing that was not repeated.
LEMMA WithoutIs ==
    ASSUME NEW S, NEW s \in Seq(S), NEW e
    PROVE  /\ Without(s, e) \in Seq(S)
           /\ ToSet(Without(s, e)) = ToSet(s) \ {e}
           /\ Once(s) => Once(Without(s, e))
           /\ e \notin ToSet(s) => Without(s, e) = s
           /\ Once(s) /\ e \in ToSet(s) => Len(Without(s, e)) = Len(s) - 1
<1>0. Len(s) \in Nat /\ ToSet(s) = {s[i] : i \in 1..Len(s)} /\ \A i \in 1..Len(s) : s[i] \in S
  BY ToSetIs
<1>1. PICK h : /\ h[0] = <<>>
               /\ \A i \in 1..Len(s) : h[i] = IF s[i] = e THEN h[i - 1] ELSE Append(h[i - 1], s[i])
               /\ Without(s, e) = h[Len(s)]
  BY WithoutRuns
<1> DEFINE Before(i) == {s[j] : j \in 1..i}
           Good(i) == /\ h[i] \in Seq(S)
                      /\ ToSet(h[i]) = Before(i) \ {e}
                      /\ Once(s) => Once(h[i])
                      /\ e \notin Before(i) => h[i] = SubSeq(s, 1, i)
                      /\ e \notin Before(i) => Len(h[i]) = i
                      /\ Once(s) /\ e \in Before(i) => Len(h[i]) = i - 1
           P == {i \in Nat : i <= Len(s) => Good(i)}
<1>2. 0 \in P
  <2>1. Before(0) = {} /\ <<>> \in Seq(S) /\ SubSeq(s, 1, 0) = <<>> /\ Len(<<>>) = 0
    OBVIOUS
  <2> HIDE DEF Before
  <2> QED
    BY <1>1, <2>1, EmptyQueue
<1>3. ASSUME NEW n \in Nat, n \in P PROVE n + 1 \in P
  <2> SUFFICES ASSUME n + 1 <= Len(s) PROVE Good(n + 1)
    OBVIOUS
  <2>1. Good(n) /\ n + 1 \in 1..Len(s) /\ s[n + 1] \in S /\ (n + 1) - 1 = n
    BY <1>0, <1>3
  <2>2. h[n + 1] = IF s[n + 1] = e THEN h[n] ELSE Append(h[n], s[n + 1])
    BY <1>1, <2>1
  <2>3. Before(n + 1) = Before(n) \cup {s[n + 1]}
    <3>1. \A j : j \in 1..(n + 1) <=> j \in 1..n \/ j = n + 1
      OBVIOUS
    <3> QED
      BY <3>1
  <2>4. SubSeq(s, 1, n + 1) = Append(SubSeq(s, 1, n), s[n + 1])
    BY <1>0, <2>1
  <2>5. Once(s) => s[n + 1] \notin Before(n)
    <3> SUFFICES ASSUME Once(s), NEW j \in 1..n, s[j] = s[n + 1] PROVE FALSE
      OBVIOUS
    <3>1. j \in 1..Len(s) /\ j # n + 1
      BY <2>1
    <3> QED
      BY <2>1, <3>1, Zenon DEF Once
  <2> HIDE DEF Before
  <2>6. CASE s[n + 1] = e
    <3>1. h[n + 1] = h[n] /\ e \in Before(n + 1) /\ Before(n + 1) \ {e} = Before(n) \ {e}
      BY <2>2, <2>3, <2>6
    <3>2. Once(s) => Len(h[n]) = n
      BY <2>1, <2>5, <2>6
    <3> QED
      BY <2>1, <3>1, <3>2
  <2>7. CASE s[n + 1] # e
    <3>1. h[n + 1] = Append(h[n], s[n + 1]) /\ (e \in Before(n + 1) <=> e \in Before(n))
      BY <2>2, <2>3, <2>7
    <3>2. /\ h[n + 1] \in Seq(S) /\ ToSet(h[n + 1]) = ToSet(h[n]) \cup {s[n + 1]}
          /\ Once(h[n]) /\ s[n + 1] \notin ToSet(h[n]) => Once(h[n + 1])
      BY <2>1, <3>1, QueueGrows
    <3>3. Len(h[n + 1]) = Len(h[n]) + 1
      BY <2>1, <3>1
    <3>4. ToSet(h[n + 1]) = Before(n + 1) \ {e}
      BY <2>1, <2>3, <2>7, <3>2
    <3>5. Once(s) => Once(h[n + 1])
      BY <2>1, <2>5, <3>2
    <3>6. e \notin Before(n + 1) => h[n + 1] = SubSeq(s, 1, n + 1)
      BY <2>1, <2>4, <3>1
    <3> QED
      BY <2>1, <3>1, <3>2, <3>3, <3>4, <3>5, <3>6
  <2> QED
    BY <2>6, <2>7
<1> HIDE DEF P
<1>4. \A i \in Nat : i \in P
  BY <1>2, <1>3, SetInduction
<1>5. Good(Len(s))
  <2>1. Len(s) \in P
    BY <1>0, <1>4
  <2> HIDE DEF Good
  <2> QED
    BY <1>0, <2>1 DEF P
<1>6. Before(Len(s)) = ToSet(s) /\ SubSeq(s, 1, Len(s)) = s
  BY <1>0
<1> HIDE DEF Before
<1> QED
  BY <1>1, <1>5, <1>6

\* As long as no tag occurs twice, RemoveTag removes one tag; whatever it leaves of
\* others are tags, the one it was to remove, or nulls.
LEMMA RemoveTagIs ==
    ASSUME NEW S, NEW tags \in Seq(S), NEW a \in S, Null \in S
    PROVE  /\ RemoveTag(tags, a) \in Seq(S)
           /\ Once(tags) => Once(RemoveTag(tags, a)) /\ ToSet(RemoveTag(tags, a)) = ToSet(tags) \ {a}
<1> DEFINE left == Without(tags, a)
           rest == SubSeq(tags, Len(left) + 2, Len(tags))
           behind == [i \in DOMAIN rest |-> IF rest[i] = a THEN a ELSE Null]
<1>1. RemoveTag(tags, a) = left \o behind
  BY DEF RemoveTag
<1>2. /\ left \in Seq(S) /\ ToSet(left) = ToSet(tags) \ {a}
      /\ Once(tags) => Once(left)
      /\ a \notin ToSet(tags) => left = tags
      /\ Once(tags) /\ a \in ToSet(tags) => Len(left) = Len(tags) - 1
  BY WithoutIs
<1> HIDE DEF left
<1>3. Len(left) \in Nat /\ Len(tags) \in Nat
  BY <1>2
<1>4. rest \in Seq(S)
  BY <1>3
<1>5. behind \in Seq(S)
  <2> HIDE DEF rest
  <2>1. DOMAIN rest = 1..Len(rest) /\ Len(rest) \in Nat
    BY <1>4
  <2>2. behind \in [1..Len(rest) -> S]
    BY <2>1
  <2> QED
    BY <2>1, <2>2
<1>6. ASSUME Once(tags) PROVE behind = <<>>
  <2>1. Len(left) + 2 > Len(tags)
    BY <1>2, <1>3, <1>6
  <2>2. rest = <<>>
    BY <1>3, <2>1
  <2> QED
    BY <2>2
<1> HIDE DEF behind
<1>7. Once(tags) => left \o behind = left
  BY <1>2, <1>6
<1>8. left \o behind \in Seq(S)
  BY <1>2, <1>5, ConcatProperties
<1> QED
  BY <1>1, <1>2, <1>7, <1>8

LEMMA RemoveOldRuns ==
    ASSUME NEW S, NEW tags \in Seq(S), NEW old \in Seq(S), NEW new, Null \in S
    PROVE  \E h : /\ h[0] = tags
                  /\ \A i \in 1..Len(old) : h[i] = IF old[i] \in ToSet(new) THEN h[i - 1]
                                                    ELSE RemoveTag(h[i - 1], old[i])
                  /\ RemoveOld(tags, old, new) = h[Len(old)]
<1> DEFINE n == Len(old)
           D == 1..n
           Is(f) == f = [a \in SUBSET D |->
                            IF a = {} THEN tags
                            ELSE LET x == Max(a) IN
                                 IF old[x] \in ToSet(new) THEN f[a \ {x}] ELSE RemoveTag(f[a \ {x}], old[x])]
           f0 == CHOOSE f : Is(f)
<1>0. n \in Nat /\ DOMAIN old = D
  OBVIOUS
<1>1. RemoveOld(tags, old, new) = f0[D]
  BY <1>0 DEF RemoveOld, FoldLeft, MapThenFoldSet
<1>2. \E f : Is(f)
  <2> DEFINE G == [p \in (1..n) \X Seq(S) |-> IF old[p[1]] \in ToSet(new) THEN p[2] ELSE RemoveTag(p[2], old[p[1]])]
  <2>1. G \in [(1..n) \X Seq(S) -> Seq(S)]
    <3>1. \A q \in Seq(S), i \in 1..n : RemoveTag(q, old[i]) \in Seq(S)
      <4>1. \A i \in 1..n : old[i] \in S
        OBVIOUS
      <4> QED
        BY <4>1, RemoveTagIs
    <3> QED
      BY <3>1
  <2>2. PICK g \in [SUBSET D -> Seq(S)] : FoldsTo(g, G, tags, n)
    <3> HIDE DEF G, n
    <3>2. HasFold(Seq(S), G, tags, n)
      BY <1>0, <2>1, FoldExists
    <3> QED
      BY <3>2 DEF HasFold
  <2>3. ASSUME NEW a \in SUBSET D, a # {}
        PROVE  g[a] = IF old[Max(a)] \in ToSet(new) THEN g[a \ {Max(a)}]
                      ELSE RemoveTag(g[a \ {Max(a)}], old[Max(a)])
    <3>1. Max(a) \in 1..n
      BY <1>0, <2>3, MaxMember
    <3>2. g[a] = G[<<Max(a), g[a \ {Max(a)}]>>]
      BY <2>2, <2>3 DEF FoldsTo
    <3>3. a \ {Max(a)} \in SUBSET D
      OBVIOUS
    <3>4. g[a \ {Max(a)}] \in Seq(S)
      BY <2>2, <3>3
    <3> QED
      BY <3>1, <3>2, <3>4
  <2>4. g[{}] = tags
    BY <2>2 DEF FoldsTo
  <2> QED
    BY <2>2, <2>3, <2>4
<1>3. Is(f0)
  <2> HIDE DEF Is
  <2> QED
    BY <1>2
<1> HIDE DEF f0
<1>4. f0[{}] = tags
  BY <1>3
<1>5. ASSUME NEW i \in 1..n
      PROVE  f0[1..i] = IF old[i] \in ToSet(new) THEN f0[1..(i - 1)] ELSE RemoveTag(f0[1..(i - 1)], old[i])
  <2>1. 1..i \in SUBSET D /\ 1..i # {} /\ Max(1..i) = i /\ (1..i) \ {i} = 1..(i - 1)
    BY <1>0, IntervalIs
  <2> QED
    BY <1>3, <2>1
<1> DEFINE h == [i \in 0..n |-> f0[1..i]]
<1>6. h[0] = tags /\ h[n] = f0[D]
  BY <1>0, <1>4, IntervalIs
<1>7. \A i \in 1..n : h[i] = IF old[i] \in ToSet(new) THEN h[i - 1] ELSE RemoveTag(h[i - 1], old[i])
  BY <1>0, <1>5
<1> HIDE DEF h
<1> QED
  BY <1>1, <1>6, <1>7

\* The old tags that are not new ones go.
LEMMA RemoveOldIs ==
    ASSUME NEW S, NEW tags \in Seq(S), NEW old \in Seq(S), NEW new, Null \in S
    PROVE  /\ RemoveOld(tags, old, new) \in Seq(S)
           /\ Once(tags) => ToSet(RemoveOld(tags, old, new)) = ToSet(tags) \ (ToSet(old) \ ToSet(new))
<1>0. Len(old) \in Nat /\ ToSet(old) = {old[i] : i \in 1..Len(old)} /\ \A i \in 1..Len(old) : old[i] \in S
  BY ToSetIs
<1>1. PICK h : /\ h[0] = tags
               /\ \A i \in 1..Len(old) : h[i] = IF old[i] \in ToSet(new) THEN h[i - 1]
                                                 ELSE RemoveTag(h[i - 1], old[i])
               /\ RemoveOld(tags, old, new) = h[Len(old)]
  BY RemoveOldRuns
<1> DEFINE Gone(i) == {old[j] : j \in 1..i} \ ToSet(new)
           Good(i) == /\ h[i] \in Seq(S)
                      /\ Once(tags) => Once(h[i]) /\ ToSet(h[i]) = ToSet(tags) \ Gone(i)
           P == {i \in Nat : i <= Len(old) => Good(i)}
<1>2. 0 \in P
  <2>1. Gone(0) = {}
    OBVIOUS
  <2> HIDE DEF Gone
  <2> QED
    BY <1>1, <2>1
<1>3. ASSUME NEW n \in Nat, n \in P PROVE n + 1 \in P
  <2> SUFFICES ASSUME n + 1 <= Len(old) PROVE Good(n + 1)
    OBVIOUS
  <2>1. Good(n) /\ n + 1 \in 1..Len(old) /\ old[n + 1] \in S /\ (n + 1) - 1 = n
    BY <1>0, <1>3
  <2>2. h[n + 1] = IF old[n + 1] \in ToSet(new) THEN h[n] ELSE RemoveTag(h[n], old[n + 1])
    BY <1>1, <2>1
  <2>3. Gone(n + 1) = Gone(n) \cup ({old[n + 1]} \ ToSet(new))
    <3>1. \A j : j \in 1..(n + 1) <=> j \in 1..n \/ j = n + 1
      OBVIOUS
    <3> QED
      BY <3>1
  <2> HIDE DEF Gone
  <2>4. /\ RemoveTag(h[n], old[n + 1]) \in Seq(S)
        /\ Once(h[n]) => /\ Once(RemoveTag(h[n], old[n + 1]))
                         /\ ToSet(RemoveTag(h[n], old[n + 1])) = ToSet(h[n]) \ {old[n + 1]}
    BY <2>1, RemoveTagIs
  <2> QED
    BY <2>1, <2>2, <2>3, <2>4
<1> HIDE DEF P
<1>4. \A i \in Nat : i \in P
  BY <1>2, <1>3, SetInduction
<1>5. Good(Len(old))
  <2>1. Len(old) \in P
    BY <1>0, <1>4
  <2> HIDE DEF Good
  <2> QED
    BY <1>0, <2>1 DEF P
<1>6. Gone(Len(old)) = ToSet(old) \ ToSet(new)
  BY <1>0
<1> HIDE DEF Gone
<1> QED
  BY <1>1, <1>5, <1>6

LEMMA AddNewRuns ==
    ASSUME NEW S, NEW tags \in Seq(S), NEW new \in Seq(S)
    PROVE  \E h : /\ h[0] = tags
                  /\ \A i \in 1..Len(new) : h[i] = IF new[i] \in ToSet(h[i - 1]) THEN h[i - 1]
                                                    ELSE Append(h[i - 1], new[i])
                  /\ AddNew(tags, new) = h[Len(new)]
<1> DEFINE n == Len(new)
           D == 1..n
           Is(f) == f = [a \in SUBSET D |->
                            IF a = {} THEN tags
                            ELSE LET x == Max(a) IN
                                 IF new[x] \in ToSet(f[a \ {x}]) THEN f[a \ {x}] ELSE Append(f[a \ {x}], new[x])]
           f0 == CHOOSE f : Is(f)
<1>0. n \in Nat /\ DOMAIN new = D
  OBVIOUS
<1>1. AddNew(tags, new) = f0[D]
  BY <1>0 DEF AddNew, FoldLeft, MapThenFoldSet
<1>2. \E f : Is(f)
  <2> DEFINE G == [p \in (1..n) \X Seq(S) |-> IF new[p[1]] \in ToSet(p[2]) THEN p[2] ELSE Append(p[2], new[p[1]])]
  <2>1. G \in [(1..n) \X Seq(S) -> Seq(S)]
    OBVIOUS
  <2>2. PICK g \in [SUBSET D -> Seq(S)] : FoldsTo(g, G, tags, n)
    <3> HIDE DEF G, n
    <3>2. HasFold(Seq(S), G, tags, n)
      BY <1>0, <2>1, FoldExists
    <3> QED
      BY <3>2 DEF HasFold
  <2>3. ASSUME NEW a \in SUBSET D, a # {}
        PROVE  g[a] = IF new[Max(a)] \in ToSet(g[a \ {Max(a)}]) THEN g[a \ {Max(a)}]
                      ELSE Append(g[a \ {Max(a)}], new[Max(a)])
    <3>1. Max(a) \in 1..n
      BY <1>0, <2>3, MaxMember
    <3>2. g[a] = G[<<Max(a), g[a \ {Max(a)}]>>]
      BY <2>2, <2>3 DEF FoldsTo
    <3>3. a \ {Max(a)} \in SUBSET D
      OBVIOUS
    <3>4. g[a \ {Max(a)}] \in Seq(S)
      BY <2>2, <3>3
    <3> QED
      BY <3>1, <3>2, <3>4
  <2>4. g[{}] = tags
    BY <2>2 DEF FoldsTo
  <2> QED
    BY <2>2, <2>3, <2>4
<1>3. Is(f0)
  <2> HIDE DEF Is
  <2> QED
    BY <1>2
<1> HIDE DEF f0
<1>4. f0[{}] = tags
  BY <1>3
<1>5. ASSUME NEW i \in 1..n
      PROVE  f0[1..i] = IF new[i] \in ToSet(f0[1..(i - 1)]) THEN f0[1..(i - 1)] ELSE Append(f0[1..(i - 1)], new[i])
  <2>1. 1..i \in SUBSET D /\ 1..i # {} /\ Max(1..i) = i /\ (1..i) \ {i} = 1..(i - 1)
    BY <1>0, IntervalIs
  <2> QED
    BY <1>3, <2>1
<1> DEFINE h == [i \in 0..n |-> f0[1..i]]
<1>6. h[0] = tags /\ h[n] = f0[D]
  BY <1>0, <1>4, IntervalIs
<1>7. \A i \in 1..n : h[i] = IF new[i] \in ToSet(h[i - 1]) THEN h[i - 1] ELSE Append(h[i - 1], new[i])
  BY <1>0, <1>5
<1> HIDE DEF h
<1> QED
  BY <1>1, <1>6, <1>7

\* The new ones come, but for those that are there.
LEMMA AddNewIs ==
    ASSUME NEW S, NEW tags \in Seq(S), NEW new \in Seq(S)
    PROVE  /\ AddNew(tags, new) \in Seq(S)
           /\ ToSet(AddNew(tags, new)) = ToSet(tags) \cup ToSet(new)
<1>0. Len(new) \in Nat /\ ToSet(new) = {new[i] : i \in 1..Len(new)} /\ \A i \in 1..Len(new) : new[i] \in S
  BY ToSetIs
<1>1. PICK h : /\ h[0] = tags
               /\ \A i \in 1..Len(new) : h[i] = IF new[i] \in ToSet(h[i - 1]) THEN h[i - 1]
                                                 ELSE Append(h[i - 1], new[i])
               /\ AddNew(tags, new) = h[Len(new)]
  BY AddNewRuns
<1> DEFINE Come(i) == {new[j] : j \in 1..i}
           Good(i) == h[i] \in Seq(S) /\ ToSet(h[i]) = ToSet(tags) \cup Come(i)
           P == {i \in Nat : i <= Len(new) => Good(i)}
<1>2. 0 \in P
  <2>1. Come(0) = {}
    OBVIOUS
  <2> HIDE DEF Come
  <2> QED
    BY <1>1, <2>1
<1>3. ASSUME NEW n \in Nat, n \in P PROVE n + 1 \in P
  <2> SUFFICES ASSUME n + 1 <= Len(new) PROVE Good(n + 1)
    OBVIOUS
  <2>1. Good(n) /\ n + 1 \in 1..Len(new) /\ new[n + 1] \in S /\ (n + 1) - 1 = n
    BY <1>0, <1>3
  <2>2. h[n + 1] = IF new[n + 1] \in ToSet(h[n]) THEN h[n] ELSE Append(h[n], new[n + 1])
    BY <1>1, <2>1
  <2>3. Come(n + 1) = Come(n) \cup {new[n + 1]}
    <3>1. \A j : j \in 1..(n + 1) <=> j \in 1..n \/ j = n + 1
      OBVIOUS
    <3> QED
      BY <3>1
  <2> HIDE DEF Come
  <2>4. /\ Append(h[n], new[n + 1]) \in Seq(S)
        /\ ToSet(Append(h[n], new[n + 1])) = ToSet(h[n]) \cup {new[n + 1]}
    BY <2>1, QueueGrows
  <2> QED
    BY <2>1, <2>2, <2>3, <2>4
<1> HIDE DEF P
<1>4. \A i \in Nat : i \in P
  BY <1>2, <1>3, SetInduction
<1>5. Good(Len(new))
  <2>1. Len(new) \in P
    BY <1>0, <1>4
  <2> HIDE DEF Good
  <2> QED
    BY <1>0, <2>1 DEF P
<1>6. Come(Len(new)) = ToSet(new)
  BY <1>0
<1> HIDE DEF Come
<1> QED
  BY <1>1, <1>5, <1>6

\* So a change of the algorithm leaves the other tags and takes the old ones for the new.
LEMMA RetaggedIs ==
    ASSUME NEW S, NEW tags \in Seq(S), NEW old \in Seq(S), NEW new \in Seq(S), Null \in S
    PROVE  /\ Retagged(tags, old, new) \in Seq(S)
           /\ Once(tags) /\ old # new =>
                 ToSet(Retagged(tags, old, new)) = (ToSet(tags) \ ToSet(old)) \cup ToSet(new)
<1>1. /\ RemoveOld(tags, old, new) \in Seq(S)
      /\ Once(tags) => ToSet(RemoveOld(tags, old, new)) = ToSet(tags) \ (ToSet(old) \ ToSet(new))
  BY RemoveOldIs
<1>2. /\ AddNew(RemoveOld(tags, old, new), new) \in Seq(S)
      /\ ToSet(AddNew(RemoveOld(tags, old, new), new)) = ToSet(RemoveOld(tags, old, new)) \cup ToSet(new)
  BY <1>1, AddNewIs
<1>3. Retagged(tags, old, new) = IF old = new THEN tags ELSE AddNew(RemoveOld(tags, old, new), new)
  BY DEF Retagged
<1> QED
  BY <1>1, <1>2, <1>3

\* The lists a request may carry are lists of tags.
LEMMA TagLists ==
    /\ \A algo \in Algos : algo \in Seq(Tags)
    /\ Null \in Tags /\ New \in Tags
<1>1. ASSUME NEW algo \in Algos PROVE algo \in Seq(Tags)
  <2>1. algo \in Seq(ToSet(algo)) /\ ToSet(algo) \subseteq Tags
    BY ConstantsAssumption DEF Tags
  <2>2. Len(algo) \in Nat /\ algo \in [1..Len(algo) -> ToSet(algo)]
    BY <2>1
  <2> QED
    BY <2>1, <2>2
<1> QED
  BY <1>1 DEF Tags

-----------------------------------------------------------------------------
(* What every step of a handler leaves alone.                              *)

LEMMA NoLocalIs == NoLocal \in LocType
<1>1. <<>> \in Algos /\ <<>> \in Seq(Nat) /\ {} \in SUBSET Problems /\ "problem" \in Kinds
  BY ConstantsAssumption DEF Kinds
<1> QED
  BY <1>1 DEF NoLocal, LocType

LEMMA InitInv == Init => IInv
<1> SUFFICES ASSUME Init PROVE IInv
  OBVIOUS
<1>0. Kinds = {"problem", "fav"} /\ \A k \in Kinds : MaxId[k] \in Nat
  BY ConstantsAssumption DEF Kinds
<1>1. StoreTypes
  <2>1. <<>> \in Seq(Nat)
    OBVIOUS
  <2>2. next \in [Kinds -> Nat] /\ \A k \in Kinds : next[k] <= MaxId[k]
    BY <1>0 DEF Init
  <2>3. ids \in [Kinds -> Seq(Nat)]
    BY <2>1 DEF Init
  <2>4. problem \in [Problems -> Records \cup {Absent}] /\ fav \in [Favs -> (SUBSET Problems) \cup {Absent}]
    BY DEF Init
  <2> QED
    BY <2>2, <2>3, <2>4 DEF StoreTypes
<1>2. HistoryTypes
  BY DEF Init, HistoryTypes, Nothing
<1>3. ThreadTypes
  BY NoLocalIs DEF Init, ThreadTypes
<1>4. \A k \in Kinds : Listed(k) = {} /\ Stored(k) = {} /\ Once(ids[k]) /\ answered[k] = {}
  <2>1. \A k \in Kinds : ids[k] = <<>> /\ answered[k] = {}
    BY DEF Init
  <2>2. Stored("problem") = {} /\ Stored("fav") = {}
    BY DEF Init, Stored
  <2> QED
    BY <1>0, <2>1, <2>2, EmptyQueue DEF Listed
<1>5. StoreInv
  <2>1. \A t \in Threads : sure[t].problems = {} /\ sure[t].pairs = {}
    BY DEF Init, Nothing
  <2>2. kept = {}
    BY DEF Init
  <2> QED
    BY <1>4, <2>1, <2>2 DEF StoreInv, AnsweredIsKept
<1>6. \A t \in Threads : pc[t] = "idle" /\ mutex # t
  BY ConstantsAssumption DEF Init
<1>7. MutexInv
  BY <1>6 DEF MutexInv, Changing, Creating, Deleting, Sweeping
<1>8. HandlerInv
  BY <1>6 DEF HandlerInv, CreateInv, ChangeInv, DeleteInv, SweepInv, Sweeping
<1>9. AgreeInv
  BY <1>4, <1>6 DEF AgreeInv, IndexesAgree, PartInv, Sweeping
<1>10. ReaderInv
  BY <1>6 DEF ReaderInv, ReadInv
<1> QED
  BY <1>1, <1>2, <1>3, <1>5, <1>7, <1>8, <1>9, <1>10 DEF IInv

\* What Go does, for a thread and for the others.
LEMMA Goes ==
    ASSUME ThreadTypes, NEW t \in Threads, NEW label \in Changing \cup Reading \cup {"idle"}, NEW l \in LocType, Go(t, label, l)
    PROVE  /\ pc' \in [Threads -> Changing \cup Reading \cup {"idle"}] /\ loc' \in [Threads -> LocType]
           /\ pc'[t] = label /\ loc'[t] = l
           /\ \A u \in Threads : u # t => pc'[u] = pc[u] /\ loc'[u] = loc[u]
<1>1. pc \in [Threads -> Changing \cup Reading \cup {"idle"}] /\ loc \in [Threads -> LocType]
  BY DEF ThreadTypes
<1>2. pc' = [pc EXCEPT ![t] = label] /\ loc' = [loc EXCEPT ![t] = l]
  BY DEF Go
<1> QED
  BY <1>1, <1>2

\* A thread outside the handlers that change the catalogue has no part in them.
LEMMA Outside ==
    ASSUME NEW u, pc'[u] \notin Changing
    PROVE  CreateInv(u)' /\ ChangeInv(u)' /\ DeleteInv(u)' /\ SweepInv(u)' /\ PartInv(u)'
  BY DEF CreateInv, ChangeInv, DeleteInv, SweepInv, PartInv, Changing, Creating, Deleting, Sweeping

\* No reader becomes surer of anything.
NoSurer ==
    \A u \in Threads : sure'[u].problems \subseteq sure[u].problems /\ sure'[u].pairs \subseteq sure[u].pairs

LEMMA OtherReaders ==
    ASSUME NEW u, ReadInv(u), pc'[u] = pc[u], loc'[u] = loc[u],
           sure'[u].problems \subseteq sure[u].problems, sure'[u].pairs \subseteq sure[u].pairs
    PROVE  ReadInv(u)'
  BY DEF ReadInv

\* The locals of t after a step of its handler.
Holds(t) == CreateInv(t) /\ ChangeInv(t) /\ DeleteInv(t) /\ SweepInv(t) /\ (~harmed => PartInv(t))

\* A handler goes on while it holds the mutex, or takes it.
LEMMA HandlerGoesOn ==
    ASSUME IInv, NEW t \in Threads, NEW label \in Changing, NEW l \in LocType, Go(t, label, l),
           mutex = t \/ mutex = NoThread, mutex' = t, NoSurer,
           StoreTypes', HistoryTypes', StoreInv', Holds(t)'
    PROVE  IInv'
<1>0. label \in Changing \cup Reading \cup {"idle"} /\ label \notin {"filter", "favIds", "favs", "problems"}
  BY DEF Changing, Creating, Deleting, Sweeping, Reading
<1>1. /\ pc' \in [Threads -> Changing \cup Reading \cup {"idle"}] /\ loc' \in [Threads -> LocType]
      /\ pc'[t] = label /\ loc'[t] = l
      /\ \A u \in Threads : u # t => pc'[u] = pc[u] /\ loc'[u] = loc[u]
  BY <1>0, Goes DEF IInv
<1>2. ThreadTypes'
  BY <1>1 DEF ThreadTypes
<1>3. \A u \in Threads : u # t => pc'[u] \notin Changing
  BY <1>1, ConstantsAssumption DEF IInv, MutexInv
<1>4. MutexInv'
  BY <1>1, <1>3 DEF MutexInv
<1>5. \A u \in Threads : u # t =>
          CreateInv(u)' /\ ChangeInv(u)' /\ DeleteInv(u)' /\ SweepInv(u)' /\ PartInv(u)'
  BY <1>3, Outside
<1>6. HandlerInv'
  BY <1>5 DEF HandlerInv, Holds
<1>7. AgreeInv'
  <2>1. IndexesAgree'
    BY ConstantsAssumption DEF IndexesAgree
  <2> QED
    BY <1>5, <2>1 DEF AgreeInv, Holds
<1>8. ReaderInv'
  <2>1. ASSUME NEW u \in Threads, u # t PROVE ReadInv(u)'
    BY <1>1, <2>1, OtherReaders DEF IInv, ReaderInv, NoSurer
  <2>2. ReadInv(t)'
    BY <1>0, <1>1 DEF ReadInv
  <2> QED
    BY <2>1, <2>2 DEF ReaderInv
<1> QED
  BY <1>2, <1>4, <1>6, <1>7, <1>8 DEF IInv

\* A handler answers and gives up the mutex.
LEMMA HandlerEnds ==
    ASSUME IInv, NEW t \in Threads, mutex = t, Finish(t), NoSurer,
           StoreTypes', HistoryTypes', StoreInv', IndexesAgree'
    PROVE  IInv'
<1>0. "idle" \in Changing \cup Reading \cup {"idle"} /\ "idle" \notin Changing
  BY DEF Changing, Creating, Deleting, Sweeping
<1>1. /\ pc' \in [Threads -> Changing \cup Reading \cup {"idle"}] /\ loc' \in [Threads -> LocType]
      /\ pc'[t] = "idle" /\ loc'[t] = NoLocal
      /\ \A u \in Threads : u # t => pc'[u] = pc[u] /\ loc'[u] = loc[u]
  BY <1>0, Goes, NoLocalIs DEF IInv, Finish
<1>2. mutex' = NoThread
  BY DEF Finish
<1>3. \A u \in Threads : pc'[u] \notin Changing
  BY <1>0, <1>1 DEF IInv, MutexInv
<1>4. ThreadTypes' /\ MutexInv'
  BY <1>1, <1>2, <1>3, ConstantsAssumption DEF ThreadTypes, MutexInv
<1>5. \A u \in Threads :
          CreateInv(u)' /\ ChangeInv(u)' /\ DeleteInv(u)' /\ SweepInv(u)' /\ PartInv(u)'
  BY <1>3, Outside
<1>6. HandlerInv' /\ AgreeInv'
  BY <1>5 DEF HandlerInv, AgreeInv
<1>7. ReaderInv'
  <2>1. ASSUME NEW u \in Threads, u # t PROVE ReadInv(u)'
    BY <1>1, <2>1, OtherReaders DEF IInv, ReaderInv, NoSurer
  <2>2. ReadInv(t)'
    BY <1>1 DEF ReadInv
  <2> QED
    BY <2>1, <2>2 DEF ReaderInv
<1> QED
  BY <1>4, <1>6, <1>7 DEF IInv

\* A reader goes on; only what it holds itself changes.
LEMMA ReaderGoesOn ==
    ASSUME IInv, NEW t \in Threads, pc[t] \notin Changing,
           NEW label \in Reading \cup {"idle"}, label \notin Changing, NEW l \in LocType, Go(t, label, l),
           UNCHANGED <<db, mutex, answered, kept, harmed>>,
           sure' \in [Threads -> [problems : SUBSET Nat, pairs : SUBSET (Favs \X Problems)]],
           \A u \in Threads : u # t => sure'[u] = sure[u],
           sure'[t].problems \subseteq answered["problem"],
           \A x \in sure'[t].pairs : x \in kept /\ x[1] \in answered["fav"],
           ReadInv(t)'
    PROVE  IInv'
<1>1. /\ pc' \in [Threads -> Changing \cup Reading \cup {"idle"}] /\ loc' \in [Threads -> LocType]
      /\ pc'[t] = label /\ loc'[t] = l
      /\ \A u \in Threads : u # t => pc'[u] = pc[u] /\ loc'[u] = loc[u]
  BY Goes DEF IInv
<1>2. StoreTypes' /\ HistoryTypes' /\ ThreadTypes'
  BY <1>1 DEF IInv, StoreTypes, HistoryTypes, ThreadTypes, db
<1>3. \A k \in Kinds : Listed(k)' = Listed(k) /\ Stored(k)' = Stored(k)
  BY DEF db, Listed, Stored
<1>4. AnsweredIsKept'
  BY <1>3 DEF IInv, StoreInv, AnsweredIsKept, db
<1>5. StoreInv'
  <2>1. \A k \in Kinds : Once(ids[k])' /\ (Listed(k) \cup Stored(k) \subseteq 1..next[k])'
    BY <1>3 DEF IInv, StoreInv, db
  <2>2. \A u \in Threads :
          /\ sure'[u].problems \subseteq answered'["problem"]
          /\ \A x \in sure'[u].pairs : x \in kept' /\ x[1] \in answered'["fav"]
    BY DEF IInv, StoreInv
  <2> QED
    BY <1>4, <2>1, <2>2 DEF StoreInv
<1>6. MutexInv'
  BY <1>1 DEF IInv, MutexInv
<1>7. ASSUME NEW u \in Threads
      PROVE  CreateInv(u)' /\ ChangeInv(u)' /\ DeleteInv(u)' /\ SweepInv(u)' /\ (~harmed => PartInv(u)')
  <2>1. CASE u = t
    BY <1>1, <2>1, Outside
  <2>2. CASE u # t
    <3>1. UNCHANGED <<pc[u], loc[u], next, ids, problem, fav, answered>>
      BY <1>1, <2>2 DEF db
    <3>2. CreateInv(u)' /\ ChangeInv(u)'
      BY <3>1 DEF IInv, HandlerInv, CreateInv, ChangeInv, Created, Listed, Stored
    <3>3. DeleteInv(u)' /\ SweepInv(u)'
      BY <3>1 DEF IInv, HandlerInv, DeleteInv, SweepInv, Listed, Stored
    <3>4. ~harmed => PartInv(u)'
      <4>1. "problem" \in Kinds /\ "fav" \in Kinds
        BY DEF Kinds
      <4> QED
        BY <1>3, <3>1, <4>1 DEF IInv, AgreeInv, PartInv, Matches
    <3> QED
      BY <3>2, <3>3, <3>4
  <2> QED
    BY <2>1, <2>2
<1>8. HandlerInv' /\ AgreeInv'
  <2>1. IndexesAgree'
    BY <1>3 DEF IInv, AgreeInv, IndexesAgree
  <2> QED
    BY <1>7, <2>1 DEF HandlerInv, AgreeInv
<1>9. ReaderInv'
  <2>1. ASSUME NEW u \in Threads, u # t PROVE ReadInv(u)'
    BY <1>1, <2>1, OtherReaders DEF IInv, ReaderInv
  <2> QED
    BY <2>1 DEF ReaderInv
<1> QED
  BY <1>2, <1>5, <1>6, <1>8, <1>9 DEF IInv

\* Steps that change neither the engine nor what was answered.
LEMMA NothingStored ==
    ASSUME IInv, UNCHANGED <<db, history>>
    PROVE  /\ StoreTypes' /\ HistoryTypes' /\ StoreInv' /\ NoSurer
           /\ \A k \in Kinds : Listed(k)' = Listed(k) /\ Stored(k)' = Stored(k)
<1>1. UNCHANGED <<next, ids, problem, fav, answered, kept, sure, harmed>>
  BY DEF db, history
<1>2. StoreTypes' /\ HistoryTypes'
  BY <1>1 DEF IInv, StoreTypes, HistoryTypes
<1>3. \A k \in Kinds : Listed(k)' = Listed(k) /\ Stored(k)' = Stored(k)
  BY <1>1 DEF Listed, Stored
<1>4. AnsweredIsKept'
  BY <1>1, <1>3 DEF IInv, StoreInv, AnsweredIsKept
<1>5. StoreInv'
  BY <1>1, <1>3, <1>4 DEF IInv, StoreInv
<1> QED
  BY <1>1, <1>2, <1>3, <1>5 DEF NoSurer

\* What a handler that changes the catalogue knows where it stands.
LEMMA AtWork ==
    ASSUME IInv, NEW t \in Threads, pc[t] \in Changing
    PROVE  mutex = t /\ loc[t] \in LocType /\ Holds(t)
  BY DEF IInv, MutexInv, ThreadTypes, HandlerInv, AgreeInv, Holds

\* What one finds that takes the mutex.
LEMMA AtLock ==
    ASSUME IInv, NEW t \in Threads, Locked(t)
    PROVE  /\ mutex = NoThread /\ mutex' = t
           /\ ~harmed => \A k \in Kinds : Matches(k)
  BY DEF IInv, AgreeInv, IndexesAgree, Matches, Locked

\* Ids are in the range of their kind.
LEMMA IdRanges ==
    ASSUME IInv
    PROVE  /\ \A k \in Kinds : 1..next[k] \subseteq 1..MaxId[k] /\ next[k] \in Nat /\ MaxId[k] \in Nat
           /\ Listed("problem") \subseteq Problems /\ Listed("fav") \subseteq Favs
<1>1. \A k \in Kinds : next[k] \in Nat /\ next[k] <= MaxId[k] /\ MaxId[k] \in Nat
  BY ConstantsAssumption DEF IInv, StoreTypes
<1>2. \A k \in Kinds : 1..next[k] \subseteq 1..MaxId[k]
  BY <1>1
<1>3. \A k \in Kinds : Listed(k) \subseteq 1..next[k]
  BY DEF IInv, StoreInv
<1>4. "problem" \in Kinds /\ "fav" \in Kinds
  BY DEF Kinds
<1>5. \A k \in Kinds : Listed(k) \subseteq 1..MaxId[k]
  BY <1>2, <1>3
<1> QED
  BY <1>1, <1>2, <1>4, <1>5 DEF Problems, Favs

-----------------------------------------------------------------------------
(* handleAddProblem and handleCreateFavorite.                              *)

LEMMA CreateGetNextKeeps ==
    ASSUME IInv, NEW t \in Threads, NEW kind \in Kinds, NEW algo \in Algos,
           CreateGetNext(t, kind, algo)
    PROVE  IInv'
<1>0. PICK l : l = [NoLocal EXCEPT !.kind = kind, !.id = next[kind] + 1, !.algo = algo]
  OBVIOUS
<1>1. Go(t, "putNext", l) /\ Locked(t) /\ UNCHANGED <<db, history>> /\ next[kind] < MaxId[kind]
  BY <1>0 DEF CreateGetNext
<1>2. next[kind] \in Nat /\ MaxId[kind] \in Nat
  BY IdRanges
<1>3. l \in LocType /\ l.kind = kind /\ l.id = next[kind] + 1
  <2>1. next[kind] + 1 \in Nat /\ NoLocal \in LocType
    BY <1>2, NoLocalIs
  <2> QED
    BY ONLY <1>0, <2>1, kind \in Kinds, algo \in Algos DEF LocType
<1>4. "putNext" \in Changing
  BY DEF Changing, Creating
<1>5. pc'[t] = "putNext" /\ loc'[t] = l
  BY <1>1, <1>3, <1>4, Goes DEF IInv
<1>6. next'[kind] = next[kind] /\ harmed' = harmed /\ \A k \in Kinds : Matches(k)' = Matches(k)
  BY <1>1, NothingStored DEF db, history, Matches
<1>7. Holds(t)'
  <2>1. ~harmed => \A k \in Kinds : Matches(k)
    BY <1>1, AtLock
  <2>2. CreateInv(t)' /\ ChangeInv(t)' /\ DeleteInv(t)' /\ SweepInv(t)'
    BY <1>1, <1>2, <1>3, <1>5, <1>6 DEF CreateInv, ChangeInv, DeleteInv, SweepInv, Sweeping
  <2>3. ~harmed' => PartInv(t)'
    BY <1>5, <1>6, <2>1 DEF PartInv, Sweeping
  <2> QED
    BY <2>2, <2>3 DEF Holds
<1> QED
  BY <1>1, <1>3, <1>4, <1>7, AtLock, NothingStored, HandlerGoesOn

LEMMA CreatePutNextKeeps ==
    ASSUME IInv, NEW t \in Threads, CreatePutNext(t)
    PROVE  IInv'
<1>0. PICK k0, i0 : k0 = loc[t].kind /\ i0 = loc[t].id
  OBVIOUS
<1>1. /\ pc[t] = "putNext" /\ next' = [next EXCEPT ![k0] = i0] /\ Go(t, "putItem", loc[t])
      /\ UNCHANGED <<ids, problem, fav, mutex, answered, kept, sure, harmed>>
  BY <1>0 DEF CreatePutNext, At, history
<1>2. "putNext" \in Changing /\ "putItem" \in Changing
  BY DEF Changing, Creating
<1>3. mutex = t /\ loc[t] \in LocType /\ Holds(t)
  BY <1>1, <1>2, AtWork
<1>4. k0 \in Kinds /\ next[k0] \in Nat /\ i0 = next[k0] + 1 /\ i0 <= MaxId[k0]
  <2>1. k0 \in Kinds
    BY <1>0, <1>3 DEF LocType
  <2> QED
    BY <1>0, <1>1, <1>3, <2>1, IdRanges DEF Holds, CreateInv
<1>5. \A k \in Kinds : Listed(k)' = Listed(k) /\ Stored(k)' = Stored(k) /\ Matches(k)' = Matches(k)
  BY <1>1 DEF Listed, Stored, Matches
<1>6. \A k \in Kinds : next'[k] \in Nat /\ next'[k] <= MaxId[k] /\ 1..next[k] \subseteq 1..next'[k]
  <2>1. \A k \in Kinds : next'[k] = IF k = k0 THEN i0 ELSE next[k]
    BY <1>1 DEF IInv, StoreTypes
  <2>2. \A k \in Kinds : next[k] \in Nat /\ next[k] <= MaxId[k]
    BY DEF IInv, StoreTypes
  <2> QED
    BY <1>4, <2>1, <2>2
<1>7. StoreTypes' /\ HistoryTypes'
  <2>1. next' \in [Kinds -> Nat]
    BY <1>1, <1>4 DEF IInv, StoreTypes
  <2> QED
    BY <1>1, <1>6, <2>1 DEF IInv, StoreTypes, HistoryTypes
<1>8. StoreInv' /\ NoSurer
  <2>1. AnsweredIsKept'
    BY <1>1, <1>5 DEF IInv, StoreInv, AnsweredIsKept
  <2>2. \A k \in Kinds : Once(ids'[k]) /\ Listed(k)' \cup Stored(k)' \subseteq 1..next'[k]
    BY <1>1, <1>5, <1>6 DEF IInv, StoreInv
  <2> QED
    BY <1>1, <2>1, <2>2 DEF IInv, StoreInv, NoSurer
<1>9. pc'[t] = "putItem" /\ loc'[t] = loc[t]
  BY <1>1, <1>2, <1>3, Goes DEF IInv
<1>10. Holds(t)'
  <2>1. next'[k0] = i0 /\ i0 \in 1..i0 /\ i0 \notin 1..next[k0]
    BY <1>1, <1>4 DEF IInv, StoreTypes
  <2>2. i0 \notin Listed(k0)' /\ i0 \notin Stored(k0)'
    BY <1>4, <1>5, <2>1 DEF IInv, StoreInv
  <2>3. CreateInv(t)' /\ ChangeInv(t)' /\ DeleteInv(t)' /\ SweepInv(t)'
    BY <1>0, <1>9, <2>1, <2>2 DEF CreateInv, Created, ChangeInv, DeleteInv, SweepInv, Sweeping
  <2>4. ~harmed' => PartInv(t)'
    BY <1>1, <1>3, <1>5, <1>9 DEF Holds, PartInv, Sweeping
  <2> QED
    BY <2>3, <2>4 DEF Holds
<1> QED
  BY <1>1, <1>2, <1>3, <1>7, <1>8, <1>10, HandlerGoesOn

LEMMA CreatePutItemKeeps ==
    ASSUME IInv, NEW t \in Threads, CreatePutItem(t)
    PROVE  IInv'
<1>0. PICK k0, i0 : k0 = loc[t].kind /\ i0 = loc[t].id
  OBVIOUS
<1> DEFINE new == [algo |-> loc[t].algo, tags |-> <<New>> \o loc[t].algo]
<1>1. /\ pc[t] = "putItem" /\ Go(t, "getIds", loc[t])
      /\ UNCHANGED <<next, ids, mutex, answered, kept, sure, harmed>>
  BY DEF CreatePutItem, At, history
<1>2. "getIds" \in Changing /\ "putItem" \in Changing
  BY DEF Changing, Creating
<1>3. mutex = t /\ loc[t] \in LocType /\ Holds(t)
  BY <1>1, <1>2, AtWork
<1>4. /\ k0 \in Kinds /\ loc[t].algo \in Algos
      /\ i0 \in 1..next[k0] /\ i0 \notin Listed(k0) /\ i0 \notin Stored(k0)
      /\ ~harmed => \A k \in Kinds : Matches(k)
  BY <1>0, <1>1, <1>3 DEF LocType, Holds, CreateInv, Created, PartInv
<1>5. i0 \in 1..MaxId[k0]
  BY <1>4, IdRanges
<1>6. new \in Records /\ new # Absent
  <2>1. <<New>> \in Seq(Tags) /\ loc[t].algo \in Seq(Tags)
    BY <1>4, TagLists
  <2>2. <<New>> \o loc[t].algo \in Seq(Tags)
    BY <2>1, ConcatProperties
  <2>3. new \in Records
    BY <1>4, <2>2 DEF Records
  <2> QED
    BY <2>3, ConstantsAssumption
<1>7. \/ k0 = "problem" /\ i0 \in Problems /\ problem' = [problem EXCEPT ![i0] = new] /\ fav' = fav
      \/ k0 = "fav" /\ i0 \in Favs /\ fav' = [fav EXCEPT ![i0] = {}] /\ problem' = problem
  BY <1>0, <1>4, <1>5 DEF CreatePutItem, Kinds, Problems, Favs
<1>8. {} # Absent
  BY ConstantsAssumption
<1> HIDE DEF new
<1>9. /\ \A k \in Kinds : Listed(k)' = Listed(k)
      /\ \A k \in Kinds : Stored(k)' = IF k = k0 THEN Stored(k) \cup {i0} ELSE Stored(k)
  <2>1. \A k \in Kinds : Listed(k)' = Listed(k)
    BY <1>1 DEF Listed
  <2>2. CASE k0 = "problem"
    <3>1. \A p \in Problems : problem'[p] = IF p = i0 THEN new ELSE problem[p]
      BY <1>7, <2>2 DEF IInv, StoreTypes
    <3>2. Stored("problem")' = Stored("problem") \cup {i0} /\ Stored("fav")' = Stored("fav")
      BY <1>6, <1>7, <2>2, <3>1 DEF Stored
    <3> QED
      BY <2>1, <2>2, <3>2 DEF Kinds
  <2>3. CASE k0 = "fav"
    <3>1. \A f \in Favs : fav'[f] = IF f = i0 THEN {} ELSE fav[f]
      BY <1>7, <2>3 DEF IInv, StoreTypes
    <3>2. Stored("fav")' = Stored("fav") \cup {i0} /\ Stored("problem")' = Stored("problem")
      BY <1>7, <1>8, <2>3, <3>1 DEF Stored
    <3> QED
      BY <2>1, <2>3, <3>2 DEF Kinds
  <2> QED
    BY <1>4, <2>2, <2>3 DEF Kinds
<1>10. StoreTypes' /\ HistoryTypes'
  <2>1. problem' \in [Problems -> Records \cup {Absent}]
    BY <1>6, <1>7 DEF IInv, StoreTypes
  <2>2. fav' \in [Favs -> (SUBSET Problems) \cup {Absent}]
    BY <1>7 DEF IInv, StoreTypes
  <2> QED
    BY <1>1, <2>1, <2>2 DEF IInv, StoreTypes, HistoryTypes
<1>11. StoreInv' /\ NoSurer
  <2>1. \A k \in Kinds : Once(ids'[k]) /\ Listed(k)' \cup Stored(k)' \subseteq 1..next'[k]
    BY <1>1, <1>4, <1>9 DEF IInv, StoreInv
  <2>2. \A k \in Kinds : answered'[k] \subseteq Stored(k)' \cap Listed(k)'
    BY <1>1, <1>9 DEF IInv, StoreInv, AnsweredIsKept
  <2>3. \A x \in kept' : fav'[x[1]] # Absent /\ x[2] \in fav'[x[1]]
    <3> SUFFICES ASSUME NEW x \in kept PROVE fav'[x[1]] # Absent /\ x[2] \in fav'[x[1]]
      BY <1>1
    <3>1. x[1] \in Favs /\ fav[x[1]] # Absent /\ x[2] \in fav[x[1]]
      BY DEF IInv, StoreInv, AnsweredIsKept, HistoryTypes
    <3>2. k0 = "fav" => x[1] # i0
      BY <1>4, <3>1 DEF Stored
    <3> QED
      BY <1>7, <3>1, <3>2 DEF IInv, StoreTypes
  <2> QED
    BY <1>1, <2>1, <2>2, <2>3 DEF IInv, StoreInv, AnsweredIsKept, NoSurer
<1>12. pc'[t] = "getIds" /\ loc'[t] = loc[t]
  BY <1>1, <1>2, <1>3, Goes DEF IInv
<1>13. Holds(t)'
  <2>1. i0 \in 1..next'[k0] /\ i0 \notin Listed(k0)' /\ i0 \in Stored(k0)'
    BY <1>1, <1>4, <1>9
  <2>2. CreateInv(t)' /\ ChangeInv(t)' /\ DeleteInv(t)' /\ SweepInv(t)'
    BY <1>0, <1>12, <2>1 DEF CreateInv, Created, ChangeInv, DeleteInv, SweepInv, Sweeping
  <2>3. ~harmed' => \A k \in Kinds : IF k = k0 THEN Stored(k)' = Listed(k)' \cup {i0} ELSE Matches(k)'
    BY <1>1, <1>4, <1>9 DEF Matches
  <2>4. ~harmed' => PartInv(t)'
    BY <1>0, <1>12, <2>3 DEF PartInv, Sweeping
  <2> QED
    BY <2>2, <2>4 DEF Holds
<1> QED
  BY <1>1, <1>2, <1>3, <1>10, <1>11, <1>13, HandlerGoesOn

LEMMA CreateGetIdsKeeps ==
    ASSUME IInv, NEW t \in Threads, CreateGetIds(t)
    PROVE  IInv'
<1>0. PICK l : l = [loc[t] EXCEPT !.list = ids[loc[t].kind]]
  OBVIOUS
<1>1. pc[t] = "getIds" /\ Go(t, "putIds", l) /\ UNCHANGED <<db, mutex, history>>
  BY <1>0 DEF CreateGetIds, At
<1>2. "getIds" \in Changing /\ "putIds" \in Changing
  BY DEF Changing, Creating
<1>3. mutex = t /\ loc[t] \in LocType /\ Holds(t)
  BY <1>1, <1>2, AtWork
<1>4. loc[t].kind \in Kinds /\ ids[loc[t].kind] \in Seq(Nat)
  BY <1>3 DEF LocType, IInv, StoreTypes
<1>5. l \in LocType /\ l.kind = loc[t].kind /\ l.id = loc[t].id /\ l.list = ids[l.kind]
  BY <1>0, <1>3, <1>4 DEF LocType
<1>6. pc'[t] = "putIds" /\ loc'[t] = l
  BY <1>1, <1>2, <1>5, Goes DEF IInv
<1>7. \A k \in Kinds : Listed(k)' = Listed(k) /\ Stored(k)' = Stored(k) /\ Matches(k)' = Matches(k)
  BY <1>1, NothingStored DEF Matches
<1>8. next' = next /\ ids' = ids /\ harmed' = harmed
  BY <1>1 DEF db, history
<1>9. Holds(t)'
  <2>1. l.id \in 1..next'[l.kind] /\ l.id \notin Listed(l.kind)' /\ l.id \in Stored(l.kind)'
    BY <1>1, <1>3, <1>4, <1>5, <1>7, <1>8 DEF Holds, CreateInv, Created
  <2>2. CreateInv(t)' /\ ChangeInv(t)' /\ DeleteInv(t)' /\ SweepInv(t)'
    BY <1>5, <1>6, <1>8, <2>1 DEF CreateInv, Created, ChangeInv, DeleteInv, SweepInv, Sweeping
  <2>3. ~harmed => \A k \in Kinds : IF k = l.kind THEN Stored(k) = Listed(k) \cup {l.id} ELSE Matches(k)
    BY <1>1, <1>3, <1>5 DEF Holds, PartInv
  <2>4. ~harmed' => PartInv(t)'
    BY <1>6, <1>7, <1>8, <2>3 DEF PartInv, Sweeping
  <2> QED
    BY <2>2, <2>4 DEF Holds
<1>10. UNCHANGED <<db, history>>
  BY <1>1
<1> QED
  BY <1>1, <1>2, <1>3, <1>5, <1>9, <1>10, NothingStored, HandlerGoesOn

LEMMA CreatePutIdsKeeps ==
    ASSUME IInv, NEW t \in Threads, CreatePutIds(t)
    PROVE  IInv'
<1>0. PICK k0, i0 : k0 = loc[t].kind /\ i0 = loc[t].id
  OBVIOUS
<1>1. /\ pc[t] = "putIds" /\ Finish(t)
      /\ ids' = [ids EXCEPT ![k0] = Append(loc[t].list, i0)]
      /\ answered' = [answered EXCEPT ![k0] = @ \cup {i0}]
      /\ UNCHANGED <<next, problem, fav, kept, sure, harmed>>
  BY <1>0 DEF CreatePutIds, At
<1>2. mutex = t /\ loc[t] \in LocType /\ Holds(t)
  BY <1>1, AtWork DEF Changing, Creating
<1>3. /\ k0 \in Kinds /\ i0 \in 1..next[k0] /\ i0 \notin Listed(k0) /\ i0 \in Stored(k0)
      /\ loc[t].list = ids[k0]
      /\ ~harmed => \A k \in Kinds : IF k = k0 THEN Stored(k) = Listed(k) \cup {i0} ELSE Matches(k)
  BY <1>0, <1>1, <1>2 DEF LocType, Holds, CreateInv, Created, PartInv
<1>4. /\ ids[k0] \in Seq(Nat) /\ Once(ids[k0]) /\ i0 \in Nat
      /\ \A k \in Kinds : ids'[k] = IF k = k0 THEN Append(ids[k0], i0) ELSE ids[k]
      /\ \A k \in Kinds : answered'[k] = IF k = k0 THEN answered[k] \cup {i0} ELSE answered[k]
  <2>1. ids[k0] \in Seq(Nat) /\ Once(ids[k0])
    BY <1>3 DEF IInv, StoreTypes, StoreInv
  <2>2. i0 \in Nat
    BY <1>3, IdRanges
  <2>3. \A k \in Kinds : ids'[k] = IF k = k0 THEN Append(ids[k0], i0) ELSE ids[k]
    BY <1>1, <1>3 DEF IInv, StoreTypes
  <2>4. \A k \in Kinds : answered'[k] = IF k = k0 THEN answered[k] \cup {i0} ELSE answered[k]
    BY <1>1, <1>3 DEF IInv, HistoryTypes
  <2> QED
    BY <2>1, <2>2, <2>3, <2>4
<1>5. /\ Append(ids[k0], i0) \in Seq(Nat)
      /\ ToSet(Append(ids[k0], i0)) = ToSet(ids[k0]) \cup {i0}
      /\ Once(Append(ids[k0], i0))
  <2>1. i0 \notin ToSet(ids[k0])
    BY <1>3 DEF Listed
  <2> QED
    BY <1>4, <2>1, QueueGrows
<1>6. /\ \A k \in Kinds : Listed(k)' = IF k = k0 THEN Listed(k) \cup {i0} ELSE Listed(k)
      /\ \A k \in Kinds : Stored(k)' = Stored(k)
  <2>1. \A k \in Kinds : Stored(k)' = Stored(k)
    BY <1>1 DEF Stored
  <2>2. \A k \in Kinds : Listed(k)' = IF k = k0 THEN Listed(k) \cup {i0} ELSE Listed(k)
    BY <1>4, <1>5 DEF Listed
  <2> QED
    BY <2>1, <2>2
<1>7. StoreTypes' /\ HistoryTypes'
  <2>1. ids' \in [Kinds -> Seq(Nat)]
    BY <1>1, <1>3, <1>5 DEF IInv, StoreTypes
  <2>2. answered' \in [Kinds -> SUBSET Nat]
    BY <1>1, <1>4 DEF IInv, HistoryTypes
  <2> QED
    BY <1>1, <2>1, <2>2 DEF IInv, StoreTypes, HistoryTypes
<1>8. StoreInv' /\ NoSurer
  <2>1. \A k \in Kinds : Once(ids'[k]) /\ Listed(k)' \cup Stored(k)' \subseteq 1..next'[k]
    BY <1>1, <1>3, <1>4, <1>5, <1>6 DEF IInv, StoreInv
  <2>2. \A k \in Kinds : answered'[k] \subseteq Stored(k)' \cap Listed(k)'
    BY <1>3, <1>4, <1>6 DEF IInv, StoreInv, AnsweredIsKept
  <2>3. AnsweredIsKept'
    BY <1>1, <2>2 DEF IInv, StoreInv, AnsweredIsKept
  <2>4. answered["problem"] \subseteq answered'["problem"] /\ answered["fav"] \subseteq answered'["fav"]
    BY <1>4 DEF Kinds
  <2> QED
    BY <1>1, <2>1, <2>3, <2>4 DEF IInv, StoreInv, NoSurer
<1>9. IndexesAgree'
  <2>1. ~harmed' => \A k \in Kinds : Listed(k)' = Stored(k)'
    BY <1>1, <1>3, <1>6 DEF Matches
  <2> QED
    BY <2>1 DEF IndexesAgree
<1> QED
  BY <1>1, <1>2, <1>7, <1>8, <1>9, HandlerEnds

-----------------------------------------------------------------------------
(* handleAddToFavorite and handleUpdateProblem.                            *)

LEMMA AddGetFavKeeps ==
    ASSUME IInv, NEW t \in Threads, NEW f \in Favs, NEW p \in Problems, AddGetFav(t, f, p)
    PROVE  IInv'
<1>0. PICK l : l = [NoLocal EXCEPT !.id = p, !.fid = f, !.set = fav[f]]
  OBVIOUS
<1>1. Go(t, "putFav", l) /\ Locked(t) /\ UNCHANGED <<db, history>> /\ fav[f] # Absent
  BY <1>0 DEF AddGetFav
<1>2. fav[f] \in SUBSET Problems /\ f \in Nat /\ p \in Nat
  BY <1>1 DEF IInv, StoreTypes, Favs, Problems
<1>3. l \in LocType /\ l.id = p /\ l.fid = f /\ l.set = fav[f]
  BY ONLY <1>0, <1>2, NoLocalIs DEF LocType
<1>4. "putFav" \in Changing
  BY DEF Changing
<1>5. pc'[t] = "putFav" /\ loc'[t] = l
  BY <1>1, <1>3, <1>4, Goes DEF IInv
<1>6. fav' = fav /\ harmed' = harmed /\ \A k \in Kinds : Matches(k)' = Matches(k)
  BY <1>1, NothingStored DEF db, history, Matches
<1>7. Holds(t)'
  <2>1. ~harmed => \A k \in Kinds : Matches(k)
    BY <1>1, AtLock
  <2>2. CreateInv(t)' /\ ChangeInv(t)' /\ DeleteInv(t)' /\ SweepInv(t)'
    BY <1>1, <1>3, <1>5, <1>6 DEF CreateInv, ChangeInv, DeleteInv, SweepInv, Sweeping
  <2>3. ~harmed' => PartInv(t)'
    BY <1>5, <1>6, <2>1 DEF PartInv, Sweeping
  <2> QED
    BY <2>2, <2>3 DEF Holds
<1> QED
  BY <1>1, <1>3, <1>4, <1>7, AtLock, NothingStored, HandlerGoesOn

LEMMA AddPutFavKeeps ==
    ASSUME IInv, NEW t \in Threads, AddPutFav(t)
    PROVE  IInv'
<1>0. PICK i0, f0 : i0 = loc[t].id /\ f0 = loc[t].fid
  OBVIOUS
<1>1. /\ pc[t] = "putFav" /\ Finish(t)
      /\ fav' = [fav EXCEPT ![f0] = loc[t].set \cup {i0}] /\ kept' = kept \cup {<<f0, i0>>}
      /\ UNCHANGED <<next, ids, problem, answered, sure, harmed>>
  BY <1>0 DEF AddPutFav, At
<1>2. mutex = t /\ loc[t] \in LocType /\ Holds(t)
  BY <1>1, AtWork DEF Changing
<1>3. /\ i0 \in Problems /\ f0 \in Favs /\ fav[f0] # Absent /\ loc[t].set = fav[f0]
      /\ ~harmed => \A k \in Kinds : Matches(k)
  BY <1>0, <1>1, <1>2 DEF Holds, ChangeInv, PartInv
<1>4. fav[f0] \subseteq Problems /\ fav[f0] \cup {i0} # Absent
  <2>1. fav[f0] \in SUBSET Problems
    BY <1>3 DEF IInv, StoreTypes
  <2>2. fav[f0] \cup {i0} \in SUBSET Problems
    BY <1>3, <2>1
  <2> QED
    BY <2>1, <2>2, ConstantsAssumption
<1>5. \A f \in Favs : fav'[f] = IF f = f0 THEN fav[f0] \cup {i0} ELSE fav[f]
  BY <1>1, <1>3 DEF IInv, StoreTypes
<1>6. \A k \in Kinds : Listed(k)' = Listed(k) /\ Stored(k)' = Stored(k)
  <2>1. Stored("fav")' = Stored("fav")
    BY <1>3, <1>4, <1>5 DEF Stored
  <2> QED
    BY <1>1, <2>1 DEF Listed, Stored, Kinds
<1>7. StoreTypes' /\ HistoryTypes'
  <2>1. fav' \in [Favs -> (SUBSET Problems) \cup {Absent}]
    <3>1. fav[f0] \cup {i0} \in SUBSET Problems
      BY <1>3, <1>4
    <3> QED
      BY <1>1, <1>3, <3>1 DEF IInv, StoreTypes
  <2>2. kept' \subseteq Favs \X Problems
    BY <1>1, <1>3 DEF IInv, HistoryTypes
  <2> QED
    BY <1>1, <2>1, <2>2 DEF IInv, StoreTypes, HistoryTypes
<1>8. StoreInv' /\ NoSurer
  <2>1. \A x \in kept' : fav'[x[1]] # Absent /\ x[2] \in fav'[x[1]]
    <3>1. ASSUME NEW x \in kept PROVE fav'[x[1]] # Absent /\ x[2] \in fav'[x[1]]
      <4>1. x[1] \in Favs /\ fav[x[1]] # Absent /\ x[2] \in fav[x[1]]
        BY DEF IInv, StoreInv, AnsweredIsKept, HistoryTypes
      <4> QED
        BY <1>4, <1>5, <4>1
    <3>2. ASSUME NEW x, x = <<f0, i0>> PROVE fav'[x[1]] # Absent /\ x[2] \in fav'[x[1]]
      BY <1>3, <1>4, <1>5, <3>2
    <3> QED
      BY <1>1, <3>1, <3>2
  <2>2. \A k \in Kinds : answered'[k] \subseteq Stored(k)' \cap Listed(k)'
    BY <1>1, <1>6 DEF IInv, StoreInv, AnsweredIsKept
  <2> QED
    BY <1>1, <1>6, <2>1, <2>2 DEF IInv, StoreInv, AnsweredIsKept, NoSurer
<1>9. IndexesAgree'
  BY <1>1, <1>3, <1>6 DEF IndexesAgree, Matches
<1> QED
  BY <1>1, <1>2, <1>7, <1>8, <1>9, HandlerEnds

LEMMA UpdateGetProblemKeeps ==
    ASSUME IInv, NEW t \in Threads, NEW p \in Problems, NEW algo \in Algos,
           UpdateGetProblem(t, p, algo)
    PROVE  IInv'
<1>0. PICK r : r = [algo |-> algo, tags |-> Retagged(problem[p].tags, problem[p].algo, algo)]
  OBVIOUS
<1>1. PICK l : l = [NoLocal EXCEPT !.id = p, !.record = r]
  OBVIOUS
<1>2. Go(t, "putProblem", l) /\ Locked(t) /\ UNCHANGED <<db, history>> /\ problem[p] # Absent
  BY <1>0, <1>1 DEF UpdateGetProblem
<1>3. r \in Records
  <2>1. problem[p].algo \in Algos /\ problem[p].tags \in Seq(Tags)
    BY <1>2 DEF IInv, StoreTypes, Records
  <2>2. problem[p].algo \in Seq(Tags) /\ algo \in Seq(Tags) /\ Null \in Tags
    BY <2>1, TagLists
  <2>3. Retagged(problem[p].tags, problem[p].algo, algo) \in Seq(Tags)
    BY <2>1, <2>2, RetaggedIs
  <2> QED
    BY <1>0, <2>3 DEF Records
<1>4. l \in LocType /\ l.id = p /\ l.record = r
  <2>1. p \in Nat
    BY DEF Problems
  <2> QED
    BY ONLY <1>1, <1>3, <2>1, NoLocalIs DEF LocType
<1>5. "putProblem" \in Changing
  BY DEF Changing
<1>6. pc'[t] = "putProblem" /\ loc'[t] = l
  BY <1>2, <1>4, <1>5, Goes DEF IInv
<1>7. problem' = problem /\ harmed' = harmed /\ \A k \in Kinds : Matches(k)' = Matches(k)
  BY <1>2, NothingStored DEF db, history, Matches
<1>8. Holds(t)'
  <2>1. ~harmed => \A k \in Kinds : Matches(k)
    BY <1>2, AtLock
  <2>2. CreateInv(t)' /\ ChangeInv(t)' /\ DeleteInv(t)' /\ SweepInv(t)'
    BY <1>2, <1>3, <1>4, <1>6, <1>7 DEF CreateInv, ChangeInv, DeleteInv, SweepInv, Sweeping
  <2>3. ~harmed' => PartInv(t)'
    BY <1>6, <1>7, <2>1 DEF PartInv, Sweeping
  <2> QED
    BY <2>2, <2>3 DEF Holds
<1> QED
  BY <1>2, <1>4, <1>5, <1>8, AtLock, NothingStored, HandlerGoesOn

LEMMA UpdatePutProblemKeeps ==
    ASSUME IInv, NEW t \in Threads, UpdatePutProblem(t)
    PROVE  IInv'
<1>0. PICK i0, r : i0 = loc[t].id /\ r = loc[t].record
  OBVIOUS
<1>1. /\ pc[t] = "putProblem" /\ Finish(t) /\ problem' = [problem EXCEPT ![i0] = r]
      /\ UNCHANGED <<next, ids, fav, answered, kept, sure, harmed>>
  BY <1>0 DEF UpdatePutProblem, At, history
<1>2. mutex = t /\ loc[t] \in LocType /\ Holds(t)
  BY <1>1, AtWork DEF Changing
<1>3. /\ i0 \in Problems /\ problem[i0] # Absent /\ r \in Records /\ r # Absent
      /\ ~harmed => \A k \in Kinds : Matches(k)
  BY <1>0, <1>1, <1>2, ConstantsAssumption DEF Holds, ChangeInv, PartInv
<1>4. \A p \in Problems : problem'[p] = IF p = i0 THEN r ELSE problem[p]
  BY <1>1, <1>3 DEF IInv, StoreTypes
<1>5. \A k \in Kinds : Listed(k)' = Listed(k) /\ Stored(k)' = Stored(k)
  <2>1. Stored("problem")' = Stored("problem")
    BY <1>3, <1>4 DEF Stored
  <2> QED
    BY <1>1, <2>1 DEF Listed, Stored, Kinds
<1>6. StoreTypes' /\ HistoryTypes'
  <2>1. problem' \in [Problems -> Records \cup {Absent}]
    BY <1>1, <1>3 DEF IInv, StoreTypes
  <2> QED
    BY <1>1, <2>1 DEF IInv, StoreTypes, HistoryTypes
<1>7. StoreInv' /\ NoSurer
  <2>1. AnsweredIsKept'
    BY <1>1, <1>5 DEF IInv, StoreInv, AnsweredIsKept
  <2> QED
    BY <1>1, <1>5, <2>1 DEF IInv, StoreInv, NoSurer
<1>8. IndexesAgree'
  BY <1>1, <1>3, <1>5 DEF IndexesAgree, Matches
<1> QED
  BY <1>1, <1>2, <1>6, <1>7, <1>8, HandlerEnds

-----------------------------------------------------------------------------
(* handleDeleteProblem.                                                    *)

LEMMA DeleteProblemKeeps ==
    ASSUME IInv, NEW t \in Threads, NEW p \in Problems, DeleteProblem(t, p)
    PROVE  IInv'
<1>0. PICK l : l = [NoLocal EXCEPT !.id = p]
  OBVIOUS
<1>1. /\ Locked(t) /\ Go(t, "getProblemIds", l) /\ problem[p] # Absent
      /\ problem' = [problem EXCEPT ![p] = Absent]
      /\ answered' = [answered EXCEPT !["problem"] = @ \ {p}]
      /\ sure' = [u \in Threads |-> [problems |-> sure[u].problems \ {p},
                                     pairs |-> sure[u].pairs \ {}]]
      /\ UNCHANGED <<next, ids, fav, kept, harmed>>
  BY <1>0 DEF DeleteProblem, Undone
<1>2. l \in LocType /\ l.id = p
  <2>1. p \in Nat
    BY DEF Problems
  <2> QED
    BY ONLY <1>0, <2>1, NoLocalIs DEF LocType
<1>3. "getProblemIds" \in Changing /\ "problem" \in Kinds /\ "fav" \in Kinds
  BY DEF Changing, Deleting, Kinds
<1>4. pc'[t] = "getProblemIds" /\ loc'[t] = l
  BY <1>1, <1>2, <1>3, Goes DEF IInv
<1>5. /\ \A q \in Problems : problem'[q] = IF q = p THEN Absent ELSE problem[q]
      /\ \A k \in Kinds : answered'[k] = IF k = "problem" THEN answered[k] \ {p} ELSE answered[k]
  BY <1>1, <1>3 DEF IInv, StoreTypes, HistoryTypes
<1>6. /\ \A k \in Kinds : Listed(k)' = Listed(k)
      /\ Stored("problem")' = Stored("problem") \ {p} /\ Stored("fav")' = Stored("fav")
  <2>1. Stored("problem")' = Stored("problem") \ {p}
    BY <1>5 DEF Stored
  <2> QED
    BY <1>1, <2>1 DEF Listed, Stored
<1>7. \A u \in Threads : /\ sure'[u].problems = sure[u].problems \ {p}
                         /\ sure'[u].pairs = sure[u].pairs
  BY <1>1
<1>8. StoreTypes' /\ HistoryTypes'
  <2>1. problem' \in [Problems -> Records \cup {Absent}]
    BY <1>1 DEF IInv, StoreTypes
  <2>2. answered' \in [Kinds -> SUBSET Nat]
    BY <1>1, <1>3 DEF IInv, HistoryTypes
  <2>3. sure' \in [Threads -> [problems : SUBSET Nat, pairs : SUBSET (Favs \X Problems)]]
    BY <1>1 DEF IInv, HistoryTypes
  <2> QED
    BY <1>1, <2>1, <2>2, <2>3 DEF IInv, StoreTypes, HistoryTypes
<1>9. StoreInv' /\ NoSurer
  <2>1. \A k \in Kinds : Once(ids'[k]) /\ Listed(k)' \cup Stored(k)' \subseteq 1..next'[k]
    BY <1>1, <1>6 DEF IInv, StoreInv, Kinds
  <2>2. \A k \in Kinds : answered'[k] \subseteq Stored(k)' \cap Listed(k)'
    BY <1>5, <1>6 DEF IInv, StoreInv, AnsweredIsKept, Kinds
  <2>3. AnsweredIsKept'
    BY <1>1, <2>2 DEF IInv, StoreInv, AnsweredIsKept
  <2>4. answered'["problem"] = answered["problem"] \ {p} /\ answered'["fav"] = answered["fav"]
    BY <1>3, <1>5
  <2>5. \A u \in Threads : /\ sure'[u].problems \subseteq answered'["problem"]
                           /\ \A x \in sure'[u].pairs : x \in kept' /\ x[1] \in answered'["fav"]
    BY <1>1, <1>7, <2>4 DEF IInv, StoreInv
  <2> QED
    BY <1>7, <2>1, <2>3, <2>5 DEF StoreInv, NoSurer
<1>10. Holds(t)'
  <2>1. ~harmed => Matches("problem") /\ Matches("fav")
    BY <1>1, <1>3, AtLock
  <2>2. p \notin answered'["problem"]
    BY <1>3, <1>5
  <2>3. CreateInv(t)' /\ ChangeInv(t)' /\ DeleteInv(t)' /\ SweepInv(t)'
    BY <1>2, <1>4, <2>2 DEF CreateInv, ChangeInv, DeleteInv, SweepInv, Sweeping
  <2>4. ~harmed' => PartInv(t)'
    BY <1>1, <1>2, <1>3, <1>4, <1>6, <2>1 DEF PartInv, Matches, Sweeping
  <2> QED
    BY <2>3, <2>4 DEF Holds
<1> QED
  BY <1>1, <1>2, <1>3, <1>8, <1>9, <1>10, AtLock, HandlerGoesOn

LEMMA DeleteGetIdsKeeps ==
    ASSUME IInv, NEW t \in Threads, DeleteGetIds(t)
    PROVE  IInv'
<1>0. PICK i0, left, l : /\ i0 = loc[t].id /\ left = Without(ids["problem"], loc[t].id)
                         /\ l = [loc[t] EXCEPT !.list = left]
  OBVIOUS
<1>1. /\ pc[t] = "getProblemIds" /\ UNCHANGED <<db, mutex, history>>
      /\ \/ left # ids["problem"] /\ Go(t, "putProblemIds", l)
         \/ left = ids["problem"] /\ Go(t, "getFavIds", loc[t])
  BY <1>0 DEF DeleteGetIds, At
<1>2. mutex = t /\ loc[t] \in LocType /\ Holds(t)
  BY <1>1, AtWork DEF Changing, Deleting
<1>3. /\ "putProblemIds" \in Changing /\ "getFavIds" \in Changing
      /\ "problem" \in Kinds /\ "fav" \in Kinds
  BY DEF Changing, Deleting, Kinds
<1>4. /\ left \in Seq(Nat) /\ ToSet(left) = Listed("problem") \ {i0} /\ Once(left)
  <2>1. ids["problem"] \in Seq(Nat) /\ Once(ids["problem"])
    BY <1>3 DEF IInv, StoreTypes, StoreInv
  <2> QED
    BY <1>0, <2>1, WithoutIs DEF Listed
<1>5. l \in LocType /\ l.id = i0 /\ l.list = left
  BY ONLY <1>0, <1>2, <1>4 DEF LocType
<1>6. /\ i0 \notin answered["problem"]
      /\ ~harmed => Stored("problem") = Listed("problem") \ {i0} /\ Matches("fav")
  BY <1>0, <1>1, <1>2 DEF Holds, DeleteInv, PartInv
<1>7. /\ answered' = answered /\ harmed' = harmed
      /\ \A k \in Kinds : Listed(k)' = Listed(k) /\ Stored(k)' = Stored(k) /\ Matches(k)' = Matches(k)
  BY <1>1, NothingStored DEF history, Matches
<1>8. CASE left # ids["problem"] /\ Go(t, "putProblemIds", l)
  <2>1. pc'[t] = "putProblemIds" /\ loc'[t] = l
    BY <1>3, <1>5, <1>8, Goes DEF IInv
  <2>2. CreateInv(t)' /\ ChangeInv(t)' /\ DeleteInv(t)' /\ SweepInv(t)'
    BY <1>3, <1>4, <1>5, <1>6, <1>7, <2>1 DEF CreateInv, ChangeInv, DeleteInv, SweepInv, Sweeping
  <2>3. ~harmed' => PartInv(t)'
    BY <1>3, <1>5, <1>6, <1>7, <2>1 DEF PartInv, Sweeping
  <2>4. Holds(t)' /\ UNCHANGED <<db, history>>
    BY <1>1, <2>2, <2>3 DEF Holds
  <2> QED
    BY <1>1, <1>2, <1>3, <1>5, <1>8, <2>4, NothingStored, HandlerGoesOn
<1>9. CASE left = ids["problem"] /\ Go(t, "getFavIds", loc[t])
  <2>1. pc'[t] = "getFavIds" /\ loc'[t] = loc[t]
    BY <1>2, <1>3, <1>9, Goes DEF IInv
  <2>2. CreateInv(t)' /\ ChangeInv(t)' /\ DeleteInv(t)' /\ SweepInv(t)'
    BY <2>1 DEF CreateInv, ChangeInv, DeleteInv, SweepInv, Sweeping
  <2>3. ~harmed => Matches("problem") /\ Matches("fav")
    BY <1>4, <1>6, <1>9 DEF Matches, Listed
  <2>4. ~harmed' => PartInv(t)'
    BY <1>3, <1>7, <2>1, <2>3 DEF PartInv, Sweeping, Kinds
  <2>5. Holds(t)' /\ UNCHANGED <<db, history>>
    BY <1>1, <2>2, <2>4 DEF Holds
  <2> QED
    BY <1>1, <1>2, <1>3, <1>9, <2>5, NothingStored, HandlerGoesOn
<1> QED
  BY <1>1, <1>8, <1>9

LEMMA DeletePutIdsKeeps ==
    ASSUME IInv, NEW t \in Threads, DeletePutIds(t)
    PROVE  IInv'
<1>0. PICK i0, list : i0 = loc[t].id /\ list = loc[t].list
  OBVIOUS
<1>1. /\ pc[t] = "putProblemIds" /\ Go(t, "getFavIds", loc[t])
      /\ ids' = [ids EXCEPT !["problem"] = list]
      /\ UNCHANGED <<next, problem, fav, mutex, answered, kept, sure, harmed>>
  BY <1>0 DEF DeletePutIds, At, history
<1>2. mutex = t /\ loc[t] \in LocType /\ Holds(t)
  BY <1>1, AtWork DEF Changing, Deleting
<1>3. "getFavIds" \in Changing /\ "problem" \in Kinds /\ "fav" \in Kinds
  BY DEF Changing, Deleting, Kinds
<1>4. /\ list \in Seq(Nat) /\ ToSet(list) = Listed("problem") \ {i0} /\ Once(list)
      /\ i0 \notin answered["problem"]
      /\ ~harmed => Stored("problem") = Listed("problem") \ {i0} /\ Matches("fav")
  BY <1>0, <1>1, <1>2 DEF LocType, Holds, DeleteInv, PartInv
<1>5. \A k \in Kinds : ids'[k] = IF k = "problem" THEN list ELSE ids[k]
  BY <1>1 DEF IInv, StoreTypes
<1>6. /\ Listed("problem")' = Listed("problem") \ {i0} /\ Listed("fav")' = Listed("fav")
      /\ \A k \in Kinds : Stored(k)' = Stored(k)
  <2>1. \A k \in Kinds : Stored(k)' = Stored(k)
    BY <1>1 DEF Stored
  <2> QED
    BY <1>3, <1>4, <1>5, <2>1 DEF Listed
<1>7. StoreTypes' /\ HistoryTypes'
  <2>1. ids' \in [Kinds -> Seq(Nat)]
    BY <1>1, <1>4 DEF IInv, StoreTypes
  <2> QED
    BY <1>1, <2>1 DEF IInv, StoreTypes, HistoryTypes
<1>8. StoreInv' /\ NoSurer
  <2>1. \A k \in Kinds : Once(ids'[k]) /\ Listed(k)' \cup Stored(k)' \subseteq 1..next'[k]
    BY <1>1, <1>4, <1>5, <1>6 DEF IInv, StoreInv, Kinds
  <2>2. \A k \in Kinds : answered'[k] \subseteq Stored(k)' \cap Listed(k)'
    BY <1>1, <1>4, <1>6 DEF IInv, StoreInv, AnsweredIsKept, Kinds
  <2>3. AnsweredIsKept'
    BY <1>1, <2>2 DEF IInv, StoreInv, AnsweredIsKept
  <2> QED
    BY <1>1, <2>1, <2>3 DEF IInv, StoreInv, NoSurer
<1>9. pc'[t] = "getFavIds" /\ loc'[t] = loc[t]
  BY <1>1, <1>2, <1>3, Goes DEF IInv
<1>10. Holds(t)'
  <2>1. CreateInv(t)' /\ ChangeInv(t)' /\ DeleteInv(t)' /\ SweepInv(t)'
    BY <1>9 DEF CreateInv, ChangeInv, DeleteInv, SweepInv, Sweeping
  <2>2. ~harmed => Matches("problem")' /\ Matches("fav")'
    BY <1>3, <1>4, <1>6 DEF Matches
  <2>3. ~harmed' => PartInv(t)'
    BY <1>1, <1>9, <2>2 DEF PartInv, Sweeping, Kinds
  <2> QED
    BY <2>1, <2>3 DEF Holds
<1> QED
  BY <1>1, <1>2, <1>3, <1>7, <1>8, <1>10, HandlerGoesOn

-----------------------------------------------------------------------------
(* The walk over the favourites, and handleRemoveFromFavorite.             *)

\* A walk begins with every favourite of the index before it.
LEMMA SweepBegins ==
    ASSUME IInv, NEW t \in Threads, NEW l \in LocType, UNCHANGED <<db, history>>,
           pc'[t] = "sweep", loc'[t] = l, l.list = ids["fav"], l.todo = ids["fav"],
           ~harmed => \A k \in Kinds : Matches(k)
    PROVE  Holds(t)'
<1>1. "problem" \in Kinds /\ "fav" \in Kinds
  BY DEF Kinds
<1>2. /\ ids' = ids /\ fav' = fav /\ answered' = answered /\ harmed' = harmed
      /\ \A k \in Kinds : Listed(k)' = Listed(k) /\ Stored(k)' = Stored(k) /\ Matches(k)' = Matches(k)
  BY NothingStored DEF db, history, Matches
<1>3. ToSet(l.list) = Listed("fav") /\ ToSet(l.todo) = Listed("fav") /\ Once(l.list)
  BY <1>1 DEF IInv, StoreInv, Listed
<1>4. answered["fav"] \subseteq Listed("fav") /\ Listed("fav") \subseteq Favs
  BY <1>1, IdRanges DEF IInv, StoreInv, AnsweredIsKept
<1>5. SweepInv(t)'
  BY <1>1, <1>2, <1>3, <1>4 DEF SweepInv, Sweeping
<1>6. CreateInv(t)' /\ ChangeInv(t)' /\ DeleteInv(t)'
  BY DEF CreateInv, ChangeInv, DeleteInv
<1>7. ~harmed' => PartInv(t)'
  BY <1>1, <1>2, <1>3 DEF PartInv, Matches, Sweeping
<1> QED
  BY <1>5, <1>6, <1>7 DEF Holds

LEMMA RemoveFromFavoriteKeeps ==
    ASSUME IInv, NEW t \in Threads, NEW p \in Problems, NEW f \in Favs \cup {0},
           RemoveFromFavorite(t, p, f)
    PROVE  IInv'
<1>0. PICK l : l = [NoLocal EXCEPT !.id = p, !.fid = f, !.list = ids["fav"], !.todo = ids["fav"]]
  OBVIOUS
<1>1. Go(t, "sweep", l) /\ Locked(t) /\ UNCHANGED <<db, history>>
  BY <1>0 DEF RemoveFromFavorite
<1>2. ids["fav"] \in Seq(Nat) /\ f \in Nat /\ p \in Nat
  BY DEF IInv, StoreTypes, Kinds, Favs, Problems
<1>3. l \in LocType /\ l.list = ids["fav"] /\ l.todo = ids["fav"]
  BY ONLY <1>0, <1>2, NoLocalIs DEF LocType
<1>4. "sweep" \in Changing
  BY DEF Changing, Sweeping
<1>5. pc'[t] = "sweep" /\ loc'[t] = l
  BY <1>1, <1>3, <1>4, Goes DEF IInv
<1>6. Holds(t)'
  <2>1. ~harmed => \A k \in Kinds : Matches(k)
    BY <1>1, AtLock
  <2> QED
    BY <1>1, <1>3, <1>5, <2>1, SweepBegins
<1> QED
  BY <1>1, <1>3, <1>4, <1>6, AtLock, NothingStored, HandlerGoesOn

LEMMA SweepGetIdsKeeps ==
    ASSUME IInv, NEW t \in Threads, SweepGetIds(t)
    PROVE  IInv'
<1>0. PICK l : l = [loc[t] EXCEPT !.list = ids["fav"], !.todo = ids["fav"]]
  OBVIOUS
<1>1. pc[t] = "getFavIds" /\ Go(t, "sweep", l) /\ UNCHANGED <<db, mutex, history>>
  BY <1>0 DEF SweepGetIds, At
<1>2. "sweep" \in Changing /\ "getFavIds" \in Changing
  BY DEF Changing, Sweeping, Deleting
<1>3. mutex = t /\ loc[t] \in LocType /\ Holds(t)
  BY <1>1, <1>2, AtWork
<1>4. ids["fav"] \in Seq(Nat)
  BY DEF IInv, StoreTypes, Kinds
<1>5. l \in LocType /\ l.list = ids["fav"] /\ l.todo = ids["fav"]
  BY ONLY <1>0, <1>3, <1>4 DEF LocType
<1>6. pc'[t] = "sweep" /\ loc'[t] = l
  BY <1>1, <1>2, <1>5, Goes DEF IInv
<1>7. UNCHANGED <<db, history>>
  BY <1>1
<1>8. Holds(t)'
  <2>1. ~harmed => \A k \in Kinds : Matches(k)
    BY <1>1, <1>3 DEF Holds, PartInv
  <2> QED
    BY <1>5, <1>6, <1>7, <2>1, SweepBegins
<1> QED
  BY <1>1, <1>2, <1>3, <1>5, <1>7, <1>8, NothingStored, HandlerGoesOn

LEMMA SweepGetKeeps ==
    ASSUME IInv, NEW t \in Threads, SweepGet(t)
    PROVE  IInv'
<1>0. PICK l, f0 : l = loc[t] /\ f0 = Head(loc[t].todo)
  OBVIOUS
<1>1. PICK hit, miss : /\ hit = [l EXCEPT !.set = fav[f0] \ {l.id}]
                       /\ miss = [l EXCEPT !.todo = Tail(@)]
  OBVIOUS
<1>2. /\ pc[t] = "sweep" /\ l.todo # <<>> /\ UNCHANGED <<db, mutex, history>>
      /\ \/ Hit(l, f0) /\ Go(t, "sweepPut", hit)
         \/ ~Hit(l, f0) /\ Go(t, "sweep", miss)
  BY <1>0, <1>1 DEF SweepGet, At
<1>3. /\ "sweep" \in Changing /\ "sweepPut" \in Changing
      /\ "problem" \in Kinds /\ "fav" \in Kinds
  BY DEF Changing, Sweeping, Kinds
<1>4. mutex = t /\ l \in LocType /\ Holds(t)
  BY <1>0, <1>2, <1>3, AtWork
<1>5. /\ answered["fav"] \subseteq ToSet(l.list) /\ ToSet(l.list) \subseteq Listed("fav")
      /\ Once(l.list) /\ (~l.changed => l.list = ids["fav"])
      /\ ToSet(l.todo) \subseteq Favs
      /\ l.fid = 0 => \A f \in Listed("fav") \cap Stored("fav") : l.id \in fav[f] => f \in ToSet(l.todo)
      /\ ~harmed => Matches("problem") /\ Stored("fav") = ToSet(l.list)
  BY <1>0, <1>2, <1>4 DEF Holds, SweepInv, PartInv, Sweeping
<1>6. /\ l.todo \in Seq(Nat) /\ f0 \in ToSet(l.todo)
      /\ Tail(l.todo) \in Seq(Nat) /\ ToSet(Tail(l.todo)) \subseteq ToSet(l.todo)
      /\ \A x \in ToSet(l.todo) : x # f0 => x \in ToSet(Tail(l.todo))
  <2>1. l.todo \in Seq(Nat)
    BY <1>4 DEF LocType
  <2> QED
    BY <1>0, <1>2, <2>1, QueueTaken, TailHasRest
<1>7. UNCHANGED <<db, history>>
  BY <1>2
<1>8. /\ ids' = ids /\ fav' = fav /\ answered' = answered /\ harmed' = harmed
      /\ \A k \in Kinds : Listed(k)' = Listed(k) /\ Stored(k)' = Stored(k) /\ Matches(k)' = Matches(k)
  BY <1>7, NothingStored DEF db, history, Matches
<1>9. CASE Hit(l, f0) /\ Go(t, "sweepPut", hit)
  <2>1. fav[f0] # Absent /\ fav[f0] \in SUBSET Problems
    BY <1>5, <1>6, <1>9 DEF Hit, IInv, StoreTypes
  <2>2. fav[f0] \ {l.id} \in SUBSET Problems
    BY <2>1
  <2>3. /\ hit \in LocType /\ hit.set = fav[f0] \ {l.id}
        /\ hit.list = l.list /\ hit.todo = l.todo /\ hit.changed = l.changed
        /\ hit.id = l.id /\ hit.fid = l.fid
    BY ONLY <1>1, <1>4, <2>2 DEF LocType
  <2>4. pc'[t] = "sweepPut" /\ loc'[t] = hit
    BY <1>3, <1>9, <2>3, Goes DEF IInv
  <2>5. SweepInv(t)'
    <3>1. f0 = Head(hit.todo)
      BY <1>0, <2>3
    <3> QED
      BY <1>2, <1>3, <1>5, <1>8, <2>1, <2>3, <2>4, <3>1 DEF SweepInv, Sweeping
  <2>6. CreateInv(t)' /\ ChangeInv(t)' /\ DeleteInv(t)'
    BY <2>4 DEF CreateInv, ChangeInv, DeleteInv
  <2>7. ~harmed' => PartInv(t)'
    BY <1>3, <1>5, <1>8, <2>3, <2>4 DEF PartInv, Sweeping
  <2>8. Holds(t)'
    BY <2>5, <2>6, <2>7 DEF Holds
  <2> QED
    BY <1>2, <1>3, <1>4, <1>7, <1>9, <2>3, <2>8, NothingStored, HandlerGoesOn
<1>10. CASE ~Hit(l, f0) /\ Go(t, "sweep", miss)
  <2>1. /\ miss \in LocType /\ miss.todo = Tail(l.todo)
        /\ miss.list = l.list /\ miss.changed = l.changed /\ miss.id = l.id /\ miss.fid = l.fid
    BY ONLY <1>1, <1>4, <1>6 DEF LocType
  <2>2. pc'[t] = "sweep" /\ loc'[t] = miss
    BY <1>3, <1>10, <2>1, Goes DEF IInv
  <2>3. l.fid = 0 => \A f \in Listed("fav") \cap Stored("fav") :
                         l.id \in fav[f] => f \in ToSet(Tail(l.todo))
    <3>1. l.fid = 0 => ~(fav[f0] # Absent /\ l.id \in fav[f0])
      BY <1>10 DEF Hit
    <3>2. \A f \in Stored("fav") : fav[f] # Absent
      BY DEF Stored
    <3> QED
      BY <1>5, <1>6, <3>1, <3>2
  <2>4. SweepInv(t)'
    BY <1>3, <1>5, <1>6, <1>8, <2>1, <2>2, <2>3 DEF SweepInv, Sweeping
  <2>5. CreateInv(t)' /\ ChangeInv(t)' /\ DeleteInv(t)'
    BY <2>2 DEF CreateInv, ChangeInv, DeleteInv
  <2>6. ~harmed' => PartInv(t)'
    BY <1>3, <1>5, <1>8, <2>1, <2>2 DEF PartInv, Sweeping
  <2>7. Holds(t)'
    BY <2>4, <2>5, <2>6 DEF Holds
  <2> QED
    BY <1>2, <1>3, <1>4, <1>7, <1>10, <2>1, <2>7, NothingStored, HandlerGoesOn
<1> QED
  BY <1>2, <1>9, <1>10

LEMMA SweepPutKeeps ==
    ASSUME IInv, NEW t \in Threads, SweepPut(t)
    PROVE  IInv'
<1>0. PICK l, f0 : l = loc[t] /\ f0 = Head(loc[t].todo)
  OBVIOUS
<1>1. PICK new, empty, rest :
          /\ new = (IF l.set = {} THEN Absent ELSE l.set)
          /\ empty = [l EXCEPT !.todo = Tail(@), !.changed = TRUE, !.list = Without(@, f0)]
          /\ rest = [l EXCEPT !.todo = Tail(@)]
  OBVIOUS
<1>2. PICK m : m = (IF l.set = {} THEN empty ELSE rest)
  OBVIOUS
<1>3. /\ pc[t] = "sweepPut" /\ Go(t, "sweep", m)
      /\ fav' = [fav EXCEPT ![f0] = new]
      /\ kept' = kept \ {<<f0, l.id>>}
      /\ answered' = IF l.set = {} THEN [answered EXCEPT !["fav"] = @ \ {f0}] ELSE answered
      /\ sure' = [u \in Threads |-> [problems |-> sure[u].problems \ {},
                                     pairs |-> sure[u].pairs \ {<<f0, l.id>>}]]
      /\ UNCHANGED <<next, ids, problem, mutex, harmed>>
  BY <1>0, <1>1, <1>2 DEF SweepPut, At, Undone
<1>4. /\ "sweep" \in Changing /\ "sweepPut" \in Changing
      /\ "problem" \in Kinds /\ "fav" \in Kinds
  BY DEF Changing, Sweeping, Kinds
<1>5. mutex = t /\ l \in LocType /\ Holds(t)
  BY <1>0, <1>3, <1>4, AtWork
<1>6. /\ answered["fav"] \subseteq ToSet(l.list) /\ ToSet(l.list) \subseteq Listed("fav")
      /\ Once(l.list) /\ (~l.changed => l.list = ids["fav"])
      /\ ToSet(l.todo) \subseteq Favs
      /\ l.fid = 0 => \A f \in Listed("fav") \cap Stored("fav") : l.id \in fav[f] => f \in ToSet(l.todo)
      /\ l.todo # <<>> /\ fav[f0] # Absent /\ l.set = fav[f0] \ {l.id}
      /\ ~harmed => Matches("problem") /\ Stored("fav") = ToSet(l.list)
  BY <1>0, <1>3, <1>5 DEF Holds, SweepInv, PartInv, Sweeping
<1>7. /\ l.todo \in Seq(Nat) /\ f0 \in ToSet(l.todo) /\ l.list \in Seq(Nat)
      /\ Tail(l.todo) \in Seq(Nat) /\ ToSet(Tail(l.todo)) \subseteq ToSet(l.todo)
      /\ \A x \in ToSet(l.todo) : x # f0 => x \in ToSet(Tail(l.todo))
  <2>1. l.todo \in Seq(Nat) /\ l.list \in Seq(Nat)
    BY <1>5 DEF LocType
  <2> QED
    BY <1>0, <1>6, <2>1, QueueTaken, TailHasRest
<1>8. /\ Without(l.list, f0) \in Seq(Nat) /\ Once(Without(l.list, f0))
      /\ ToSet(Without(l.list, f0)) = ToSet(l.list) \ {f0}
  BY <1>6, <1>7, WithoutIs
<1>9. f0 \in Favs /\ fav[f0] \in SUBSET Problems /\ l.set \in SUBSET Problems
  <2>1. f0 \in Favs
    BY <1>6, <1>7
  <2> QED
    BY <1>6, <2>1 DEF IInv, StoreTypes
<1>10. l.set # Absent /\ (new = Absent <=> l.set = {}) /\ (l.set # {} => new = l.set)
  BY <1>1, <1>9, ConstantsAssumption
<1>11. \A f \in Favs : fav'[f] = IF f = f0 THEN new ELSE fav[f]
  BY <1>3, <1>9 DEF IInv, StoreTypes
<1>12. /\ m \in LocType /\ m.todo = Tail(l.todo) /\ m.id = l.id /\ m.fid = l.fid
       /\ l.set = {} => m.changed /\ m.list = Without(l.list, f0)
       /\ l.set # {} => m.changed = l.changed /\ m.list = l.list
  <2>1. /\ empty \in LocType /\ empty.todo = Tail(l.todo) /\ empty.id = l.id /\ empty.fid = l.fid
        /\ empty.changed /\ empty.list = Without(l.list, f0)
    BY ONLY <1>1, <1>5, <1>7, <1>8 DEF LocType
  <2>2. /\ rest \in LocType /\ rest.todo = Tail(l.todo) /\ rest.id = l.id /\ rest.fid = l.fid
        /\ rest.changed = l.changed /\ rest.list = l.list
    BY ONLY <1>1, <1>5, <1>7 DEF LocType
  <2> QED
    BY ONLY <1>2, <2>1, <2>2
<1>13. /\ \A k \in Kinds : Listed(k)' = Listed(k)
       /\ Stored("problem")' = Stored("problem")
       /\ l.set = {} => Stored("fav")' = Stored("fav") \ {f0}
       /\ l.set # {} => Stored("fav")' = Stored("fav")
  <2>1. \A k \in Kinds : Listed(k)' = Listed(k)
    BY <1>3 DEF Listed
  <2>2. Stored("problem")' = Stored("problem")
    BY <1>3 DEF Stored
  <2>3. l.set = {} => Stored("fav")' = Stored("fav") \ {f0}
    BY <1>10, <1>11 DEF Stored
  <2>4. l.set # {} => Stored("fav")' = Stored("fav")
    BY <1>6, <1>9, <1>10, <1>11 DEF Stored
  <2> QED
    BY <2>1, <2>2, <2>3, <2>4
<1>14. /\ answered'["problem"] = answered["problem"]
       /\ l.set = {} => answered'["fav"] = answered["fav"] \ {f0}
       /\ l.set # {} => answered'["fav"] = answered["fav"]
       /\ answered' \in [Kinds -> SUBSET Nat]
  BY <1>3, <1>4 DEF IInv, HistoryTypes
<1>15. \A u \in Threads : /\ sure'[u].problems = sure[u].problems
                          /\ sure'[u].pairs = sure[u].pairs \ {<<f0, l.id>>}
  BY <1>3
<1>16. StoreTypes' /\ HistoryTypes'
  <2>1. new \in (SUBSET Problems) \cup {Absent}
    BY <1>9, <1>10
  <2>2. fav' \in [Favs -> (SUBSET Problems) \cup {Absent}]
    BY <1>3, <2>1 DEF IInv, StoreTypes
  <2>3. sure' \in [Threads -> [problems : SUBSET Nat, pairs : SUBSET (Favs \X Problems)]]
    BY <1>3 DEF IInv, HistoryTypes
  <2>4. kept' \subseteq Favs \X Problems
    BY <1>3 DEF IInv, HistoryTypes
  <2> QED
    BY <1>3, <1>14, <2>2, <2>3, <2>4 DEF IInv, StoreTypes, HistoryTypes
<1>17. \A x \in kept : /\ x[1] \in Favs /\ x[2] \in fav[x[1]] /\ x = <<x[1], x[2]>>
                       /\ x[1] = f0 /\ x # <<f0, l.id>> => x[2] \in l.set
  <2> SUFFICES ASSUME NEW x \in kept
               PROVE  /\ x[1] \in Favs /\ x[2] \in fav[x[1]] /\ x = <<x[1], x[2]>>
                      /\ x[1] = f0 /\ x # <<f0, l.id>> => x[2] \in l.set
    OBVIOUS
  <2>1. x \in Favs \X Problems
    BY DEF IInv, HistoryTypes
  <2>2. x[2] \in fav[x[1]]
    BY DEF IInv, StoreInv, AnsweredIsKept
  <2> QED
    BY <1>6, <2>1, <2>2
<1>18. StoreInv' /\ NoSurer
  <2>1. \A k \in Kinds : Once(ids'[k]) /\ Listed(k)' \cup Stored(k)' \subseteq 1..next'[k]
    BY <1>3, <1>13 DEF IInv, StoreInv, Kinds
  <2>2. \A k \in Kinds : answered'[k] \subseteq Stored(k)' \cap Listed(k)'
    <3>1. \A k \in Kinds : answered[k] \subseteq Stored(k) \cap Listed(k)
      BY DEF IInv, StoreInv, AnsweredIsKept
    <3>2. answered'["fav"] \subseteq Stored("fav")' \cap Listed("fav")'
      BY <1>4, <1>13, <1>14, <3>1
    <3>3. answered'["problem"] \subseteq Stored("problem")' \cap Listed("problem")'
      BY <1>4, <1>13, <1>14, <3>1
    <3> QED
      BY <3>2, <3>3 DEF Kinds
  <2>3. \A x \in kept' : fav'[x[1]] # Absent /\ x[2] \in fav'[x[1]]
    <3> SUFFICES ASSUME NEW x \in kept, x # <<f0, l.id>>
                 PROVE  fav'[x[1]] # Absent /\ x[2] \in fav'[x[1]]
      BY <1>3
    <3>1. fav[x[1]] # Absent
      BY DEF IInv, StoreInv, AnsweredIsKept
    <3> QED
      BY <1>10, <1>11, <1>17, <3>1
  <2>4. ASSUME NEW u \in Threads
        PROVE  /\ sure'[u].problems \subseteq answered'["problem"]
               /\ \A x \in sure'[u].pairs : x \in kept' /\ x[1] \in answered'["fav"]
    <3>1. /\ sure[u].problems \subseteq answered["problem"]
          /\ \A x \in sure[u].pairs : x \in kept /\ x[1] \in answered["fav"]
      BY DEF IInv, StoreInv
    <3>2. sure'[u].problems \subseteq answered'["problem"]
      BY <1>14, <1>15, <3>1
    <3>3. ASSUME NEW x \in sure'[u].pairs PROVE x \in kept' /\ x[1] \in answered'["fav"]
      <4>1. x \in kept /\ x # <<f0, l.id>> /\ x[1] \in answered["fav"]
        BY <1>15, <3>1, <3>3
      <4>2. l.set = {} => x[1] # f0
        BY <1>17, <4>1
      <4> QED
        BY <1>3, <1>14, <4>1, <4>2
    <3> QED
      BY <3>2, <3>3
  <2> QED
    BY <1>15, <2>1, <2>2, <2>3, <2>4 DEF StoreInv, AnsweredIsKept, NoSurer
<1>19. pc'[t] = "sweep" /\ loc'[t] = m
  BY <1>3, <1>4, <1>12, Goes DEF IInv
<1>20. Holds(t)'
  <2>1. answered'["fav"] \subseteq ToSet(m.list) /\ ToSet(m.list) \subseteq Listed("fav")' /\ Once(m.list)
    BY <1>4, <1>6, <1>8, <1>12, <1>13, <1>14
  <2>2. ~m.changed => m.list = ids'["fav"]
    BY <1>3, <1>6, <1>12
  <2>3. ToSet(m.todo) \subseteq Favs
    BY <1>6, <1>7, <1>12
  <2>4. ASSUME l.fid = 0, NEW f \in Listed("fav")' \cap Stored("fav")', l.id \in fav'[f]
        PROVE  f \in ToSet(m.todo)
    <3>1. f \in Listed("fav") \cap Stored("fav") /\ f \in Favs /\ fav'[f] # Absent
      <4>1. f \in Favs /\ fav'[f] # Absent
        BY <2>4 DEF Stored
      <4> QED
        BY <1>4, <1>13, <2>4, <4>1
    <3>2. f # f0
      BY <1>6, <1>10, <1>11, <2>4, <3>1
    <3>3. f \in ToSet(l.todo)
      BY <1>6, <1>11, <2>4, <3>1, <3>2
    <3> QED
      BY <1>7, <1>12, <3>2, <3>3
  <2>5. SweepInv(t)'
    BY <1>12, <1>19, <2>1, <2>2, <2>3, <2>4 DEF SweepInv, Sweeping
  <2>6. CreateInv(t)' /\ ChangeInv(t)' /\ DeleteInv(t)'
    BY <1>19 DEF CreateInv, ChangeInv, DeleteInv
  <2>7. ~harmed => Matches("problem")' /\ Stored("fav")' = ToSet(m.list)
    BY <1>4, <1>6, <1>8, <1>12, <1>13 DEF Matches
  <2>8. ~harmed' => PartInv(t)'
    BY <1>3, <1>19, <2>7 DEF PartInv, Sweeping
  <2> QED
    BY <2>5, <2>6, <2>8 DEF Holds
<1> QED
  BY <1>3, <1>4, <1>5, <1>12, <1>16, <1>18, <1>20, HandlerGoesOn

LEMMA SweepEndKeeps ==
    ASSUME IInv, NEW t \in Threads, SweepEnd(t)
    PROVE  IInv'
<1>0. PICK l : l = loc[t]
  OBVIOUS
<1>1. /\ pc[t] = "sweep" /\ Finish(t)
      /\ ids' = IF l.changed THEN [ids EXCEPT !["fav"] = l.list] ELSE ids
      /\ UNCHANGED <<next, problem, fav, answered, kept, sure, harmed>>
  BY <1>0 DEF SweepEnd, At, history
<1>2. mutex = t /\ l \in LocType /\ Holds(t)
  BY <1>0, <1>1, AtWork DEF Changing, Sweeping
<1>3. /\ answered["fav"] \subseteq ToSet(l.list) /\ ToSet(l.list) \subseteq Listed("fav")
      /\ Once(l.list) /\ (~l.changed => l.list = ids["fav"]) /\ l.list \in Seq(Nat)
      /\ ~harmed => Matches("problem") /\ Stored("fav") = ToSet(l.list)
  BY <1>0, <1>1, <1>2 DEF LocType, Holds, SweepInv, PartInv, Sweeping
<1>4. \A k \in Kinds : ids'[k] = IF k = "fav" THEN l.list ELSE ids[k]
  BY <1>1, <1>3 DEF IInv, StoreTypes
<1>5. "problem" \in Kinds /\ "fav" \in Kinds
  BY DEF Kinds
<1>6. /\ Listed("fav")' = ToSet(l.list) /\ Listed("problem")' = Listed("problem")
      /\ \A k \in Kinds : Stored(k)' = Stored(k)
  <2>1. \A k \in Kinds : Stored(k)' = Stored(k)
    BY <1>1 DEF Stored
  <2> QED
    BY <1>4, <1>5, <2>1 DEF Listed
<1>7. StoreTypes' /\ HistoryTypes'
  <2>1. ids' \in [Kinds -> Seq(Nat)]
    BY <1>1, <1>3 DEF IInv, StoreTypes
  <2> QED
    BY <1>1, <2>1 DEF IInv, StoreTypes, HistoryTypes
<1>8. StoreInv' /\ NoSurer
  <2>1. \A k \in Kinds : Once(ids'[k]) /\ Listed(k)' \cup Stored(k)' \subseteq 1..next'[k]
    BY <1>1, <1>3, <1>4, <1>6 DEF IInv, StoreInv, Kinds
  <2>2. \A k \in Kinds : answered'[k] \subseteq Stored(k)' \cap Listed(k)'
    BY <1>1, <1>3, <1>6 DEF IInv, StoreInv, AnsweredIsKept, Kinds
  <2>3. AnsweredIsKept'
    BY <1>1, <2>2 DEF IInv, StoreInv, AnsweredIsKept
  <2> QED
    BY <1>1, <2>1, <2>3 DEF IInv, StoreInv, NoSurer
<1>9. IndexesAgree'
  <2>1. ~harmed' => \A k \in Kinds : Listed(k)' = Stored(k)'
    BY <1>1, <1>3, <1>6 DEF Matches, Kinds
  <2> QED
    BY <2>1 DEF IndexesAgree
<1> QED
  BY <1>1, <1>2, <1>7, <1>8, <1>9, HandlerEnds

-----------------------------------------------------------------------------
(* The readers.                                                            *)

LEMMA GetProblemsKeeps ==
    ASSUME IInv, NEW t \in Threads, NEW f \in Favs \cup {0}, GetProblems(t, f)
    PROVE  IInv'
<1>0. PICK l, label, known :
          /\ l = [NoLocal EXCEPT !.fid = f, !.list = ids["problem"], !.set = Problems]
          /\ label = (IF f = 0 THEN "favIds" ELSE "filter")
          /\ known = [problems |-> answered["problem"], pairs |-> {x \in kept : x[1] \in answered["fav"]}]
  OBVIOUS
<1>1. /\ pc[t] = "idle" /\ Go(t, label, l) /\ sure' = [sure EXCEPT ![t] = known]
      /\ UNCHANGED <<db, mutex, answered, kept, harmed>>
  BY <1>0 DEF GetProblems
<1>2. /\ "idle" \notin Changing /\ label \in Reading /\ label \notin Changing
      /\ label \in {"favIds", "filter"} /\ "problem" \in Kinds
  BY <1>0 DEF Changing, Creating, Deleting, Sweeping, Reading, Kinds
<1>3. ids["problem"] \in Seq(Nat) /\ f \in Nat /\ Problems \in SUBSET Problems
  BY <1>2 DEF IInv, StoreTypes, Favs
<1>4. l \in LocType /\ l.list = ids["problem"] /\ l.fid = f
  BY ONLY <1>0, <1>3, NoLocalIs DEF LocType
<1>5. /\ known \in [problems : SUBSET Nat, pairs : SUBSET (Favs \X Problems)]
      /\ known.problems = answered["problem"]
      /\ \A x \in known.pairs : x \in kept /\ x[1] \in answered["fav"]
  BY <1>0, <1>2 DEF IInv, HistoryTypes
<1>6. /\ sure' \in [Threads -> [problems : SUBSET Nat, pairs : SUBSET (Favs \X Problems)]]
      /\ sure'[t] = known /\ \A u \in Threads : u # t => sure'[u] = sure[u]
  BY <1>1, <1>5 DEF IInv, HistoryTypes
<1>7. pc'[t] = label /\ loc'[t] = l
  BY <1>1, <1>2, <1>4, Goes DEF IInv
<1>8. ReadInv(t)'
  <2>1. answered["problem"] \subseteq Listed("problem")
    BY <1>2 DEF IInv, StoreInv, AnsweredIsKept
  <2>2. known.problems \subseteq ToSet(l.list)
    BY <1>4, <1>5, <2>1 DEF Listed
  <2>3. label = "filter" => l.fid \in Favs
    BY <1>0, <1>4
  <2> QED
    BY <1>2, <1>6, <1>7, <2>2, <2>3 DEF ReadInv
<1> QED
  BY <1>1, <1>2, <1>4, <1>5, <1>6, <1>8, ReaderGoesOn

\* The other steps of a reader, which learns nothing from clients meanwhile.
LEMMA ReaderStep ==
    ASSUME IInv, NEW t \in Threads, pc[t] \in Reading, NEW label \in Reading, NEW l \in LocType,
           Go(t, label, l), UNCHANGED <<db, mutex, history>>, ReadInv(t)'
    PROVE  IInv'
<1>1. pc[t] \notin Changing /\ label \notin Changing
  BY DEF Changing, Creating, Deleting, Sweeping, Reading
<1>2. /\ UNCHANGED <<db, mutex, answered, kept, harmed>> /\ sure' = sure
      /\ sure' \in [Threads -> [problems : SUBSET Nat, pairs : SUBSET (Favs \X Problems)]]
      /\ sure'[t].problems \subseteq answered["problem"]
      /\ \A x \in sure'[t].pairs : x \in kept /\ x[1] \in answered["fav"]
  BY DEF IInv, HistoryTypes, StoreInv, history
<1> QED
  BY <1>1, <1>2, ReaderGoesOn

\* What a reader holds.
LEMMA AtRead ==
    ASSUME IInv, NEW t \in Threads
    PROVE  loc[t] \in LocType /\ ReadInv(t)
  BY DEF IInv, ThreadTypes, ReaderInv

LEMMA ReadFilterKeeps ==
    ASSUME IInv, NEW t \in Threads, ReadFilter(t)
    PROVE  IInv'
<1>0. PICK f0, s : f0 = loc[t].fid /\ s = (IF fav[f0] = Absent THEN {} ELSE fav[f0])
  OBVIOUS
<1>1. PICK l : l = [loc[t] EXCEPT !.set = s]
  OBVIOUS
<1>2. pc[t] = "filter" /\ Go(t, "favIds", l) /\ UNCHANGED <<db, mutex, history>>
  BY <1>0, <1>1 DEF ReadFilter, At
<1>3. "filter" \in Reading /\ "favIds" \in Reading
  BY DEF Reading
<1>4. loc[t] \in LocType /\ sure[t].problems \subseteq ToSet(loc[t].list)
  BY <1>2, AtRead DEF ReadInv
<1>5. s \in SUBSET Problems
  <2>1. f0 \in Favs
    BY <1>0, <1>2, AtRead DEF ReadInv
  <2> QED
    BY <1>0, <2>1 DEF IInv, StoreTypes
<1>6. l \in LocType /\ l.list = loc[t].list
  BY ONLY <1>1, <1>4, <1>5 DEF LocType
<1>7. pc'[t] = "favIds" /\ loc'[t] = l /\ sure' = sure
  BY <1>2, <1>3, <1>6, Goes DEF IInv, history
<1>8. ReadInv(t)'
  BY <1>4, <1>6, <1>7 DEF ReadInv
<1> QED
  BY <1>2, <1>3, <1>6, <1>8, ReaderStep

LEMMA ReadFavIdsKeeps ==
    ASSUME IInv, NEW t \in Threads, ReadFavIds(t)
    PROVE  IInv'
<1>0. PICK l : l = [loc[t] EXCEPT !.todo = ids["fav"]]
  OBVIOUS
<1>1. pc[t] = "favIds" /\ Go(t, "favs", l) /\ UNCHANGED <<db, mutex, history>>
  BY <1>0 DEF ReadFavIds, At
<1>2. "favIds" \in Reading /\ "favs" \in Reading /\ "fav" \in Kinds
  BY DEF Reading, Kinds
<1>3. loc[t] \in LocType /\ ReadInv(t) /\ ids["fav"] \in Seq(Nat)
  BY <1>2, AtRead DEF IInv, StoreTypes
<1>4. l \in LocType /\ l.todo = ids["fav"] /\ l.list = loc[t].list
  BY ONLY <1>0, <1>3 DEF LocType
<1>5. pc'[t] = "favs" /\ loc'[t] = l /\ sure' = sure
  BY <1>1, <1>2, <1>4, Goes DEF IInv, history
<1>6. ReadInv(t)'
  <2>1. sure[t].problems \subseteq ToSet(l.list)
    BY <1>1, <1>3, <1>4 DEF ReadInv
  <2>2. ToSet(l.todo) = Listed("fav") /\ Listed("fav") \subseteq Favs
    BY <1>4, IdRanges DEF Listed
  <2>3. \A x \in sure[t].pairs : x[1] \in Listed("fav")
    BY <1>2 DEF IInv, StoreInv, AnsweredIsKept
  <2> QED
    BY <1>5, <2>1, <2>2, <2>3 DEF ReadInv
<1> QED
  BY <1>1, <1>2, <1>4, <1>6, ReaderStep

LEMMA ReadFavKeeps ==
    ASSUME IInv, NEW t \in Threads, ReadFav(t)
    PROVE  IInv'
<1>0. PICK f0, stars :
          /\ f0 = Head(loc[t].todo)
          /\ stars = (IF fav[f0] = Absent THEN loc[t].starred ELSE loc[t].starred \cup fav[f0])
  OBVIOUS
<1>1. PICK l : l = [loc[t] EXCEPT !.todo = Tail(@), !.starred = stars]
  OBVIOUS
<1>2. /\ pc[t] = "favs" /\ loc[t].todo # <<>> /\ Go(t, "favs", l)
      /\ UNCHANGED <<db, mutex, history>>
  BY <1>0, <1>1 DEF ReadFav, At
<1>3. "favs" \in Reading
  BY DEF Reading
<1>4. /\ loc[t] \in LocType /\ sure[t].problems \subseteq ToSet(loc[t].list)
      /\ ToSet(loc[t].todo) \subseteq Favs
      /\ \A x \in sure[t].pairs : x[1] \in ToSet(loc[t].todo) \/ x[2] \in loc[t].starred
  BY <1>2, AtRead DEF ReadInv
<1>5. /\ loc[t].todo \in Seq(Nat) /\ f0 \in ToSet(loc[t].todo)
      /\ Tail(loc[t].todo) \in Seq(Nat) /\ ToSet(Tail(loc[t].todo)) \subseteq ToSet(loc[t].todo)
      /\ \A x \in ToSet(loc[t].todo) : x # f0 => x \in ToSet(Tail(loc[t].todo))
  <2>1. loc[t].todo \in Seq(Nat)
    BY <1>4 DEF LocType
  <2> QED
    BY <1>0, <1>2, <2>1, QueueTaken, TailHasRest
<1>6. stars \in SUBSET Problems /\ loc[t].starred \subseteq stars
  <2>1. fav[f0] \in (SUBSET Problems) \cup {Absent} /\ loc[t].starred \in SUBSET Problems
    BY <1>4, <1>5 DEF IInv, StoreTypes, LocType
  <2> QED
    BY <1>0, <2>1
<1>7. l \in LocType /\ l.todo = Tail(loc[t].todo) /\ l.starred = stars /\ l.list = loc[t].list
  BY ONLY <1>1, <1>4, <1>5, <1>6 DEF LocType
<1>8. pc'[t] = "favs" /\ loc'[t] = l /\ sure' = sure
  BY <1>2, <1>3, <1>7, Goes DEF IInv, history
<1>9. \A x \in sure[t].pairs : x[1] \in ToSet(l.todo) \/ x[2] \in l.starred
  <2> SUFFICES ASSUME NEW x \in sure[t].pairs, x[2] \notin l.starred PROVE x[1] \in ToSet(l.todo)
    OBVIOUS
  <2>1. x \in kept /\ fav[x[1]] # Absent /\ x[2] \in fav[x[1]]
    BY DEF IInv, StoreInv, AnsweredIsKept
  <2>2. x[1] \in ToSet(loc[t].todo)
    BY <1>4, <1>6, <1>7
  <2>3. x[1] # f0
    BY <1>0, <1>7, <2>1
  <2> QED
    BY <1>5, <1>7, <2>2, <2>3
<1>10. ReadInv(t)'
  <2>1. ToSet(l.todo) \subseteq Favs /\ sure[t].problems \subseteq ToSet(l.list)
    BY <1>4, <1>5, <1>7
  <2> QED
    BY <1>8, <1>9, <2>1 DEF ReadInv
<1> QED
  BY <1>2, <1>3, <1>7, <1>10, ReaderStep

LEMMA FavsDoneKeeps ==
    ASSUME IInv, NEW t \in Threads, FavsDone(t)
    PROVE  IInv'
<1>0. PICK l : l = [loc[t] EXCEPT !.todo = loc[t].list]
  OBVIOUS
<1>1. /\ pc[t] = "favs" /\ loc[t].todo = <<>> /\ Go(t, "problems", l)
      /\ UNCHANGED <<db, mutex, history>>
  BY <1>0 DEF FavsDone, At
<1>2. "favs" \in Reading /\ "problems" \in Reading
  BY DEF Reading
<1>3. /\ loc[t] \in LocType /\ sure[t].problems \subseteq ToSet(loc[t].list)
      /\ \A x \in sure[t].pairs : x[1] \in ToSet(loc[t].todo) \/ x[2] \in loc[t].starred
  BY <1>1, AtRead DEF ReadInv
<1>4. loc[t].list \in Seq(Nat)
  BY <1>3 DEF LocType
<1>5. l \in LocType /\ l.todo = loc[t].list /\ l.starred = loc[t].starred
  BY ONLY <1>0, <1>3, <1>4 DEF LocType
<1>6. pc'[t] = "problems" /\ loc'[t] = l /\ sure' = sure
  BY <1>1, <1>2, <1>5, Goes DEF IInv, history
<1>7. ReadInv(t)'
  <2>1. \A x \in sure[t].pairs : x[2] \in l.starred
    BY <1>1, <1>3, <1>5, EmptyQueue
  <2> QED
    BY <1>3, <1>5, <1>6, <2>1 DEF ReadInv
<1> QED
  BY <1>1, <1>2, <1>5, <1>7, ReaderStep

LEMMA ReadProblemKeeps ==
    ASSUME IInv, NEW t \in Threads, ReadProblem(t)
    PROVE  IInv'
<1>0. PICK p0, show :
          /\ p0 = Head(loc[t].todo)
          /\ show = (IF p0 \in loc[t].set /\ problem[p0] # Absent THEN loc[t].shown \cup {p0}
                     ELSE loc[t].shown)
  OBVIOUS
<1>1. PICK l : l = [loc[t] EXCEPT !.todo = Tail(@), !.shown = show]
  OBVIOUS
<1>2. /\ pc[t] = "problems" /\ loc[t].todo # <<>> /\ Go(t, "problems", l)
      /\ UNCHANGED <<db, mutex, history>>
  BY <1>0, <1>1 DEF ReadProblem, At
<1>3. "problems" \in Reading
  BY DEF Reading
<1>4. /\ loc[t] \in LocType
      /\ sure[t].problems \cap loc[t].set \subseteq loc[t].shown \cup ToSet(loc[t].todo)
      /\ \A x \in sure[t].pairs : x[2] \in loc[t].starred
  BY <1>2, AtRead DEF ReadInv
<1>5. /\ loc[t].todo \in Seq(Nat)
      /\ Tail(loc[t].todo) \in Seq(Nat)
      /\ \A x \in ToSet(loc[t].todo) : x # p0 => x \in ToSet(Tail(loc[t].todo))
  <2>1. loc[t].todo \in Seq(Nat)
    BY <1>4 DEF LocType
  <2> QED
    BY <1>0, <1>2, <2>1, QueueTaken, TailHasRest
<1>6. show \in SUBSET Problems /\ loc[t].shown \subseteq show
  <2>1. loc[t].set \in SUBSET Problems /\ loc[t].shown \in SUBSET Problems
    BY <1>4 DEF LocType
  <2> QED
    BY <1>0, <2>1
<1>7. /\ l \in LocType /\ l.todo = Tail(loc[t].todo) /\ l.shown = show
      /\ l.set = loc[t].set /\ l.starred = loc[t].starred
  BY ONLY <1>1, <1>4, <1>5, <1>6 DEF LocType
<1>8. pc'[t] = "problems" /\ loc'[t] = l /\ sure' = sure
  BY <1>2, <1>3, <1>7, Goes DEF IInv, history
<1>9. sure[t].problems \cap l.set \subseteq l.shown \cup ToSet(l.todo)
  <2> SUFFICES ASSUME NEW p \in sure[t].problems, p \in l.set, p \notin l.shown PROVE p \in ToSet(l.todo)
    OBVIOUS
  <2>1. problem[p] # Absent
    <3>1. answered["problem"] \subseteq Stored("problem")
      BY DEF IInv, StoreInv, AnsweredIsKept, Kinds
    <3> QED
      BY <3>1 DEF IInv, StoreInv, Stored
  <2>2. p \in ToSet(loc[t].todo)
    BY <1>4, <1>6, <1>7
  <2>3. p # p0
    BY <1>0, <1>7, <2>1
  <2> QED
    BY <1>5, <1>7, <2>2, <2>3
<1>10. ReadInv(t)'
  BY <1>4, <1>7, <1>8, <1>9 DEF ReadInv
<1> QED
  BY <1>2, <1>3, <1>7, <1>10, ReaderStep

LEMMA ReaderAnswersKeeps ==
    ASSUME IInv, NEW t \in Threads, ReaderAnswers(t)
    PROVE  IInv'
<1>1. /\ pc[t] = "problems" /\ Finish(t) /\ sure' = [sure EXCEPT ![t] = Nothing]
      /\ UNCHANGED <<db, answered, kept, harmed>>
  BY DEF ReaderAnswers, At
<1>2. "idle" \notin Changing /\ "problems" \notin Changing
  BY DEF Changing, Creating, Deleting, Sweeping
<1>3. Go(t, "idle", NoLocal) /\ mutex' = mutex
  <2>1. mutex # t
    BY <1>1, <1>2 DEF IInv, MutexInv
  <2> QED
    BY <1>1, <2>1 DEF Finish
<1>4. /\ sure' \in [Threads -> [problems : SUBSET Nat, pairs : SUBSET (Favs \X Problems)]]
      /\ sure'[t].problems = {} /\ sure'[t].pairs = {}
      /\ \A u \in Threads : u # t => sure'[u] = sure[u]
  <2>1. Nothing \in [problems : SUBSET Nat, pairs : SUBSET (Favs \X Problems)]
    BY DEF Nothing
  <2>2. Nothing.problems = {} /\ Nothing.pairs = {}
    BY DEF Nothing
  <2> QED
    BY <1>1, <2>1, <2>2 DEF IInv, HistoryTypes
<1>5. pc'[t] = "idle"
  BY <1>3, NoLocalIs, Goes DEF IInv
<1>6. ReadInv(t)'
  BY <1>5 DEF ReadInv
<1> QED
  BY <1>1, <1>2, <1>3, <1>4, <1>6, NoLocalIs, ReaderGoesOn

-----------------------------------------------------------------------------
(* The end of the process, and all steps together.                         *)

LEMMA RestartKeeps == IInv /\ Restart => IInv'
<1> SUFFICES ASSUME IInv, Restart PROVE IInv'
  OBVIOUS
<1>1. /\ harmed' = (harmed \/ mutex # NoThread) /\ mutex' = NoThread
      /\ pc' = [t \in Threads |-> "idle"] /\ loc' = [t \in Threads |-> NoLocal]
      /\ sure' = [t \in Threads |-> Nothing]
      /\ UNCHANGED <<next, ids, problem, fav, answered, kept>>
  BY DEF Restart, db
<1>2. /\ Nothing \in [problems : SUBSET Nat, pairs : SUBSET (Favs \X Problems)]
      /\ Nothing.problems = {} /\ Nothing.pairs = {}
  BY DEF Nothing
<1>3. StoreTypes' /\ HistoryTypes'
  <2>1. sure' \in [Threads -> [problems : SUBSET Nat, pairs : SUBSET (Favs \X Problems)]]
    BY <1>1, <1>2
  <2>2. harmed' \in BOOLEAN
    BY <1>1 DEF IInv, HistoryTypes
  <2> QED
    BY <1>1, <2>1, <2>2 DEF IInv, StoreTypes, HistoryTypes
<1>4. \A t \in Threads : pc'[t] = "idle" /\ "idle" \notin Changing /\ mutex' # t
  BY <1>1, ConstantsAssumption DEF Changing, Creating, Deleting, Sweeping
<1>5. ThreadTypes' /\ MutexInv'
  BY <1>1, <1>4, NoLocalIs DEF ThreadTypes, MutexInv
<1>6. \A k \in Kinds : Listed(k)' = Listed(k) /\ Stored(k)' = Stored(k)
  BY <1>1 DEF Listed, Stored
<1>7. StoreInv'
  <2>1. AnsweredIsKept'
    BY <1>1, <1>6 DEF IInv, StoreInv, AnsweredIsKept
  <2>2. \A k \in Kinds : Once(ids'[k]) /\ Listed(k)' \cup Stored(k)' \subseteq 1..next'[k]
    BY <1>1, <1>6 DEF IInv, StoreInv
  <2>3. \A t \in Threads : sure'[t].problems = {} /\ sure'[t].pairs = {}
    BY <1>1, <1>2
  <2> QED
    BY <2>1, <2>2, <2>3 DEF StoreInv
<1>8. \A t \in Threads :
          CreateInv(t)' /\ ChangeInv(t)' /\ DeleteInv(t)' /\ SweepInv(t)' /\ PartInv(t)'
  BY <1>4, Outside
<1>9. HandlerInv' /\ AgreeInv'
  <2>1. IndexesAgree'
    BY <1>1, <1>6 DEF IInv, AgreeInv, IndexesAgree
  <2> QED
    BY <1>8, <2>1 DEF HandlerInv, AgreeInv
<1>10. ReaderInv'
  BY <1>4 DEF ReaderInv, ReadInv
<1> QED
  BY <1>3, <1>5, <1>7, <1>9, <1>10 DEF IInv

LEMMA NextInv == IInv /\ [Next]_vars => IInv'
<1> SUFFICES ASSUME IInv, [Next]_vars PROVE IInv'
  OBVIOUS
<1>0. Writers \subseteq Threads /\ Readers \subseteq Threads
  BY DEF Threads
<1>1. CASE \E t \in Writers : Write(t)
  <2> PICK t \in Threads : Write(t)
    BY <1>0, <1>1
  <2>1. <<>> \in Algos /\ "problem" \in Kinds /\ "fav" \in Kinds
    BY ConstantsAssumption DEF Kinds
  <2>2. ASSUME NEW algo \in Algos, CreateGetNext(t, "problem", algo) PROVE IInv'
    BY <2>1, <2>2, CreateGetNextKeeps
  <2>3. CreateGetNext(t, "fav", <<>>) => IInv'
    BY <2>1, CreateGetNextKeeps
  <2>4. ASSUME NEW f \in Favs, NEW p \in Problems, AddGetFav(t, f, p) PROVE IInv'
    BY <2>4, AddGetFavKeeps
  <2>5. ASSUME NEW p \in Problems, NEW algo \in Algos, UpdateGetProblem(t, p, algo) PROVE IInv'
    BY <2>5, UpdateGetProblemKeeps
  <2>6. ASSUME NEW p \in Problems, DeleteProblem(t, p) PROVE IInv'
    BY <2>6, DeleteProblemKeeps
  <2>7. ASSUME NEW p \in Problems, NEW f \in Favs \cup {0}, RemoveFromFavorite(t, p, f) PROVE IInv'
    BY <2>7, RemoveFromFavoriteKeeps
  <2> QED
    BY <2>2, <2>3, <2>4, <2>5, <2>6, <2>7 DEF Write
<1>2. CASE \E t \in Readers : Read(t)
  BY <1>0, <1>2, GetProblemsKeeps DEF Read
<1>3. CASE \E t \in Threads : Step(t)
  <2> PICK t \in Threads : Step(t)
    BY <1>3
  <2>1. /\ CreatePutNext(t) => IInv'
        /\ CreatePutItem(t) => IInv'
        /\ CreateGetIds(t) => IInv'
        /\ CreatePutIds(t) => IInv'
    BY CreatePutNextKeeps, CreatePutItemKeeps, CreateGetIdsKeeps, CreatePutIdsKeeps
  <2>2. /\ AddPutFav(t) => IInv'
        /\ UpdatePutProblem(t) => IInv'
        /\ DeleteGetIds(t) => IInv'
        /\ DeletePutIds(t) => IInv'
    BY AddPutFavKeeps, UpdatePutProblemKeeps, DeleteGetIdsKeeps, DeletePutIdsKeeps
  <2>3. /\ SweepGetIds(t) => IInv'
        /\ SweepGet(t) => IInv'
        /\ SweepPut(t) => IInv'
        /\ SweepEnd(t) => IInv'
    BY SweepGetIdsKeeps, SweepGetKeeps, SweepPutKeeps, SweepEndKeeps
  <2>4. /\ ReadFilter(t) => IInv'
        /\ ReadFavIds(t) => IInv'
        /\ ReadFav(t) => IInv'
        /\ FavsDone(t) => IInv'
        /\ ReadProblem(t) => IInv'
        /\ ReaderAnswers(t) => IInv'
    BY ReadFilterKeeps, ReadFavIdsKeeps, ReadFavKeeps, FavsDoneKeeps, ReadProblemKeeps, ReaderAnswersKeeps
  <2> QED
    BY <2>1, <2>2, <2>3, <2>4 DEF Step
<1>4. CASE Restart
  BY <1>4, RestartKeeps
<1>5. CASE UNCHANGED vars
  <2>1. UNCHANGED <<next, ids, problem, fav, mutex, pc, loc, answered, kept, sure, harmed>>
    BY <1>5 DEF vars, db, history
  <2>2. /\ StoreTypes' /\ HistoryTypes' /\ ThreadTypes'
    BY <2>1 DEF IInv, StoreTypes, HistoryTypes, ThreadTypes
  <2>3. StoreInv' /\ MutexInv'
    BY <2>1 DEF IInv, StoreInv, MutexInv, AnsweredIsKept, Listed, Stored
  <2>4. ASSUME NEW t \in Threads PROVE CreateInv(t)' /\ ChangeInv(t)' /\ DeleteInv(t)' /\ SweepInv(t)'
    <3>1. CreateInv(t) /\ ChangeInv(t) /\ DeleteInv(t) /\ SweepInv(t)
      BY DEF IInv, HandlerInv
    <3>2. CreateInv(t)'
      BY <2>1, <3>1 DEF CreateInv, Created, Listed, Stored
    <3>3. ChangeInv(t)'
      BY <2>1, <3>1 DEF ChangeInv, Listed, Stored
    <3>4. DeleteInv(t)'
      BY <2>1, <3>1 DEF DeleteInv, Listed, Stored
    <3>5. SweepInv(t)'
      BY <2>1, <3>1 DEF SweepInv, Listed, Stored
    <3> QED
      BY <3>2, <3>3, <3>4, <3>5
  <2>5. AgreeInv'
    BY <2>1 DEF IInv, AgreeInv, IndexesAgree, PartInv, Matches, Listed, Stored
  <2>6. ReaderInv'
    BY <2>1 DEF IInv, ReaderInv, ReadInv
  <2> QED
    BY <2>2, <2>3, <2>4, <2>5, <2>6 DEF IInv, HandlerInv
<1> QED
  BY <1>1, <1>2, <1>3, <1>4, <1>5 DEF Next

-----------------------------------------------------------------------------
(* Theorems.                                                               *)

LEMMA InvariantHolds == Spec => []IInv
  BY InitInv, NextInv, PTL DEF Spec

\* The counters never go back, whatever is deleted or cut short: no record is written over
\* another one, or under an id that is listed.
THEOREM FreshIds == Spec => []IdIsFresh
<1>1. IInv => IdIsFresh
  BY DEF IInv, HandlerInv, CreateInv, Created, IdIsFresh
<1> QED
  BY <1>1, InvariantHolds, PTL

\* Whatever handlers run side by side and wherever the process ends, what a client was told
\* is stored and listed, and stands in the favourite it was added to, until it is undone.
THEOREM AnswersStand == Spec => []AnsweredIsKept
<1>1. IInv => AnsweredIsKept
  BY DEF IInv, StoreInv
<1> QED
  BY <1>1, InvariantHolds, PTL

\* Unless a handler was once cut short, the indexes list exactly the records whenever no
\* handler holds data_mutex.
THEOREM IndexesListRecords == Spec => []IndexesAgree
<1>1. IInv => IndexesAgree
  BY DEF IInv, AgreeInv
<1> QED
  BY <1>1, InvariantHolds, PTL

\* handleDeleteProblem leaves no listed favourite with the problem, also if favourites
\* become empty and vanish on the way.
THEOREM RemovalLeavesNone == Spec => []RemovalIsComplete
<1>1. IInv => RemovalIsComplete
  <2> SUFFICES ASSUME IInv, NEW t \in Threads, pc[t] = "sweep", loc[t].todo = <<>>, loc[t].fid = 0,
                      NEW f \in Listed("fav") \cap Stored("fav"), loc[t].id \in fav[f]
               PROVE  FALSE
    BY DEF RemovalIsComplete
  <2>1. f \in ToSet(loc[t].todo)
    BY DEF IInv, HandlerInv, SweepInv, Sweeping
  <2> QED
    BY <2>1, EmptyQueue
<1> QED
  BY <1>1, InvariantHolds, PTL

\* handleGetProblems, which takes no lock, shows every problem and every star that stood
\* from before it began until it ends, whatever is changed meanwhile.
THEOREM ReadersMissNothing == Spec => []ReadersSeeWhatStands
<1>1. IInv => ReadersSeeWhatStands
  <2> SUFFICES ASSUME IInv, NEW t \in Threads, pc[t] = "problems", loc[t].todo = <<>>
               PROVE  /\ sure[t].problems \cap loc[t].set \subseteq loc[t].shown
                      /\ {x[2] : x \in sure[t].pairs} \subseteq loc[t].starred
    BY DEF ReadersSeeWhatStands
  <2> QED
    BY EmptyQueue DEF IInv, ReaderInv, ReadInv
<1> QED
  BY <1>1, InvariantHolds, PTL

\* Tags follow the algorithm of a problem, for lists of any length, as long as no tag of the
\* problem occurs twice.
THEOREM TagsAreRight == Spec => []TagsFollowAlgorithm
<1>1. IInv => TagsFollowAlgorithm
  <2> SUFFICES ASSUME IInv, NEW p \in Stored("problem"), NEW new \in Algos \cup Lists,
                      IsInjective(problem[p].tags), problem[p].algo # new
               PROVE  ToSet(Retagged(problem[p].tags, problem[p].algo, new)) =
                          (ToSet(problem[p].tags) \ ToSet(problem[p].algo)) \cup ToSet(new)
    BY DEF TagsFollowAlgorithm
  <2>1. problem[p].algo \in Algos /\ problem[p].tags \in Seq(Tags)
    BY DEF Stored, IInv, StoreTypes, Records
  <2> DEFINE S == Tags \cup ToSet(new)
  <2>2. \A q : q \in Seq(Tags) \/ q \in Seq(ToSet(new)) => q \in Seq(S)
    OBVIOUS
  <2>3. new \in Seq(S) /\ problem[p].tags \in Seq(S) /\ problem[p].algo \in Seq(S) /\ Null \in S
    BY <2>1, <2>2, TagLists, ConstantsAssumption
  <2>4. Once(problem[p].tags)
    BY <2>1 DEF Once, IsInjective
  <2> HIDE DEF S
  <2> QED
    BY <2>3, <2>4, RetaggedIs
<1> QED
  BY <1>1, InvariantHolds, PTL

\* Every variable keeps its type; in particular an index never lists an id twice, and ids
\* come from the counters.
THEOREM TypeCorrect == Spec => []TypeOK
<1>1. IInv => TypeOK
  <2> SUFFICES ASSUME IInv PROVE TypeOK
    OBVIOUS
  <2>1. ASSUME NEW k \in Kinds
        PROVE  /\ next[k] \in 0..MaxId[k]
               /\ Listed(k) \cup Stored(k) \cup answered[k] \subseteq 1..next[k]
               /\ IsInjective(ids[k])
    <3>1. next[k] \in Nat /\ next[k] <= MaxId[k] /\ MaxId[k] \in Nat /\ ids[k] \in Seq(Nat)
      BY ConstantsAssumption DEF IInv, StoreTypes
    <3>2. Once(ids[k]) /\ Listed(k) \cup Stored(k) \subseteq 1..next[k] /\ answered[k] \subseteq Stored(k)
      BY DEF IInv, StoreInv, AnsweredIsKept
    <3>3. IsInjective(ids[k])
      BY <3>1, <3>2 DEF Once, IsInjective
    <3> QED
      BY <3>1, <3>2, <3>3
  <2>2. ASSUME NEW p \in Stored("problem")
        PROVE  problem[p].algo \in Algos /\ ToSet(problem[p].tags) \subseteq Tags
    <3>1. problem[p].algo \in Algos /\ problem[p].tags \in Seq(Tags)
      BY DEF Stored, IInv, StoreTypes, Records
    <3> QED
      BY <3>1, ToSetIs
  <2>3. \A f \in Stored("fav") : fav[f] \subseteq Problems
    BY DEF Stored, IInv, StoreTypes
  <2> QED
    BY <2>1, <2>2, <2>3 DEF TypeOK, IInv, ThreadTypes, HistoryTypes
<1> QED
  BY <1>1, InvariantHolds, PTL
=============================================================================
