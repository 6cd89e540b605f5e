-------------------------- MODULE JsonParserProofs --------------------------
(***************************************************************************)
(* Proofs about the parser of the JSON library and its builder, for texts  *)
(* of any length and nesting: the pointers json_sax_dom_parser keeps       *)
(* (ref_stack, object_element) are never those of values that a growing    *)
(* array has moved.                                                        *)
(*                                                                         *)
(* The reason is an order of the addresses.  emplace_back moves the        *)
(* elements of the innermost open array, and nothing else; they all lie    *)
(* above it, the open containers around it below, so that no pointer of    *)
(* the stack is to one of them.  That is why the invariant orders the      *)
(* stack by address (Stack), has the elements of an open container behind  *)
(* it (IsBelow; of one that is closed it may not hold any more: it can     *)
(* have moved behind its own elements), and has every value in one place   *)
(* (Heap).                                                                 *)
(***************************************************************************)
EXTENDS JsonParser, SequenceLemmas

-----------------------------------------------------------------------------
(* The memory of the builder.                                              *)

IsContainer(v) == v[1] \in {"array", "object"}
\* The indices of an array or the keys of an object, and the address at one.
Slots(mem, a) == IF IsContainer(mem[a]) THEN DOMAIN mem[a][2] ELSE {}
At(mem, a, k) == mem[a][2][k]
IsSeq(s) == s \in Seq(ToSet(s))
IsLive(mem, a) == a \in DOMAIN mem /\ mem[a][1] # "freed"

\* What containers hold is alive, and in one place.
Heap(mem) ==
    /\ IsSeq(mem) /\ mem # <<>>
    /\ \A a \in DOMAIN mem : mem[a][1] = "array" => mem[a][2] \in Seq(Nat)
    /\ \A a \in DOMAIN mem : \A k \in Slots(mem, a) : IsLive(mem, At(mem, a, k))
    /\ \A a, b \in DOMAIN mem : \A k \in Slots(mem, a), l \in Slots(mem, b) :
          At(mem, a, k) = At(mem, b, l) => a = b /\ k = l
\* Its elements lie behind it.
IsBelow(mem, a) == \A k \in Slots(mem, a) : a < At(mem, a, k)
\* A value as it is made.
IsNew(v) == v[1] # "freed" /\ (IsContainer(v) => v[2] = <<>>)

\* The two updates, by names the provers need not look behind.
Updated(s, a, v) == [s EXCEPT ![a] = v]
Extended(s, v) == Append(s, v)

\* A function on 1..k is a sequence.
LEMMA FunctionIsSeq ==
    ASSUME NEW k \in Nat, NEW f, f = [i \in 1..k |-> f[i]]
    PROVE  IsSeq(f) /\ DOMAIN f = 1..k /\ Len(f) = k
<1>1. DOMAIN f = 1..k
  OBVIOUS
<1>2. \A i \in 1..k : f[i] \in ToSet(f)
  BY <1>1 DEF ToSet
<1>3. PICK S : S = ToSet(f)
  OBVIOUS
<1>4. f \in Seq(S) /\ Len(f) = k
  BY <1>2, <1>3
<1> QED
  BY <1>1, <1>3, <1>4 DEF IsSeq

\* What is known of an updated sequence, and of one that has grown.
Updates(t, s, a, v) ==
    /\ IsSeq(t) /\ DOMAIN t = DOMAIN s /\ Len(t) = Len(s) /\ t[a] = v
    /\ \A b \in DOMAIN s : b # a => t[b] = s[b]
LEMMA UpdateIs ==
    ASSUME NEW s, IsSeq(s), NEW a \in DOMAIN s, NEW v, NEW t, t = Updated(s, a, v)
    PROVE  Updates(t, s, a, v)
<1>1. DOMAIN s = 1..Len(s) /\ Len(s) \in Nat
  BY DEF IsSeq
<1>2. DOMAIN t = 1..Len(s) /\ t[a] = v /\ \A b \in DOMAIN s : b # a => t[b] = s[b]
  BY <1>1 DEF Updated
<1>3. t = [i \in 1..Len(s) |-> t[i]]
  BY <1>1 DEF Updated
<1>4. IsSeq(t) /\ Len(t) = Len(s)
  BY <1>1, <1>3, FunctionIsSeq
<1> QED
  BY <1>1, <1>2, <1>4 DEF Updates

Extends(t, s, v) ==
    /\ IsSeq(t) /\ DOMAIN t = DOMAIN s \cup {Len(s) + 1}
    /\ Len(t) = Len(s) + 1 /\ t[Len(s) + 1] = v
    /\ \A b \in DOMAIN s : t[b] = s[b]
LEMMA AppendIs ==
    ASSUME NEW s, IsSeq(s), NEW v, NEW t, t = Extended(s, v)
    PROVE  Extends(t, s, v)
<1> DEFINE S == ToSet(s) \cup {v}
<1>1. s \in Seq(S) /\ v \in S
  <2>1. \A T : ToSet(s) \subseteq T => s \in Seq(T)
    BY DEF IsSeq
  <2> QED
    BY <2>1
<1>2. ToSet(t) = S
  <2> HIDE DEF S
  <2>1. ToSet(t) = ToSet(s) \cup {v}
    BY <1>1, QueueGrows DEF Extended
  <2> QED
    BY <2>1 DEF S
<1> HIDE DEF S
<1>3. t \in Seq(S) /\ DOMAIN t = 1..(Len(s) + 1) /\ Len(t) = Len(s) + 1 /\ t[Len(s) + 1] = v
      /\ DOMAIN s = 1..Len(s) /\ Len(s) \in Nat
  BY <1>1 DEF Extended
<1>4. \A b \in 1..Len(s) : t[b] = s[b]
  BY <1>1 DEF Extended
<1> QED
  BY <1>2, <1>3, <1>4 DEF IsSeq, Extends

\* A new value in the place of another.
LEMMA Overwritten ==
    ASSUME NEW mem, Heap(mem), NEW a \in DOMAIN mem, NEW v, IsNew(v), NEW new, new = Updated(mem, a, v)
    PROVE  Heap(new)
<1>1. /\ IsSeq(new) /\ DOMAIN new = DOMAIN mem /\ new[a] = v
      /\ \A b \in DOMAIN mem : b # a => new[b] = mem[b]
  <2>1. IsSeq(mem)
    BY DEF Heap
  <2> QED
    BY <2>1, UpdateIs DEF Updates
<1>2. new # <<>>
  BY <1>1
<1>3. \A b \in DOMAIN mem : new[b][1] = "array" => new[b][2] \in Seq(Nat)
  <2>1. v[1] = "array" => v[2] = <<>>
    BY DEF IsNew, IsContainer
  <2>2. <<>> \in Seq(Nat)
    OBVIOUS
  <2>3. new[a][1] = "array" => new[a][2] \in Seq(Nat)
    BY <1>1, <2>1, <2>2
  <2>4. \A b \in DOMAIN mem : b # a /\ new[b][1] = "array" => new[b][2] \in Seq(Nat)
    BY <1>1 DEF Heap
  <2> QED
    BY <2>3, <2>4
<1>4. \A b \in DOMAIN mem : \A k \in Slots(new, b) : k \in Slots(mem, b) /\ At(new, b, k) = At(mem, b, k)
  <2>1. Slots(new, a) = {}
    BY <1>1 DEF Slots, IsNew
  <2> QED
    BY <1>1, <2>1 DEF Slots, At
<1>5. \A b \in DOMAIN mem : IsLive(mem, b) => IsLive(new, b)
  BY <1>1 DEF IsLive, IsNew
<1>6. \A b \in DOMAIN mem : \A k \in Slots(new, b) : IsLive(new, At(new, b, k))
  BY <1>4, <1>5 DEF Heap, IsLive
<1>7. \A b, c \in DOMAIN mem : \A k \in Slots(new, b), l \in Slots(new, c) :
          At(new, b, k) = At(new, c, l) => b = c /\ k = l
  BY <1>4 DEF Heap
<1> QED
  BY <1>1, <1>2, <1>3, <1>6, <1>7 DEF Heap

\* One more value, at an address of its own, in a slot of its own.
Adds(mem, new, owner, slot, v) ==
    LET n == Len(mem) + 1 IN
    /\ IsSeq(new) /\ DOMAIN new = DOMAIN mem \cup {n} /\ new[n] = v
    /\ owner \in DOMAIN mem /\ IsContainer(new[owner])
    /\ new[owner][1] = "array" => new[owner][2] \in Seq(Nat)
    /\ Slots(new, owner) = Slots(mem, owner) \cup {slot} /\ slot \notin Slots(mem, owner)
    /\ At(new, owner, slot) = n /\ \A k \in Slots(mem, owner) : At(new, owner, k) = At(mem, owner, k)
    /\ \A b \in DOMAIN mem : b # owner => new[b] = mem[b]

\* A new value is alive and in one place, and so is what was there.
LEMMA OneMore ==
    ASSUME NEW mem, Heap(mem), NEW owner, NEW slot, NEW v, IsNew(v),
           NEW new, Adds(mem, new, owner, slot, v)
    PROVE  Heap(new) /\ (IsBelow(mem, owner) => IsBelow(new, owner))
<1>0. PICK n : n = Len(mem) + 1
  OBVIOUS
<1>1. n \notin DOMAIN mem /\ owner < n /\ owner \in DOMAIN mem /\ n \in DOMAIN new
  BY <1>0 DEF Heap, IsSeq, Adds
<1>2. Slots(new, n) = {}
  BY <1>0 DEF Slots, IsNew, Adds
<1>3. \A b \in DOMAIN mem : b # owner =>
          Slots(new, b) = Slots(mem, b) /\ \A k : At(new, b, k) = At(mem, b, k)
  BY DEF Slots, At, Adds
<1>4. \A b \in DOMAIN mem : IsLive(mem, b) => IsLive(new, b)
  BY DEF IsLive, IsContainer, Adds
<1>5. IsLive(new, n)
  BY <1>0 DEF IsLive, IsNew, Adds
<1>6. \A b \in DOMAIN mem : \A k \in Slots(mem, b) : At(mem, b, k) \in DOMAIN mem /\ IsLive(mem, At(mem, b, k))
  BY DEF Heap, IsLive
<1>7. \A b \in DOMAIN new : \A k \in Slots(new, b) :
          \/ b = owner /\ k = slot /\ At(new, b, k) = n
          \/ b \in DOMAIN mem /\ k \in Slots(mem, b) /\ At(new, b, k) = At(mem, b, k)
  <2> SUFFICES ASSUME NEW b \in DOMAIN new, NEW k \in Slots(new, b)
               PROVE  \/ b = owner /\ k = slot /\ At(new, b, k) = n
                      \/ b \in DOMAIN mem /\ k \in Slots(mem, b) /\ At(new, b, k) = At(mem, b, k)
    OBVIOUS
  <2>1. CASE b = n
    BY <1>2, <2>1
  <2>2. CASE b = owner
    BY <1>0, <2>2 DEF Adds
  <2>3. CASE b \in DOMAIN mem /\ b # owner
    BY <1>3, <2>3
  <2>4. DOMAIN new = DOMAIN mem \cup {n}
    BY <1>0 DEF Adds
  <2> QED
    BY <2>1, <2>2, <2>3, <2>4
<1>8. \A b \in DOMAIN new : \A k \in Slots(new, b) : IsLive(new, At(new, b, k))
  <2> SUFFICES ASSUME NEW b \in DOMAIN new, NEW k \in Slots(new, b) PROVE IsLive(new, At(new, b, k))
    OBVIOUS
  <2>1. CASE At(new, b, k) = n
    BY <1>5, <2>1
  <2>2. CASE b \in DOMAIN mem /\ k \in Slots(mem, b) /\ At(new, b, k) = At(mem, b, k)
    BY <1>4, <1>6, <2>2
  <2> QED
    BY <1>7, <2>1, <2>2
<1>9. ASSUME NEW b \in DOMAIN new, NEW c \in DOMAIN new,
             NEW k \in Slots(new, b), NEW l \in Slots(new, c), At(new, b, k) = At(new, c, l)
      PROVE  b = c /\ k = l
  <2>1. CASE At(new, b, k) = n
    <3>1. ASSUME NEW d \in DOMAIN new, NEW m \in Slots(new, d), At(new, d, m) = n PROVE d = owner /\ m = slot
      BY <1>1, <1>6, <1>7, <3>1, Zenon
    <3> QED
      BY <1>9, <2>1, <3>1
  <2>2. CASE At(new, b, k) # n
    <3>1. /\ b \in DOMAIN mem /\ k \in Slots(mem, b) /\ At(new, b, k) = At(mem, b, k)
      BY <1>7, <2>2
    <3>2. /\ c \in DOMAIN mem /\ l \in Slots(mem, c) /\ At(new, c, l) = At(mem, c, l)
      BY <1>7, <1>9, <2>2
    <3>3. At(mem, b, k) = At(mem, c, l)
      BY <1>9, <3>1, <3>2
    <3>4. \A d, e \in DOMAIN mem : \A m \in Slots(mem, d), o \in Slots(mem, e) :
              At(mem, d, m) = At(mem, e, o) => d = e /\ m = o
      BY DEF Heap
    <3> QED
      BY <3>1, <3>2, <3>3, <3>4
  <2> QED
    BY <2>1, <2>2
<1>10. \A b \in DOMAIN new : new[b][1] = "array" => new[b][2] \in Seq(Nat)
  <2>1. v[1] = "array" => v[2] = <<>>
    BY DEF IsNew, IsContainer
  <2>2. <<>> \in Seq(Nat)
    OBVIOUS
  <2> QED
    BY <2>1, <2>2 DEF Heap, Adds
<1>11. IsSeq(new) /\ new # <<>>
  BY <1>1 DEF Adds
<1>12. Heap(new)
  BY <1>8, <1>9, <1>10, <1>11 DEF Heap
<1>13. ASSUME IsBelow(mem, owner) PROVE IsBelow(new, owner)
  BY <1>0, <1>1, <1>13 DEF IsBelow, Adds
<1> QED
  BY <1>12, <1>13

\* key: a member of an object that has none of this name.
LEMMA MemberAdded ==
    ASSUME NEW mem, Heap(mem), NEW object \in DOMAIN mem, mem[object][1] = "object",
           NEW key, key \notin DOMAIN mem[object][2], IsBelow(mem, object),
           NEW members,
           members = [k \in DOMAIN mem[object][2] \cup {key} |->
                          IF k = key THEN Len(mem) + 1 ELSE mem[object][2][k]],
           NEW new, new = Extended(Updated(mem, object, <<"object", members>>), <<"null", 0>>)
    PROVE  /\ Heap(new) /\ DOMAIN mem \subseteq DOMAIN new
           /\ \A b \in DOMAIN mem : b # object => new[b] = mem[b]
           /\ new[object][1] = "object" /\ IsBelow(new, object)
           /\ key \in Slots(new, object) /\ At(new, object, key) = Len(mem) + 1
<1>1. PICK n : n = Len(mem) + 1
  OBVIOUS
<1>2. PICK mid : mid = Updated(mem, object, <<"object", members>>)
  OBVIOUS
<1>3. n \in Nat /\ Len(mem) \in Nat
  BY <1>1 DEF Heap, IsSeq
<1>4. /\ DOMAIN members = DOMAIN mem[object][2] \cup {key} /\ members[key] = n
      /\ \A k \in DOMAIN mem[object][2] : members[k] = mem[object][2][k]
  BY <1>1
<1>5. /\ IsSeq(mid) /\ DOMAIN mid = DOMAIN mem /\ Len(mid) = Len(mem)
      /\ mid[object] = <<"object", members>>
      /\ \A b \in DOMAIN mem : b # object => mid[b] = mem[b]
  <2>1. IsSeq(mem)
    BY DEF Heap
  <2> QED
    BY <1>2, <2>1, UpdateIs DEF Updates
<1>6. new = Extended(mid, <<"null", 0>>)
  BY <1>2
<1>7. /\ IsSeq(new) /\ DOMAIN new = DOMAIN mid \cup {Len(mid) + 1}
      /\ new[Len(mid) + 1] = <<"null", 0>> /\ \A b \in DOMAIN mid : new[b] = mid[b]
  <2>1. IsSeq(mid)
    BY <1>5
  <2>2. Extends(new, mid, <<"null", 0>>)
    BY <1>6, <2>1, AppendIs
  <2> QED
    BY <2>2 DEF Extends
<1>8. /\ DOMAIN new = DOMAIN mem \cup {n} /\ new[n] = <<"null", 0>>
      /\ new[object] = <<"object", members>> /\ \A b \in DOMAIN mem : b # object => new[b] = mem[b]
  BY <1>1, <1>5, <1>7
<1>9. /\ Slots(new, object) = Slots(mem, object) \cup {key}
      /\ At(new, object, key) = n /\ \A k \in Slots(mem, object) : At(new, object, k) = At(mem, object, k)
      /\ key \notin Slots(mem, object) /\ IsContainer(new[object]) /\ new[object][1] = "object"
  <2>1. new[object][1] = "object" /\ new[object][2] = members
    BY <1>8
  <2>2. Slots(new, object) = DOMAIN members /\ Slots(mem, object) = DOMAIN mem[object][2]
    BY <2>1 DEF Slots, IsContainer
  <2>3. \A k : At(new, object, k) = members[k]
    BY <2>1 DEF At
  <2> QED
    BY <1>4, <2>1, <2>2, <2>3, SMTT(30), ZenonT(30) DEF At, IsContainer
<1>10. IsNew(<<"null", 0>>)
  BY DEF IsNew, IsContainer
<1>11. Heap(new) /\ IsBelow(new, object)
  <2>1. Adds(mem, new, object, key, <<"null", 0>>)
    BY <1>1, <1>7, <1>8, <1>9, SMTT(30), ZenonT(30) DEF Adds
  <2> QED
    BY <1>10, <2>1, OneMore
<1> QED
  BY <1>1, <1>8, <1>9, <1>11

\* A vector that grows: its elements, of which there are L, move behind the others.
IsMoved(mem, new, array, old) ==
    LET n == Len(mem)  L == Len(old) IN
    /\ IsSeq(new) /\ DOMAIN new = 1..(n + L) /\ Len(new) = n + L
    /\ new[array] = <<"array", [i \in 1..L |-> n + i]>>
    /\ \A j \in 1..L : new[n + j] = mem[old[j]]
    /\ \A b \in 1..n : b # array =>
          new[b] = IF b \in ToSet(old) THEN Freed ELSE mem[b]

LEMMA Relocated ==
    ASSUME NEW mem, Heap(mem), NEW array \in DOMAIN mem, mem[array][1] = "array", IsBelow(mem, array),
           NEW old, old = mem[array][2],
           NEW new, IsMoved(mem, new, array, old)
    PROVE  Heap(new) /\ IsBelow(new, array)
<1>1. PICK n \in Nat : n = Len(mem) /\ DOMAIN mem = 1..n
  BY DEF Heap, IsSeq
<1>2. PICK L \in Nat : L = Len(old) /\ DOMAIN old = 1..L /\ old \in Seq(Nat)
  BY DEF Heap
<1>3. /\ IsSeq(new) /\ DOMAIN new = 1..(n + L)
      /\ new[array] = <<"array", [i \in 1..L |-> n + i]>>
      /\ \A j \in 1..L : new[n + j] = mem[old[j]]
      /\ \A b \in 1..n : b # array => new[b] = IF b \in ToSet(old) THEN Freed ELSE mem[b]
  BY <1>1, <1>2 DEF IsMoved
<1>4. /\ Slots(mem, array) = 1..L /\ \A j \in 1..L : At(mem, array, j) = old[j] /\ old[j] \in 1..n /\ array < old[j]
      /\ ToSet(old) = {old[j] : j \in 1..L}
  <2>1. Slots(mem, array) = 1..L /\ \A j \in 1..L : At(mem, array, j) = old[j]
    BY <1>2 DEF Slots, At, IsContainer
  <2>2. \A j \in 1..L : old[j] \in 1..n
    BY <1>1, <2>1 DEF Heap, IsLive
  <2>3. \A j \in 1..L : array < old[j]
    BY <2>1 DEF IsBelow
  <2> QED
    BY <1>2, <2>1, <2>2, <2>3 DEF ToSet
<1>5. array \notin ToSet(old) /\ \A i, j \in 1..L : old[i] = old[j] => i = j
  <2>1. array \notin ToSet(old)
    BY <1>1, <1>4
  <2>2. \A i, j \in 1..L : old[i] = old[j] => i = j
    BY <1>4, SMTT(30), ZenonT(30) DEF Heap
  <2> QED
    BY <2>1, <2>2
\* What is not an element of the array stays where it was.
<1>6. ASSUME NEW c \in DOMAIN mem, c # array, NEW k \in Slots(mem, c)
      PROVE  At(mem, c, k) \in 1..n /\ At(mem, c, k) \notin ToSet(old) /\ IsLive(new, At(mem, c, k))
  <2>1. At(mem, c, k) \in 1..n /\ mem[At(mem, c, k)][1] # "freed"
    BY <1>1 DEF Heap, IsLive
  <2>2. ASSUME At(mem, c, k) \in ToSet(old) PROVE FALSE
    <3>1. PICK j \in 1..L : At(mem, c, k) = At(mem, array, j)
      BY <1>4, <2>2
    <3> QED
      BY <1>4, <1>6, <3>1 DEF Heap
  <2>3. PICK x : x = At(mem, c, k)
    OBVIOUS
  <2>4. new[x][1] # "freed"
    BY <1>3, <2>1, <2>2, <2>3
  <2>5. x \in DOMAIN new
    BY <1>3, <2>1, <2>3
  <2> QED
    BY <2>1, <2>2, <2>3, <2>4, <2>5 DEF IsLive
<1> DEFINE From(c, b) == IF c \in ToSet(old) THEN \E j \in 1..L : old[j] = c /\ b = n + j ELSE b = c
<1>7. Slots(new, array) = 1..L /\ \A k \in 1..L : At(new, array, k) = n + k
  BY <1>3 DEF Slots, At, IsContainer
<1>8. ASSUME NEW b \in DOMAIN new, NEW k \in Slots(new, b), b # array
      PROVE  \E c \in DOMAIN mem : /\ c # array /\ k \in Slots(mem, c) /\ At(new, b, k) = At(mem, c, k)
                                   /\ From(c, b)
  <2>1. CASE b \in 1..n
    <3>1. b \notin ToSet(old) /\ new[b] = mem[b]
      BY <1>3, <1>8, <2>1 DEF Slots, Freed, IsContainer
    <3>2. k \in Slots(mem, b) /\ At(new, b, k) = At(mem, b, k) /\ From(b, b)
      BY <3>1 DEF Slots, At
    <3> QED
      BY <1>1, <1>8, <2>1, <3>2
  <2>2. CASE b \notin 1..n
    <3>1. PICK j \in 1..L : b = n + j
      <4>1. b - n \in 1..L /\ b = n + (b - n)
        BY <1>3, <2>2
      <4> QED
        BY <4>1
    <3>2. new[b] = mem[old[j]]
      BY <1>3, <3>1
    <3>3. k \in Slots(mem, old[j]) /\ At(new, b, k) = At(mem, old[j], k)
      BY <3>2 DEF Slots, At
    <3>4. old[j] \in DOMAIN mem /\ old[j] # array /\ From(old[j], b)
      BY <1>1, <1>4, <1>5, <3>1
    <3> QED
      BY <3>3, <3>4
  <2> QED
    BY <2>1, <2>2
<1>9. \A c \in DOMAIN mem, b, d \in DOMAIN new : From(c, b) /\ From(c, d) => b = d
  BY <1>5
<1> HIDE DEF From
<1>10. ASSUME NEW b \in DOMAIN new, NEW k \in Slots(new, b) PROVE IsLive(new, At(new, b, k))
  <2>1. CASE b = array
    <3>1. PICK j \in 1..L : j = k /\ At(new, b, k) = n + j
      BY <1>7, <2>1
    <3>2. new[n + j] = mem[old[j]] /\ n + j \in DOMAIN new
      BY <1>3
    <3>3. mem[old[j]][1] # "freed"
      <4>1. j \in Slots(mem, array) /\ At(mem, array, j) = old[j]
        BY <1>4
      <4> QED
        BY <4>1 DEF Heap, IsLive
    <3> QED
      BY <3>1, <3>2, <3>3 DEF IsLive
  <2>2. CASE b # array
    BY <1>6, <1>8, <2>2
  <2> QED
    BY <2>1, <2>2
<1>11. ASSUME NEW b \in DOMAIN new, NEW d \in DOMAIN new, NEW k \in Slots(new, b), NEW l \in Slots(new, d),
              At(new, b, k) = At(new, d, l)
       PROVE  b = d /\ k = l
  <2>1. ASSUME NEW e \in DOMAIN new, e # array, NEW m \in Slots(new, e) PROVE At(new, e, m) \in 1..n
    BY <1>6, <1>8, <2>1
  <2>2. \A m \in Slots(new, array) : At(new, array, m) \notin 1..n
    BY <1>7
  <2>3. CASE b = array /\ d = array
    <3>1. k \in 1..L /\ l \in 1..L /\ n + k = n + l
      BY <1>7, <1>11, <2>3
    <3> QED
      BY <2>3, <3>1
  <2>4. CASE b # array /\ d # array
    <3>1. PICK c \in DOMAIN mem : k \in Slots(mem, c) /\ At(new, b, k) = At(mem, c, k) /\ From(c, b)
      BY <1>8, <2>4
    <3>2. PICK e \in DOMAIN mem : l \in Slots(mem, e) /\ At(new, d, l) = At(mem, e, l) /\ From(e, d)
      BY <1>8, <2>4
    <3>3. At(mem, c, k) = At(mem, e, l)
      BY <1>11, <3>1, <3>2
    <3>4. c = e /\ k = l
      BY <3>1, <3>2, <3>3 DEF Heap
    <3> QED
      BY <1>9, <3>1, <3>2, <3>4
  <2> QED
    BY <1>11, <2>1, <2>2, <2>3, <2>4
<1>12. \A b \in DOMAIN new : new[b][1] = "array" => new[b][2] \in Seq(Nat)
  <2> SUFFICES ASSUME NEW b \in DOMAIN new, new[b][1] = "array" PROVE new[b][2] \in Seq(Nat)
    OBVIOUS
  <2>1. CASE b = array
    <3>1. [i \in 1..L |-> n + i] \in Seq(Nat)
      OBVIOUS
    <3> QED
      BY <1>3, <2>1, <3>1
  <2>2. CASE b \in 1..n /\ b # array
    <3>1. new[b] = mem[b]
      BY <1>3, <2>2 DEF Freed
    <3> QED
      BY <1>1, <2>2, <3>1 DEF Heap
  <2>3. CASE b \notin 1..n
    <3>1. b - n \in 1..L /\ b = n + (b - n)
      BY <1>3, <2>3
    <3>2. new[b] = mem[old[b - n]] /\ old[b - n] \in DOMAIN mem
      BY <1>1, <1>3, <1>4, <3>1
    <3> QED
      BY <3>2 DEF Heap
  <2> QED
    BY <2>1, <2>2, <2>3
<1>13. IsSeq(new) /\ new # <<>> /\ IsBelow(new, array)
  <2>1. \A k \in Slots(new, array) : array < At(new, array, k)
    BY <1>1, <1>7
  <2>2. array \in DOMAIN new
    BY <1>1, <1>3
  <2> QED
    BY <1>3, <2>1, <2>2 DEF IsBelow
<1> QED
  BY <1>10, <1>11, <1>12, <1>13 DEF Heap

\* emplace_back: the array has one more element, and what lies below it is as before.
Emplaces(mem, new, array, v) ==
    /\ Heap(new) /\ DOMAIN mem \subseteq DOMAIN new
    /\ Len(new) \in DOMAIN new /\ new[Len(new)] = v /\ array < Len(new)
    /\ new[array][1] = "array" /\ IsBelow(new, array)
    /\ \E k \in Slots(new, array) : At(new, array, k) = Len(new)
    /\ \A b \in DOMAIN mem : b < array => new[b] = mem[b]

LEMMA MovedIs ==
    ASSUME NEW mem, Heap(mem), NEW array \in DOMAIN mem, NEW old \in Seq(Nat),
           \A j \in 1..Len(old) : old[j] \in DOMAIN mem,
           NEW new, new = Updated(MovedTo(mem, old), array, <<"array", [i \in 1..Len(old) |-> Len(mem) + i]>>)
    PROVE  IsMoved(mem, new, array, old)
<1>1. PICK n \in Nat, L \in Nat : n = Len(mem) /\ L = Len(old) /\ DOMAIN mem = 1..n /\ DOMAIN old = 1..L
  BY DEF Heap, IsSeq
<1>2. PICK mid : mid = MovedTo(mem, old)
  OBVIOUS
<1>3. mid = [a \in 1..(n + L) |-> IF a > n THEN mem[old[a - n]] ELSE IF a \in ToSet(old) THEN Freed ELSE mem[a]]
  BY <1>1, <1>2 DEF MovedTo
<1>4. IsSeq(mid) /\ DOMAIN mid = 1..(n + L) /\ Len(mid) = n + L
  <2>1. mid = [a \in 1..(n + L) |-> mid[a]] /\ n + L \in Nat
    BY <1>3
  <2> QED
    BY <2>1, FunctionIsSeq
<1>5. PICK v : v = <<"array", [i \in 1..L |-> n + i]>>
  OBVIOUS
<1>6. array \in DOMAIN mid /\ array \in 1..n
  BY <1>1, <1>4
<1>7. new = Updated(mid, array, v)
  BY <1>1, <1>2, <1>5
<1>8. /\ IsSeq(new) /\ DOMAIN new = DOMAIN mid /\ Len(new) = Len(mid) /\ new[array] = v
      /\ \A b \in DOMAIN mid : b # array => new[b] = mid[b]
  <2>1. Updates(new, mid, array, v)
    BY <1>4, <1>6, <1>7, UpdateIs
  <2> QED
    BY <2>1 DEF Updates
<1>9. \A j \in 1..L : new[n + j] = mem[old[j]]
  <2> SUFFICES ASSUME NEW j \in 1..L PROVE new[n + j] = mem[old[j]]
    OBVIOUS
  <2>1. n + j \in 1..(n + L) /\ n + j > n /\ n + j # array /\ (n + j) - n = j
    BY <1>6
  <2>2. mid[n + j] = mem[old[j]]
    BY <1>3, <2>1
  <2> QED
    BY <1>4, <1>8, <2>1, <2>2
<1>10. \A b \in 1..n : b # array => new[b] = IF b \in ToSet(old) THEN Freed ELSE mem[b]
  <2> SUFFICES ASSUME NEW b \in 1..n, b # array PROVE new[b] = IF b \in ToSet(old) THEN Freed ELSE mem[b]
    OBVIOUS
  <2>1. b \in 1..(n + L) /\ ~(b > n)
    OBVIOUS
  <2> QED
    BY <1>3, <1>4, <1>8, <2>1
<1> QED
  BY <1>1, <1>4, <1>5, <1>8, <1>9, <1>10 DEF IsMoved

\* One more element, where the elements are now.
AddsElement(mem, new, array, elements, v) ==
    LET n == Len(mem) + 1 IN
    /\ IsSeq(new) /\ DOMAIN new = DOMAIN mem \cup {n} /\ Len(new) = n /\ new[n] = v
    /\ new[array] = <<"array", Append(elements, n)>>
    /\ \A b \in DOMAIN mem : b # array => new[b] = mem[b]

LEMMA ElementAdded ==
    ASSUME NEW mem, Heap(mem), NEW array \in DOMAIN mem, NEW elements \in Seq(Nat),
           mem[array][1] = "array", mem[array][2] = elements, IsBelow(mem, array), NEW v, IsNew(v),
           NEW new, AddsElement(mem, new, array, elements, v)
    PROVE  Emplaces(mem, new, array, v)
<1>1. PICK n \in Nat : n = Len(mem) + 1 /\ DOMAIN mem = 1..(n - 1)
  BY DEF Heap, IsSeq
<1>2. PICK L \in Nat : L = Len(elements) + 1 /\ DOMAIN elements = 1..(L - 1)
  OBVIOUS
<1>3. PICK longer \in Seq(Nat) : longer = Append(elements, n)
  <2>1. Append(elements, n) \in Seq(Nat)
    BY <1>1
  <2> QED
    BY <2>1
<1>4. DOMAIN longer = 1..L /\ longer[L] = n /\ \A k \in 1..(L - 1) : longer[k] = elements[k]
  BY <1>2, <1>3
<1>5. new[array] = <<"array", longer>>
  BY <1>1, <1>3 DEF AddsElement
<1>6. /\ Slots(new, array) = 1..L /\ Slots(mem, array) = 1..(L - 1)
      /\ \A k : At(new, array, k) = longer[k] /\ At(mem, array, k) = elements[k]
  <2>1. new[array][1] = "array" /\ new[array][2] = longer
    BY <1>5
  <2> QED
    BY <1>2, <1>4, <2>1 DEF Slots, At, IsContainer
<1>7. Adds(mem, new, array, L, v)
  <2>1. Slots(new, array) = Slots(mem, array) \cup {L} /\ L \notin Slots(mem, array)
    BY <1>2, <1>6
  <2>2. IsContainer(new[array]) /\ new[array][2] \in Seq(Nat)
    BY <1>5 DEF IsContainer
  <2>3. At(new, array, L) = n /\ \A k \in Slots(mem, array) : At(new, array, k) = At(mem, array, k)
    BY <1>4, <1>6
  <2> QED
    BY <1>1, <2>1, <2>2, <2>3 DEF Adds, AddsElement
<1>8. Heap(new) /\ IsBelow(new, array)
  BY <1>7, OneMore
<1>9. new[array][1] = "array" /\ L \in Slots(new, array) /\ At(new, array, L) = n
  BY <1>2, <1>4, <1>5, <1>6
<1>10. /\ DOMAIN mem \subseteq DOMAIN new /\ Len(new) = n /\ n \in DOMAIN new /\ new[n] = v /\ array < n
       /\ \A b \in DOMAIN mem : b < array => new[b] = mem[b]
  BY <1>1 DEF AddsElement
<1> QED
  BY <1>8, <1>9, <1>10 DEF Emplaces

LEMMA EmplaceIs ==
    ASSUME NEW mem, Heap(mem), NEW open, NEW named, NEW array \in DOMAIN mem, mem[array][1] = "array",
           IsBelow(mem, array), NEW v, IsNew(v),
           NEW result, result = EmplaceBack([memory |-> mem, refs |-> open, element |-> named], array, v)
    PROVE  /\ result = [memory |-> result.memory, refs |-> open, element |-> named]
           /\ Emplaces(mem, result.memory, array, v)
<1>1. PICK old \in Seq(Nat) : old = mem[array][2]
  BY DEF Heap
<1>2. PICK n \in Nat, L \in Nat : n = Len(mem) /\ L = Len(old) /\ DOMAIN mem = 1..n
  BY <1>1 DEF Heap, IsSeq
<1>3. \A j \in 1..L : old[j] \in DOMAIN mem /\ array < old[j]
  <2>1. Slots(mem, array) = 1..L /\ \A j \in 1..L : At(mem, array, j) = old[j]
    BY <1>1, <1>2 DEF Slots, At, IsContainer
  <2> QED
    BY <2>1, SMTT(30), ZenonT(30) DEF Heap, IsLive, IsBelow
<1>4. PICK moves \in BOOLEAN : moves = IsFull(L)
  BY DEF IsFull
<1>5. PICK mid, elements : /\ mid = IF moves THEN MovedTo(mem, old) ELSE mem
                           /\ elements = IF moves THEN [i \in 1..L |-> n + i] ELSE old
  OBVIOUS
<1>6. PICK longer : longer = Extended(mid, v)
  OBVIOUS
<1>7. PICK last : last = <<"array", Append(elements, Len(longer))>>
  OBVIOUS
<1>8. /\ result.memory = Updated(longer, array, last)
      /\ result = [memory |-> result.memory, refs |-> open, element |-> named]
  BY <1>1, <1>2, <1>4, <1>5, <1>6, <1>7 DEF EmplaceBack, Updated, Extended
<1>9. PICK base : base = IF moves THEN Updated(mid, array, <<"array", elements>>) ELSE mem
  OBVIOUS
<1>10. /\ Heap(base) /\ IsBelow(base, array) /\ base[array][1] = "array" /\ base[array][2] = elements
       /\ elements \in Seq(Nat) /\ DOMAIN mem \subseteq DOMAIN base
       /\ \A b \in DOMAIN mem : b < array => base[b] = mem[b]
       /\ IsSeq(mid) /\ DOMAIN mid = DOMAIN base /\ Len(mid) = Len(base)
       /\ \A b \in DOMAIN base : b # array => mid[b] = base[b]
  <2>1. CASE ~moves
    BY <1>1, <1>5, <1>9, <2>1 DEF Heap
  <2>2. CASE moves
    <3>1. base = Updated(MovedTo(mem, old), array, <<"array", [i \in 1..Len(old) |-> Len(mem) + i]>>)
      BY <1>2, <1>5, <1>9, <2>2
    <3>2. IsMoved(mem, base, array, old)
      BY <1>2, <1>3, <3>1, MovedIs
    <3>3. Heap(base) /\ IsBelow(base, array)
      BY <1>1, <3>2, Relocated
    <3>4. /\ base[array] = <<"array", elements>> /\ DOMAIN base = 1..(n + L) /\ Len(base) = n + L
          /\ \A b \in 1..n : b # array => base[b] = IF b \in ToSet(old) THEN Freed ELSE mem[b]
      BY <1>2, <1>5, <2>2, <3>2 DEF IsMoved
    <3>5. elements \in Seq(Nat)
      BY <1>5, <2>2
    <3>6. \A b \in DOMAIN mem : b < array => base[b] = mem[b]
      <4>1. \A x \in ToSet(old) : array < x
        BY <1>2, <1>3 DEF ToSet
      <4>2. \A b \in DOMAIN mem : b < array => b \notin ToSet(old) /\ b # array
        BY <1>2, <4>1
      <4> QED
        BY <1>2, <3>4, <4>2
    <3>7. mid = MovedTo(mem, old)
      BY <1>5, <2>2
    <3>8. IsSeq(mid) /\ DOMAIN mid = 1..(n + L) /\ Len(mid) = n + L
      <4>1. mid = [a \in 1..(n + L) |-> IF a > n THEN mem[old[a - n]] ELSE IF a \in ToSet(old) THEN Freed ELSE mem[a]]
        BY <1>2, <3>7 DEF MovedTo
      <4>2. mid = [a \in 1..(n + L) |-> mid[a]] /\ n + L \in Nat
        BY <4>1
      <4> QED
        BY <4>2, FunctionIsSeq
    <3>9. \A b \in DOMAIN mid : b # array => base[b] = mid[b]
      BY <3>8, <1>9, <2>2 DEF Updated
    <3>10. base[array][1] = "array" /\ base[array][2] = elements
      BY <3>4
    <3>11. DOMAIN mem \subseteq DOMAIN base
      BY <1>2, <3>4
    <3> QED
      BY <3>3, <3>4, <3>5, <3>6, <3>8, <3>9, <3>10, <3>11
  <2> QED
    BY <2>1, <2>2
<1>11. Extends(longer, mid, v)
  BY <1>6, <1>10, AppendIs
<1>12. array \in DOMAIN longer /\ IsSeq(longer)
  BY <1>10, <1>11 DEF Extends
<1>13. PICK new : new = result.memory
  OBVIOUS
<1>14. /\ IsSeq(new) /\ DOMAIN new = DOMAIN longer /\ Len(new) = Len(longer) /\ new[array] = last
       /\ \A b \in DOMAIN longer : b # array => new[b] = longer[b]
  BY <1>8, <1>12, <1>13, UpdateIs DEF Updates
<1>15. PICK m \in Nat : m = Len(base) /\ DOMAIN base = 1..m
  <2>1. IsSeq(base)
    BY <1>10 DEF Heap
  <2> QED
    BY <2>1 DEF IsSeq
<1>16. /\ DOMAIN new = DOMAIN base \cup {m + 1} /\ Len(new) = m + 1
       /\ new[array] = <<"array", Append(elements, m + 1)>>
       /\ new[m + 1] = v /\ \A b \in DOMAIN base : b # array => new[b] = base[b]
  <2>1. DOMAIN longer = DOMAIN base \cup {m + 1} /\ Len(longer) = m + 1 /\ longer[m + 1] = v
        /\ \A b \in DOMAIN base : longer[b] = mid[b]
    BY <1>10, <1>11, <1>15 DEF Extends
  <2>2. m + 1 # array
    BY <1>2, <1>10, <1>15
  <2> QED
    BY <1>7, <1>10, <1>14, <2>1, <2>2
<1>17. array \in DOMAIN base
  BY <1>10
<1>18. Emplaces(base, new, array, v)
  <2>1. AddsElement(base, new, array, elements, v)
    BY <1>14, <1>15, <1>16 DEF AddsElement
  <2>2. Heap(base) /\ elements \in Seq(Nat) /\ base[array][1] = "array" /\ base[array][2] = elements
        /\ IsBelow(base, array)
    BY <1>10
  <2> QED
    BY <1>17, <2>1, <2>2, ElementAdded
<1>19. Emplaces(mem, new, array, v)
  BY <1>10, <1>18 DEF Emplaces
<1> QED
  BY <1>8, <1>13, <1>19

-----------------------------------------------------------------------------
(* The stack of the open containers.                                       *)

\* The open containers are a path from the root, ordered by address.
Stack(mem, open) ==
    /\ open \in Seq(DOMAIN mem)
    /\ open # <<>> => open[1] = 1
    /\ \A i \in 1..Len(open) : IsContainer(mem[open[i]]) /\ IsBelow(mem, open[i])
    /\ \A i, j \in 1..Len(open) : i < j => open[i] < open[j]
    /\ \A i \in 1..Len(open) : i # 1 => \E k \in Slots(mem, open[i - 1]) : At(mem, open[i - 1], k) = open[i]
\* They have the types the parser takes them for.
TypesAre(mem, open, types) ==
    /\ types \in Seq({"array", "object"}) /\ Len(types) = Len(open)
    /\ \A i \in 1..Len(open) : mem[open[i]][1] = types[i]

\* Only the innermost of them changes, and what lies above it.
LEMMA StackKept ==
    ASSUME NEW mem, NEW open, Heap(mem), Stack(mem, open), NEW types, TypesAre(mem, open, types), open # <<>>,
           NEW top, top = open[Len(open)],
           NEW new, Heap(new), DOMAIN mem \subseteq DOMAIN new,
           new[top][1] = mem[top][1], IsBelow(new, top),
           \A b \in DOMAIN mem : b < top => new[b] = mem[b]
    PROVE  Stack(new, open) /\ TypesAre(new, open, types)
<1>1. PICK n \in Nat : n = Len(open) /\ n # 0 /\ DOMAIN open = 1..n
  BY DEF Stack
<1>2. open \in Seq(DOMAIN new) /\ \A i \in 1..n : open[i] \in DOMAIN mem
  BY <1>1 DEF Stack
<1>3. \A i \in 1..n : i # n => open[i] < top /\ new[open[i]] = mem[open[i]]
  <2> SUFFICES ASSUME NEW i \in 1..n, i # n PROVE open[i] < top /\ new[open[i]] = mem[open[i]]
    OBVIOUS
  <2>1. n \in 1..n /\ i < n
    BY <1>1
  <2>2. open[i] < top
    BY <1>1, <2>1 DEF Stack
  <2> QED
    BY <1>2, <2>2
<1>4. \A i \in 1..n : new[open[i]][1] = mem[open[i]][1]
  BY <1>1, <1>3
<1>5. \A i \in 1..n : i # n => Slots(new, open[i]) = Slots(mem, open[i]) /\ \A k : At(new, open[i], k) = At(mem, open[i], k)
  BY <1>3 DEF Slots, At
<1>6. \A i \in 1..n : IsContainer(new[open[i]])
  BY <1>1, <1>4 DEF Stack, IsContainer
<1>7. \A i \in 1..n : IsBelow(new, open[i])
  <2> SUFFICES ASSUME NEW i \in 1..n PROVE IsBelow(new, open[i])
    OBVIOUS
  <2>1. CASE i = n
    BY <1>1, <2>1
  <2>2. CASE i # n
    <3>1. IsBelow(mem, open[i])
      BY <1>1 DEF Stack
    <3> QED
      BY <1>5, <2>2, <3>1 DEF IsBelow
  <2> QED
    BY <2>1, <2>2
<1>8. \A i \in 1..n : i # 1 => \E k \in Slots(new, open[i - 1]) : At(new, open[i - 1], k) = open[i]
  <2> SUFFICES ASSUME NEW i \in 1..n, i # 1
               PROVE  \E k \in Slots(new, open[i - 1]) : At(new, open[i - 1], k) = open[i]
    OBVIOUS
  <2>1. PICK k \in Slots(mem, open[i - 1]) : At(mem, open[i - 1], k) = open[i]
    BY <1>1 DEF Stack
  <2>2. i - 1 \in 1..n /\ i - 1 # n
    BY <1>1
  <2>3. k \in Slots(new, open[i - 1]) /\ At(new, open[i - 1], k) = open[i]
    BY <1>5, <2>1, <2>2
  <2> QED
    BY <2>3
<1>9. Stack(new, open)
  BY <1>1, <1>2, <1>6, <1>7, <1>8 DEF Stack
<1> QED
  BY <1>1, <1>4, <1>9 DEF TypesAre

\* A container is opened: it is new, and lies in the innermost one.
LEMMA StackPushed ==
    ASSUME NEW mem, NEW open, Heap(mem), Stack(mem, open), NEW types, TypesAre(mem, open, types),
           NEW at \in DOMAIN mem, NEW type \in {"array", "object"}, mem[at] = <<type, <<>>>>,
           open = <<>> => at = 1,
           open # <<>> => /\ open[Len(open)] < at
                          /\ \E k \in Slots(mem, open[Len(open)]) : At(mem, open[Len(open)], k) = at
    PROVE  Stack(mem, Append(open, at)) /\ TypesAre(mem, Append(open, at), Append(types, type))
<1>1. PICK n \in Nat : n = Len(open) /\ DOMAIN open = 1..n /\ Len(types) = n
  BY DEF Stack, TypesAre
<1>2. PICK new : new = Append(open, at)
  OBVIOUS
<1>3. /\ new \in Seq(DOMAIN mem) /\ Len(new) = n + 1 /\ new[n + 1] = at
      /\ \A i \in 1..n : new[i] = open[i] /\ open[i] \in DOMAIN mem
  BY <1>1, <1>2 DEF Stack
<1>4. IsContainer(mem[at]) /\ Slots(mem, at) = {} /\ mem[at][1] = type
  BY DEF IsContainer, Slots
<1>5. IsBelow(mem, at)
  BY <1>4 DEF IsBelow
<1>6. \A i \in 1..n : open[i] < at
  <2> SUFFICES ASSUME NEW i \in 1..n PROVE open[i] < at
    OBVIOUS
  <2>1. n \in 1..n /\ open[n] < at /\ (i # n => open[i] < open[n])
    BY <1>1 DEF Stack
  <2>2. open[i] \in DOMAIN mem /\ open[n] \in DOMAIN mem
    BY <1>3, <2>1
  <2>3. DOMAIN mem \subseteq Nat
    BY DEF Heap, IsSeq
  <2> QED
    BY <2>1, <2>2, <2>3
<1>7. new[1] = 1
  <2>1. CASE n = 0
    BY <1>1, <1>3, <2>1
  <2>2. CASE n # 0
    <3>1. 1 \in 1..n /\ open # <<>>
      BY <1>1, <2>2
    <3> QED
      BY <1>3, <3>1 DEF Stack
  <2> QED
    BY <2>1, <2>2
<1>8. \A i \in 1..(n + 1) : IsContainer(mem[new[i]]) /\ IsBelow(mem, new[i])
  <2> SUFFICES ASSUME NEW i \in 1..(n + 1) PROVE IsContainer(mem[new[i]]) /\ IsBelow(mem, new[i])
    OBVIOUS
  <2>1. CASE i = n + 1
    BY <1>3, <1>4, <1>5, <2>1
  <2>2. CASE i \in 1..n
    BY <1>1, <1>3, <2>2 DEF Stack
  <2> QED
    BY <2>1, <2>2
<1>9. \A i, j \in 1..(n + 1) : i < j => new[i] < new[j]
  <2> SUFFICES ASSUME NEW i \in 1..(n + 1), NEW j \in 1..(n + 1), i < j PROVE new[i] < new[j]
    OBVIOUS
  <2>1. i \in 1..n
    OBVIOUS
  <2>2. CASE j = n + 1
    BY <1>3, <1>6, <2>1, <2>2
  <2>3. CASE j \in 1..n
    BY <1>1, <1>3, <2>1, <2>3 DEF Stack
  <2> QED
    BY <2>2, <2>3
<1>10. \A i \in 1..(n + 1) : i # 1 => \E k \in Slots(mem, new[i - 1]) : At(mem, new[i - 1], k) = new[i]
  <2> SUFFICES ASSUME NEW i \in 1..(n + 1), i # 1
               PROVE  \E k \in Slots(mem, new[i - 1]) : At(mem, new[i - 1], k) = new[i]
    OBVIOUS
  <2>1. i - 1 \in 1..n /\ new[i - 1] = open[i - 1] /\ n # 0
    BY <1>3
  <2>2. CASE i = n + 1
    <3>1. open # <<>> /\ i - 1 = n
      BY <1>1, <2>1, <2>2
    <3> QED
      BY <1>1, <1>3, <2>1, <2>2, <3>1
  <2>3. CASE i \in 1..n
    BY <1>1, <1>3, <2>1, <2>3 DEF Stack
  <2> QED
    BY <2>2, <2>3
<1>11. Stack(mem, new)
  BY <1>3, <1>7, <1>8, <1>9, <1>10 DEF Stack
<1>12. TypesAre(mem, new, Append(types, type))
  <2>1. PICK T \in Seq({"array", "object"}) : T = types
    BY DEF TypesAre
  <2>2. /\ Append(T, type) \in Seq({"array", "object"}) /\ Len(Append(T, type)) = n + 1
        /\ Append(T, type)[n + 1] = type /\ \A i \in 1..n : Append(T, type)[i] = T[i]
    BY <1>1, <2>1
  <2>3. \A i \in 1..n : mem[new[i]][1] = T[i]
    BY <1>1, <1>3, <2>1 DEF TypesAre
  <2>4. \A i \in 1..(n + 1) : mem[new[i]][1] = Append(T, type)[i]
    BY <1>3, <1>4, <2>2, <2>3
  <2> QED
    BY <1>3, <2>1, <2>2, <2>4 DEF TypesAre
<1> QED
  BY <1>2, <1>11, <1>12

\* The innermost is closed.
LEMMA StackPopped ==
    ASSUME NEW mem, NEW open, Stack(mem, open), NEW types, TypesAre(mem, open, types), open # <<>>
    PROVE  Stack(mem, Front(open)) /\ TypesAre(mem, Front(open), Front(types))
<1>1. PICK n \in Nat : n = Len(open) - 1 /\ Len(open) = n + 1 /\ DOMAIN open = 1..(n + 1) /\ Len(types) = n + 1
  <2>1. PICK m \in Nat : m = Len(open) /\ DOMAIN open = 1..m /\ m # 0 /\ Len(types) = m
    BY DEF Stack, TypesAre
  <2>2. m - 1 \in Nat /\ m = (m - 1) + 1
    BY <2>1
  <2> QED
    BY <2>1, <2>2
<1>2. PICK new, rest : new = Front(open) /\ rest = Front(types)
  OBVIOUS
<1>3. /\ new \in Seq(DOMAIN mem) /\ Len(new) = n /\ \A i \in 1..n : new[i] = open[i] /\ i \in 1..(n + 1)
      /\ rest \in Seq({"array", "object"}) /\ Len(rest) = n /\ \A i \in 1..n : rest[i] = types[i]
  BY <1>1, <1>2 DEF Stack, TypesAre, Front
<1>4. new # <<>> => new[1] = 1
  <2>1. ASSUME new # <<>> PROVE 1 \in 1..n
    BY <1>3, <2>1
  <2> QED
    BY <1>1, <1>3, <2>1 DEF Stack
<1>5. \A i \in 1..n : i # 1 => i - 1 \in 1..n
  OBVIOUS
<1>6. Stack(mem, new)
  <2>1. \A i \in 1..n : IsContainer(mem[new[i]]) /\ IsBelow(mem, new[i])
    BY <1>1, <1>3 DEF Stack
  <2>2. \A i, j \in 1..n : i < j => new[i] < new[j]
    BY <1>1, <1>3 DEF Stack
  <2>3. \A i \in 1..n : i # 1 => \E k \in Slots(mem, new[i - 1]) : At(mem, new[i - 1], k) = new[i]
    BY <1>1, <1>3, <1>5 DEF Stack
  <2> QED
    BY <1>3, <1>4, <2>1, <2>2, <2>3 DEF Stack
<1>7. TypesAre(mem, new, rest)
  BY <1>1, <1>3 DEF TypesAre
<1> QED
  BY <1>2, <1>6, <1>7

\* handle_value.
\* The builder, a member of the innermost object, and what handle_value leaves:
\* the stack as it was, and the value in the innermost container.
DomOf(mem, open, named) == [memory |-> mem, refs |-> open, element |-> named]
Member(mem, top, named) == \E k \in Slots(mem, top) : At(mem, top, k) = named
Handles(new, open, types, at, v) ==
    /\ Heap(new) /\ Stack(new, open) /\ TypesAre(new, open, types)
    /\ at \in DOMAIN new /\ new[at] = v
    /\ open = <<>> => at = 1
    /\ open # <<>> => open[Len(open)] < at /\ Member(new, open[Len(open)], at)

\* The innermost container.
LEMMA TopIs ==
    ASSUME NEW mem, NEW open, Heap(mem), Stack(mem, open), NEW types, TypesAre(mem, open, types), open # <<>>
    PROVE  /\ open[Len(open)] \in DOMAIN mem /\ IsBelow(mem, open[Len(open)])
           /\ mem[open[Len(open)]][1] = types[Len(types)] /\ types[Len(types)] \in {"array", "object"}
           /\ Last(open) = open[Len(open)] /\ Last(types) = types[Len(types)] /\ types # <<>>
<1>1. PICK n \in Nat : n = Len(open) /\ n \in 1..n /\ DOMAIN open = 1..n /\ Len(types) = n
  BY DEF Stack, TypesAre
<1>2. open[n] \in DOMAIN mem /\ IsBelow(mem, open[n])
  BY <1>1 DEF Stack
<1>3. mem[open[n]][1] = types[n] /\ types[n] \in {"array", "object"} /\ types # <<>>
  BY <1>1 DEF TypesAre
<1> QED
  BY <1>1, <1>2, <1>3 DEF Last

\* handle_value puts the value at the root, at the end of the innermost array,
\* or into the member the key has named.
LEMMA ValueHandled ==
    ASSUME NEW mem, NEW open, NEW named, Heap(mem), Stack(mem, open), NEW types, TypesAre(mem, open, types),
           NEW v, IsNew(v), open = <<>> => Len(mem) = 1,
           open # <<>> /\ types[Len(types)] = "object" => Member(mem, open[Len(open)], named),
           NEW handled, handled = HandleValue(DomOf(mem, open, named), v),
           NEW new, new = handled.dom.memory
    PROVE  handled.dom = DomOf(new, open, named) /\ Handles(new, open, types, handled.at, v)
<1>1. CASE open = <<>>
  <2>1. handled = [dom |-> DomOf(Updated(mem, 1, v), open, named), at |-> 1]
    BY <1>1 DEF HandleValue, DomOf, Updated
  <2>2. new = Updated(mem, 1, v) /\ 1 \in DOMAIN mem
    BY <1>1, <2>1 DEF DomOf, Heap, IsSeq
  <2>3. Heap(new)
    BY <2>2, Overwritten
  <2>4. Updates(new, mem, 1, v)
    BY <2>2, UpdateIs DEF Heap
  <2>5. Stack(new, open) /\ TypesAre(new, open, types)
    BY <1>1 DEF Stack, TypesAre
  <2>6. handled.at = 1 /\ handled.dom = DomOf(new, open, named)
    BY <2>1, <2>2
  <2> QED
    BY <1>1, <2>2, <2>3, <2>4, <2>5, <2>6 DEF Handles, Updates
<1>2. ASSUME open # <<>> PROVE open[Len(open)] \in DOMAIN mem /\ IsBelow(mem, open[Len(open)])
                               /\ mem[open[Len(open)]][1] = types[Len(types)]
                               /\ types[Len(types)] \in {"array", "object"} /\ Last(open) = open[Len(open)]
  BY <1>2, TopIs
<1>3. PICK top : top = open[Len(open)]
  OBVIOUS
<1>4. CASE open # <<>> /\ types[Len(types)] = "array"
  <2>1. PICK result : result = EmplaceBack(DomOf(mem, open, named), top, v)
    OBVIOUS
  <2>2. /\ result = DomOf(result.memory, open, named)
        /\ Emplaces(mem, result.memory, top, v)
    BY <1>2, <1>3, <1>4, <2>1, EmplaceIs DEF DomOf
  <2>3. handled = [dom |-> result, at |-> Len(result.memory)]
    BY <1>2, <1>3, <1>4, <2>1 DEF HandleValue, DomOf
  <2>4. new = result.memory /\ handled.at = Len(new) /\ handled.dom = DomOf(new, open, named)
    BY <2>2, <2>3
  <2>5. Emplaces(mem, new, top, v)
    BY <2>2, <2>4
  <2>6. Stack(new, open) /\ TypesAre(new, open, types)
    BY <1>2, <1>3, <1>4, <2>5, StackKept DEF Emplaces
  <2> QED
    BY <1>3, <1>4, <2>4, <2>5, <2>6 DEF Handles, Emplaces, Member
<1>5. CASE open # <<>> /\ types[Len(types)] = "object"
  <2>1. PICK k \in Slots(mem, top) : At(mem, top, k) = named
    BY <1>3, <1>5 DEF Member
  <2>2. named \in DOMAIN mem /\ top < named
    BY <1>2, <1>3, <1>5, <2>1 DEF Heap, IsLive, IsBelow
  <2>3. handled = [dom |-> DomOf(Updated(mem, named, v), open, named), at |-> named]
    BY <1>2, <1>3, <1>5 DEF HandleValue, DomOf, Updated
  <2>4. new = Updated(mem, named, v) /\ handled.at = named /\ handled.dom = DomOf(new, open, named)
    BY <2>3 DEF DomOf
  <2>5. Heap(new)
    BY <2>2, <2>4, Overwritten
  <2>6. Updates(new, mem, named, v)
    BY <2>2, <2>4, UpdateIs DEF Heap
  <2>7. top \in DOMAIN mem /\ top # named /\ new[top] = mem[top] /\ DOMAIN new = DOMAIN mem /\ new[named] = v
    BY <1>2, <1>3, <1>5, <2>2, <2>6 DEF Updates, Heap, IsSeq
  <2>8. IsBelow(new, top) /\ Member(new, top, named)
    BY <1>2, <1>3, <1>5, <2>1, <2>7 DEF IsBelow, Member, Slots, At
  <2>9. \A b \in DOMAIN mem : b < top => new[b] = mem[b]
    <3>1. \A b \in DOMAIN mem : b \in Nat /\ top \in Nat /\ named \in Nat
      BY <2>2, <2>7 DEF Heap, IsSeq
    <3> QED
      BY <2>2, <2>6, <3>1 DEF Updates
  <2>10. Stack(new, open) /\ TypesAre(new, open, types)
    BY <1>3, <1>5, <2>5, <2>7, <2>8, <2>9, StackKept
  <2> QED
    BY <1>3, <1>5, <2>2, <2>4, <2>5, <2>7, <2>8, <2>10 DEF Handles
<1> QED
  BY <1>1, <1>2, <1>4, <1>5

\* key.
LEMMA KeyHandled ==
    ASSUME NEW mem, NEW open, NEW named, Heap(mem), Stack(mem, open), NEW types, TypesAre(mem, open, types),
           open # <<>>, types[Len(types)] = "object",
           NEW key, NEW dom, dom = KeyOf(DomOf(mem, open, named), key)
    PROVE  /\ dom = DomOf(dom.memory, open, dom.element)
           /\ Heap(dom.memory) /\ Stack(dom.memory, open) /\ TypesAre(dom.memory, open, types)
           /\ Member(dom.memory, open[Len(open)], dom.element)
<1>1. PICK top : top = open[Len(open)]
  OBVIOUS
<1>2. /\ top \in DOMAIN mem /\ IsBelow(mem, top) /\ mem[top][1] = "object" /\ Last(open) = top
  BY <1>1, TopIs
<1>3. PICK members : members = mem[top][2]
  OBVIOUS
<1>4. CASE key \in DOMAIN members
  <2>1. dom = DomOf(mem, open, members[key])
    BY <1>2, <1>3, <1>4 DEF KeyOf, DomOf
  <2>2. key \in Slots(mem, top) /\ At(mem, top, key) = members[key]
    BY <1>2, <1>3, <1>4 DEF Slots, At, IsContainer
  <2>3. dom.memory = mem /\ dom.element = members[key]
    BY <2>1 DEF DomOf
  <2> QED
    BY <1>1, <2>1, <2>2, <2>3 DEF Member
<1>5. CASE key \notin DOMAIN members
  <2>1. PICK n : n = Len(mem) + 1
    OBVIOUS
  <2>2. PICK grown : grown = [k \in DOMAIN members \cup {key} |-> IF k = key THEN n ELSE members[k]]
    OBVIOUS
  <2>3. PICK new : new = Extended(Updated(mem, top, <<"object", grown>>), <<"null", 0>>)
    OBVIOUS
  <2>4. dom = DomOf(new, open, n)
    BY <1>2, <1>3, <1>5, <2>1, <2>2, <2>3 DEF KeyOf, DomOf, Extended, Updated
  <2>5. grown = [k \in DOMAIN mem[top][2] \cup {key} |-> IF k = key THEN Len(mem) + 1 ELSE mem[top][2][k]]
    BY <1>3, <2>1, <2>2
  <2>6. key \notin DOMAIN mem[top][2]
    BY <1>3, <1>5
  <2>7. /\ Heap(new) /\ DOMAIN mem \subseteq DOMAIN new
        /\ \A b \in DOMAIN mem : b # top => new[b] = mem[b]
        /\ new[top][1] = "object" /\ IsBelow(new, top)
        /\ key \in Slots(new, top) /\ At(new, top, key) = n
    BY <1>2, <2>1, <2>3, <2>5, <2>6, MemberAdded
  <2>8. \A b \in DOMAIN mem : b < top => new[b] = mem[b]
    <3>1. \A b \in DOMAIN mem : b \in Nat
      BY DEF Heap, IsSeq
    <3> QED
      BY <1>2, <2>7, <3>1
  <2>9. Stack(new, open) /\ TypesAre(new, open, types)
    BY <1>1, <1>2, <2>7, <2>8, StackKept
  <2>10. dom.memory = new /\ dom.element = n
    BY <2>4 DEF DomOf
  <2> QED
    BY <1>1, <2>4, <2>7, <2>9, <2>10 DEF Member
<1> QED
  BY <1>4, <1>5

-----------------------------------------------------------------------------
(* The parser and the builder together.                                    *)

\* The open containers as the parser counts them, the one it has not entered yet included.
Opened(sts, what) ==
    IF what = "first element" THEN Append(sts, "array")
    ELSE IF what \in {"first key", "first separator"} THEN Append(sts, "object")
    ELSE sts
InnermostIs(types, type) == types # <<>> /\ types[Len(types)] = type
\* What follows a value, see ValueEnds.
After(sts) == IF sts = <<>> THEN "end" ELSE IF Last(sts) = "array" THEN "more" ELSE "member"

\* The builder fits what the parser has read and what it expects.  It is an
\* operator on values, so that the lemmas apply to the next state as well.
Fitting(mem, open, named, sts, what, how) ==
    LET types == Opened(sts, what) IN
    /\ Heap(mem) /\ Stack(mem, open) /\ TypesAre(mem, open, types)
    /\ sts \in Seq({"array", "object"})
    /\ what = "more" => InnermostIs(types, "array")
    /\ what \in {"key", "separator", "member"} => InnermostIs(types, "object")
    /\ what = "end" => types = <<>>
    /\ what \in {"first separator", "separator", "value"} /\ InnermostIs(types, "object")
           => Member(mem, open[Len(open)], named)
    /\ open = <<>> => IF what = "value" THEN Len(mem) = 1 ELSE IsLive(mem, 1)
    /\ how = "accepted" => what = "end"
ParserInv == Fitting(memory, refs, element, states, expects, outcome)

\* The open containers, by what is expected.
LEMMA OpenedIs ==
    ASSUME NEW sts \in Seq({"array", "object"})
    PROVE  /\ Opened(sts, After(sts)) = sts
           /\ Opened(sts, "first element") = Append(sts, "array")
           /\ Opened(sts, "first key") = Append(sts, "object")
           /\ Opened(sts, "first separator") = Append(sts, "object")
           /\ \A what \in {"value", "key", "separator", "more", "member", "end"} : Opened(sts, what) = sts
           /\ \A type \in {"array", "object"} :
                /\ InnermostIs(Append(sts, type), type) /\ Front(Append(sts, type)) = sts
                /\ Append(sts, type) \in Seq({"array", "object"})
           /\ sts # <<>> => InnermostIs(sts, Last(sts)) /\ Front(sts) \in Seq({"array", "object"})
<1>1. \A type \in {"array", "object"} :
        /\ InnermostIs(Append(sts, type), type) /\ Front(Append(sts, type)) = sts
        /\ Append(sts, type) \in Seq({"array", "object"})
  <2> SUFFICES ASSUME NEW type \in {"array", "object"}
               PROVE  /\ InnermostIs(Append(sts, type), type) /\ Front(Append(sts, type)) = sts
                      /\ Append(sts, type) \in Seq({"array", "object"})
    OBVIOUS
  <2>1. InnermostIs(Append(sts, type), type)
    BY DEF InnermostIs
  <2>2. Front(Append(sts, type)) = sts
    BY DEF Front
  <2> QED
    BY <2>1, <2>2
<1>2. sts # <<>> => InnermostIs(sts, Last(sts)) /\ Front(sts) \in Seq({"array", "object"})
  BY DEF InnermostIs, Last, Front
<1>3. Opened(sts, After(sts)) = sts
  BY DEF Opened, After
<1> QED
  BY <1>1, <1>2, <1>3 DEF Opened

\* A value is complete: a scalar, or the container that is closed.
LEMMA ValueComplete ==
    ASSUME NEW mem, NEW open, NEW named, NEW sts \in Seq({"array", "object"}),
           Heap(mem), Stack(mem, open), TypesAre(mem, open, sts), open = <<>> => IsLive(mem, 1)
    PROVE  Fitting(mem, open, named, sts, After(sts), "parsing")
<1>1. Opened(sts, After(sts)) = sts
  BY OpenedIs
<1>2. PICK what : what = After(sts)
  OBVIOUS
<1>3. /\ what \in {"end", "more", "member"} /\ (what = "end" => sts = <<>>)
      /\ what = "more" => InnermostIs(sts, "array")
      /\ what = "member" => InnermostIs(sts, "object")
  <2>1. CASE sts = <<>>
    BY <1>2, <2>1 DEF After
  <2>2. CASE sts # <<>>
    <3>1. InnermostIs(sts, Last(sts)) /\ Last(sts) \in {"array", "object"}
      BY <2>2 DEF InnermostIs, Last
    <3> QED
      BY <1>2, <2>2, <3>1 DEF After
  <2> QED
    BY <2>1, <2>2
<1> QED
  BY <1>1, <1>2, <1>3 DEF Fitting

\* The innermost container is closed, and is a complete value then.
LEMMA ContainerClosed ==
    ASSUME NEW mem, NEW open, NEW named, NEW types, Heap(mem), Stack(mem, open), TypesAre(mem, open, types),
           types # <<>>
    PROVE  Fitting(mem, Front(open), named, Front(types), After(Front(types)), "parsing")
<1>1. open # <<>> /\ types \in Seq({"array", "object"})
  BY DEF Stack, TypesAre
<1>2. Stack(mem, Front(open)) /\ TypesAre(mem, Front(open), Front(types))
  BY <1>1, StackPopped
<1>3. IsLive(mem, 1)
  <2>1. 1 \in 1..Len(open) /\ open[1] = 1 /\ open[1] \in DOMAIN mem
    BY <1>1 DEF Stack
  <2>2. IsContainer(mem[1])
    BY <2>1 DEF Stack
  <2> QED
    BY <2>1, <2>2 DEF IsLive, IsContainer
<1>4. Front(types) \in Seq({"array", "object"})
  BY <1>1, OpenedIs
<1> QED
  BY <1>2, <1>3, <1>4, ValueComplete

-----------------------------------------------------------------------------
(* The steps.                                                              *)

\* A scalar holds nothing.
LEMMA ScalarIsNew ==
    ASSUME token \in Scalars
    PROVE  IsNew(ScalarRead)
<1> DEFINE Numbers == {"unsigned", "integer", "float", "string", "boolean", "null"}
<1>1. ScalarRead[1] \in Numbers
  <2>1. CASE token = "value_unsigned"
    BY <2>1 DEF ScalarRead
  <2>2. CASE token = "value_integer"
    BY <2>2 DEF ScalarRead
  <2>3. CASE token = "value_float"
    BY <2>3 DEF ScalarRead
  <2>4. CASE token = "value_string"
    BY <2>4 DEF ScalarRead
  <2>5. CASE token = "literal_true"
    BY <2>5 DEF ScalarRead
  <2>6. CASE token = "literal_false"
    BY <2>6 DEF ScalarRead
  <2>7. CASE token = "literal_null"
    BY <2>7 DEF ScalarRead
  <2> QED
    BY <2>1, <2>2, <2>3, <2>4, <2>5, <2>6, <2>7 DEF Scalars
<1> QED
  BY <1>1 DEF IsNew, IsContainer

\* How the parse ends says nothing of the values, but that an accepted one is complete.
LEMMA EndsWith ==
    ASSUME NEW mem, NEW open, NEW named, NEW sts, NEW what, NEW how, NEW how2,
           Fitting(mem, open, named, sts, what, how), how2 = "accepted" => what = "end"
    PROVE  Fitting(mem, open, named, sts, what, how2)
BY DEF Fitting

\* What holds where a value is read.
LEMMA ReadyForValue ==
    ASSUME NEW mem, NEW open, NEW named, NEW sts, NEW how, Fitting(mem, open, named, sts, "value", how)
    PROVE  /\ Heap(mem) /\ Stack(mem, open) /\ TypesAre(mem, open, sts)
           /\ sts \in Seq({"array", "object"})
           /\ open = <<>> => Len(mem) = 1
           /\ open # <<>> /\ sts[Len(sts)] = "object" => Member(mem, open[Len(open)], named)
<1>1. sts \in Seq({"array", "object"})
  BY DEF Fitting
<1>2. Opened(sts, "value") = sts
  BY DEF Opened
<1>3. open # <<>> => sts # <<>>
  BY <1>2, TopIs DEF Fitting
<1> QED
  BY <1>1, <1>2, <1>3 DEF Fitting, InnermostIs

\* What handle_value does there.
LEMMA ValueFits ==
    ASSUME NEW mem, NEW open, NEW named, NEW sts, NEW how, Fitting(mem, open, named, sts, "value", how),
           NEW v, IsNew(v), NEW handled, handled = HandleValue(DomOf(mem, open, named), v)
    PROVE  /\ handled.dom = DomOf(handled.dom.memory, open, named)
           /\ Handles(handled.dom.memory, open, sts, handled.at, v)
<1>1. PICK new : new = handled.dom.memory
  OBVIOUS
<1>2. /\ Heap(mem) /\ Stack(mem, open) /\ TypesAre(mem, open, sts)
      /\ open = <<>> => Len(mem) = 1
      /\ open # <<>> /\ sts[Len(sts)] = "object" => Member(mem, open[Len(open)], named)
  BY ReadyForValue
<1>3. handled.dom = DomOf(new, open, named) /\ Handles(new, open, sts, handled.at, v)
  BY <1>1, <1>2, ValueHandled
<1> QED
  BY <1>1, <1>3

\* ParseScalar.
LEMMA ScalarFits ==
    ASSUME NEW mem, NEW open, NEW named, NEW sts, NEW how, Fitting(mem, open, named, sts, "value", how),
           NEW v, IsNew(v),
           NEW dom, dom = HandleValue(DomOf(mem, open, named), v).dom
    PROVE  Fitting(dom.memory, dom.refs, dom.element, sts, After(sts), "parsing")
<1>1. PICK handled : handled = HandleValue(DomOf(mem, open, named), v)
  OBVIOUS
<1>2. PICK new : new = handled.dom.memory
  OBVIOUS
<1>3. sts \in Seq({"array", "object"})
  BY ReadyForValue
<1>4. handled.dom = DomOf(new, open, named) /\ Handles(new, open, sts, handled.at, v)
  BY <1>1, <1>2, ValueFits
<1>5. dom.memory = new /\ dom.refs = open /\ dom.element = named
  BY <1>1, <1>4 DEF DomOf
<1>6. open = <<>> => IsLive(new, 1)
  BY <1>4 DEF Handles, IsLive, IsNew
<1>7. Fitting(new, open, named, sts, After(sts), "parsing")
  BY <1>3, <1>4, <1>6, ValueComplete DEF Handles
<1> QED
  BY <1>5, <1>7

\* BeginObject and BeginArray.
Begins(type, what) ==
    \/ type = "array" /\ what = "first element"
    \/ type = "object" /\ what = "first key"
LEMMA ContainerFits ==
    ASSUME NEW mem, NEW open, NEW named, NEW sts, NEW how, Fitting(mem, open, named, sts, "value", how),
           NEW type, NEW what, Begins(type, what),
           NEW dom, dom = StartContainer(DomOf(mem, open, named), type)
    PROVE  Fitting(dom.memory, dom.refs, dom.element, sts, what, "parsing")
<1>1. PICK v : v = <<type, <<>>>>
  OBVIOUS
<1>2. PICK handled : handled = HandleValue(DomOf(mem, open, named), v)
  OBVIOUS
<1>3. PICK new : new = handled.dom.memory
  OBVIOUS
<1>4. sts \in Seq({"array", "object"})
  BY ReadyForValue
<1>5. IsNew(v)
  <2>1. type # "freed"
    BY DEF Begins
  <2> QED
    BY <1>1, <2>1 DEF IsNew
<1>6. handled.dom = DomOf(new, open, named) /\ Handles(new, open, sts, handled.at, v)
  BY <1>2, <1>3, <1>5, ValueFits
<1>0. PICK at : at = handled.at
  OBVIOUS
<1>7. dom.memory = new /\ dom.refs = Append(open, at) /\ dom.element = named
  <2>1. dom = [handled.dom EXCEPT !.refs = Append(@, at)]
    BY <1>0, <1>1, <1>2 DEF StartContainer
  <2>2. handled.dom = [memory |-> new, refs |-> open, element |-> named]
    BY <1>6 DEF DomOf
  <2> QED
    BY <2>1, <2>2
<1>8. Heap(new) /\ Stack(new, Append(open, at)) /\ TypesAre(new, Append(open, at), Append(sts, type))
  BY <1>0, <1>1, <1>6, StackPushed DEF Handles, Member, Begins
<1>9. Append(open, at) # <<>>
  <2>1. open \in Seq(DOMAIN new) /\ at \in DOMAIN new
    BY <1>0, <1>6 DEF Handles, Stack
  <2> QED
    BY <2>1
<1>10. Opened(sts, what) = Append(sts, type) /\ what \in {"first element", "first key"}
  BY DEF Opened, Begins
<1>11. Fitting(new, Append(open, at), named, sts, what, "parsing")
  BY <1>4, <1>8, <1>9, <1>10 DEF Fitting
<1> QED
  BY <1>7, <1>11

\* ParseKey.
AfterKey(what, next) ==
    \/ what = "first key" /\ next = "first separator"
    \/ what = "key" /\ next = "separator"
LEMMA KeyFits ==
    ASSUME NEW mem, NEW open, NEW named, NEW sts, NEW what, NEW how, Fitting(mem, open, named, sts, what, how),
           NEW key,
           NEW dom, dom = KeyOf(DomOf(mem, open, named), key),
           NEW next, AfterKey(what, next)
    PROVE  Fitting(dom.memory, dom.refs, dom.element, sts, next, "parsing")
<1>1. PICK types : types = Opened(sts, what)
  OBVIOUS
<1>2. sts \in Seq({"array", "object"}) /\ Heap(mem) /\ Stack(mem, open) /\ TypesAre(mem, open, types)
  BY <1>1 DEF Fitting
<1>0. \/ what = "first key" /\ next = "first separator"
      \/ what = "key" /\ next = "separator"
  BY DEF AfterKey
<1>3. Opened(sts, next) = types
  <2>1. CASE what = "first key" /\ next = "first separator"
    BY <1>1, <1>2, <2>1, OpenedIs
  <2>2. CASE what = "key" /\ next = "separator"
    BY <1>1, <1>2, <2>2, OpenedIs
  <2> QED
    BY <1>0, <2>1, <2>2
<1>4. InnermostIs(types, "object")
  <2>1. CASE what = "first key"
    BY <1>1, <1>2, <2>1, OpenedIs
  <2>2. CASE what = "key"
    BY <1>1, <2>2 DEF Fitting
  <2> QED
    BY <1>0, <2>1, <2>2
<1>5. open # <<>> /\ types[Len(types)] = "object"
  <2>1. types # <<>> /\ types[Len(types)] = "object"
    BY <1>4 DEF InnermostIs
  <2> QED
    BY <1>2, <2>1 DEF TypesAre, Stack
<1>6. /\ dom = DomOf(dom.memory, open, dom.element)
      /\ Heap(dom.memory) /\ Stack(dom.memory, open) /\ TypesAre(dom.memory, open, types)
      /\ Member(dom.memory, open[Len(open)], dom.element)
  BY <1>2, <1>5, KeyHandled
<1>7. dom.refs = open
  BY <1>6 DEF DomOf
<1>8. Fitting(dom.memory, open, dom.element, sts, next, "parsing")
  BY <1>0, <1>2, <1>3, <1>4, <1>5, <1>6 DEF Fitting
<1> QED
  BY <1>7, <1>8

\* The end of a container, an empty one included.
LEMMA EndFits ==
    ASSUME NEW mem, NEW open, NEW named, NEW sts, NEW what, NEW how, Fitting(mem, open, named, sts, what, how),
           what \in {"first key", "first element", "more", "member"},
           NEW dom, dom = EndContainer(DomOf(mem, open, named)),
           NEW rest, rest = IF what \in {"more", "member"} THEN Front(sts) ELSE sts
    PROVE  Fitting(dom.memory, dom.refs, dom.element, rest, After(rest), "parsing")
<1>1. PICK types : types = Opened(sts, what)
  OBVIOUS
<1>2. sts \in Seq({"array", "object"}) /\ Heap(mem) /\ Stack(mem, open) /\ TypesAre(mem, open, types)
  BY <1>1 DEF Fitting
<1>3. types # <<>> /\ Front(types) = rest
  <2>1. CASE what = "first key"
    <3>1. rest = sts /\ types = Append(sts, "object")
      BY <1>1, <1>2, <2>1, OpenedIs
    <3> QED
      BY <1>2, <3>1, OpenedIs DEF InnermostIs
  <2>2. CASE what = "first element"
    <3>1. rest = sts /\ types = Append(sts, "array")
      BY <1>1, <1>2, <2>2, OpenedIs
    <3> QED
      BY <1>2, <3>1, OpenedIs DEF InnermostIs
  <2>3. CASE what \in {"more", "member"}
    <3>1. rest = Front(sts) /\ types = sts
      BY <1>1, <1>2, <2>3, OpenedIs
    <3>2. types # <<>>
      BY <1>1, <2>3 DEF Fitting, InnermostIs
    <3> QED
      BY <3>1, <3>2
  <2> QED
    BY <2>1, <2>2, <2>3
<1>4. dom.memory = mem /\ dom.refs = Front(open) /\ dom.element = named
  BY DEF EndContainer, DomOf
<1>5. Fitting(mem, Front(open), named, rest, After(rest), "parsing")
  BY <1>2, <1>3, ContainerClosed
<1> QED
  BY <1>4, <1>5

\* The steps that read a token, and change what the next one is taken for.
AfterToken(what, sts, sts2, next) ==
    \/ what = "first element" /\ sts2 = Append(sts, "array") /\ next = "value"
    \/ what = "first separator" /\ sts2 = Append(sts, "object") /\ next = "value"
    \/ what \in {"separator", "more"} /\ sts2 = sts /\ next = "value"
    \/ what = "member" /\ sts2 = sts /\ next = "key"
LEMMA TokenFits ==
    ASSUME NEW mem, NEW open, NEW named, NEW sts, NEW what, NEW how, Fitting(mem, open, named, sts, what, how),
           NEW sts2, NEW next, AfterToken(what, sts, sts2, next)
    PROVE  Fitting(mem, open, named, sts2, next, "parsing")
<1>1. PICK types : types = Opened(sts, what)
  OBVIOUS
<1>2. sts \in Seq({"array", "object"}) /\ Heap(mem) /\ Stack(mem, open) /\ TypesAre(mem, open, types)
  BY <1>1 DEF Fitting
<1>3. sts2 \in Seq({"array", "object"}) /\ Opened(sts2, next) = types
  <2>1. CASE what = "first element" /\ sts2 = Append(sts, "array") /\ next = "value"
    <3>1. sts2 \in Seq({"array", "object"}) /\ types = sts2
      BY <1>1, <1>2, <2>1, OpenedIs
    <3> QED
      BY <2>1, <3>1, OpenedIs
  <2>2. CASE what = "first separator" /\ sts2 = Append(sts, "object") /\ next = "value"
    <3>1. sts2 \in Seq({"array", "object"}) /\ types = sts2
      BY <1>1, <1>2, <2>2, OpenedIs
    <3> QED
      BY <2>2, <3>1, OpenedIs
  <2>3. CASE what \in {"separator", "more", "member"} /\ sts2 = sts /\ next \in {"value", "key"}
    <3>1. types = sts
      BY <1>1, <1>2, <2>3, OpenedIs
    <3> QED
      BY <1>2, <2>3, <3>1, OpenedIs
  <2> QED
    BY <2>1, <2>2, <2>3 DEF AfterToken
<1>4. /\ what \in {"first element", "more"} => InnermostIs(types, "array")
      /\ what \in {"first separator", "separator", "member"} => InnermostIs(types, "object")
  <2>1. ASSUME what = "first element" PROVE InnermostIs(types, "array")
    <3>1. types = Append(sts, "array")
      BY <1>1, <1>2, <2>1, OpenedIs
    <3> QED
      BY <1>2, <3>1, OpenedIs
  <2>2. ASSUME what = "first separator" PROVE InnermostIs(types, "object")
    <3>1. types = Append(sts, "object")
      BY <1>1, <1>2, <2>2, OpenedIs
    <3> QED
      BY <1>2, <3>1, OpenedIs
  <2> QED
    BY <1>1, <2>1, <2>2 DEF Fitting
<1>5. open # <<>>
  <2>1. types # <<>>
    BY <1>4 DEF InnermostIs, AfterToken
  <2> QED
    BY <1>2, <2>1 DEF TypesAre, Stack
<1>6. next = "value" /\ InnermostIs(types, "object") => Member(mem, open[Len(open)], named)
  <2>1. ASSUME next = "value", InnermostIs(types, "object") PROVE Member(mem, open[Len(open)], named)
    <3>1. what # "more" /\ what # "first element"
      BY <1>4, <2>1 DEF InnermostIs
    <3>2. what \in {"first separator", "separator"}
      BY <2>1, <3>1 DEF AfterToken
    <3> QED
      BY <1>1, <2>1, <3>2 DEF Fitting
  <2> QED
    BY <2>1
<1> QED
  BY <1>2, <1>3, <1>4, <1>5, <1>6 DEF Fitting, AfterToken

-----------------------------------------------------------------------------
(* The invariant, and what it says of the pointers.                        *)

\* ParseInit: a root that holds nothing yet.
LEMMA ParserInvInit ==
    ASSUME NEW in, NEW bytes, NEW how, how # "accepted", ParseInit(in, bytes, how)
    PROVE  ParserInv
<1>1. PICK mem : mem = <<Freed>>
  OBVIOUS
<1>2. memory = mem /\ refs = <<>> /\ states = <<>> /\ expects = "value" /\ outcome # "accepted"
  BY <1>1 DEF ParseInit
<1>3. IsSeq(mem) /\ DOMAIN mem = {1} /\ mem[1] = Freed /\ Len(mem) = 1
  <2>1. DOMAIN mem = 1..1 /\ Len(mem) = 1 /\ mem[1] = Freed /\ mem = [i \in 1..1 |-> mem[i]]
    BY <1>1
  <2>2. IsSeq(mem)
    BY <2>1, FunctionIsSeq
  <2> QED
    BY <2>1, <2>2
<1>4. Slots(mem, 1) = {} /\ mem[1][1] # "array"
  BY <1>3 DEF Slots, IsContainer, Freed
<1>5. Heap(mem)
  BY <1>3, <1>4 DEF Heap
<1>6. Stack(mem, <<>>) /\ TypesAre(mem, <<>>, <<>>)
  BY DEF Stack, TypesAre
<1>7. Opened(<<>>, "value") = <<>>
  BY DEF Opened
<1>8. Fitting(mem, <<>>, element, <<>>, "value", outcome)
  BY <1>2, <1>3, <1>5, <1>6, <1>7 DEF Fitting, InnermostIs
<1> QED
  BY <1>2, <1>8 DEF ParserInv

\* Every step keeps the invariant.
LEMMA ParserInvStep ==
    ParserInv /\ [ParseStep]_parseVars => ParserInv'
<1> SUFFICES ASSUME ParserInv, [ParseStep]_parseVars PROVE ParserInv'
  OBVIOUS
<1>0. Fitting(memory, refs, element, states, expects, outcome) /\ Dom = DomOf(memory, refs, element)
  BY DEF ParserInv, Dom, DomOf
<1>1. SUFFICES Fitting(memory', refs', element', states', expects', outcome')
  BY DEF ParserInv
<1>2. CASE ParseScalar
  <2>1. expects = "value" /\ outcome = "parsing" /\ IsNew(ScalarRead)
    BY <1>2, ScalarIsNew DEF ParseScalar, TokenRead
  <2>2. CASE IsFinite(ScalarRead)
    <3>1. PICK dom : dom = HandleValue(Dom, ScalarRead).dom
      OBVIOUS
    <3>2. memory' = dom.memory /\ refs' = dom.refs /\ element' = dom.element
      BY <1>2, <2>2, <3>1 DEF ParseScalar, Becomes
    <3>3. states' = states /\ expects' = After(states) /\ outcome' = "parsing"
      BY <1>2, <2>1, <2>2 DEF ParseScalar, ValueEnds, Next1, After
    <3>4. Fitting(memory, refs, element, states, "value", outcome)
      BY <1>0, <2>1
    <3>5. Fitting(dom.memory, dom.refs, dom.element, states, After(states), "parsing")
      BY <1>0, <2>1, <3>1, <3>4, ScalarFits
    <3> QED
      BY <3>2, <3>3, <3>5
  <2>3. CASE ~IsFinite(ScalarRead)
    <3>1. /\ memory' = memory /\ refs' = refs /\ element' = element
          /\ states' = states /\ expects' = expects /\ outcome' = "406"
      BY <1>2, <2>3 DEF ParseScalar, Error, domVars
    <3>2. Fitting(memory, refs, element, states, expects, "406")
      BY <1>0, EndsWith
    <3> QED
      BY <3>1, <3>2
  <2> QED
    BY <2>2, <2>3
<1>3. ASSUME NEW type, NEW what, Begins(type, what), expects = "value",
             Becomes(StartContainer(Dom, type)),
             states' = states, expects' = what, outcome' = outcome, outcome = "parsing"
      PROVE  Fitting(memory', refs', element', states', expects', outcome')
  <2>1. PICK dom : dom = StartContainer(Dom, type)
    OBVIOUS
  <2>2. memory' = dom.memory /\ refs' = dom.refs /\ element' = dom.element
    BY <1>3, <2>1 DEF Becomes
  <2>3. Fitting(memory, refs, element, states, "value", outcome)
    BY <1>0, <1>3
  <2>4. Fitting(dom.memory, dom.refs, dom.element, states, what, "parsing")
    BY <1>0, <1>3, <2>1, <2>3, ContainerFits
  <2>5. states' = states /\ expects' = what /\ outcome' = "parsing"
    BY <1>3
  <2> QED
    BY <2>2, <2>4, <2>5
<1>4. CASE BeginObject
  <2>1. Begins("object", "first key")
    BY DEF Begins
  <2>2. expects = "value" /\ outcome = "parsing" /\ expects' = "first key" /\ outcome' = outcome /\ states' = states
    BY <1>4 DEF BeginObject, TokenRead, Next1
  <2>3. Becomes(StartContainer(Dom, "object"))
    BY <1>4 DEF BeginObject
  <2> QED
    BY <1>3, <2>1, <2>2, <2>3
<1>5. CASE BeginArray
  <2>1. Begins("array", "first element")
    BY DEF Begins
  <2>2. expects = "value" /\ outcome = "parsing" /\ expects' = "first element" /\ outcome' = outcome /\ states' = states
    BY <1>5 DEF BeginArray, TokenRead, Next1
  <2>3. Becomes(StartContainer(Dom, "array"))
    BY <1>5 DEF BeginArray
  <2> QED
    BY <1>3, <2>1, <2>2, <2>3
<1>6. ASSUME EndEmpty \/ EndOfContainer
      PROVE  Fitting(memory', refs', element', states', expects', outcome')
  <2>1. expects \in {"first key", "first element", "more", "member"} /\ outcome = "parsing"
    BY <1>6 DEF EndEmpty, EndOfContainer, TokenRead
  <2>2. PICK dom : dom = EndContainer(Dom)
    OBVIOUS
  <2>3. memory' = dom.memory /\ refs' = dom.refs /\ element' = dom.element
    BY <1>6, <2>2 DEF EndEmpty, EndOfContainer, Becomes
  <2>4. PICK rest : rest = IF expects \in {"more", "member"} THEN Front(states) ELSE states
    OBVIOUS
  <2>5. states' = rest /\ expects' = After(rest) /\ outcome' = outcome
    <3>1. CASE EndEmpty
      <4>1. expects \notin {"more", "member"}
        BY <3>1 DEF EndEmpty, TokenRead
      <4> QED
        BY <2>4, <3>1, <4>1 DEF EndEmpty, ValueEnds, Next1, After
    <3>2. CASE EndOfContainer
      <4>1. expects \in {"more", "member"}
        BY <3>2 DEF EndOfContainer, TokenRead
      <4> QED
        BY <2>4, <3>2, <4>1 DEF EndOfContainer, ValueEnds, Next1, After
    <3> QED
      BY <1>6, <3>1, <3>2
  <2>6. Fitting(dom.memory, dom.refs, dom.element, rest, After(rest), "parsing")
    BY <1>0, <2>1, <2>2, <2>4, EndFits
  <2> QED
    BY <2>1, <2>3, <2>5, <2>6
<1>7. ASSUME AfterToken(expects, states, states', expects'), UNCHANGED <<domVars, outcome>>, outcome = "parsing"
      PROVE  Fitting(memory', refs', element', states', expects', outcome')
  <2>1. memory' = memory /\ refs' = refs /\ element' = element /\ outcome' = "parsing"
    BY <1>7 DEF domVars
  <2>2. Fitting(memory, refs, element, states', expects', "parsing")
    BY <1>0, <1>7, TokenFits
  <2> QED
    BY <2>1, <2>2
<1>8. CASE FirstElement
  <2>1. expects = "first element" /\ states' = Append(states, "array") /\ expects' = "value"
    BY <1>8 DEF FirstElement, TokenRead
  <2>2. AfterToken(expects, states, states', expects')
    BY <2>1 DEF AfterToken
  <2>3. UNCHANGED <<domVars, outcome>> /\ outcome = "parsing"
    BY <1>8 DEF FirstElement, TokenRead
  <2> QED
    BY <1>7, <2>2, <2>3
<1>9. CASE NameSeparator
  <2>1. \/ expects = "first separator" /\ states' = Append(states, "object") /\ expects' = "value"
        \/ expects = "separator" /\ states' = states /\ expects' = "value"
    BY <1>9 DEF NameSeparator, TokenRead, Next1
  <2>2. AfterToken(expects, states, states', expects')
    BY <2>1 DEF AfterToken
  <2>3. UNCHANGED <<domVars, outcome>> /\ outcome = "parsing"
    BY <1>9 DEF NameSeparator, TokenRead, Next1
  <2> QED
    BY <1>7, <2>2, <2>3
<1>10. CASE ValueSeparator
  <2>1. \/ expects = "more" /\ states' = states /\ expects' = "value"
        \/ expects = "member" /\ states' = states /\ expects' = "key"
    BY <1>10 DEF ValueSeparator, TokenRead, Next1
  <2>2. AfterToken(expects, states, states', expects')
    BY <2>1 DEF AfterToken
  <2>3. UNCHANGED <<domVars, outcome>> /\ outcome = "parsing"
    BY <1>10 DEF ValueSeparator, TokenRead, Next1
  <2> QED
    BY <1>7, <2>2, <2>3
<1>11. CASE ParseKey
  <2>1. outcome = "parsing" /\ outcome' = outcome /\ states' = states /\ AfterKey(expects, expects')
    BY <1>11 DEF ParseKey, TokenRead, Next1, AfterKey
  <2>2. PICK dom : dom = KeyOf(Dom, buffer)
    OBVIOUS
  <2>3. memory' = dom.memory /\ refs' = dom.refs /\ element' = dom.element
    BY <1>11, <2>2 DEF ParseKey, Becomes
  <2>4. Fitting(dom.memory, dom.refs, dom.element, states, expects', "parsing")
    BY <1>0, <2>1, <2>2, KeyFits
  <2> QED
    BY <2>1, <2>3, <2>4
<1>12. ASSUME UNCHANGED <<states, expects, domVars>>, outcome' = "accepted" => expects = "end"
       PROVE  Fitting(memory', refs', element', states', expects', outcome')
  <2>1. memory' = memory /\ refs' = refs /\ element' = element /\ states' = states /\ expects' = expects
    BY <1>12 DEF domVars
  <2>2. Fitting(memory, refs, element, states, expects, outcome')
    BY <1>0, <1>12, EndsWith
  <2> QED
    BY <2>1, <2>2
<1>13. CASE Accept
  BY <1>12, <1>13 DEF Accept, TokenRead
<1>14. CASE ParseError
  <2>1. UNCHANGED <<states, expects, domVars>> /\ outcome' = "101"
    BY <1>14 DEF ParseError, Error
  <2> QED
    BY <1>12, <2>1
<1>15. CASE outcome = "parsing" /\ LexStep /\ UNCHANGED <<states, expects, domVars, outcome>>
  BY <1>12, <1>15
<1>16. CASE UNCHANGED parseVars
  <2>1. UNCHANGED <<states, expects, domVars>> /\ outcome' = outcome
    BY <1>16 DEF parseVars
  <2>2. outcome = "accepted" => expects = "end"
    BY <1>0 DEF Fitting
  <2> QED
    BY <1>12, <2>1, <2>2
<1> QED
  BY <1>2, <1>4, <1>5, <1>6, <1>8, <1>9, <1>10, <1>11, <1>13, <1>14, <1>15, <1>16 DEF ParseStep

\* No address the builder keeps is one a growing array has left, and what it
\* takes for the innermost container and for the element of a key is that:
\* ref_stack is a path of containers from the root, of the types the parser
\* counts; where a member's value is read, object_element is a member of the
\* innermost object; every element of a container is alive and in one place.
\* A text that is accepted leaves a value, and no container open.
PointersAreLive ==
    LET types == Opened(states, expects) IN
    /\ Len(refs) = Len(types) /\ \A i \in 1..Len(refs) : IsLive(memory, refs[i]) /\ memory[refs[i]][1] = types[i]
    /\ refs # <<>> => refs[1] = 1
    /\ \A i \in 1..Len(refs) : i # 1 => Member(memory, refs[i - 1], refs[i])
    /\ expects = "value" /\ InnermostIs(types, "object") =>
          IsLive(memory, element) /\ Member(memory, refs[Len(refs)], element)
    /\ \A a, b \in DOMAIN memory : \A k \in Slots(memory, a), l \in Slots(memory, b) :
          /\ IsLive(memory, At(memory, a, k))
          /\ At(memory, a, k) = At(memory, b, l) => a = b /\ k = l
    /\ outcome = "accepted" => refs = <<>> /\ IsLive(memory, 1)

\* The invariant implies the property.
LEMMA InvKeepsPointers == ParserInv => PointersAreLive
<1> SUFFICES ASSUME ParserInv PROVE PointersAreLive
  OBVIOUS
<1>1. PICK types : types = Opened(states, expects)
  OBVIOUS
<1>2. Heap(memory) /\ Stack(memory, refs) /\ TypesAre(memory, refs, types)
  BY <1>1 DEF ParserInv, Fitting
<1>3. Len(refs) = Len(types) /\ \A i \in 1..Len(refs) : memory[refs[i]][1] = types[i]
  BY <1>2 DEF TypesAre
<1>4. \A i \in 1..Len(refs) : IsLive(memory, refs[i])
  BY <1>2 DEF Stack, IsLive, IsContainer
<1>5. refs # <<>> => refs[1] = 1
  BY <1>2 DEF Stack
<1>6. \A i \in 1..Len(refs) : i # 1 => Member(memory, refs[i - 1], refs[i])
  BY <1>2 DEF Stack, Member
<1>7. ASSUME expects = "value", InnermostIs(types, "object")
      PROVE  IsLive(memory, element) /\ Member(memory, refs[Len(refs)], element)
  <2>1. Member(memory, refs[Len(refs)], element)
    BY <1>1, <1>7 DEF ParserInv, Fitting
  <2>2. refs[Len(refs)] \in DOMAIN memory
    <3>1. types # <<>>
      BY <1>7 DEF InnermostIs
    <3>2. refs # <<>>
      BY <1>2, <3>1 DEF Stack, TypesAre
    <3> QED
      BY <1>2, <3>2, TopIs
  <2>3. IsLive(memory, element)
    BY <1>2, <2>1, <2>2 DEF Member, Heap
  <2> QED
    BY <2>1, <2>3
<1>8. \A a, b \in DOMAIN memory : \A k \in Slots(memory, a), l \in Slots(memory, b) :
          /\ IsLive(memory, At(memory, a, k))
          /\ At(memory, a, k) = At(memory, b, l) => a = b /\ k = l
  BY <1>2 DEF Heap
<1>9. ASSUME outcome = "accepted" PROVE refs = <<>> /\ IsLive(memory, 1)
  <2>1. types = <<>> /\ expects = "end"
    BY <1>1, <1>9 DEF ParserInv, Fitting
  <2>2. refs = <<>>
    BY <1>2, <2>1 DEF TypesAre, Stack
  <2> QED
    BY <2>1, <2>2 DEF ParserInv, Fitting
<1> QED
  BY <1>1, <1>3, <1>4, <1>5, <1>6, <1>7, <1>8, <1>9 DEF PointersAreLive

\* PointersAreLive holds of every text, of any length and nesting.
THEOREM ParserKeepsItsPointers ==
    ASSUME NEW in, NEW bytes, NEW how, how # "accepted"
    PROVE  ParseInit(in, bytes, how) /\ [][ParseStep]_parseVars => []PointersAreLive
<1>1. ParseInit(in, bytes, how) => ParserInv
  BY ParserInvInit
<1>2. ParserInv /\ [ParseStep]_parseVars => ParserInv'
  BY ParserInvStep
<1>3. ParserInv => PointersAreLive
  BY InvKeepsPointers
<1> QED
  BY <1>1, <1>2, <1>3, PTL

=============================================================================
