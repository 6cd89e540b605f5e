---------------------------- MODULE EngineProofs ----------------------------
(***************************************************************************)
(* Proofs about module Engine: type correctness, the index is a replay of  *)
(* the log, a reader without the lock finds the record it located, a torn  *)
(* tail spares what lies before it, and the engine implements KVStore.     *)
(***************************************************************************)
EXTENDS EngineRefinement, TLAPS

-----------------------------------------------------------------------------
(* Records, their encoding, and whole records at the start of a file.      *)

\* A record is at least a header and a key long (Codec::Encode).
LEMMA RecLenNat == \A rec \in Records : RecLen(rec) \in Nat /\ RecLen(rec) >= 2
BY ConstantsAssumption DEF Records, RecLen, NORMAL, DELETED

\* The fields of a unit.
LEMMA UnitFields == \A rec, i : Unit(rec, i).rec = rec /\ Unit(rec, i).part = i
BY DEF Unit

\* Encode yields the units of the record, in order.
LEMMA EncodeUnits ==
    ASSUME NEW rec \in Records
    PROVE  /\ Encode(rec) \in Seq(Units)
           /\ Len(Encode(rec)) = RecLen(rec)
           /\ \A i \in 1..RecLen(rec) : Encode(rec)[i] = Unit(rec, i)
<1>1. RecLen(rec) \in Nat
  BY RecLenNat
<1>2. \A i \in 1..RecLen(rec) : Unit(rec, i) \in Units
  BY <1>1 DEF Unit, Units
<1> QED
  BY <1>1, <1>2 DEF Encode

\* A unit of a file names a record and its place in it.
LEMMA UnitType ==
    ASSUME NEW f \in Seq(Units), NEW i \in 1..Len(f)
    PROVE  /\ f[i] \in Units /\ f[i].rec \in Records
           /\ f[i].part \in Nat /\ f[i].part >= 1
           /\ RecLen(f[i].rec) \in Nat /\ RecLen(f[i].rec) >= 2
<1>1. f[i] \in Units
  OBVIOUS
<1>2. f[i].rec \in Records /\ f[i].part \in Nat /\ f[i].part >= 1
  BY <1>1 DEF Units
<1> QED
  BY <1>1, <1>2, RecLenNat

\* The units of a whole record at an offset are its own.
LEMMA IntactUnits ==
    ASSUME NEW f \in Seq(Units), NEW o \in Nat, IntactAt(f, o)
    PROVE  /\ RecordAt(f, o) \in Records
           /\ o + RecLen(RecordAt(f, o)) <= Len(f)
           /\ \A i \in 1..RecLen(RecordAt(f, o)) :
                 f[o + i].rec = RecordAt(f, o) /\ f[o + i].part = i
<1>1. o + 1 \in 1..Len(f)
  BY DEF IntactAt
<1>2. RecordAt(f, o) \in Records
  BY <1>1, UnitType DEF RecordAt
<1>3. /\ o + RecLen(RecordAt(f, o)) <= Len(f)
      /\ \A i \in 1..RecLen(RecordAt(f, o)) : f[o + i] = Unit(RecordAt(f, o), i)
  BY DEF IntactAt, RecordAt
<1> QED
  BY <1>2, <1>3, UnitFields

\* Whole records stay whole in a file with the same beginning.
LEMMA WellFormedPrefix ==
    ASSUME NEW f \in Seq(Units), NEW g \in Seq(Units), NEW n \in Nat,
           n <= Len(f), n <= Len(g), \A i \in 1..n : f[i] = g[i],
           WellFormed(f, n)
    PROVE  WellFormed(g, n)
<1> SUFFICES ASSUME NEW i \in 1..n
             PROVE  LET rec == g[i].rec  start == i - g[i].part IN
                    /\ start >= 0
                    /\ g[i].part <= RecLen(rec)
                    /\ start + RecLen(rec) <= n
                    /\ \A j \in 1..RecLen(rec) : g[start + j] = Unit(rec, j)
  BY DEF WellFormed
<1>1. f[i] = g[i] /\ i \in 1..Len(f)
  OBVIOUS
<1>2. /\ i - f[i].part >= 0
      /\ f[i].part <= RecLen(f[i].rec)
      /\ i - f[i].part + RecLen(f[i].rec) <= n
      /\ \A j \in 1..RecLen(f[i].rec) : f[i - f[i].part + j] = Unit(f[i].rec, j)
  BY DEF WellFormed
<1>3. f[i].part \in Nat /\ RecLen(f[i].rec) \in Nat
  BY <1>1, UnitType
<1>4. \A j \in 1..RecLen(f[i].rec) : i - f[i].part + j \in 1..n
  BY <1>2, <1>3
<1> QED
  BY <1>1, <1>2, <1>3, <1>4

\* One more whole record after whole records makes whole records.
LEMMA WellFormedExtend ==
    ASSUME NEW f \in Seq(Units), NEW n \in Nat,
           n <= Len(f), WellFormed(f, n), IntactAt(f, n)
    PROVE  WellFormed(f, n + RecLen(RecordAt(f, n)))
<1> DEFINE rec == RecordAt(f, n)
           m == n + RecLen(rec)
<1>1. /\ rec \in Records /\ m <= Len(f)
      /\ RecLen(rec) \in Nat
      /\ \A i \in 1..RecLen(rec) : f[n + i] = Unit(rec, i)
  BY IntactUnits, RecLenNat DEF IntactAt, RecordAt
<1> HIDE DEF rec
<1> SUFFICES ASSUME NEW i \in 1..m
             PROVE  LET r == f[i].rec  start == i - f[i].part IN
                    /\ start >= 0
                    /\ f[i].part <= RecLen(r)
                    /\ start + RecLen(r) <= m
                    /\ \A j \in 1..RecLen(r) : f[start + j] = Unit(r, j)
  BY DEF WellFormed, rec
<1>2. CASE i <= n
  <2>1. i \in 1..n /\ i \in 1..Len(f)
    BY <1>1, <1>2
  <2>2. f[i].part \in Nat /\ RecLen(f[i].rec) \in Nat
    BY <2>1, UnitType
  <2> QED
    BY <1>1, <2>1, <2>2 DEF WellFormed
<1>3. CASE i > n
  <2>1. i - n \in 1..RecLen(rec) /\ n + (i - n) = i
    BY <1>1, <1>3
  <2>2. f[i].rec = rec /\ f[i].part = i - n
    <3>1. f[n + (i - n)] = Unit(rec, i - n)
      BY <1>1, <2>1
    <3> QED
      BY <3>1, <2>1, UnitFields
  <2> QED
    BY <1>1, <2>1, <2>2
<1> QED
  BY <1>1, <1>2, <1>3

\* Where whole records stop, nothing whole begins: a longer stretch of whole records
\* would need a whole record right there.
LEMMA WellFormedStop ==
    ASSUME NEW f \in Seq(Units), NEW n \in Nat, NEW m \in Nat,
           n < m, m <= Len(f), WellFormed(f, n), WellFormed(f, m)
    PROVE  IntactAt(f, n)
<1> DEFINE i == n + 1
           rec == f[i].rec
           start == i - f[i].part
<1>1. i \in 1..m /\ i \in 1..Len(f)
  OBVIOUS
<1>2. /\ start >= 0 /\ f[i].part <= RecLen(rec) /\ start + RecLen(rec) <= m
      /\ \A j \in 1..RecLen(rec) : f[start + j] = Unit(rec, j)
  BY <1>1 DEF WellFormed
<1>3. f[i].part \in Nat /\ f[i].part >= 1 /\ RecLen(rec) \in Nat /\ rec \in Records
  BY <1>1, UnitType
<1>4. f[i].part = 1
  <2> SUFFICES ASSUME f[i].part # 1 PROVE FALSE
    OBVIOUS
  <2>1. f[i].part - 1 \in 1..RecLen(rec) /\ start + (f[i].part - 1) = n /\ n \in 1..n
    <3>1. i = n + 1 /\ start = i - f[i].part
      OBVIOUS
    <3> HIDE DEF i, rec, start
    <3>2. f[i].part >= 2 /\ f[i].part <= RecLen(rec) /\ start >= 0
      BY <1>2, <1>3
    <3>3. start + f[i].part = n + 1
      BY <3>1, <1>3
    <3>4. start \in Int
      BY <3>1, <1>3
    <3>5. \A x, l, s \in Int : x >= 2 /\ x <= l /\ s >= 0 /\ s + x = n + 1 =>
            x - 1 \in 1..l /\ s + (x - 1) = n /\ n \in 1..n
      OBVIOUS
    <3>6. f[i].part \in Int /\ RecLen(rec) \in Int
      BY <1>3
    <3> QED
      BY <3>2, <3>3, <3>4, <3>5, <3>6
  <2>2. f[n].rec = rec /\ f[n].part = f[i].part - 1
    <3>1. f[start + (f[i].part - 1)] = Unit(rec, f[i].part - 1)
      BY <1>2, <2>1
    <3> QED
      BY <3>1, <2>1, UnitFields
  <2>3. n - f[n].part + RecLen(f[n].rec) <= n
    BY <2>1 DEF WellFormed
  <2> QED
    BY <2>2, <2>3, <1>2, <1>3
<1> QED
  BY <1>1, <1>2, <1>3, <1>4 DEF IntactAt

\* The record that begins in a stretch of whole records lies whole in it.
LEMMA WellFormedStart ==
    ASSUME NEW f \in Seq(Units), NEW n \in Nat, n <= Len(f), WellFormed(f, n),
           NEW o \in Nat, o < n, f[o + 1].part = 1
    PROVE  IntactAt(f, o) /\ o + RecLen(RecordAt(f, o)) <= n
<1>1. o + 1 \in 1..n /\ o + 1 \in 1..Len(f)
  OBVIOUS
<1> DEFINE rec == f[o + 1].rec
<1>2. /\ (o + 1) - 1 + RecLen(rec) <= n
      /\ \A j \in 1..RecLen(rec) : f[(o + 1) - 1 + j] = Unit(rec, j)
  BY <1>1 DEF WellFormed
<1>3. RecLen(rec) \in Nat
  BY <1>1, UnitType
<1>4. (o + 1) - 1 = o
  OBVIOUS
<1> HIDE DEF rec
<1>5. /\ o + RecLen(rec) <= n
      /\ \A j \in 1..RecLen(rec) : f[o + j] = Unit(rec, j)
  BY <1>2, <1>4
<1> QED
  BY <1>1, <1>3, <1>5 DEF IntactAt, RecordAt, rec

-----------------------------------------------------------------------------
(* The log: the records of all the files, in the order of their positions. *)

\* Every data file is a sequence of units.
LEMMA FileType ==
    ASSUME NEW f \in Seq(Units), NEW i \in 0..ActiveId
    PROVE  File(f, i) \in Seq(Units)
<1>1. Len(Archive) \in Nat /\ \A j \in 1..Len(Archive) : Archive[j] \in Seq(Units)
  BY ArchiveAssumption
<1> QED
  BY <1>1 DEF File, ActiveId

\* The positions of the log are the positions at which a replay finds a record.
LEMMA LogPositionsDef ==
    ASSUME NEW f \in Seq(Units), NEW p
    PROVE  p \in LogPositions(f) <=> p \in Positions /\ Logged(f, p)
<1>1. ASSUME p \in LogPositions(f) PROVE p \in Positions /\ Logged(f, p)
  <2>1. PICK i \in 0..ActiveId : p \in {q \in {Position(i, o) : o \in 0..Len(File(f, i))} : Logged(f, q)}
    BY <1>1 DEF LogPositions
  <2>2. PICK o \in 0..Len(File(f, i)) : p = Position(i, o)
    BY <2>1
  <2>3. File(f, i) \in Seq(Units)
    BY FileType
  <2> QED
    BY <2>1, <2>2, <2>3 DEF Positions, Position
<1>2. ASSUME p \in Positions, Logged(f, p) PROVE p \in LogPositions(f)
  <2>1. p.file_id \in 0..ActiveId /\ p.offset \in Nat /\ p = Position(p.file_id, p.offset)
    BY <1>2 DEF Positions, Position
  <2>2. File(f, p.file_id) \in Seq(Units)
    BY <2>1, FileType
  <2>3. p.offset + 1 \in 1..Len(File(f, p.file_id))
    BY <1>2 DEF Logged
  <2>4. p.offset \in 0..Len(File(f, p.file_id))
    BY <2>1, <2>2, <2>3
  <2> QED
    BY <1>2, <2>1, <2>4 DEF LogPositions
<1> QED
  BY <1>1, <1>2

\* At a position of the log there is a whole record.
LEMMA LoggedRecord ==
    ASSUME NEW f \in Seq(Units), NEW p \in LogPositions(f)
    PROVE  /\ p \in Positions
           /\ p.file_id \in 0..ActiveId
           /\ p.offset \in Nat
           /\ p # NoPos
           /\ Record(f, p) \in Records
           /\ IntactAt(File(f, p.file_id), p.offset)
<1> DEFINE g == File(f, p.file_id)
           rec == RecordAt(g, p.offset)
<1>1. p \in Positions /\ Logged(f, p)
  BY LogPositionsDef
<1>2. p.file_id \in 0..ActiveId /\ p.offset \in Nat /\ ActiveId \in Nat
  BY <1>1, ArchiveAssumption DEF Positions, ActiveId
<1>3. g \in Seq(Units)
  BY <1>2, FileType
<1>4. p.offset + 1 \in 1..Len(g) /\ g[p.offset + 1].part = 1
  BY <1>1 DEF Logged
<1>5. rec \in Records /\ RecLen(rec) \in Nat /\ RecLen(rec) >= 2
  BY <1>3, <1>4, UnitType DEF RecordAt
<1>6. p.offset + RecLen(rec) <= Len(g) /\ WellFormed(g, p.offset + RecLen(rec))
  BY <1>1 DEF Logged
<1> HIDE DEF g
<1>7. IntactAt(g, p.offset)
  <2>1. p.offset + RecLen(rec) \in Nat /\ p.offset < p.offset + RecLen(rec)
    BY <1>2, <1>5
  <2> HIDE DEF rec
  <2> QED
    BY <1>2, <1>3, <1>4, <1>6, <2>1, WellFormedStart
<1> QED
  BY <1>1, <1>2, <1>5, <1>7 DEF NoPos, Record, g

\* Two limits with the same records before them have the same replay.
LEMMA SameReplay ==
    ASSUME NEW f, NEW idx, NEW l1, NEW l2, IsReplay(f, idx, l1),
           \A p \in LogPositions(f) : Before(p, l1) <=> Before(p, l2)
    PROVE  IsReplay(f, idx, l2)
<1>1. \A k, p : Latest(f, k, p, l1) <=> Latest(f, k, p, l2)
  BY DEF Latest
<1> QED
  BY <1>1 DEF IsReplay

\* Positions of the log are ordered.
LEMMA BeforeOrder ==
    ASSUME NEW f \in Seq(Units), NEW p \in LogPositions(f), NEW q \in LogPositions(f)
    PROVE  /\ ~Before(p, p)
           /\ Before(p, q) => ~Before(q, p)
<1>1. ActiveId \in Nat
  BY ArchiveAssumption DEF ActiveId
<1>2. p.file_id \in Nat /\ p.offset \in Nat /\ q.file_id \in Nat /\ q.offset \in Nat
  BY <1>1, LoggedRecord
<1> QED
  BY <1>2 DEF Before

\* Replaying one more record: a put enters its position in the index, a tombstone
\* takes its key out of it (LoadIndexFromFile, Put and Delete alike).
LEMMA ReplayOneMore ==
    ASSUME NEW f \in Seq(Units), NEW idx \in [Keys -> Positions \cup {NoPos}],
           NEW l1 \in LogPositions(f), NEW l2,
           IsReplay(f, idx, l1),
           \A p \in LogPositions(f) : Before(p, l2) <=> Before(p, l1) \/ p = l1
    PROVE  IsReplay(f, [idx EXCEPT ![Record(f, l1).key] =
                           IF Record(f, l1).type = NORMAL THEN l1 ELSE NoPos], l2)
<1> DEFINE k0 == Record(f, l1).key
           new == IF Record(f, l1).type = NORMAL THEN l1 ELSE NoPos
           idx2 == [idx EXCEPT ![k0] = new]
<1>1. Record(f, l1) \in Records /\ l1 # NoPos
  BY LoggedRecord
<1>2. k0 \in Keys /\ (Record(f, l1).type # NORMAL => Record(f, l1).type = DELETED)
  BY <1>1 DEF Records
<1>3. \A p : Latest(f, k0, p, l2) <=> p = l1
  BY BeforeOrder DEF Latest
<1>4. \A k \in Keys \ {k0} : \A p : Latest(f, k, p, l2) <=> Latest(f, k, p, l1)
  BY DEF Latest
<1>5. idx2[k0] = new /\ \A k \in Keys \ {k0} : idx2[k] = idx[k]
  BY <1>2
<1> HIDE DEF k0, new, idx2
<1>6. ASSUME NEW k \in Keys \ {k0}
      PROVE  /\ idx2[k] # NoPos => Latest(f, k, idx2[k], l2) /\ Record(f, idx2[k]).type = NORMAL
             /\ idx2[k] = NoPos =>
                   \A p \in LogPositions(f) : Latest(f, k, p, l2) => Record(f, p).type = DELETED
  BY <1>4, <1>5, <1>6 DEF IsReplay
<1>7. /\ idx2[k0] # NoPos => Latest(f, k0, idx2[k0], l2) /\ Record(f, idx2[k0]).type = NORMAL
      /\ idx2[k0] = NoPos =>
            \A p \in LogPositions(f) : Latest(f, k0, p, l2) => Record(f, p).type = DELETED
  BY <1>1, <1>2, <1>3, <1>5 DEF new
<1>8. IsReplay(f, idx2, l2)
  BY <1>2, <1>6, <1>7 DEF IsReplay
<1> QED
  BY <1>8 DEF idx2, k0, new

\* A record appended to whole records is whole, and so is the longer file.
LEMMA AppendWhole ==
    ASSUME NEW f \in Seq(Units), NEW rec \in Records, WellFormed(f, Len(f))
    PROVE  LET g == f \o Encode(rec) IN
           /\ g \in Seq(Units)
           /\ Len(g) = Len(f) + RecLen(rec)
           /\ \A i \in 1..Len(f) : g[i] = f[i]
           /\ IntactAt(g, Len(f)) /\ RecordAt(g, Len(f)) = rec
           /\ WellFormed(g, Len(g))
<1> DEFINE g == f \o Encode(rec)
<1>1. RecLen(rec) \in Nat /\ RecLen(rec) >= 2 /\ Len(f) \in Nat
  BY RecLenNat
<1>2. /\ Encode(rec) \in Seq(Units) /\ Len(Encode(rec)) = RecLen(rec)
      /\ \A i \in 1..RecLen(rec) : Encode(rec)[i] = Unit(rec, i)
  BY EncodeUnits
<1>3. /\ g \in Seq(Units) /\ Len(g) = Len(f) + RecLen(rec)
      /\ \A i \in 1..Len(f) : g[i] = f[i]
      /\ \A i \in 1..RecLen(rec) : g[Len(f) + i] = Encode(rec)[i]
  BY <1>1, <1>2
<1> HIDE DEF g
<1>4. \A i \in 1..RecLen(rec) : g[Len(f) + i] = Unit(rec, i)
  BY <1>2, <1>3
<1>5. g[Len(f) + 1].rec = rec
  BY <1>1, <1>4, UnitFields
<1>6. IntactAt(g, Len(f)) /\ RecordAt(g, Len(f)) = rec
  BY <1>1, <1>3, <1>4, <1>5 DEF IntactAt, RecordAt
<1>7. WellFormed(g, Len(f))
  BY <1>1, <1>3, WellFormedPrefix
<1>8. WellFormed(g, Len(g))
  BY <1>1, <1>3, <1>6, <1>7, WellFormedExtend
<1> QED
  BY <1>3, <1>6, <1>8 DEF g

\* Whole records at a position stay there when the file grows.
LEMMA IntactGrows ==
    ASSUME NEW f \in Seq(Units), NEW g \in Seq(Units), NEW o \in Nat,
           Len(f) <= Len(g), \A i \in 1..Len(f) : g[i] = f[i], IntactAt(f, o)
    PROVE  IntactAt(g, o) /\ RecordAt(g, o) = RecordAt(f, o)
<1> DEFINE rec == RecordAt(f, o)
<1>1. /\ o + 1 \in 1..Len(f)
      /\ rec \in Records /\ RecLen(rec) \in Nat /\ o + RecLen(rec) <= Len(f)
      /\ \A i \in 1..RecLen(rec) : f[o + i] = Unit(rec, i)
  BY IntactUnits, RecLenNat DEF IntactAt, RecordAt
<1>2. g[o + 1].rec = rec
  BY <1>1 DEF RecordAt
<1> HIDE DEF rec
<1>3. \A i \in 1..RecLen(rec) : o + i \in 1..Len(f)
  BY <1>1
<1>4. /\ o + 1 \in 1..Len(g) /\ o + RecLen(rec) <= Len(g)
      /\ \A i \in 1..RecLen(rec) : g[o + i] = Unit(rec, i)
  BY <1>1, <1>3
<1> QED
  BY <1>2, <1>4 DEF IntactAt, RecordAt, rec

\* A record appended to whole records adds one position to the log, at the old end.
LEMMA AppendedLog ==
    ASSUME NEW f \in Seq(Units), NEW rec \in Records, WellFormed(f, Len(f))
    PROVE  LET g == f \o Encode(rec)
               p0 == Position(ActiveId, Len(f)) IN
           /\ LogPositions(g) = LogPositions(f) \cup {p0}
           /\ p0 \notin LogPositions(f)
           /\ \A p \in LogPositions(f) : Record(g, p) = Record(f, p)
           /\ Record(g, p0) = rec
<1> DEFINE g == f \o Encode(rec)
           p0 == Position(ActiveId, Len(f))
<1>1. /\ g \in Seq(Units) /\ Len(g) = Len(f) + RecLen(rec)
      /\ \A i \in 1..Len(f) : g[i] = f[i]
      /\ IntactAt(g, Len(f)) /\ RecordAt(g, Len(f)) = rec /\ WellFormed(g, Len(g))
  BY AppendWhole
<1>2. /\ RecLen(rec) \in Nat /\ RecLen(rec) >= 2 /\ Len(f) \in Nat /\ ActiveId \in Nat
  BY RecLenNat, ArchiveAssumption DEF ActiveId
<1> HIDE DEF g
<1>3. /\ p0.file_id = ActiveId /\ p0.offset = Len(f) /\ p0 \in Positions
      /\ File(f, ActiveId) = f /\ File(g, ActiveId) = g
  BY <1>2 DEF Position, Positions, File
<1>4. Record(g, p0) = rec
  BY <1>1, <1>3 DEF Record
<1>5. p0 \in LogPositions(g)
  <2>1. g[Len(f) + 1].part = 1
    <3>1. g[Len(f) + 1] = Unit(rec, 1)
      BY <1>1, <1>2 DEF IntactAt, RecordAt
    <3> QED
      BY <3>1, UnitFields
  <2>2. Logged(g, p0)
    BY <1>1, <1>2, <1>3, <2>1 DEF Logged
  <2> QED
    BY <1>1, <1>3, <2>2, LogPositionsDef
<1>6. p0 \notin LogPositions(f)
  <2> SUFFICES ASSUME p0 \in LogPositions(f) PROVE FALSE
    OBVIOUS
  <2>1. p0.offset + 1 \in 1..Len(File(f, p0.file_id))
    BY LogPositionsDef DEF Logged
  <2> QED
    BY <2>1, <1>2, <1>3
<1> HIDE DEF p0
<1>7. ASSUME NEW p \in Positions, p.file_id # ActiveId
      PROVE  (p \in LogPositions(g) <=> p \in LogPositions(f)) /\ Record(g, p) = Record(f, p)
  <2>1. File(f, p.file_id) = File(g, p.file_id)
    BY <1>7 DEF File
  <2>2. Logged(f, p) <=> Logged(g, p)
    BY <2>1 DEF Logged
  <2> QED
    BY <1>1, <2>1, <2>2, LogPositionsDef DEF Record
<1>8. ASSUME NEW p \in LogPositions(f), p.file_id = ActiveId
      PROVE  p \in LogPositions(g) /\ Record(g, p) = Record(f, p)
  <2>1. p \in Positions /\ p.offset \in Nat /\ IntactAt(f, p.offset) /\ Logged(f, p)
    BY <1>3, <1>8, LoggedRecord, LogPositionsDef
  <2>2. IntactAt(g, p.offset) /\ RecordAt(g, p.offset) = RecordAt(f, p.offset)
    BY <1>1, <1>2, <2>1, IntactGrows
  <2>3. RecLen(RecordAt(f, p.offset)) \in Nat
    BY <2>1, IntactUnits, RecLenNat
  <2> DEFINE n == p.offset + RecLen(RecordAt(f, p.offset))
  <2>4. n <= Len(f) /\ WellFormed(f, n) /\ p.offset + 1 \in 1..Len(f) /\ f[p.offset + 1].part = 1
    BY <1>3, <1>8, <2>1 DEF Logged
  <2>5. n \in Nat /\ n <= Len(g) /\ \A i \in 1..n : f[i] = g[i]
    BY <1>1, <1>2, <2>1, <2>3, <2>4
  <2>6. WellFormed(g, n)
    <3> HIDE DEF n
    <3> QED
      BY <1>1, <2>4, <2>5, WellFormedPrefix
  <2>7. Logged(g, p)
    BY <1>1, <1>2, <1>3, <1>8, <2>1, <2>2, <2>4, <2>5, <2>6 DEF Logged
  <2> QED
    BY <1>1, <1>3, <1>8, <2>1, <2>2, <2>7, LogPositionsDef DEF Record
<1>9. ASSUME NEW p \in LogPositions(g), p.file_id = ActiveId, p # p0
      PROVE  p \in LogPositions(f)
  <2>1. p \in Positions /\ p.offset \in Nat /\ Logged(g, p)
    BY <1>1, LoggedRecord, LogPositionsDef
  <2>2. p.offset + 1 \in 1..Len(g) /\ g[p.offset + 1].part = 1
    BY <1>3, <1>9, <2>1 DEF Logged
  <2>3. p.offset # Len(f)
    BY <1>9, <2>1 DEF Positions, p0, Position
  <2>4. p.offset < Len(f)
    <3> SUFFICES ASSUME p.offset > Len(f) PROVE FALSE
      BY <1>2, <2>1, <2>3
    <3>1. p.offset + 1 - Len(f) \in 1..RecLen(rec) /\ p.offset + 1 - Len(f) # 1
          /\ Len(f) + (p.offset + 1 - Len(f)) = p.offset + 1
      BY <1>1, <1>2, <2>1, <2>2
    <3>2. g[p.offset + 1] = Unit(rec, p.offset + 1 - Len(f))
      BY <1>1, <3>1 DEF IntactAt, RecordAt
    <3> QED
      BY <2>2, <3>1, <3>2, UnitFields
  <2>5. f[p.offset + 1].part = 1 /\ p.offset + 1 \in 1..Len(f)
    BY <1>1, <1>2, <2>1, <2>2, <2>4
  <2>6. IntactAt(f, p.offset) /\ p.offset + RecLen(RecordAt(f, p.offset)) <= Len(f)
    BY <1>2, <2>1, <2>4, <2>5, WellFormedStart
  <2>7. RecordAt(g, p.offset) = RecordAt(f, p.offset)
    BY <1>1, <2>5 DEF RecordAt
  <2> DEFINE n == p.offset + RecLen(RecordAt(f, p.offset))
  <2>8. RecLen(RecordAt(f, p.offset)) \in Nat
    BY <2>1, <2>6, IntactUnits, RecLenNat
  <2>9. n \in Nat /\ n <= Len(g) /\ n <= Len(f) /\ \A i \in 1..n : g[i] = f[i]
    BY <1>1, <1>2, <2>1, <2>6, <2>8
  <2>10. WellFormed(g, n)
    BY <1>3, <1>9, <2>1, <2>7 DEF Logged
  <2>11. WellFormed(f, n)
    <3> HIDE DEF n
    <3> QED
      BY <1>1, <2>9, <2>10, WellFormedPrefix
  <2>12. Logged(f, p)
    BY <1>3, <1>9, <2>5, <2>9, <2>11 DEF Logged
  <2> QED
    BY <2>1, <2>12, LogPositionsDef
<1>10. \A p : p \in LogPositions(g) => p \in Positions
  BY <1>1, LogPositionsDef
<1>11. \A p : p \in LogPositions(f) => p \in Positions
  BY LogPositionsDef
<1>12. LogPositions(g) = LogPositions(f) \cup {p0}
  BY <1>5, <1>7, <1>8, <1>9, <1>10, <1>11
<1>13. \A p \in LogPositions(f) : Record(g, p) = Record(f, p)
  BY <1>7, <1>8, <1>11
<1> QED
  BY <1>4, <1>6, <1>12, <1>13 DEF g, p0

\* Appending a record does not change what the records before it replay to.
LEMMA ReplayBeforeAppend ==
    ASSUME NEW f \in Seq(Units), NEW rec \in Records, WellFormed(f, Len(f)), NEW idx,
           IsReplay(f, idx, Position(ActiveId, Len(f)))
    PROVE  IsReplay(f \o Encode(rec), idx, Position(ActiveId, Len(f)))
<1> DEFINE g == f \o Encode(rec)
           p0 == Position(ActiveId, Len(f))
<1>1. /\ LogPositions(g) = LogPositions(f) \cup {p0}
      /\ \A p \in LogPositions(f) : Record(g, p) = Record(f, p)
  BY AppendedLog
<1>2. ~Before(p0, p0)
  BY ArchiveAssumption DEF Before, Position, ActiveId
<1> HIDE DEF g, p0
<1>3. \A k, p : Latest(g, k, p, p0) <=> Latest(f, k, p, p0)
  BY <1>1, <1>2 DEF Latest
<1>4. \A k, p : Latest(g, k, p, p0) => p \in LogPositions(f)
  BY <1>3 DEF Latest
<1>5. IsReplay(g, idx, p0)
  BY <1>1, <1>3, <1>4 DEF IsReplay, g, p0
<1> QED
  BY <1>5 DEF g, p0

-----------------------------------------------------------------------------
(* The inductive invariant.                                                *)

\* What a writer appends is a record.
LEMMA OpRecordType ==
    ASSUME TypeOK, OpInv, NEW t \in Threads, pc[t] \in {"lock", "append", "index"}
    PROVE  OpRecord(t) \in Records
<1>1. op[t].key \in Keys /\ op[t].op \in {"put", "delete"} /\ op[t] \in Ops
  BY DEF TypeOK, OpInv
<1>2. op[t].op = "put" => op[t].value \in Values
  BY <1>1 DEF Ops
<1>3. op[t].op = "delete" => op[t].value = NoValue
  BY <1>1 DEF Ops
<1> QED
  BY <1>1, <1>2, <1>3 DEF OpRecord, Records

\* The initial state satisfies the invariant.
LEMMA InitInv == Init => IInv
<1> SUFFICES ASSUME Init PROVE IInv
  OBVIOUS
<1>1. ActiveId \in Nat
  BY ArchiveAssumption DEF ActiveId
<1>2. TypeOK
  BY <1>1 DEF Init, TypeOK, Positions, Position, NoIndex, NoOp, Ops, NoAnswer, Answer
<1>3. OpInv /\ LockInv /\ QuietInv /\ PendingInv /\ ReadInv /\ LocatedRecordReadable
  BY ConstantsAssumption DEF Init, OpInv, LockInv, QuietInv, PendingInv, ReadInv,
     LocatedRecordReadable
<1>4. ScanInv /\ TailInv /\ IndexMatchesLog
  BY DEF Init, ScanInv, TailInv, IndexMatchesLog, Serving
<1> QED
  BY <1>2, <1>3, <1>4 DEF IInv

\* Open starts the replay at the first byte of the first file.
LEMMA OpenInv == IInv /\ Open => IInv'
<1> SUFFICES ASSUME IInv, Open PROVE IInv'
  OBVIOUS
<1>1. ActiveId \in Nat /\ file' = file /\ file \in Seq(Units)
  BY ArchiveAssumption DEF ActiveId, Open, disk, IInv, TypeOK
<1>2. TypeOK'
  BY <1>1 DEF IInv, Open, disk, Quiet, TypeOK, Positions, Position, NoIndex, NoOp, Ops,
     NoAnswer, Answer
<1>3. (OpInv /\ LockInv /\ QuietInv /\ PendingInv /\ ReadInv /\ LocatedRecordReadable)'
  BY ConstantsAssumption DEF Open, Quiet, OpInv, LockInv, QuietInv, PendingInv, ReadInv,
     LocatedRecordReadable
<1>4. ScanInv'
  <2>1. File(file, 0) \in Seq(Units)
    BY <1>1, FileType
  <2>2. WellFormed(File(file, 0), 0)
    BY DEF WellFormed
  <2> QED
    BY <1>1, <2>1, <2>2 DEF Open, ScanInv, Position
<1>5. TailInv'
  BY DEF Open, TailInv, Serving
<1>6. IndexMatchesLog'
  <2>1. \A p \in LogPositions(file) : ~Before(p, Position(0, 0))
    <3>1. \A p \in LogPositions(file) : p.file_id \in Nat /\ p.offset \in Nat
      BY <1>1, LoggedRecord
    <3> QED
      BY <3>1 DEF Before, Position
  <2>2. IsReplay(file, NoIndex, Position(0, 0))
    BY <2>1 DEF IsReplay, NoIndex, Latest
  <2> QED
    BY <1>1, <2>2 DEF Open, IndexMatchesLog, Serving
<1> QED
  BY <1>2, <1>3, <1>4, <1>5, <1>6 DEF IInv

\* A good record: the index takes it over, and the replayed part grows by it.
LEMMA LoadRecordInv == IInv /\ LoadRecord => IInv'
<1> SUFFICES ASSUME IInv, LoadRecord PROVE IInv'
  OBVIOUS
<1> DEFINE g == File(file, scan.file_id)
           rec == RecordAt(g, scan.offset)
           n == scan.offset + RecLen(rec)
<1>1. /\ phase = "load" /\ phase' = "load" /\ IntactAt(g, scan.offset)
      /\ index' = [index EXCEPT ![rec.key] = IF rec.type = NORMAL THEN scan ELSE NoPos]
      /\ scan' = [scan EXCEPT !.offset = n]
      /\ UNCHANGED <<file, synced, writeOff, mutex, pc, op, pos, ans>>
  BY DEF LoadRecord, disk, local
<1>2. /\ file \in Seq(Units) /\ scan \in Positions /\ scan.file_id \in 0..ActiveId
      /\ scan.offset \in Nat /\ g \in Seq(Units) /\ ActiveId \in Nat
      /\ index \in [Keys -> Positions \cup {NoPos}]
  <2>1. ActiveId \in Nat
    BY ArchiveAssumption DEF ActiveId
  <2>2. file \in Seq(Units) /\ scan \in Positions /\ index \in [Keys -> Positions \cup {NoPos}]
    BY DEF IInv, TypeOK
  <2>3. scan.file_id \in 0..ActiveId /\ scan.offset \in Nat
    BY <2>2 DEF Positions
  <2> QED
    BY <2>1, <2>2, <2>3, FileType
<1>3. scan.offset <= Len(g) /\ WellFormed(g, scan.offset)
  BY <1>1 DEF IInv, ScanInv
<1> HIDE DEF g
<1>4. /\ rec \in Records /\ n <= Len(g) /\ RecLen(rec) \in Nat /\ RecLen(rec) >= 2
      /\ \A i \in 1..RecLen(rec) : g[scan.offset + i].part = i
  BY <1>1, <1>2, IntactUnits, RecLenNat
<1>5. WellFormed(g, n)
  BY <1>1, <1>2, <1>3, WellFormedExtend
<1>6. /\ scan' \in Positions /\ scan'.file_id = scan.file_id /\ scan'.offset = n /\ n \in Nat
  BY <1>1, <1>2, <1>4 DEF Positions
<1>7. rec.key \in Keys
  BY <1>4 DEF Records
<1>8. TypeOK'
  <2>1. index' \in [Keys -> Positions \cup {NoPos}]
    BY <1>1, <1>2, <1>7
  <2> QED
    BY <1>1, <1>6, <2>1 DEF IInv, TypeOK
<1>9. (OpInv /\ LockInv /\ QuietInv /\ PendingInv /\ ReadInv)' /\ \A t \in Threads : pc[t] = "idle"
  BY <1>1 DEF IInv, OpInv, LockInv, QuietInv, PendingInv, ReadInv
<1>10. LocatedRecordReadable'
  BY <1>1, <1>9 DEF LocatedRecordReadable
<1>11. ScanInv' /\ TailInv'
  BY <1>1, <1>4, <1>5, <1>6 DEF ScanInv, TailInv, Serving, g
<1>12. IndexMatchesLog'
  <2>1. scan \in LogPositions(file) /\ Record(file, scan) = rec
    <3>1. scan.offset + 1 \in 1..Len(g) /\ g[scan.offset + 1].part = 1
      BY <1>1, <1>4 DEF IntactAt
    <3>2. Logged(file, scan)
      BY <1>4, <1>5, <3>1 DEF Logged, g
    <3> QED
      BY <1>2, <3>2, LogPositionsDef DEF Record, g
  <2>2. ASSUME NEW p \in LogPositions(file)
        PROVE  Before(p, scan') <=> Before(p, scan) \/ p = scan
    <3>1. p \in Positions /\ p.file_id \in Nat /\ p.offset \in Nat /\ Logged(file, p)
      BY <1>2, <2>2, LoggedRecord, LogPositionsDef
    <3>2. Before(p, scan) \/ p = scan => Before(p, scan')
      BY <1>2, <1>4, <1>6, <3>1 DEF Before
    <3>3. ASSUME Before(p, scan'), ~Before(p, scan) PROVE p = scan
      <4>1. p.file_id = scan.file_id /\ scan.offset <= p.offset /\ p.offset < n
        BY <1>2, <1>6, <3>1, <3>3 DEF Before
      <4>2. g[p.offset + 1].part = 1
        BY <3>1, <4>1 DEF Logged, g
      <4>3. p.offset + 1 - scan.offset \in 1..RecLen(rec)
            /\ scan.offset + (p.offset + 1 - scan.offset) = p.offset + 1
        BY <1>2, <1>4, <3>1, <4>1
      <4>4. p.offset + 1 - scan.offset = 1
        BY <1>4, <4>2, <4>3
      <4>5. p.offset = scan.offset
        BY <1>2, <3>1, <4>4
      <4> QED
        BY <1>2, <3>1, <4>1, <4>5 DEF Positions
    <3> QED
      BY <3>2, <3>3
  <2>3. IsReplay(file, index, scan)
    BY <1>1 DEF IInv, IndexMatchesLog
  <2>4. IsReplay(file, index', scan')
    <3> HIDE DEF rec, n
    <3> QED
      BY <1>1, <1>2, <2>1, <2>2, <2>3, ReplayOneMore
  <2> QED
    BY <1>1, <2>4 DEF IndexMatchesLog, Serving
<1> QED
  BY <1>8, <1>9, <1>10, <1>11, <1>12 DEF IInv

\* The rest of an archived file holds no record a replay reaches, so the next file
\* starts with the same index.
LEMMA LoadNextFileInv == IInv /\ LoadNextFile => IInv'
<1> SUFFICES ASSUME IInv, LoadNextFile PROVE IInv'
  OBVIOUS
<1> DEFINE g == File(file, scan.file_id)
<1>1. /\ phase = "load" /\ phase' = "load" /\ ~IntactAt(g, scan.offset)
      /\ scan.file_id < ActiveId /\ scan' = Position(scan.file_id + 1, 0)
      /\ UNCHANGED <<file, synced, writeOff, index, mutex, pc, op, pos, ans>>
  BY DEF LoadNextFile, disk, local
<1>2. /\ ActiveId \in Nat /\ file \in Seq(Units) /\ scan.file_id \in 0..ActiveId
      /\ scan.offset \in Nat
  BY ArchiveAssumption DEF ActiveId, IInv, TypeOK, Positions
<1>3. g \in Seq(Units) /\ scan.offset <= Len(g) /\ WellFormed(g, scan.offset)
  BY <1>1, <1>2, FileType DEF IInv, ScanInv
<1>4. /\ scan' \in Positions /\ scan'.file_id = scan.file_id + 1 /\ scan'.offset = 0
  BY <1>1, <1>2 DEF Positions, Position
<1>5. TypeOK'
  BY <1>1, <1>4 DEF IInv, TypeOK
<1>6. (OpInv /\ LockInv /\ QuietInv /\ PendingInv /\ ReadInv)' /\ \A t \in Threads : pc[t] = "idle"
  BY <1>1 DEF IInv, OpInv, LockInv, QuietInv, PendingInv, ReadInv
<1>7. LocatedRecordReadable'
  BY <1>1, <1>6 DEF LocatedRecordReadable
<1>8. ScanInv' /\ TailInv'
  <2>1. File(file, scan.file_id + 1) \in Seq(Units)
    BY <1>1, <1>2, FileType
  <2>2. WellFormed(File(file, scan.file_id + 1), 0)
    BY DEF WellFormed
  <2> QED
    BY <1>1, <1>4, <2>1, <2>2 DEF ScanInv, TailInv, Serving
<1>9. IndexMatchesLog'
  <2>1. ASSUME NEW p \in LogPositions(file)
        PROVE  Before(p, scan) <=> Before(p, scan')
    <3>1. p \in Positions /\ p.file_id \in Nat /\ p.offset \in Nat /\ Logged(file, p)
      BY <1>2, <2>1, LoggedRecord, LogPositionsDef
    <3>2. ASSUME p.file_id = scan.file_id, p.offset >= scan.offset PROVE FALSE
      <4> DEFINE m == p.offset + RecLen(RecordAt(g, p.offset))
      <4>1. WellFormed(g, m) /\ m <= Len(g) /\ p.offset + 1 \in 1..Len(g)
        BY <3>1, <3>2 DEF Logged
      <4>2. RecLen(RecordAt(g, p.offset)) \in Nat /\ RecLen(RecordAt(g, p.offset)) >= 2
        BY <1>3, <4>1, UnitType DEF RecordAt
      <4>3. m \in Nat /\ scan.offset < m
        BY <1>2, <3>1, <3>2, <4>2
      <4> HIDE DEF m, g
      <4>4. IntactAt(g, scan.offset)
        BY <1>2, <1>3, <4>1, <4>3, WellFormedStop
      <4> QED
        BY <1>1, <4>4
    <3> QED
      BY <1>2, <1>4, <3>1, <3>2 DEF Before
  <2>2. IsReplay(file, index, scan)
    BY <1>1 DEF IInv, IndexMatchesLog
  <2>3. IsReplay(file, index, scan')
    BY <2>1, <2>2, SameReplay
  <2> QED
    BY <1>1, <2>3 DEF IndexMatchesLog, Serving
<1> QED
  BY <1>5, <1>6, <1>7, <1>8, <1>9 DEF IInv

\* Replay is over: without a torn tail it reached the end of the active file.
LEMMA LoadDoneInv == IInv /\ LoadDone => IInv'
<1> SUFFICES ASSUME IInv, LoadDone PROVE IInv'
  OBVIOUS
<1>1. /\ phase = "load" /\ phase' = "open" /\ scan.file_id = ActiveId
      /\ writeOff' = scan.offset
      /\ UNCHANGED <<file, synced, index, mutex, scan, pc, op, pos, ans>>
  BY DEF LoadDone, disk, local
<1>2. /\ scan = Position(ActiveId, scan.offset) /\ scan.offset \in Nat
      /\ scan.offset <= Len(file) /\ WellFormed(file, scan.offset)
  BY <1>1 DEF IInv, TypeOK, ScanInv, File, Positions, Position
<1>3. TypeOK'
  <2>1. scan.offset \in 0..Len(file)
    BY <1>2 DEF IInv, TypeOK
  <2> QED
    BY <1>1, <2>1 DEF IInv, TypeOK
<1>4. (OpInv /\ LockInv /\ QuietInv /\ PendingInv /\ ReadInv)' /\ \A t \in Threads : pc[t] = "idle"
  BY <1>1 DEF IInv, OpInv, LockInv, QuietInv, PendingInv, ReadInv
<1>5. LocatedRecordReadable'
  BY <1>1, <1>4 DEF LocatedRecordReadable
<1>6. ScanInv' /\ TailInv'
  BY <1>1, <1>2 DEF ScanInv, TailInv, Serving, Untorn
<1>7. IndexMatchesLog'
  <2>1. IsReplay(file, index, Position(ActiveId, scan.offset))
    BY <1>1, <1>2 DEF IInv, IndexMatchesLog
  <2> QED
    BY <1>1, <1>4, <2>1 DEF IndexMatchesLog
<1> QED
  BY <1>3, <1>4, <1>5, <1>6, <1>7 DEF IInv

\* A step that touches neither the disk nor the index, and starts neither an index
\* update nor a read, keeps what relates them.
LEMMA PassiveStep ==
    ASSUME IInv, UNCHANGED <<file, writeOff, index, phase, scan>>,
           \A t \in Threads : /\ pc'[t] = "index" <=> pc[t] = "index"
                              /\ pc'[t] = "read" => pc[t] = "read"
                              /\ pc'[t] \in {"index", "read"} =>
                                    pos'[t] = pos[t] /\ op'[t] = op[t]
    PROVE  (ScanInv /\ TailInv /\ PendingInv /\ ReadInv
              /\ IndexMatchesLog /\ LocatedRecordReadable)'
<1>1. ScanInv' /\ TailInv'
  BY DEF IInv, ScanInv, TailInv, Serving, Untorn
<1>2. PendingInv' /\ ReadInv'
  BY DEF IInv, PendingInv, ReadInv, OpRecord, Untorn
<1>3. IndexMatchesLog'
  BY DEF IInv, IndexMatchesLog, Serving, Untorn
<1>4. LocatedRecordReadable'
  BY DEF IInv, LocatedRecordReadable, Untorn
<1> QED
  BY <1>1, <1>2, <1>3, <1>4

\* A caller enters an operation.
LEMMA CallInv == \A t \in Threads : \A o \in Ops : IInv /\ Call(t, o) => IInv'
<1> SUFFICES ASSUME NEW t \in Threads, NEW o \in Ops, IInv, Call(t, o) PROVE IInv'
  OBVIOUS
<1>1. /\ Serving /\ pc[t] = "idle" /\ ans' = [ans EXCEPT ![t] = NoAnswer]
      /\ UNCHANGED <<file, synced, writeOff, index, mutex, phase, scan, pos>>
      /\ o.key = EmptyKey => UNCHANGED <<pc, op>>
      /\ o.key # EmptyKey =>
            /\ op' = [op EXCEPT ![t] = o]
            /\ pc' = [pc EXCEPT ![t] = IF o.op = "get" THEN "lookup" ELSE "lock"]
  BY DEF Call, disk
<1>2. TypeOK
  BY DEF IInv
<1>3. /\ o.op \in {"put", "get", "delete"} /\ o.key \in Keys \cup {EmptyKey}
      /\ phase \in {"open", "closed"}
  BY <1>1 DEF Ops, Serving
<1>4. TypeOK'
  BY <1>1, <1>2, <1>3 DEF TypeOK, NoAnswer, Answer
<1>5. (OpInv /\ LockInv /\ QuietInv)'
  <2>1. CASE o.key = EmptyKey
    BY <1>1, <2>1 DEF IInv, OpInv, LockInv, QuietInv
  <2>2. CASE o.key # EmptyKey
    <3>1. \A u \in Threads :
            /\ pc'[u] = IF u = t THEN (IF o.op = "get" THEN "lookup" ELSE "lock") ELSE pc[u]
            /\ op'[u] = IF u = t THEN o ELSE op[u]
      BY <1>1, <1>2, <2>2 DEF TypeOK
    <3> QED
      BY <1>1, <1>3, <2>2, <3>1 DEF IInv, OpInv, LockInv, QuietInv
  <2> QED
    BY <2>1, <2>2
<1>6. (ScanInv /\ TailInv /\ PendingInv /\ ReadInv /\ IndexMatchesLog /\ LocatedRecordReadable)'
  <2>1. \A u \in Threads : /\ pc'[u] = "index" <=> pc[u] = "index"
                           /\ pc'[u] = "read" => pc[u] = "read"
                           /\ pc'[u] \in {"index", "read"} =>
                                 pos'[u] = pos[u] /\ op'[u] = op[u]
    BY <1>1, <1>2 DEF TypeOK
  <2> QED
    BY <1>1, <2>1, PassiveStep
<1> QED
  BY <1>4, <1>5, <1>6 DEF IInv

\* What the threads' variables are after thread t returns.
LEMMA ReturnStep ==
    ASSUME TypeOK, NEW t \in Threads, NEW a, Return(t, a),
           a.status \in {"kSuccess", "kKeyNotFound", "kDataCorrupted", "kIOError", "kInvalid"},
           a.value \in Values \cup {NoValue}, a = Answer(a.status, a.value)
    PROVE  /\ pc' \in [Threads -> {"idle", "lock", "check", "append", "index", "lookup", "read"}]
           /\ op' \in [Threads -> Ops]
           /\ pos' \in [Threads -> Positions \cup {NoPos}]
           /\ ans' \in [Threads -> [status : {"kSuccess", "kKeyNotFound", "kDataCorrupted",
                                             "kIOError", "kInvalid"},
                                   value : Values \cup {NoValue}]]
           /\ pc'[t] = "idle" /\ op'[t] = NoOp
           /\ \A u \in Threads \ {t} : pc'[u] = pc[u] /\ op'[u] = op[u] /\ pos'[u] = pos[u]
<1>1. NoOp \in Ops
  BY DEF NoOp, Ops
<1>2. a \in [status : {"kSuccess", "kKeyNotFound", "kDataCorrupted", "kIOError", "kInvalid"},
             value : Values \cup {NoValue}]
  BY DEF Answer
<1> QED
  BY <1>1, <1>2 DEF TypeOK, Return

\* The answers of an operation that finds no key or cannot write.
LEMMA AnswerFields ==
    \A s, v : /\ Answer(s, v).status = s /\ Answer(s, v).value = v
              /\ Answer(s, v) = Answer(Answer(s, v).status, Answer(s, v).value)
BY DEF Answer

\* A writer takes the mutex, or finds it has nothing to do, or fails: no record moves.
LEMMA LockStepInv ==
    \A t \in Threads : IInv /\ (Lock(t) \/ CheckPresent(t)) => IInv'
<1> SUFFICES ASSUME NEW t \in Threads, IInv, Lock(t) \/ CheckPresent(t) PROVE IInv'
  OBVIOUS
<1>1. /\ UNCHANGED <<file, synced, writeOff, index, phase, scan, op, pos, ans>>
      /\ pc[t] \in {"lock", "check"} /\ TypeOK
  BY DEF Lock, CheckPresent, disk, IInv
<1>2. /\ mutex' = t /\ (pc[t] = "lock" => mutex = NoThread)
      /\ \E c \in {"append", "check"} :
            /\ pc' = [pc EXCEPT ![t] = c]
            /\ c = "check" => op[t].op # "put"
  BY <1>1 DEF Lock, CheckPresent, IInv, LockInv
<1>3. PICK c \in {"append", "check"} : pc' = [pc EXCEPT ![t] = c] /\ (c = "check" => op[t].op # "put")
  BY <1>2
<1>4. \A u \in Threads : pc'[u] = IF u = t THEN c ELSE pc[u]
  BY <1>1, <1>3 DEF TypeOK
<1>5. TypeOK'
  BY <1>1, <1>2, <1>3 DEF TypeOK
<1>6. OpInv' /\ QuietInv'
  BY <1>1, <1>3, <1>4 DEF IInv, OpInv, QuietInv
<1>7. LockInv'
  <2>1. \A u \in Threads \ {t} : pc[u] \notin {"check", "append", "index"}
    BY <1>1, <1>2, ConstantsAssumption DEF IInv, LockInv
  <2> QED
    BY <1>2, <1>4, <2>1 DEF LockInv
<1>8. (ScanInv /\ TailInv /\ PendingInv /\ ReadInv /\ IndexMatchesLog /\ LocatedRecordReadable)'
  <2>1. \A u \in Threads : /\ pc'[u] = "index" <=> pc[u] = "index"
                           /\ pc'[u] = "read" => pc[u] = "read"
                           /\ pc'[u] \in {"index", "read"} =>
                                 pos'[u] = pos[u] /\ op'[u] = op[u]
    BY <1>1, <1>4
  <2> QED
    BY <1>1, <2>1, PassiveStep
<1> QED
  BY <1>5, <1>6, <1>7, <1>8 DEF IInv

\* An operation that returns without having changed anything.
LEMMA ReturnInv ==
    \A t \in Threads :
        IInv /\ (CheckAbsent(t) \/ AppendRecordFails(t) \/ ReadLogRecord(t)) => IInv'
<1> SUFFICES ASSUME NEW t \in Threads, IInv,
                    CheckAbsent(t) \/ AppendRecordFails(t) \/ ReadLogRecord(t)
             PROVE  IInv'
  OBVIOUS
<1>1. /\ UNCHANGED <<file, synced, writeOff, index, phase, scan>>
      /\ pc[t] \in {"check", "append", "read"} /\ TypeOK
      /\ pc[t] \in {"check", "append"} => mutex' = NoThread
      /\ pc[t] = "read" => mutex' = mutex
  BY DEF CheckAbsent, AppendRecordFails, ReadLogRecord, disk, IInv
<1>2. PICK a : /\ Return(t, a)
               /\ a.status \in {"kSuccess", "kKeyNotFound", "kDataCorrupted", "kIOError", "kInvalid"}
               /\ a.value \in Values \cup {NoValue} /\ a = Answer(a.status, a.value)
  <2>1. CASE CheckAbsent(t)
    BY <2>1, AnswerFields DEF CheckAbsent
  <2>2. CASE AppendRecordFails(t)
    BY <2>2, AnswerFields DEF AppendRecordFails
  <2>3. CASE ReadLogRecord(t)
    <3> DEFINE a == ReadAnswer(pos[t])
               o == pos[t].offset
    <3>1. Return(t, a)
      BY <2>3 DEF ReadLogRecord
    <3>2. pos[t] \in Positions /\ o \in Nat
      BY <2>3, <1>1 DEF ReadLogRecord, IInv, ReadInv, TypeOK, Positions
    <3>3. CASE phase = "closed" \/ ~IntactAt(file, o)
      <4>1. a = Answer("kDataCorrupted", NoValue)
        BY <3>3 DEF ReadAnswer
      <4> QED
        BY <3>1, <4>1, AnswerFields
    <3>4. CASE phase # "closed" /\ IntactAt(file, o)
      <4>1. RecordAt(file, o) \in Records
        BY <3>2, <3>4, <1>1, IntactUnits DEF TypeOK
      <4>2. RecordAt(file, o).value \in Values \cup {NoValue}
        BY <4>1 DEF Records
      <4>3. a \in {Answer("kKeyNotFound", NoValue), Answer("kSuccess", RecordAt(file, o).value)}
        BY <3>4 DEF ReadAnswer
      <4> HIDE DEF a
      <4> QED
        BY <3>1, <4>2, <4>3, AnswerFields
    <3> QED
      BY <3>3, <3>4
  <2> QED
    BY <2>1, <2>2, <2>3
<1>3. /\ pc' \in [Threads -> {"idle", "lock", "check", "append", "index", "lookup", "read"}]
      /\ op' \in [Threads -> Ops]
      /\ pos' \in [Threads -> Positions \cup {NoPos}]
      /\ ans' \in [Threads -> [status : {"kSuccess", "kKeyNotFound", "kDataCorrupted",
                                        "kIOError", "kInvalid"},
                              value : Values \cup {NoValue}]]
      /\ pc'[t] = "idle" /\ op'[t] = NoOp
      /\ \A u \in Threads \ {t} : pc'[u] = pc[u] /\ op'[u] = op[u] /\ pos'[u] = pos[u]
  BY <1>1, <1>2, ReturnStep
<1>4. TypeOK'
  BY <1>1, <1>3 DEF TypeOK
<1>5. OpInv' /\ QuietInv'
  BY <1>1, <1>3 DEF IInv, OpInv, QuietInv
<1>6. LockInv'
  BY <1>1, <1>3, ConstantsAssumption DEF IInv, LockInv
<1>7. (ScanInv /\ TailInv /\ PendingInv /\ ReadInv /\ IndexMatchesLog /\ LocatedRecordReadable)'
  <2>1. \A u \in Threads : /\ pc'[u] = "index" <=> pc[u] = "index"
                           /\ pc'[u] = "read" => pc[u] = "read"
                           /\ pc'[u] \in {"index", "read"} =>
                                 pos'[u] = pos[u] /\ op'[u] = op[u]
    BY <1>1, <1>3
  <2> QED
    BY <1>1, <2>1, PassiveStep
<1> QED
  BY <1>4, <1>5, <1>6, <1>7 DEF IInv

\* Get finds a position: there is a live record of its key there.
LEMMA LookupInv == \A t \in Threads : IInv /\ Lookup(t) => IInv'
<1> SUFFICES ASSUME NEW t \in Threads, IInv, Lookup(t) PROVE IInv'
  OBVIOUS
<1>1. /\ UNCHANGED <<file, synced, writeOff, index, mutex, phase, scan>>
      /\ pc[t] = "lookup" /\ TypeOK /\ op[t].key \in Keys /\ op[t].op = "get" /\ Serving
  BY DEF Lookup, disk, IInv, OpInv, QuietInv, Serving, TypeOK
<1>2. CASE index[op[t].key] = NoPos
  <2>1. Return(t, Answer("kKeyNotFound", NoValue))
    BY <1>2 DEF Lookup
  <2>2. /\ pc' \in [Threads -> {"idle", "lock", "check", "append", "index", "lookup", "read"}]
        /\ op' \in [Threads -> Ops]
        /\ pos' \in [Threads -> Positions \cup {NoPos}]
        /\ ans' \in [Threads -> [status : {"kSuccess", "kKeyNotFound", "kDataCorrupted",
                                          "kIOError", "kInvalid"},
                                value : Values \cup {NoValue}]]
        /\ pc'[t] = "idle" /\ op'[t] = NoOp
        /\ \A u \in Threads \ {t} : pc'[u] = pc[u] /\ op'[u] = op[u] /\ pos'[u] = pos[u]
    BY <1>1, <2>1, AnswerFields, ReturnStep
  <2>3. TypeOK' /\ OpInv' /\ QuietInv' /\ LockInv'
    BY <1>1, <2>2 DEF TypeOK, IInv, OpInv, QuietInv, LockInv
  <2>4. (ScanInv /\ TailInv /\ PendingInv /\ ReadInv /\ IndexMatchesLog /\ LocatedRecordReadable)'
    <3>1. \A u \in Threads : /\ pc'[u] = "index" <=> pc[u] = "index"
                             /\ pc'[u] = "read" => pc[u] = "read"
                             /\ pc'[u] \in {"index", "read"} =>
                                   pos'[u] = pos[u] /\ op'[u] = op[u]
      BY <1>1, <2>2
    <3> QED
      BY <1>1, <3>1, PassiveStep
  <2> QED
    BY <2>3, <2>4 DEF IInv
<1>3. CASE index[op[t].key] # NoPos
  <2> DEFINE p0 == index[op[t].key]
  <2>1. /\ pos' = [pos EXCEPT ![t] = p0] /\ pc' = [pc EXCEPT ![t] = "read"]
        /\ UNCHANGED <<op, ans>>
    BY <1>3 DEF Lookup
  <2>2. p0 \in Positions
    BY <1>1, <1>3 DEF TypeOK
  <2>3. \A u \in Threads : /\ pc'[u] = IF u = t THEN "read" ELSE pc[u]
                           /\ pos'[u] = IF u = t THEN p0 ELSE pos[u]
    BY <1>1, <2>1 DEF TypeOK
  <2>4. TypeOK'
    BY <1>1, <2>1, <2>2 DEF TypeOK
  <2>5. (OpInv /\ LockInv /\ QuietInv /\ ScanInv /\ TailInv)'
    BY <1>1, <2>1, <2>3
       DEF IInv, OpInv, LockInv, QuietInv, ScanInv, TailInv, Serving, Untorn
  <2>6. ReadInv' /\ PendingInv'
    BY <1>1, <1>3, <2>1, <2>3 DEF IInv, ReadInv, PendingInv, OpRecord, Untorn
  <2>7. IndexMatchesLog'
    BY <1>1, <2>3 DEF IInv, IndexMatchesLog, Serving, Untorn
  <2>8. LocatedRecordReadable'
    <3>1. ASSUME Untorn, p0.file_id = ActiveId
          PROVE  /\ IntactAt(file, p0.offset)
                 /\ RecordAt(file, p0.offset).key = op[t].key
                 /\ RecordAt(file, p0.offset).type = NORMAL
      <4>1. PICK limit : IsReplay(file, index, limit)
        BY <1>1, <3>1 DEF IInv, IndexMatchesLog
      <4>2. Latest(file, op[t].key, p0, limit) /\ Record(file, p0).type = NORMAL
        BY <1>1, <1>3, <4>1 DEF IsReplay
      <4>3. p0 \in LogPositions(file) /\ Record(file, p0).key = op[t].key
        BY <4>2 DEF Latest
      <4>4. IntactAt(File(file, p0.file_id), p0.offset)
        BY <1>1, <4>3, LoggedRecord DEF TypeOK
      <4> QED
        BY <3>1, <4>2, <4>3, <4>4 DEF Record, File
    <3> QED
      BY <1>1, <2>1, <2>3, <3>1 DEF IInv, LocatedRecordReadable, Untorn
  <2> QED
    BY <2>4, <2>5, <2>6, <2>7, <2>8 DEF IInv
<1> QED
  BY <1>2, <1>3

\* A whole record appended: the log gains one record, which its writer has yet to index.
LEMMA AppendRecordInv == \A t \in Threads : IInv /\ AppendRecord(t) => IInv'
<1> SUFFICES ASSUME NEW t \in Threads, IInv, AppendRecord(t) PROVE IInv'
  OBVIOUS
<1> DEFINE rec == OpRecord(t)
           g == file \o Encode(rec)
           p0 == Position(ActiveId, writeOff)
<1>1. /\ pc[t] = "append" /\ phase = "open" /\ phase' = "open" /\ Serving
      /\ file' = g /\ writeOff' = writeOff + Len(Encode(rec))
      /\ pos' = [pos EXCEPT ![t] = p0] /\ pc' = [pc EXCEPT ![t] = "index"]
      /\ UNCHANGED <<synced, index, mutex, scan, op, ans>>
  BY DEF AppendRecord, Serving
<1>2. TypeOK /\ OpInv /\ file \in Seq(Units) /\ Len(file) \in Nat /\ writeOff \in 0..Len(file)
  BY DEF IInv, TypeOK
<1>3. rec \in Records
  BY <1>1, <1>2, OpRecordType
<1>4. /\ Encode(rec) \in Seq(Units) /\ Len(Encode(rec)) = RecLen(rec)
      /\ RecLen(rec) \in Nat /\ RecLen(rec) >= 2
  BY <1>3, EncodeUnits, RecLenNat
<1>5. g \in Seq(Units) /\ Len(g) = Len(file) + RecLen(rec) /\ \A i \in 1..Len(file) : g[i] = file[i]
  BY <1>2, <1>4
<1>6. /\ p0 \in Positions /\ p0.file_id = ActiveId /\ p0.offset = writeOff
  BY <1>2, ArchiveAssumption DEF Position, Positions, ActiveId
<1>7. Untorn' <=> Untorn
  <2> HIDE DEF g, rec
  <2> QED
    BY <1>1, <1>2, <1>4, <1>5 DEF Untorn
<1>8. \A u \in Threads : /\ pc'[u] = IF u = t THEN "index" ELSE pc[u]
                         /\ pos'[u] = IF u = t THEN p0 ELSE pos[u]
  BY <1>1, <1>2 DEF TypeOK
<1>9. OpRecord(t)' = rec
  BY <1>1 DEF OpRecord
<1> HIDE DEF g, rec, p0
<1>10. TypeOK'
  <2>1. synced' \in 0..Len(file') /\ writeOff' \in 0..Len(file')
    BY <1>1, <1>2, <1>4, <1>5 DEF TypeOK
  <2> QED
    BY <1>1, <1>2, <1>5, <1>6, <2>1 DEF TypeOK
<1>11. (OpInv /\ LockInv /\ QuietInv /\ ScanInv /\ ReadInv)'
  <2>1. OpInv'
    BY <1>1, <1>2, <1>8 DEF OpInv
  <2>2. LockInv'
    BY <1>1, <1>8 DEF IInv, LockInv
  <2>3. QuietInv' /\ ScanInv'
    BY <1>1 DEF QuietInv, ScanInv
  <2>4. ReadInv'
    BY <1>1, <1>8 DEF IInv, ReadInv
  <2> QED
    BY <2>1, <2>2, <2>3, <2>4
<1>12. \A u \in Threads : pc[u] # "index"
  BY <1>1 DEF IInv, LockInv
<1>13. ASSUME Untorn
       PROVE  /\ writeOff = Len(file) /\ WellFormed(file, Len(file))
              /\ IntactAt(g, writeOff) /\ RecordAt(g, writeOff) = rec /\ WellFormed(g, Len(g))
              /\ IsReplay(g, index, p0)
  <2>1. writeOff = Len(file) /\ WellFormed(file, Len(file))
    BY <1>1, <1>13 DEF IInv, TailInv, Untorn
  <2>2. IntactAt(g, writeOff) /\ RecordAt(g, writeOff) = rec /\ WellFormed(g, Len(g))
    BY <1>2, <1>3, <2>1, AppendWhole DEF g
  <2>3. IsReplay(file, index, Position(ActiveId, Len(file)))
    BY <1>1, <1>12, <1>13, <2>1 DEF IInv, IndexMatchesLog
  <2>4. IsReplay(g, index, p0)
    BY <1>2, <1>3, <2>1, <2>3, ReplayBeforeAppend DEF g, p0
  <2> QED
    BY <2>1, <2>2, <2>4
<1>14. TailInv'
  BY <1>1, <1>7, <1>13 DEF TailInv
<1>15. PendingInv'
  <2>1. p0.offset + RecLen(rec) = writeOff'
    BY <1>1, <1>4, <1>6
  <2> QED
    BY <1>1, <1>6, <1>7, <1>8, <1>9, <1>12, <1>13, <2>1 DEF PendingInv
<1>16. IndexMatchesLog'
  BY <1>1, <1>7, <1>8, <1>12, <1>13 DEF IndexMatchesLog
<1>17. LocatedRecordReadable'
  <2> SUFFICES ASSUME NEW u \in Threads, pc'[u] = "read", Untorn', pos'[u].file_id = ActiveId
               PROVE  /\ IntactAt(g, pos'[u].offset)
                      /\ RecordAt(g, pos'[u].offset).key = op'[u].key
                      /\ RecordAt(g, pos'[u].offset).type = NORMAL
    BY <1>1 DEF LocatedRecordReadable
  <2>1. pc[u] = "read" /\ pos'[u] = pos[u] /\ op'[u] = op[u] /\ Untorn
    BY <1>1, <1>7, <1>8
  <2>2. /\ IntactAt(file, pos[u].offset) /\ RecordAt(file, pos[u].offset).key = op[u].key
        /\ RecordAt(file, pos[u].offset).type = NORMAL
    BY <2>1 DEF IInv, LocatedRecordReadable
  <2>3. pos[u].offset \in Nat
    BY <1>2, <2>1 DEF TypeOK, IInv, ReadInv, Positions
  <2>4. IntactAt(g, pos[u].offset) /\ RecordAt(g, pos[u].offset) = RecordAt(file, pos[u].offset)
    <3>1. Len(file) <= Len(g)
      BY <1>2, <1>4, <1>5
    <3> QED
      BY <1>2, <1>5, <2>2, <2>3, <3>1, IntactGrows
  <2> QED
    BY <2>1, <2>2, <2>4
<1> QED
  BY <1>10, <1>11, <1>14, <1>15, <1>16, <1>17 DEF IInv

\* A write cut short leaves a torn tail, and nothing is claimed of the tail.
LEMMA AppendRecordShortInv == \A t \in Threads : IInv /\ AppendRecordShort(t) => IInv'
<1> SUFFICES ASSUME NEW t \in Threads, IInv, AppendRecordShort(t) PROVE IInv'
  OBVIOUS
<1> DEFINE rec == OpRecord(t)
<1>1. /\ pc[t] = "append" /\ phase = "open" /\ phase' = "open" /\ mutex' = NoThread
      /\ Return(t, Answer("kIOError", NoValue))
      /\ UNCHANGED <<synced, writeOff, index, scan>>
  BY DEF AppendRecordShort
<1>2. PICK n \in 1..(RecLen(rec) - 1) : file' = file \o SubSeq(Encode(rec), 1, n)
  BY DEF AppendRecordShort
<1>3. TypeOK /\ OpInv /\ file \in Seq(Units) /\ Len(file) \in Nat /\ writeOff \in 0..Len(file)
  BY DEF IInv, TypeOK
<1>4. rec \in Records
  BY <1>1, <1>3, OpRecordType
<1>5. /\ Encode(rec) \in Seq(Units) /\ Len(Encode(rec)) = RecLen(rec) /\ RecLen(rec) \in Nat
  BY <1>4, EncodeUnits, RecLenNat
<1> HIDE DEF rec
<1>6. SubSeq(Encode(rec), 1, n) \in Seq(Units) /\ Len(SubSeq(Encode(rec), 1, n)) = n /\ n \in Nat
  BY <1>5
<1>7. file' \in Seq(Units) /\ Len(file') = Len(file) + n
  BY <1>2, <1>3, <1>6
<1>8. /\ pc' \in [Threads -> {"idle", "lock", "check", "append", "index", "lookup", "read"}]
      /\ op' \in [Threads -> Ops]
      /\ pos' \in [Threads -> Positions \cup {NoPos}]
      /\ ans' \in [Threads -> [status : {"kSuccess", "kKeyNotFound", "kDataCorrupted",
                                        "kIOError", "kInvalid"},
                              value : Values \cup {NoValue}]]
      /\ pc'[t] = "idle" /\ op'[t] = NoOp
      /\ \A u \in Threads \ {t} : pc'[u] = pc[u] /\ op'[u] = op[u] /\ pos'[u] = pos[u]
  BY <1>1, <1>3, AnswerFields, ReturnStep
<1>9. ~Untorn'
  BY <1>1, <1>3, <1>6, <1>7 DEF Untorn
<1>10. TypeOK'
  <2>1. synced' \in 0..Len(file') /\ writeOff' \in 0..Len(file')
    BY <1>1, <1>3, <1>6, <1>7 DEF TypeOK
  <2> QED
    BY <1>1, <1>3, <1>7, <1>8, <2>1 DEF TypeOK
<1>11. \A u \in Threads : pc'[u] \notin {"check", "append", "index"}
  BY <1>1, <1>8 DEF IInv, LockInv
<1>12. OpInv' /\ ReadInv'
  BY <1>8 DEF IInv, OpInv, ReadInv
<1>13. (LockInv /\ QuietInv /\ ScanInv /\ TailInv /\ PendingInv /\ IndexMatchesLog
          /\ LocatedRecordReadable)'
  BY <1>1, <1>9, <1>11, ConstantsAssumption DEF LockInv, QuietInv, ScanInv, TailInv, PendingInv,
     IndexMatchesLog, LocatedRecordReadable
<1> QED
  BY <1>10, <1>12, <1>13 DEF IInv

\* Once the writer of the last record has indexed it, the index replays the whole log.
LEMMA PendingReplay ==
    ASSUME IInv, NEW t \in Threads, pc[t] = "index", Untorn
    PROVE  /\ pos[t] \in LogPositions(file) /\ Record(file, pos[t]) = OpRecord(t)
           /\ IsReplay(file, [index EXCEPT ![op[t].key] = IF op[t].op = "put" THEN pos[t] ELSE NoPos],
                       Position(ActiveId, writeOff))
<1> DEFINE rec == OpRecord(t)
           p0 == pos[t]
           end == Position(ActiveId, writeOff)
<1>1. /\ TypeOK /\ OpInv /\ file \in Seq(Units) /\ Len(file) \in Nat /\ writeOff \in 0..Len(file)
      /\ index \in [Keys -> Positions \cup {NoPos}] /\ ActiveId \in Nat
  BY ArchiveAssumption DEF IInv, TypeOK, ActiveId
<1>2. rec \in Records /\ RecLen(rec) \in Nat /\ RecLen(rec) >= 2
  BY <1>1, OpRecordType, RecLenNat
<1>3. /\ phase = "open" /\ p0.file_id = ActiveId /\ p0.offset + RecLen(rec) = writeOff
      /\ IntactAt(file, p0.offset) /\ RecordAt(file, p0.offset) = rec
  BY DEF IInv, PendingInv
<1>4. p0 \in Positions /\ p0.offset \in Nat
  <2>1. p0 \in Positions \cup {NoPos}
    BY <1>1 DEF TypeOK
  <2>2. p0 # NoPos
    BY <1>1, <1>3 DEF NoPos
  <2> QED
    BY <2>1, <2>2 DEF Positions
<1>5. op[t].key = rec.key /\ (op[t].op = "put" <=> rec.type = NORMAL)
  BY <1>1 DEF OpInv, OpRecord, NORMAL, DELETED
<1>6. IsReplay(file, index, p0)
  BY <1>3 DEF IInv, IndexMatchesLog, Serving
<1> HIDE DEF rec, p0
<1>7. writeOff = Len(file) /\ WellFormed(file, Len(file))
  BY <1>3 DEF IInv, TailInv, Serving, Untorn
<1>8. \A i \in 1..RecLen(rec) : file[p0.offset + i].part = i
  BY <1>1, <1>3, <1>4, IntactUnits
<1>9. p0 \in LogPositions(file) /\ Record(file, p0) = rec
  <2>1. p0.offset + 1 \in 1..Len(file) /\ file[p0.offset + 1].part = 1
    BY <1>2, <1>3, <1>8 DEF IntactAt
  <2>2. Logged(file, p0)
    BY <1>1, <1>3, <1>7, <2>1 DEF Logged, File
  <2> QED
    BY <1>1, <1>3, <1>4, <2>2, LogPositionsDef DEF Record, File
<1>10. end.file_id = ActiveId /\ end.offset = writeOff
  BY DEF Position
<1> HIDE DEF end
<1>11. ASSUME NEW p \in LogPositions(file)
       PROVE  Before(p, end) <=> Before(p, p0) \/ p = p0
  <2>1. p \in Positions /\ p.file_id \in 0..ActiveId /\ p.offset \in Nat /\ Logged(file, p)
    BY <1>1, <1>11, LoggedRecord, LogPositionsDef
  <2>2. Before(p, p0) \/ p = p0 => Before(p, end)
    BY <1>1, <1>2, <1>3, <1>4, <1>10, <2>1 DEF Before
  <2>3. ASSUME Before(p, end), ~Before(p, p0) PROVE p = p0
    <3>1. p.file_id = ActiveId /\ p0.offset <= p.offset /\ p.offset < writeOff
      BY <1>1, <1>3, <1>4, <1>10, <2>1, <2>3 DEF Before
    <3>2. file[p.offset + 1].part = 1
      BY <2>1, <3>1 DEF Logged, File
    <3>3. p.offset + 1 - p0.offset \in 1..RecLen(rec)
          /\ p0.offset + (p.offset + 1 - p0.offset) = p.offset + 1
      <4>1. /\ p.offset \in Nat /\ p0.offset \in Nat /\ RecLen(rec) \in Nat
            /\ p0.offset + RecLen(rec) = writeOff
        BY <1>2, <1>3, <1>4, <2>1
      <4> QED
        BY <3>1, <4>1
    <3>4. p.offset + 1 - p0.offset = 1
      BY <1>8, <3>2, <3>3
    <3>5. p.offset = p0.offset
      BY <1>4, <2>1, <3>4
    <3> QED
      BY <1>3, <1>4, <2>1, <3>1, <3>5 DEF Positions
  <2> QED
    BY <2>2, <2>3
<1>12. IsReplay(file, [index EXCEPT ![Record(file, p0).key] =
                         IF Record(file, p0).type = NORMAL THEN p0 ELSE NoPos], end)
  BY <1>1, <1>6, <1>9, <1>11, ReplayOneMore
<1>13. IsReplay(file, [index EXCEPT ![op[t].key] = IF op[t].op = "put" THEN p0 ELSE NoPos], end)
  BY <1>5, <1>9, <1>12
<1> QED
  BY <1>9, <1>13 DEF rec, p0, end

\* The writer enters its record in the index, which so catches up with the log.
LEMMA UpdateIndexInv == \A t \in Threads : IInv /\ UpdateIndex(t) => IInv'
<1> SUFFICES ASSUME NEW t \in Threads, IInv, UpdateIndex(t) PROVE IInv'
  OBVIOUS
<1> DEFINE rec == OpRecord(t)
           p0 == pos[t]
           end == Position(ActiveId, writeOff)
<1>1. /\ pc[t] = "index" /\ mutex' = NoThread
      /\ index' = [index EXCEPT ![op[t].key] = IF op[t].op = "put" THEN p0 ELSE NoPos]
      /\ Return(t, Answer("kSuccess", NoValue))
      /\ UNCHANGED <<file, synced, writeOff, phase, scan>>
  BY DEF UpdateIndex, disk
<1>2. /\ TypeOK /\ OpInv /\ file \in Seq(Units) /\ Len(file) \in Nat /\ writeOff \in 0..Len(file)
      /\ index \in [Keys -> Positions \cup {NoPos}] /\ ActiveId \in Nat
  BY ArchiveAssumption DEF IInv, TypeOK, ActiveId
<1>3. rec \in Records /\ RecLen(rec) \in Nat /\ RecLen(rec) >= 2
  BY <1>1, <1>2, OpRecordType, RecLenNat
<1>4. /\ phase = "open" /\ p0.file_id = ActiveId /\ p0.offset + RecLen(rec) = writeOff
      /\ Untorn => IntactAt(file, p0.offset) /\ RecordAt(file, p0.offset) = rec
  BY <1>1 DEF IInv, PendingInv
<1>5. p0 \in Positions /\ p0.offset \in Nat
  <2>1. p0 \in Positions \cup {NoPos}
    BY <1>2 DEF TypeOK
  <2>2. p0 # NoPos
    BY <1>2, <1>4 DEF NoPos
  <2> QED
    BY <2>1, <2>2 DEF Positions
<1>6. op[t].key \in Keys /\ op[t].key = rec.key /\ (op[t].op = "put" <=> rec.type = NORMAL)
  BY <1>1, <1>2 DEF OpInv, OpRecord, NORMAL, DELETED
<1> HIDE DEF rec, p0
<1>7. /\ pc' \in [Threads -> {"idle", "lock", "check", "append", "index", "lookup", "read"}]
      /\ op' \in [Threads -> Ops]
      /\ pos' \in [Threads -> Positions \cup {NoPos}]
      /\ ans' \in [Threads -> [status : {"kSuccess", "kKeyNotFound", "kDataCorrupted",
                                        "kIOError", "kInvalid"},
                              value : Values \cup {NoValue}]]
      /\ pc'[t] = "idle" /\ op'[t] = NoOp
      /\ \A u \in Threads \ {t} : pc'[u] = pc[u] /\ op'[u] = op[u] /\ pos'[u] = pos[u]
  BY <1>1, <1>2, AnswerFields, ReturnStep
<1>8. TypeOK'
  <2>1. index' \in [Keys -> Positions \cup {NoPos}]
    BY <1>1, <1>2, <1>5
  <2> QED
    BY <1>1, <1>2, <1>7, <2>1 DEF TypeOK
<1>9. \A u \in Threads : pc'[u] \notin {"check", "append", "index"}
  BY <1>1, <1>7 DEF IInv, LockInv
<1>10. OpInv' /\ ReadInv' /\ QuietInv'
  BY <1>1, <1>4, <1>7 DEF IInv, OpInv, ReadInv, QuietInv
<1>11. (LockInv /\ ScanInv /\ TailInv /\ PendingInv)'
  BY <1>1, <1>4, <1>9, ConstantsAssumption
     DEF IInv, LockInv, ScanInv, TailInv, PendingInv, Serving, Untorn
<1>12. LocatedRecordReadable'
  BY <1>1, <1>7 DEF IInv, LocatedRecordReadable, Untorn
<1>13. IndexMatchesLog'
  <2> SUFFICES ASSUME Untorn PROVE IsReplay(file, index', end)
    BY <1>1, <1>4, <1>9 DEF IndexMatchesLog, Untorn
  <2> QED
    BY <1>1, PendingReplay DEF p0
<1> QED
  BY <1>8, <1>10, <1>11, <1>12, <1>13 DEF IInv

\* Close changes nothing that readers of the log rely on.
LEMMA CloseInv == IInv /\ Close => IInv'
<1> SUFFICES ASSUME IInv, Close PROVE IInv'
  OBVIOUS
<1>1. /\ phase = "open" /\ phase' = "closed" /\ synced' = Len(file)
      /\ \A t \in Threads : pc[t] = "idle"
      /\ UNCHANGED <<file, writeOff, index, mutex, scan, pc, op, pos, ans>>
  BY DEF Close, local
<1>2. TypeOK'
  BY <1>1 DEF IInv, TypeOK
<1>3. (OpInv /\ LockInv /\ QuietInv /\ ScanInv /\ TailInv /\ PendingInv /\ ReadInv)'
  BY <1>1 DEF IInv, OpInv, LockInv, QuietInv, ScanInv, TailInv, PendingInv, ReadInv,
     Serving, Untorn
<1>4. IndexMatchesLog' /\ LocatedRecordReadable'
  BY <1>1 DEF IInv, IndexMatchesLog, LocatedRecordReadable, Serving, Untorn
<1> QED
  BY <1>2, <1>3, <1>4 DEF IInv

\* The process dies: what is left is a file of units.
LEMMA CrashInv == IInv /\ Crash => IInv'
<1> SUFFICES ASSUME IInv, Crash PROVE IInv'
  OBVIOUS
<1>1. /\ phase' = "down" /\ writeOff' = 0 /\ index' = NoIndex /\ mutex' = NoThread
      /\ scan' = Position(0, 0) /\ Quiet
  BY DEF Crash
<1>2. TypeOK /\ OpInv /\ file \in Seq(Units) /\ Len(file) \in Nat /\ synced \in 0..Len(file)
  BY DEF IInv, TypeOK
<1>3. file' \in Seq(Units) /\ synced' \in 0..Len(file')
  <2>1. CASE UNCHANGED disk
    BY <1>2, <2>1 DEF disk
  <2>2. ASSUME NEW t \in Threads, NEW n \in 1..(RecLen(OpRecord(t)) - 1), pc[t] = "append",
               file' = file \o SubSeq(Encode(OpRecord(t)), 1, n), UNCHANGED synced
        PROVE  file' \in Seq(Units) /\ synced' \in 0..Len(file')
    <3> DEFINE rec == OpRecord(t)
    <3>1. rec \in Records
      BY <1>2, <2>2, OpRecordType
    <3>2. /\ Encode(rec) \in Seq(Units) /\ Len(Encode(rec)) = RecLen(rec) /\ RecLen(rec) \in Nat
      BY <3>1, EncodeUnits, RecLenNat
    <3> HIDE DEF rec
    <3>3. n \in 1..(RecLen(rec) - 1) /\ file' = file \o SubSeq(Encode(rec), 1, n)
      BY <2>2 DEF rec
    <3>4. SubSeq(Encode(rec), 1, n) \in Seq(Units) /\ Len(SubSeq(Encode(rec), 1, n)) = n
      BY <3>2, <3>3
    <3>5. file' \in Seq(Units) /\ Len(file') = Len(file) + n
      BY <1>2, <3>3, <3>4
    <3> QED
      BY <1>2, <2>2, <3>3, <3>5
  <2>3. ASSUME NEW n \in synced..Len(file), file' = SubSeq(file, 1, n), synced' = Len(file')
        PROVE  file' \in Seq(Units) /\ synced' \in 0..Len(file')
    <3>1. n \in 0..Len(file)
      BY <1>2
    <3>2. file' \in Seq(Units)
      BY <1>2, <2>3, <3>1
    <3>3. Len(file') \in Nat
      BY <3>2
    <3> QED
      BY <2>3, <3>2, <3>3
  <2> QED
    BY <2>1, <2>2, <2>3 DEF Crash
<1>4. ActiveId \in Nat
  BY ArchiveAssumption DEF ActiveId
<1>5. TypeOK'
  BY <1>1, <1>2, <1>3, <1>4 DEF TypeOK, Quiet, Positions, Position, NoIndex, NoOp, Ops, NoAnswer,
     Answer
<1>6. (OpInv /\ LockInv /\ QuietInv /\ PendingInv /\ ReadInv /\ LocatedRecordReadable)'
  BY <1>1, ConstantsAssumption DEF Quiet, OpInv, LockInv, QuietInv, PendingInv, ReadInv,
     LocatedRecordReadable
<1>7. (ScanInv /\ TailInv /\ IndexMatchesLog)'
  BY <1>1 DEF ScanInv, TailInv, IndexMatchesLog, Serving
<1> QED
  BY <1>5, <1>6, <1>7 DEF IInv

\* A step that changes nothing.
LEMMA StutterInv == IInv /\ UNCHANGED vars => IInv'
<1> SUFFICES ASSUME IInv, UNCHANGED vars PROVE IInv'
  OBVIOUS
<1>1. UNCHANGED <<file, synced, writeOff, index, mutex, phase, scan, pc, op, pos, ans>>
  BY DEF vars
<1>2. TypeOK' /\ (OpInv /\ LockInv /\ QuietInv)'
  BY <1>1 DEF IInv, TypeOK, OpInv, LockInv, QuietInv
<1>3. (ScanInv /\ TailInv /\ PendingInv /\ ReadInv /\ IndexMatchesLog /\ LocatedRecordReadable)'
  BY <1>1, PassiveStep
<1> QED
  BY <1>2, <1>3 DEF IInv

\* Every step of the engine keeps the invariant.
LEMMA NextInv == IInv /\ [Next]_vars => IInv'
<1> SUFFICES ASSUME IInv, [Next]_vars PROVE IInv'
  OBVIOUS
<1>1. CASE Open \/ Load \/ Close \/ Crash
  BY <1>1, OpenInv, LoadRecordInv, LoadNextFileInv, LoadDoneInv, CloseInv, CrashInv DEF Load
<1>2. ASSUME NEW t \in Threads, Step(t) PROVE IInv'
  BY <1>2, LockStepInv, ReturnInv, LookupInv, AppendRecordInv, AppendRecordShortInv,
     UpdateIndexInv DEF Step
<1>3. ASSUME NEW t \in Threads, NEW o \in Ops, Call(t, o) PROVE IInv'
  BY <1>3, CallInv
<1>4. CASE UNCHANGED vars
  BY <1>4, StutterInv
<1> QED
  BY <1>1, <1>2, <1>3, <1>4 DEF Next

-----------------------------------------------------------------------------
(* Theorems.                                                               *)

\* The invariant holds in every state of every execution of the engine, with every
\* combination of the faults.
THEOREM Invariance == Spec => []IInv
<1>1. Init => IInv
  BY InitInv
<1>2. IInv /\ [Next]_vars => IInv'
  BY NextInv
<1> QED
  BY <1>1, <1>2, PTL DEF Spec

\* Every variable of the engine keeps its type; the write offset never passes the end of
\* the active file (DBFile::write_off_).
THEOREM TypeCorrect == Spec => []TypeOK
<1>1. IInv => TypeOK
  BY DEF IInv
<1> QED
  BY <1>1, Invariance, PTL

\* The index is the replay of the log, during Open and as long as no write was torn.
THEOREM IndexIsReplayOfLog == Spec => []IndexMatchesLog
<1>1. IInv => IndexMatchesLog
  BY DEF IInv
<1> QED
  BY <1>1, Invariance, PTL

\* Get, which takes no lock, reads a live record of its key wherever writers have got to.
THEOREM ReadersFindTheirRecord == Spec => []LocatedRecordReadable
<1>1. IInv => LocatedRecordReadable
  BY DEF IInv
<1> QED
  BY <1>1, Invariance, PTL
-----------------------------------------------------------------------------
(* What a torn tail leaves intact.                                         *)

\* Bytes that begin a new record complete no torn one: stretches of whole records that
\* reach into them began at the end of the file, and the file before them was whole.
LEMMA GrownWellFormed ==
    ASSUME NEW f \in Seq(Units), NEW g \in Seq(Units), Len(f) < Len(g),
           \A i \in 1..Len(f) : g[i] = f[i], g[Len(f) + 1].part = 1,
           NEW n \in 1..Len(g), WellFormed(g, n)
    PROVE  /\ n <= Len(f) => WellFormed(f, n)
           /\ n > Len(f) => /\ WellFormed(f, Len(f)) /\ IntactAt(g, Len(f))
                            /\ Len(f) + RecLen(RecordAt(g, Len(f))) <= n
<1> DEFINE len == Len(f)
<1>1. len \in Nat /\ n \in Nat /\ n <= Len(g) /\ Len(g) \in Nat
  OBVIOUS
<1>2. ASSUME n <= len PROVE WellFormed(f, n)
  <2>1. \A i \in 1..n : g[i] = f[i]
    BY <1>1, <1>2
  <2> QED
    BY <1>1, <1>2, <2>1, WellFormedPrefix
<1>3. ASSUME n > len PROVE IntactAt(g, len) /\ len + RecLen(RecordAt(g, len)) <= n
  BY <1>1, <1>3, WellFormedStart
<1>4. ASSUME n > len PROVE WellFormed(f, len)
  <2> HIDE DEF len
  <2> SUFFICES ASSUME NEW i \in 1..len
               PROVE  LET rec == f[i].rec  start == i - f[i].part IN
                      /\ start >= 0
                      /\ f[i].part <= RecLen(rec)
                      /\ start + RecLen(rec) <= len
                      /\ \A j \in 1..RecLen(rec) : f[start + j] = Unit(rec, j)
    BY DEF WellFormed
  <2> DEFINE rec == f[i].rec
  <2> DEFINE start == i - f[i].part
  <2>1. i \in 1..n /\ i \in 1..Len(f) /\ g[i] = f[i]
    BY <1>1, <1>4 DEF len
  <2>2. f[i].part \in Nat /\ f[i].part >= 1 /\ RecLen(rec) \in Nat
    BY <2>1, UnitType
  <2>3. /\ start >= 0 /\ f[i].part <= RecLen(rec) /\ start + RecLen(rec) <= n
        /\ \A j \in 1..RecLen(rec) : g[start + j] = Unit(rec, j)
    BY <2>1 DEF WellFormed
  <2>4. start \in Nat /\ start < i
    BY <2>2, <2>3
  <2> HIDE DEF rec, start
  <2>5. start + RecLen(rec) <= len
    <3> SUFFICES ASSUME start + RecLen(rec) > len PROVE FALSE
      BY <1>1, <2>2, <2>4
    <3>1. len + 1 - start \in 1..RecLen(rec) /\ start + (len + 1 - start) = len + 1
          /\ len + 1 - start # 1
      BY <1>1, <2>2, <2>4
    <3>2. g[len + 1] = Unit(rec, len + 1 - start)
      BY <2>3, <3>1
    <3> QED
      BY <3>1, <3>2, UnitFields DEF len
  <2>6. \A j \in 1..RecLen(rec) : f[start + j] = Unit(rec, j)
    <3> TAKE j \in 1..RecLen(rec)
    <3>1. start + j \in 1..len
      BY <1>1, <2>2, <2>4, <2>5
    <3> QED
      BY <2>3, <3>1 DEF len
  <2> QED
    BY <2>3, <2>5, <2>6 DEF rec, start
<1> QED
  BY <1>2, <1>3, <1>4

\* A replayed index leads to live records of its keys.
LEMMA ReplayFinds ==
    ASSUME NEW f \in Seq(Units), NEW idx, NEW limit, IsReplay(f, idx, limit),
           NEW k \in Keys, idx[k].file_id = ActiveId
    PROVE  /\ idx[k].offset \in Nat
           /\ IntactAt(f, idx[k].offset)
           /\ RecordAt(f, idx[k].offset).key = k
           /\ RecordAt(f, idx[k].offset).type = NORMAL
<1>1. ActiveId \in Nat
  BY ArchiveAssumption DEF ActiveId
<1>2. idx[k] # NoPos
  BY <1>1 DEF NoPos
<1>3. /\ idx[k] \in LogPositions(f) /\ Record(f, idx[k]).key = k
      /\ Record(f, idx[k]).type = NORMAL
  BY <1>2 DEF IsReplay, Latest
<1> QED
  BY <1>3, LoggedRecord DEF Record, File

TearInv == TornInv /\ PrefixSurvivesTear

\* An engine that is down, or about to replay, has nothing in its index.
LEMMA NothingIndexed ==
    ASSUME index' = NoIndex, phase' \in {"down", "load"} PROVE TearInv'
<1>1. ActiveId \in Nat /\ NoPos.file_id = ActiveId + 1
  BY ArchiveAssumption DEF ActiveId, NoPos
<1>2. \A k \in Keys : index'[k].file_id # ActiveId
  BY <1>1 DEF NoIndex
<1>3. PrefixSurvivesTear'
  BY <1>2 DEF PrefixSurvivesTear
<1> QED
  BY <1>3 DEF TearInv, TornInv, Serving

\* Steps that leave the file and the index alone.
LEMMA TearKept ==
    ASSUME TearInv, UNCHANGED <<file, index, writeOff>>, Serving' => Serving,
           \A t \in Threads : pc'[t] = "index" => pc[t] = "index" /\ pos'[t] = pos[t]
    PROVE  TearInv'
<1>1. PrefixSurvivesTear'
  BY DEF TearInv, PrefixSurvivesTear
<1>2. TornInv'
  BY DEF TearInv, TornInv, Untorn
<1> QED
  BY <1>1, <1>2 DEF TearInv

\* While Open replays, the index is a replay.
LEMMA ReplayTear == IInv' /\ phase' = "load" => TearInv'
<1> SUFFICES ASSUME IInv', phase' = "load" PROVE TearInv'
  OBVIOUS
<1>1. IsReplay(file', index', scan') /\ file' \in Seq(Units)
  BY DEF IInv, IndexMatchesLog, TypeOK
<1>2. PrefixSurvivesTear'
  BY <1>1, ReplayFinds DEF PrefixSurvivesTear
<1> QED
  BY <1>2 DEF TearInv, TornInv, Serving

\* Replay ends where no whole record begins.
LEMMA LoadDoneTear == IInv /\ TearInv /\ LoadDone => TearInv'
<1> SUFFICES ASSUME IInv, TearInv, LoadDone PROVE TearInv'
  OBVIOUS
<1>1. /\ phase = "load" /\ scan.file_id = ActiveId /\ ~IntactAt(file, scan.offset)
      /\ writeOff' = scan.offset
      /\ UNCHANGED <<file, index, scan, pc, pos>>
  BY DEF LoadDone, disk, local
<1>2. /\ file \in Seq(Units) /\ scan.offset \in Nat /\ Len(file) \in Nat
      /\ scan.offset <= Len(file) /\ WellFormed(file, scan.offset)
  BY <1>1 DEF IInv, TypeOK, ScanInv, File, Positions
<1>3. ASSUME NEW n \in 1..Len(file), WellFormed(file, n) PROVE n <= scan.offset
  <2>1. n \in Nat /\ n <= Len(file)
    BY <1>2
  <2> QED
    BY <1>1, <1>2, <1>3, <2>1, WellFormedStop
<1>4. \A t \in Threads : pc[t] = "idle"
  BY <1>1 DEF IInv, QuietInv
<1>5. TornInv'
  BY <1>1, <1>3, <1>4 DEF TornInv
<1>6. PrefixSurvivesTear'
  BY <1>1 DEF TearInv, PrefixSurvivesTear
<1> QED
  BY <1>5, <1>6 DEF TearInv

\* The file has grown by the beginning of a record.
LEMMA GrownSurvives ==
    ASSUME IInv, TearInv, Serving, \A t \in Threads : pc[t] # "index", index' = index,
           file' \in Seq(Units), Len(file) < Len(file'),
           \A i \in 1..Len(file) : file'[i] = file[i], file'[Len(file) + 1].part = 1
    PROVE  /\ PrefixSurvivesTear'
           /\ \A n \in 1..Len(file') :
                 WellFormed(file', n) =>
                    \/ n \in 1..Len(file) /\ n <= writeOff
                    \/ n > Len(file) /\ Untorn
<1>1. /\ file \in Seq(Units) /\ Len(file) \in Nat /\ writeOff \in 0..Len(file) /\ Len(file') \in Nat
      /\ \A n \in 1..Len(file) : WellFormed(file, n) => n <= writeOff
  BY DEF IInv, TypeOK, TearInv, TornInv
<1>2. ASSUME NEW n \in 1..Len(file'), WellFormed(file', n)
      PROVE  /\ n <= Len(file) => n \in 1..Len(file) /\ WellFormed(file, n) /\ n <= writeOff
             /\ n > Len(file) => Untorn
  <2>1. n <= Len(file) => n \in 1..Len(file)
    OBVIOUS
  <2>2. n <= Len(file) => WellFormed(file, n)
    BY <1>1, <1>2, GrownWellFormed
  <2>3. ASSUME n > Len(file) PROVE Untorn
    <3>1. WellFormed(file, Len(file))
      BY <1>1, <1>2, <2>3, GrownWellFormed
    <3>2. Len(file) # 0 => Len(file) \in 1..Len(file)
      BY <1>1
    <3>3. Len(file) <= writeOff
      BY <1>1, <3>1, <3>2
    <3> QED
      BY <1>1, <3>3 DEF Untorn
  <2> QED
    BY <1>1, <1>2, <2>1, <2>2, <2>3
<1>3. ASSUME NEW k \in Keys, index[k].file_id = ActiveId,
             NEW n \in 1..Len(file'), index[k].offset < n, WellFormed(file', n)
      PROVE  /\ IntactAt(file', index[k].offset)
             /\ RecordAt(file', index[k].offset).key = k
             /\ RecordAt(file', index[k].offset).type = NORMAL
  <2> DEFINE o == index[k].offset
  <2>1. o \in Nat
    <3>1. index[k] \in Positions \cup {NoPos}
      BY DEF IInv, TypeOK
    <3> QED
      BY <3>1 DEF Positions, NoPos
  <2>2. /\ IntactAt(file, o)
        /\ RecordAt(file, o).key = k
        /\ RecordAt(file, o).type = NORMAL
    <3>1. CASE n <= Len(file)
      <4>1. n \in 1..Len(file) /\ WellFormed(file, n)
        BY <1>2, <1>3, <3>1
      <4> QED
        BY <1>3, <4>1 DEF TearInv, PrefixSurvivesTear
    <3>2. CASE n > Len(file)
      <4>1. IsReplay(file, index, Position(ActiveId, writeOff))
        BY <1>2, <1>3, <3>2 DEF IInv, IndexMatchesLog
      <4> QED
        BY <1>1, <1>3, <4>1, ReplayFinds
    <3> QED
      BY <1>1, <3>1, <3>2
  <2>3. Len(file) <= Len(file')
    BY <1>1
  <2>4. IntactAt(file', o) /\ RecordAt(file', o) = RecordAt(file, o)
    BY <1>1, <2>1, <2>2, <2>3, IntactGrows
  <2> QED
    BY <2>2, <2>4
<1>4. PrefixSurvivesTear'
  BY <1>3 DEF PrefixSurvivesTear
<1> QED
  BY <1>1, <1>2, <1>4

LEMMA AppendRecordTear == \A t \in Threads : IInv /\ TearInv /\ AppendRecord(t) => TearInv'
<1> SUFFICES ASSUME NEW t \in Threads, IInv, TearInv, AppendRecord(t) PROVE TearInv'
  OBVIOUS
<1> DEFINE rec == OpRecord(t)
<1> DEFINE g == file \o Encode(rec)
<1>1. /\ pc[t] = "append" /\ phase = "open" /\ phase' = "open" /\ Serving /\ file' = g
      /\ writeOff' = writeOff + Len(Encode(rec))
      /\ pos' = [pos EXCEPT ![t] = Position(ActiveId, writeOff)]
      /\ pc' = [pc EXCEPT ![t] = "index"] /\ index' = index
  BY DEF AppendRecord, Serving
<1>2. TypeOK /\ OpInv /\ file \in Seq(Units) /\ Len(file) \in Nat /\ writeOff \in 0..Len(file)
  BY DEF IInv, TypeOK
<1>3. rec \in Records
  BY <1>1, <1>2, OpRecordType
<1>4. /\ Encode(rec) \in Seq(Units) /\ Len(Encode(rec)) = RecLen(rec)
      /\ RecLen(rec) \in Nat /\ RecLen(rec) >= 2 /\ Encode(rec)[1].part = 1
  <2>1. 1 \in 1..RecLen(rec)
    BY <1>3, RecLenNat
  <2> QED
    BY <1>3, <2>1, EncodeUnits, RecLenNat, UnitFields
<1> HIDE DEF rec
<1>5. /\ g \in Seq(Units) /\ Len(g) = Len(file) + RecLen(rec)
      /\ \A i \in 1..Len(file) : g[i] = file[i]
      /\ g[Len(file) + 1] = Encode(rec)[1]
  BY <1>2, <1>4
<1>6. \A u \in Threads : pc[u] # "index"
  BY <1>1 DEF IInv, LockInv
<1> HIDE DEF g
<1>7. /\ PrefixSurvivesTear'
      /\ \A n \in 1..Len(file') :
             WellFormed(file', n) =>
                \/ n \in 1..Len(file) /\ n <= writeOff
                \/ n > Len(file) /\ Untorn
  BY <1>1, <1>2, <1>4, <1>5, <1>6, GrownSurvives
<1>8. Untorn' <=> Untorn
  BY <1>1, <1>2, <1>4, <1>5 DEF Untorn
<1>9. ASSUME NEW n \in 1..Len(file'), WellFormed(file', n)
      PROVE  n <= writeOff' /\ (~Untorn' => n <= writeOff)
  BY <1>1, <1>2, <1>4, <1>5, <1>7, <1>8, <1>9 DEF Untorn
<1>10. \A u \in Threads : pc'[u] = "index" => pos'[u].offset = writeOff
  <2>1. Position(ActiveId, writeOff).offset = writeOff
    BY DEF Position
  <2> QED
    BY <1>1, <1>2, <1>6, <2>1 DEF TypeOK
<1>11. TornInv'
  BY <1>9, <1>10 DEF TornInv
<1> QED
  BY <1>7, <1>11 DEF TearInv

LEMMA AppendRecordShortTear ==
    \A t \in Threads : IInv /\ TearInv /\ AppendRecordShort(t) => TearInv'
<1> SUFFICES ASSUME NEW t \in Threads, IInv, TearInv, AppendRecordShort(t) PROVE TearInv'
  OBVIOUS
<1> DEFINE rec == OpRecord(t)
<1>1. /\ pc[t] = "append" /\ phase = "open" /\ phase' = "open" /\ Serving
      /\ pc' = [pc EXCEPT ![t] = "idle"] /\ UNCHANGED <<index, writeOff>>
  BY DEF AppendRecordShort, Serving, Return
<1>2. PICK k \in 1..(RecLen(rec) - 1) : file' = file \o SubSeq(Encode(rec), 1, k)
  BY DEF AppendRecordShort
<1>3. TypeOK /\ OpInv /\ file \in Seq(Units) /\ Len(file) \in Nat /\ writeOff \in 0..Len(file)
  BY DEF IInv, TypeOK
<1>4. rec \in Records
  BY <1>1, <1>3, OpRecordType
<1>5. /\ Encode(rec) \in Seq(Units) /\ Len(Encode(rec)) = RecLen(rec)
      /\ RecLen(rec) \in Nat /\ Encode(rec)[1].part = 1 /\ Encode(rec)[1].rec = rec
  <2>1. 1 \in 1..RecLen(rec)
    BY <1>4, RecLenNat
  <2> QED
    BY <1>4, <2>1, EncodeUnits, RecLenNat, UnitFields
<1> HIDE DEF rec
<1> DEFINE b == SubSeq(Encode(rec), 1, k)
<1>6. b \in Seq(Units) /\ Len(b) = k /\ k \in Nat /\ k >= 1 /\ b[1] = Encode(rec)[1]
  BY <1>5
<1> HIDE DEF b
<1>7. /\ file' \in Seq(Units) /\ Len(file') = Len(file) + k
      /\ \A i \in 1..Len(file) : file'[i] = file[i]
      /\ file'[Len(file) + 1] = Encode(rec)[1]
  BY <1>2, <1>3, <1>6 DEF b
<1>8. \A u \in Threads : pc[u] # "index" /\ pc'[u] # "index"
  BY <1>1, <1>3 DEF IInv, LockInv, TypeOK
<1>9. /\ PrefixSurvivesTear'
      /\ \A n \in 1..Len(file') :
             WellFormed(file', n) =>
                \/ n \in 1..Len(file) /\ n <= writeOff
                \/ n > Len(file) /\ Untorn
  <2>1. Len(file) < Len(file')
    BY <1>3, <1>6, <1>7
  <2> QED
    BY <1>1, <1>5, <1>7, <1>8, <2>1, GrownSurvives
<1>10. ASSUME NEW n \in 1..Len(file'), WellFormed(file', n) PROVE n <= writeOff
  <2> SUFFICES ASSUME n > Len(file) PROVE FALSE
    BY <1>3, <1>9, <1>10
  <2>1. Len(file) + RecLen(RecordAt(file', Len(file))) <= n
    <3>1. Len(file) < Len(file')
      BY <1>3, <1>6, <1>7
    <3> QED
      BY <1>3, <1>5, <1>7, <1>10, <3>1, GrownWellFormed
  <2>2. RecordAt(file', Len(file)) = rec
    BY <1>5, <1>7 DEF RecordAt
  <2> QED
    BY <1>2, <1>3, <1>5, <1>6, <1>7, <2>1, <2>2 DEF rec
<1>11. TornInv'
  BY <1>1, <1>8, <1>10 DEF TornInv
<1> QED
  BY <1>9, <1>11 DEF TearInv

LEMMA UpdateIndexTear == \A t \in Threads : IInv /\ TearInv /\ UpdateIndex(t) => TearInv'
<1> SUFFICES ASSUME NEW t \in Threads, IInv, TearInv, UpdateIndex(t) PROVE TearInv'
  OBVIOUS
<1>1. /\ pc[t] = "index" /\ phase' = phase
      /\ index' = [index EXCEPT ![op[t].key] = IF op[t].op = "put" THEN pos[t] ELSE NoPos]
      /\ pc' = [pc EXCEPT ![t] = "idle"] /\ pos' = [pos EXCEPT ![t] = NoPos]
      /\ UNCHANGED <<file, writeOff>>
  BY DEF UpdateIndex, disk, Return
<1>2. /\ TypeOK /\ OpInv /\ index \in [Keys -> Positions \cup {NoPos}]
      /\ ActiveId \in Nat /\ NoPos.file_id = ActiveId + 1
  BY ArchiveAssumption DEF IInv, TypeOK, ActiveId, NoPos
<1>3. /\ phase = "open" /\ pos[t].file_id = ActiveId
      /\ Untorn => IntactAt(file, pos[t].offset) /\ RecordAt(file, pos[t].offset) = OpRecord(t)
  BY <1>1 DEF IInv, PendingInv
<1>4. ~Untorn => \A n \in 1..Len(file) : WellFormed(file, n) => n <= pos[t].offset
  BY <1>1, <1>3 DEF TearInv, TornInv, Serving
<1>5. pos[t].offset \in Nat
  BY <1>2 DEF TypeOK, Positions, NoPos
<1>6. ASSUME NEW k \in Keys, index'[k].file_id = ActiveId,
             NEW n \in 1..Len(file), index'[k].offset < n, WellFormed(file, n)
      PROVE  /\ IntactAt(file, index'[k].offset)
             /\ RecordAt(file, index'[k].offset).key = k
             /\ RecordAt(file, index'[k].offset).type = NORMAL
  <2>1. CASE k # op[t].key
    <3>1. index'[k] = index[k]
      BY <1>1, <1>2, <2>1
    <3> QED
      BY <1>6, <3>1 DEF TearInv, PrefixSurvivesTear
  <2>2. CASE k = op[t].key
    <3>1. op[t].op = "put" /\ index'[k] = pos[t]
      BY <1>1, <1>2, <1>6, <2>2
    <3>2. Untorn
      BY <1>4, <1>5, <1>6, <3>1
    <3> QED
      BY <1>3, <2>2, <3>1, <3>2 DEF OpRecord
  <2> QED
    BY <2>1, <2>2
<1>7. PrefixSurvivesTear'
  BY <1>1, <1>6 DEF PrefixSurvivesTear
<1>8. \A u \in Threads : pc'[u] = "index" => pc[u] = "index" /\ pos'[u] = pos[u]
  BY <1>1, <1>2 DEF TypeOK
<1>9. TornInv'
  BY <1>1, <1>8 DEF TearInv, TornInv, Serving, Untorn
<1> QED
  BY <1>7, <1>9 DEF TearInv

\* Every other step of a thread.
LEMMA PassiveTear ==
    \A t \in Threads :
        IInv /\ TearInv /\ (Lock(t) \/ CheckPresent(t) \/ CheckAbsent(t) \/ AppendRecordFails(t)
                            \/ Lookup(t) \/ ReadLogRecord(t) \/ \E o \in Ops : Call(t, o)) => TearInv'
<1> SUFFICES ASSUME NEW t \in Threads, IInv, TearInv,
                    Lock(t) \/ CheckPresent(t) \/ CheckAbsent(t) \/ AppendRecordFails(t)
                    \/ Lookup(t) \/ ReadLogRecord(t) \/ \E o \in Ops : Call(t, o)
             PROVE  TearInv'
  OBVIOUS
<1>1. pc \in [Threads -> {"idle", "lock", "check", "append", "index", "lookup", "read"}]
      /\ pos \in [Threads -> Positions \cup {NoPos}]
  BY DEF IInv, TypeOK
<1>2. /\ UNCHANGED <<file, index, writeOff, phase>>
      /\ \E c \in {"idle", "lock", "check", "append", "lookup", "read"} :
            pc' = [pc EXCEPT ![t] = c] \/ pc' = pc
      /\ pos' = pos \/ \E p : pos' = [pos EXCEPT ![t] = p]
      /\ pc[t] # "index"
  <2>1. CASE Lock(t) \/ CheckPresent(t) \/ CheckAbsent(t) \/ AppendRecordFails(t)
    BY <2>1 DEF Lock, CheckPresent, CheckAbsent, AppendRecordFails, Return, disk
  <2>2. CASE Lookup(t) \/ ReadLogRecord(t)
    BY <2>2 DEF Lookup, ReadLogRecord, Return, disk
  <2>3. CASE \E o \in Ops : Call(t, o)
    BY <2>3 DEF Call, disk
  <2> QED
    BY <2>1, <2>2, <2>3
<1>3. \A u \in Threads : pc'[u] = "index" => pc[u] = "index" /\ pos'[u] = pos[u]
  BY <1>1, <1>2
<1>4. Serving' => Serving
  BY <1>2 DEF Serving
<1> QED
  BY <1>2, <1>3, <1>4, TearKept

LEMMA TearStep == IInv /\ TearInv /\ [Next]_vars => TearInv'
<1> SUFFICES ASSUME IInv, TearInv, [Next]_vars PROVE TearInv'
  OBVIOUS
<1>1. CASE Open \/ Crash
  BY <1>1, NothingIndexed DEF Open, Crash
<1>2. CASE LoadRecord
  <2>1. phase' = "load"
    BY <1>2 DEF LoadRecord
  <2> QED
    BY <1>2, <2>1, LoadRecordInv, ReplayTear
<1>3. CASE LoadNextFile
  <2>1. phase' = "load"
    BY <1>3 DEF LoadNextFile
  <2> QED
    BY <1>3, <2>1, LoadNextFileInv, ReplayTear
<1>4. CASE Close \/ UNCHANGED vars
  BY <1>4, TearKept DEF Close, vars, local, Serving
<1>5. ASSUME NEW t \in Threads, Step(t) PROVE TearInv'
  BY <1>5, PassiveTear, AppendRecordTear, AppendRecordShortTear, UpdateIndexTear DEF Step
<1>6. ASSUME NEW t \in Threads, NEW o \in Ops, Call(t, o) PROVE TearInv'
  BY <1>6, PassiveTear
<1> QED
  BY <1>1, <1>2, <1>3, <1>4, <1>5, <1>6, LoadDoneTear DEF Next, Load

\* Whatever writes are cut short and wherever the process or the power fails, an index
\* entry into the whole records at the start of the active file leads to a live record of
\* its key, also while later writes go behind the torn tail, where none of them counts.
THEOREM TearsSpareTheLog == Spec => []PrefixSurvivesTear
<1>1. Init => TearInv
  <2> SUFFICES ASSUME Init PROVE TearInv
    OBVIOUS
  <2>1. ActiveId \in Nat /\ NoPos.file_id = ActiveId + 1
    BY ArchiveAssumption DEF ActiveId, NoPos
  <2>2. \A k \in Keys : index[k].file_id # ActiveId
    BY <2>1 DEF Init, NoIndex
  <2> QED
    BY <2>2 DEF Init, TearInv, TornInv, Serving, PrefixSurvivesTear
<1>2. IInv /\ TearInv /\ [Next]_vars => TearInv'
  BY TearStep
<1>3. TearInv => PrefixSurvivesTear
  BY DEF TearInv
<1> QED
  BY <1>1, <1>2, <1>3, Invariance, PTL DEF Spec

-----------------------------------------------------------------------------
(* The refinement of KVStore.                                              *)

\* The store and the engine name requests and answers alike.
LEMMA SameTerms ==
    /\ Abstract!NoRequest = NoOp /\ Abstract!Nothing = NoAnswer /\ Abstract!Requests = Ops
    /\ \A s, v : Abstract!Answer(s, v) = Answer(s, v)
BY DEF Abstract!NoRequest, Abstract!Nothing, Abstract!Requests, Abstract!Answer,
   NoOp, NoAnswer, Ops, Answer

\* A replay of the whole log leads to the values that the log holds: the latest record
\* of a key is the only one.
LEMMA ReplayedValue ==
    ASSUME TypeOK, NEW idx, IsReplay(file, idx, EndOfLog), NEW k \in Keys
    PROVE  LoggedValue(k) = IF idx[k] = NoPos THEN NoValue ELSE Record(file, idx[k]).value
<1> DEFINE live == {p \in LogPositions(file) :
                       Latest(file, k, p, EndOfLog) /\ Record(file, p).type = NORMAL}
<1>1. file \in Seq(Units) /\ ActiveId \in Nat
  BY ArchiveAssumption DEF TypeOK, ActiveId
<1>2. \A p \in live : p \in Positions /\ p.file_id \in Nat /\ p.offset \in Nat
  BY <1>1, LoggedRecord
<1>3. \A p, q \in live : p = q
  <2> SUFFICES ASSUME NEW p \in live, NEW q \in live PROVE p = q
    OBVIOUS
  <2>1. ~Before(p, q) /\ ~Before(q, p)
    BY DEF Latest
  <2>2. /\ p \in Positions /\ p.file_id \in Nat /\ p.offset \in Nat
        /\ q \in Positions /\ q.file_id \in Nat /\ q.offset \in Nat
    BY <1>2
  <2>3. p.file_id = q.file_id /\ p.offset = q.offset
    BY <2>1, <2>2 DEF Before
  <2> QED
    BY <2>2, <2>3 DEF Positions
<1>4. LoggedValue(k) = IF live = {} THEN NoValue ELSE Record(file, CHOOSE p \in live : TRUE).value
  BY DEF LoggedValue
<1>5. CASE idx[k] = NoPos
  <2>1. \A p \in LogPositions(file) : Latest(file, k, p, EndOfLog) => Record(file, p).type = DELETED
    BY <1>5 DEF IsReplay
  <2>2. live = {}
    BY <2>1 DEF NORMAL, DELETED
  <2> HIDE DEF live
  <2> QED
    BY <1>4, <1>5, <2>2
<1>6. CASE idx[k] # NoPos
  <2>1. idx[k] \in live
    BY <1>6 DEF IsReplay, Latest
  <2> HIDE DEF live
  <2>2. (CHOOSE p \in live : TRUE) \in live
    BY <2>1
  <2>3. (CHOOSE p \in live : TRUE) = idx[k]
    BY <1>3, <2>1, <2>2
  <2> QED
    BY <1>4, <1>6, <2>1, <2>3
<1> QED
  BY <1>5, <1>6

\* While the engine serves, an entry of the index leads to a live record of the log.
LEMMA IndexedLive ==
    ASSUME IInv, RInv, Serving, NEW k \in Keys, index[k] # NoPos
    PROVE  /\ index[k] \in LogPositions(file)
           /\ Record(file, index[k]).type = NORMAL
           /\ Record(file, index[k]).value \in Values
           /\ IndexedValue(k) = Record(file, index[k]).value
<1>1. \E limit : IsReplay(file, index, limit)
  <2>1. CASE \E t \in Threads : pc[t] = "index"
    BY <2>1 DEF IInv, IndexMatchesLog, RInv, WholeInv
  <2>2. CASE ~\E t \in Threads : pc[t] = "index"
    BY <2>2 DEF IInv, IndexMatchesLog, RInv, WholeInv
  <2> QED
    BY <2>1, <2>2
<1>2. PICK limit : IsReplay(file, index, limit)
  BY <1>1
<1>3. index[k] \in LogPositions(file) /\ Record(file, index[k]).type = NORMAL
  BY <1>2 DEF IsReplay, Latest
<1>4. Record(file, index[k]) \in Records
  BY <1>3, LoggedRecord DEF IInv, TypeOK
<1> QED
  BY <1>3, <1>4 DEF Records, NORMAL, DELETED, IndexedValue

\* What the log holds is what the index leads to, or will lead to once the writer that
\* has appended its record has indexed it.
LEMMA LoggedStore ==
    ASSUME IInv, RInv, Serving, NEW k \in Keys
    PROVE  /\ (\A t \in Threads : pc[t] # "index") => LoggedValue(k) = IndexedValue(k)
           /\ \A t \in Threads : pc[t] = "index" =>
                 LoggedValue(k) = IF k = op[t].key THEN op[t].value ELSE IndexedValue(k)
<1>1. TypeOK /\ OpInv /\ Untorn /\ Position(ActiveId, writeOff) = EndOfLog
  BY DEF IInv, RInv, WholeInv, Untorn, EndOfLog
<1>2. ASSUME \A t \in Threads : pc[t] # "index" PROVE LoggedValue(k) = IndexedValue(k)
  <2>1. IsReplay(file, index, EndOfLog)
    BY <1>1, <1>2 DEF IInv, IndexMatchesLog
  <2> QED
    BY <1>1, <2>1, ReplayedValue DEF IndexedValue
<1>3. ASSUME NEW t \in Threads, pc[t] = "index"
      PROVE  LoggedValue(k) = IF k = op[t].key THEN op[t].value ELSE IndexedValue(k)
  <2> DEFINE new == IF op[t].op = "put" THEN pos[t] ELSE NoPos
             idx == [index EXCEPT ![op[t].key] = new]
  <2>1. /\ pos[t] \in LogPositions(file) /\ Record(file, pos[t]) = OpRecord(t)
        /\ IsReplay(file, idx, EndOfLog)
    BY <1>1, <1>3, PendingReplay
  <2>2. LoggedValue(k) = IF idx[k] = NoPos THEN NoValue ELSE Record(file, idx[k]).value
    BY <1>1, <2>1, ReplayedValue
  <2>3. idx[k] = IF k = op[t].key THEN new ELSE index[k]
    BY <1>1 DEF TypeOK
  <2> HIDE DEF idx
  <2>4. CASE k # op[t].key
    BY <2>2, <2>3, <2>4 DEF IndexedValue
  <2>5. CASE k = op[t].key /\ op[t].op = "put"
    <3>1. pos[t] # NoPos
      BY <1>1, <2>1, LoggedRecord DEF TypeOK
    <3> QED
      BY <2>1, <2>2, <2>3, <2>5, <3>1 DEF OpRecord
  <2>6. CASE k = op[t].key /\ op[t].op # "put"
    <3>1. op[t].op = "delete" /\ op[t] \in Ops
      BY <1>1, <1>3, <2>6 DEF OpInv, TypeOK
    <3>2. op[t].value = NoValue
      BY <3>1 DEF Ops
    <3> QED
      BY <2>2, <2>3, <2>6, <3>2
  <2> QED
    BY <2>4, <2>5, <2>6
<1> QED
  BY <1>2, <1>3

\* The engine is down before its first start, over an empty file.
LEMMA InitRest == Init => RInv
BY DEF Init, RInv, WholeInv, AtRestInv, SilentInv, DeleteInv, WellFormed, Serving

\* A process that starts or dies leaves whole records, and no thread inside the engine.
LEMMA QuietRest ==
    ASSUME IInv, RInv, Quiet, ~Serving', file' = file
    PROVE  RInv'
<1>1. WholeInv'
  BY DEF RInv, WholeInv, WellFormed
<1>2. \A t \in Threads : pc'[t] = "idle" /\ op'[t] = NoOp /\ ans'[t] = NoAnswer
  BY DEF Quiet
<1> QED
  BY <1>1, <1>2 DEF RInv, AtRestInv, SilentInv, DeleteInv

\* The replay stops where the whole records do, which is at the end of the file.
LEMMA LoadRest ==
    ASSUME WholeWrites, IInv, RInv, Load, IInv'
    PROVE  RInv' /\ (LoadDone => scan = EndOfLog)
<1>1. /\ phase = "load" /\ UNCHANGED <<file, pc, op, pos, ans>> /\ ActiveId = 0
      /\ \A t \in Threads : pc[t] = "idle"
      /\ file \in Seq(Units) /\ scan \in Positions /\ ~Serving
  BY DEF Load, LoadRecord, LoadNextFile, LoadDone, disk, local, IInv, QuietInv, TypeOK,
     WholeWrites, ActiveId, Serving
<1>2. ASSUME LoadDone PROVE scan.offset = Len(file) /\ scan = EndOfLog
  <2>1. scan.file_id = 0 /\ scan.offset \in Nat /\ File(file, 0) = file
    BY <1>1, <1>2 DEF LoadDone, File, Positions
  <2>2. scan.offset <= Len(file) /\ WellFormed(file, scan.offset)
    BY <1>1, <2>1 DEF IInv, ScanInv
  <2>3. Len(file) \in Nat /\ WellFormed(file, Len(file)) /\ ~IntactAt(file, scan.offset)
    BY <1>1, <1>2 DEF RInv, WholeInv, LoadDone
  <2>4. ~(scan.offset < Len(file))
    BY <1>1, <2>1, <2>2, <2>3, WellFormedStop
  <2>5. scan.offset = Len(file)
    BY <2>1, <2>2, <2>3, <2>4
  <2> QED
    BY <1>1, <2>1, <2>5 DEF EndOfLog, Positions, Position
<1>3. Serving' => LoadDone
  BY <1>1 DEF Load, LoadRecord, LoadNextFile, Serving
<1>4. Serving' => Untorn'
  BY <1>1, <1>2, <1>3 DEF LoadDone, Untorn
<1>5. WholeInv'
  BY <1>1, <1>4 DEF RInv, WholeInv, WellFormed
<1>6. AtRestInv' /\ SilentInv' /\ DeleteInv'
  BY <1>1 DEF RInv, AtRestInv, SilentInv, DeleteInv
<1> QED
  BY <1>2, <1>5, <1>6 DEF RInv

\* A thread's step keeps the file whole and the engine writing at its end.
LEMMA StepWhole ==
    ASSUME WholeWrites, IInv, RInv, IInv', NEW t \in Threads,
           Step(t) \/ \E o \in Ops : Call(t, o)
    PROVE  Serving /\ WholeInv' /\ phase' = phase
<1>2. Serving /\ phase' = phase
  <2>1. CASE pc[t] = "idle"
    BY <2>1 DEF Step, Call, Lock, CheckPresent, CheckAbsent, AppendRecord, AppendRecordFails,
       AppendRecordShort, UpdateIndex, Lookup, ReadLogRecord
  <2>2. CASE pc[t] # "idle"
    <3>1. Serving
      BY <2>2 DEF IInv, QuietInv, TypeOK, Serving
    <3> QED
      BY <3>1 DEF Step, Call, Lock, CheckPresent, CheckAbsent, AppendRecord, AppendRecordFails,
         AppendRecordShort, UpdateIndex, Lookup, ReadLogRecord
  <2> QED
    BY <2>1, <2>2
<1>3. Untorn'
  <2>1. CASE AppendRecord(t)
    <3>1. OpRecord(t) \in Records /\ file \in Seq(Units)
      BY <2>1, OpRecordType DEF AppendRecord, IInv, TypeOK
    <3>2. Encode(OpRecord(t)) \in Seq(Units)
      BY <3>1, EncodeUnits
    <3>3. /\ file' = file \o Encode(OpRecord(t)) /\ writeOff' = writeOff + Len(Encode(OpRecord(t)))
          /\ writeOff = Len(file)
      BY <1>2, <2>1 DEF AppendRecord, RInv, WholeInv, Untorn
    <3> QED
      BY <3>1, <3>2, <3>3 DEF Untorn
  <2>2. CASE ~AppendRecord(t)
    <3>1. ~AppendRecordShort(t)
      BY DEF AppendRecordShort, WholeWrites
    <3>2. UNCHANGED <<file, writeOff>>
      BY <2>2, <3>1 DEF Step, Call, Lock, CheckPresent, CheckAbsent, AppendRecordFails,
         UpdateIndex, Lookup, ReadLogRecord, disk
    <3> QED
      BY <1>2, <3>2 DEF RInv, WholeInv, Untorn
  <2> QED
    BY <2>1, <2>2
<1>4. Serving'
  BY <1>2 DEF Serving
<1>5. WellFormed(file', Len(file'))
  BY <1>3, <1>4 DEF IInv, TailInv
<1> QED
  BY <1>2, <1>3, <1>5 DEF WholeInv

\* A thread that returns has no operation any more, and a Delete that has found its key
\* holds the mutex, so that nobody takes the key out of the index before it does.
LEMMA StepRest ==
    ASSUME WholeWrites, IInv, RInv, IInv', NEW t \in Threads,
           Step(t) \/ \E o \in Ops : Call(t, o)
    PROVE  RInv'
<1>1. Serving /\ WholeInv' /\ phase' = phase
  BY StepWhole
<1>2. SilentInv'
  BY <1>1 DEF SilentInv, Serving
<1>3. TypeOK /\ \A u \in Threads : pc'[u] = "idle" => op'[u] = NoOp
  <2>1. TypeOK
    BY DEF IInv
  <2> QED
    BY <2>1 DEF RInv, AtRestInv, TypeOK, Step, Call, Lock, CheckPresent, CheckAbsent, AppendRecord,
       AppendRecordFails, AppendRecordShort, UpdateIndex, Lookup, ReadLogRecord, Return
<1>4. DeleteInv'
  <2> SUFFICES ASSUME NEW u \in Threads, pc'[u] \in {"append", "index"}, op'[u].op = "delete"
               PROVE  index'[op'[u].key] # NoPos
    BY DEF DeleteInv
  <2>1. CASE UpdateIndex(t)
    <3>1. pc[t] = "index" /\ pc' = [pc EXCEPT ![t] = "idle"]
      BY <2>1 DEF UpdateIndex, Return
    <3>2. u # t /\ pc'[u] = pc[u]
      BY <1>3, <3>1 DEF TypeOK
    <3>3. mutex = t /\ mutex = u
      BY <3>1, <3>2 DEF IInv, LockInv
    <3> QED
      BY <3>2, <3>3
  <2>2. CASE CheckPresent(t)
    BY <1>3, <2>2 DEF CheckPresent, RInv, DeleteInv, TypeOK
  <2>3. CASE Lock(t)
    BY <1>3, <2>3 DEF Lock, RInv, DeleteInv, TypeOK
  <2>4. CASE AppendRecord(t)
    BY <1>3, <2>4 DEF AppendRecord, RInv, DeleteInv, TypeOK
  <2>5. CASE Lookup(t)
    BY <1>3, <2>5 DEF Lookup, Return, RInv, DeleteInv, TypeOK
  <2>6. CASE CheckAbsent(t) \/ AppendRecordFails(t) \/ AppendRecordShort(t) \/ ReadLogRecord(t)
    BY <1>3, <2>6 DEF CheckAbsent, AppendRecordFails, AppendRecordShort, ReadLogRecord, Return,
       RInv, DeleteInv, TypeOK
  <2>7. ASSUME NEW o \in Ops, Call(t, o) PROVE index'[op'[u].key] # NoPos
    BY <1>3, <2>7 DEF Call, RInv, DeleteInv, TypeOK
  <2> QED
    BY <2>1, <2>2, <2>3, <2>4, <2>5, <2>6, <2>7 DEF Step
<1> QED
  BY <1>1, <1>2, <1>3, <1>4 DEF RInv, AtRestInv

\* A step of the engine keeps the invariant of the map.
LEMMA RestStep == WholeWrites /\ IInv /\ RInv /\ [Next]_vars => RInv'
<1> SUFFICES ASSUME WholeWrites, IInv, RInv, [Next]_vars PROVE RInv'
  OBVIOUS
<1>1. IInv'
  BY NextInv
<1>2. CASE Open
  BY <1>2, QuietRest DEF Open, disk, Serving
<1>3. CASE Load
  BY <1>1, <1>3, LoadRest
<1>4. CASE Close
  <2>1. Untorn /\ UNCHANGED <<file, writeOff, index, pc, op>>
    BY <1>4 DEF Close, RInv, WholeInv, Serving, local
  <2>2. Serving'
    BY <1>4 DEF Close, Serving
  <2> QED
    BY <2>1, <2>2 DEF RInv, WholeInv, AtRestInv, SilentInv, DeleteInv, WellFormed, Untorn
<1>5. CASE Crash
  <2>1. file' = file
    BY <1>5 DEF Crash, WholeWrites, disk
  <2> QED
    BY <1>5, <2>1, QuietRest DEF Crash, Serving
<1>6. ASSUME NEW t \in Threads, Step(t) \/ \E o \in Ops : Call(t, o) PROVE RInv'
  BY <1>1, <1>6, StepRest
<1>7. CASE UNCHANGED vars
  BY <1>7 DEF vars, RInv, WholeInv, AtRestInv, SilentInv, DeleteInv, WellFormed, Untorn, Serving
<1> QED
  BY <1>2, <1>3, <1>4, <1>5, <1>6, <1>7 DEF Next

-----------------------------------------------------------------------------
(* Every step of the engine is a step of the store, or none.               *)

\* What happens in a thread's step to the requests and the answers the callers see.
LEMMA ThreadBars ==
    ASSUME TypeOK, TypeOK', NEW t \in Threads, NEW r, NEW a,
           \A u \in Threads \ {t} :
               /\ pc'[u] = pc[u] /\ op'[u] = op[u] /\ ans'[u] = ans[u]
               /\ pc[u] = "read" => ReadAnswer(pos[u])' = ReadAnswer(pos[u]),
           r = IF pc'[t] = "read" THEN NoOp ELSE op'[t],
           a = IF pc'[t] = "read" THEN ReadAnswer(pos[t])' ELSE ans'[t]
    PROVE  /\ requestBar' = [requestBar EXCEPT ![t] = r]
           /\ answerBar' = [answerBar EXCEPT ![t] = a]
BY DEF requestBar, answerBar

\* An operation takes effect on the map and its answer is fixed.
LEMMA Effect ==
    ASSUME NEW t, NEW s, NEW a, storeBar' = s, statusBar' = statusBar,
           requestBar' = [requestBar EXCEPT ![t] = NoOp],
           answerBar' = [answerBar EXCEPT ![t] = a]
    PROVE  Abstract!TakeEffect(t, s, a)
BY SameTerms DEF Abstract!TakeEffect

\* The process starts: the index comes to lead to what the log holds.
LEMMA LoadMaps ==
    ASSUME WholeWrites, IInv, RInv, Load, IInv'
    PROVE  Abstract!Open \/ UNCHANGED Abstract!vars
<1>1. /\ phase = "load" /\ UNCHANGED <<file, pc, op, pos, ans>>
      /\ ~Serving /\ \A t \in Threads : pc[t] = "idle"
  BY DEF Load, LoadRecord, LoadNextFile, LoadDone, disk, local, IInv, QuietInv, Serving
<1>2. requestBar' = requestBar /\ answerBar' = answerBar
  BY <1>1 DEF requestBar, answerBar
<1>3. CASE LoadDone
  <2>1. /\ scan = EndOfLog /\ IsReplay(file, index, EndOfLog) /\ TypeOK
        /\ UNCHANGED <<file, index>> /\ phase' = "open"
    BY <1>1, <1>3, LoadRest DEF IInv, IndexMatchesLog, LoadDone, disk
  <2>2. \A k \in Keys : LoggedValue(k) = IndexedValue(k)
    BY <2>1, ReplayedValue DEF IndexedValue
  <2>3. \A k \in Keys : IndexedValue(k)' = IndexedValue(k)
    BY <2>1 DEF IndexedValue
  <2>4. storeBar' = storeBar
    <3>1. Serving'
      BY <2>1 DEF Serving
    <3> QED
      BY <1>1, <2>2, <2>3, <3>1 DEF storeBar
  <2>5. statusBar = "down" /\ statusBar' = "serving"
    BY <1>1, <2>1 DEF statusBar
  <2> QED
    BY <1>2, <2>4, <2>5 DEF Abstract!Open
<1>4. CASE ~LoadDone
  <2>1. phase' = phase /\ file' = file
    BY <1>4 DEF Load, LoadRecord, LoadNextFile, disk
  <2>2. storeBar' = storeBar /\ statusBar' = statusBar
    BY <1>1, <2>1 DEF storeBar, statusBar, LoggedValue, EndOfLog, Serving, IndexedValue
  <2> QED
    BY <1>2, <2>2 DEF Abstract!vars
<1> QED
  BY <1>3, <1>4

\* What the callers see of an engine without a thread inside.
LEMMA QuietBars ==
    /\ Quiet => /\ requestBar' = [t \in Threads |-> NoOp]
                /\ answerBar' = [t \in Threads |-> NoAnswer]
    /\ IInv /\ RInv /\ ~Serving => /\ requestBar = [t \in Threads |-> NoOp]
                                   /\ answerBar = [t \in Threads |-> NoAnswer]
<1>1. ASSUME Quiet
      PROVE  /\ requestBar' = [t \in Threads |-> NoOp]
             /\ answerBar' = [t \in Threads |-> NoAnswer]
  <2>1. \A t \in Threads : pc'[t] = "idle" /\ op'[t] = NoOp /\ ans'[t] = NoAnswer
    BY <1>1 DEF Quiet
  <2> QED
    BY <2>1 DEF requestBar, answerBar
<1>2. ASSUME IInv, RInv, ~Serving
      PROVE  /\ requestBar = [t \in Threads |-> NoOp]
             /\ answerBar = [t \in Threads |-> NoAnswer]
  <2>1. \A t \in Threads : pc[t] = "idle"
    BY <1>2 DEF IInv, QuietInv, TypeOK, Serving
  <2>2. \A t \in Threads : op[t] = NoOp /\ ans[t] = NoAnswer
    BY <1>2, <2>1 DEF RInv, AtRestInv, SilentInv
  <2> QED
    BY <2>1, <2>2 DEF requestBar, answerBar
<1> QED
  BY <1>1, <1>2

\* The process stops, or starts again: what the log holds is what the callers believe
\* in, but for the one write that is in the log and not yet answered.
LEMMA StopMaps ==
    ASSUME WholeWrites, IInv, RInv, Open \/ Crash
    PROVE  Abstract!Stop \/ UNCHANGED Abstract!vars
<1>1. /\ file' = file /\ Quiet /\ phase' \in {"down", "load"}
      /\ Open => \A t \in Threads : pc[t] = "idle"
  BY DEF Open, Crash, WholeWrites, disk
<1>2. /\ requestBar' = [t \in Threads |-> NoOp]
      /\ answerBar' = [t \in Threads |-> NoAnswer]
      /\ statusBar' = "down"
      /\ storeBar' = [k \in Keys |-> LoggedValue(k)]
  <2>1. \A k \in Keys : LoggedValue(k)' = LoggedValue(k)
    BY <1>1 DEF LoggedValue, EndOfLog
  <2>2. ~Serving'
    BY <1>1 DEF Serving
  <2> QED
    BY <1>1, <2>1, <2>2, QuietBars DEF statusBar, storeBar
<1>3. CASE ~Serving
  <2>1. /\ requestBar = [t \in Threads |-> NoOp]
        /\ answerBar = [t \in Threads |-> NoAnswer]
    BY <1>3, QuietBars
  <2>2. statusBar = "down" /\ storeBar = [k \in Keys |-> LoggedValue(k)]
    BY <1>3 DEF statusBar, storeBar, Serving
  <2> QED
    BY <1>2, <2>1, <2>2 DEF Abstract!vars
<1>4. CASE Serving
  <2>1. statusBar # "down" /\ storeBar = [k \in Keys |-> IndexedValue(k)]
    BY <1>4 DEF statusBar, storeBar, Serving
  <2>2. CASE \A t \in Threads : pc[t] # "index"
    <3>1. \A k \in Keys : LoggedValue(k) = IndexedValue(k)
      BY <1>4, <2>2, LoggedStore
    <3>2. storeBar' = storeBar
      BY <1>2, <2>1, <3>1
    <3> QED
      BY <1>2, <2>1, <3>2, SameTerms DEF Abstract!Stop
  <2>3. ASSUME NEW t \in Threads, pc[t] = "index" PROVE Abstract!Stop
    <3>1. /\ requestBar[t] = op[t] /\ op[t].key \in Keys /\ op[t].op \in {"put", "delete"}
          /\ op[t] # NoOp
      BY <2>3, ConstantsAssumption DEF requestBar, IInv, OpInv, NoOp
    <3>2. \A k \in Keys : LoggedValue(k) = IF k = op[t].key THEN op[t].value ELSE IndexedValue(k)
      BY <1>4, <2>3, LoggedStore
    <3>3. storeBar' = [storeBar EXCEPT ![op[t].key] = op[t].value]
      BY <1>2, <2>1, <3>1, <3>2
    <3>4. Abstract!Waiting(t) /\ Abstract!IsWrite(t) /\ storeBar' = Abstract!Written(t)
      BY <3>1, <3>3, SameTerms DEF Abstract!Waiting, Abstract!IsWrite, Abstract!Written
    <3> QED
      BY <1>2, <2>1, <3>4, SameTerms DEF Abstract!Stop
  <2> QED
    BY <2>2, <2>3
<1> QED
  BY <1>3, <1>4

\* A close waits for every caller, and changes no value.
LEMMA CloseMaps == ASSUME IInv, RInv, Close PROVE Abstract!Close
<1>1. /\ phase = "open" /\ phase' = "closed" /\ UNCHANGED <<file, index, pc, op, pos, ans>>
      /\ \A t \in Threads : pc[t] = "idle"
  BY DEF Close, local
<1>2. statusBar = "serving" /\ statusBar' = "closed" /\ Serving /\ Serving'
  BY <1>1 DEF statusBar, Serving
<1>3. storeBar' = storeBar
  BY <1>1, <1>2 DEF storeBar, IndexedValue
<1>4. requestBar' = requestBar /\ answerBar' = answerBar /\ \A t \in Threads : requestBar[t] = NoOp
  BY <1>1 DEF requestBar, answerBar, RInv, AtRestInv
<1> QED
  BY <1>2, <1>3, <1>4, SameTerms DEF Abstract!Close, Abstract!Waiting

\* A call is a call of the store.
LEMMA CallMaps ==
    ASSUME IInv, RInv, NEW t \in Threads, NEW o \in Ops, Call(t, o), IInv'
    PROVE  Abstract!Call(t, o)
<1>1. /\ Serving /\ pc[t] = "idle" /\ op[t] = NoOp /\ TypeOK /\ TypeOK'
      /\ UNCHANGED <<file, index, phase, pos>> /\ ans' = [ans EXCEPT ![t] = NoAnswer]
  BY DEF Call, IInv, RInv, AtRestInv, disk
<1>2. /\ pc'[t] # "read" /\ op'[t] = (IF o.key = EmptyKey THEN NoOp ELSE o)
      /\ \A u \in Threads \ {t} : pc'[u] = pc[u] /\ op'[u] = op[u] /\ ans'[u] = ans[u]
  BY <1>1 DEF Call, TypeOK
<1>3. \A u \in Threads : ReadAnswer(pos[u])' = ReadAnswer(pos[u])
  BY <1>1 DEF ReadAnswer
<1>4. ans'[t] = NoAnswer
  BY <1>1 DEF TypeOK
<1>5. /\ requestBar' = [requestBar EXCEPT ![t] = IF o.key = EmptyKey THEN NoOp ELSE o]
      /\ answerBar' = [answerBar EXCEPT ![t] = NoAnswer]
  BY <1>1, <1>2, <1>3, <1>4, ThreadBars
<1>6. /\ storeBar' = storeBar /\ statusBar' = statusBar /\ statusBar \in {"serving", "closed"}
      /\ requestBar[t] = NoOp
  BY <1>1 DEF storeBar, statusBar, requestBar, Serving, IndexedValue
<1> QED
  BY <1>5, <1>6, SameTerms DEF Abstract!Call, Abstract!Waiting

\* What the callers see of a thread's step that returns nothing yet: nothing.
LEMMA InsideMaps ==
    ASSUME WholeWrites, IInv, RInv, IInv', NEW t \in Threads,
           Lock(t) \/ CheckPresent(t) \/ AppendRecord(t) \/ ReadLogRecord(t)
    PROVE  UNCHANGED Abstract!vars
<1>1. /\ Serving /\ phase' = phase /\ TypeOK /\ TypeOK' /\ index' = index
      /\ \A u \in Threads \ {t} : pc'[u] = pc[u] /\ op'[u] = op[u] /\ ans'[u] = ans[u]
  <2>1. Serving /\ phase' = phase
    BY StepWhole DEF Step
  <2> QED
    BY <2>1 DEF IInv, TypeOK, Lock, CheckPresent, AppendRecord, ReadLogRecord, Return
<1>2. statusBar' = statusBar
  BY <1>1 DEF statusBar
<1>3. CASE AppendRecord(t)
  <2> DEFINE rec == OpRecord(t)
  <2>1. /\ pc[t] = "append" /\ pc'[t] = "index" /\ op'[t] = op[t] /\ ans'[t] = ans[t] /\ phase = "open"
        /\ file' = file \o Encode(rec)
        /\ file \in Seq(Units)
    BY <1>1, <1>3 DEF AppendRecord, TypeOK
  <2>2. rec \in Records /\ WellFormed(file, Len(file))
    BY <1>1, <2>1, OpRecordType DEF IInv, RInv, WholeInv
  <2>3. \A p \in LogPositions(file) : Record(file', p) = Record(file, p)
    BY <2>1, <2>2, AppendedLog
  <2>4. \A k \in Keys : IndexedValue(k)' = IndexedValue(k)
    <3> SUFFICES ASSUME NEW k \in Keys PROVE IndexedValue(k)' = IndexedValue(k)
      OBVIOUS
    <3>1. CASE index[k] = NoPos
      BY <1>1, <3>1 DEF IndexedValue
    <3>2. CASE index[k] # NoPos
      <4>1. index[k] \in LogPositions(file)
        BY <1>1, <3>2, IndexedLive
      <4> QED
        BY <1>1, <2>3, <3>2, <4>1 DEF IndexedValue
    <3> QED
      BY <3>1, <3>2
  <2>5. storeBar' = storeBar
    BY <1>1, <2>4 DEF storeBar, Serving
  <2>6. ASSUME NEW u \in Threads \ {t}, pc[u] = "read"
        PROVE  ReadAnswer(pos[u])' = ReadAnswer(pos[u])
    <3>1. pos'[u] = pos[u] /\ phase' = phase
      BY <1>1, <1>3, <2>6 DEF AppendRecord, TypeOK
    <3>2. pos[u] \in Positions /\ pos[u].offset \in Nat /\ pos[u].file_id = ActiveId
      BY <1>1, <2>6 DEF IInv, ReadInv, TypeOK, Positions, WholeWrites, ActiveId
    <3>3. IntactAt(file, pos[u].offset)
      BY <1>1, <2>6, <3>2 DEF IInv, LocatedRecordReadable, RInv, WholeInv
    <3>4. /\ file' \in Seq(Units) /\ Len(file) <= Len(file')
          /\ \A i \in 1..Len(file) : file'[i] = file[i]
      <4>1. Len(file') = Len(file) + RecLen(rec) /\ RecLen(rec) \in Nat
        BY <2>1, <2>2, AppendWhole, RecLenNat
      <4> QED
        BY <2>1, <2>2, <4>1, AppendWhole
    <3>5. /\ IntactAt(file', pos[u].offset)
          /\ RecordAt(file', pos[u].offset) = RecordAt(file, pos[u].offset)
      BY <2>1, <3>2, <3>3, <3>4, IntactGrows
    <3> QED
      BY <3>1, <3>3, <3>5 DEF ReadAnswer
  <2>7. /\ requestBar' = [requestBar EXCEPT ![t] = op[t]]
        /\ answerBar' = [answerBar EXCEPT ![t] = ans[t]]
    BY <1>1, <2>1, <2>6, ThreadBars
  <2>8. requestBar[t] = op[t] /\ answerBar[t] = ans[t]
    BY <2>1 DEF requestBar, answerBar
  <2> QED
    BY <1>2, <2>5, <2>7, <2>8 DEF Abstract!vars, requestBar, answerBar
<1>4. CASE Lock(t) \/ CheckPresent(t) \/ ReadLogRecord(t)
  <2>1. UNCHANGED <<file, index, phase>>
    BY <1>4 DEF Lock, CheckPresent, ReadLogRecord, disk
  <2>2. storeBar' = storeBar
    BY <2>1 DEF storeBar, IndexedValue, Serving, LoggedValue, EndOfLog
  <2>3. \A u \in Threads \ {t} : pos'[u] = pos[u] /\ ReadAnswer(pos[u])' = ReadAnswer(pos[u])
    BY <1>1, <1>4, <2>1 DEF Lock, CheckPresent, ReadLogRecord, Return, ReadAnswer, TypeOK
  <2>4. /\ pc'[t] # "read" /\ op'[t] = requestBar[t] /\ ans'[t] = answerBar[t]
    <3>1. CASE Lock(t) \/ CheckPresent(t)
      BY <1>1, <3>1 DEF Lock, CheckPresent, requestBar, answerBar, TypeOK
    <3>2. CASE ReadLogRecord(t)
      BY <1>1, <3>2 DEF ReadLogRecord, Return, requestBar, answerBar, TypeOK
    <3> QED
      BY <1>4, <3>1, <3>2
  <2>5. /\ requestBar' = [requestBar EXCEPT ![t] = requestBar[t]]
        /\ answerBar' = [answerBar EXCEPT ![t] = answerBar[t]]
    BY <1>1, <2>3, <2>4, ThreadBars
  <2> QED
    BY <1>2, <2>2, <2>5 DEF Abstract!vars, requestBar, answerBar
<1> QED
  BY <1>3, <1>4

\* What the callers see when thread t returns answer a.
LEMMA ReturnBars ==
    ASSUME IInv, IInv', NEW t \in Threads, NEW a, Return(t, a), UNCHANGED <<file, phase>>
    PROVE  /\ requestBar' = [requestBar EXCEPT ![t] = NoOp]
           /\ answerBar' = [answerBar EXCEPT ![t] = a]
           /\ statusBar' = statusBar
<1>1. /\ TypeOK /\ TypeOK' /\ pc'[t] = "idle" /\ op'[t] = NoOp /\ ans'[t] = a
      /\ \A u \in Threads \ {t} :
            pc'[u] = pc[u] /\ op'[u] = op[u] /\ ans'[u] = ans[u] /\ pos'[u] = pos[u]
  BY DEF IInv, TypeOK, Return
<1>2. \A u \in Threads \ {t} : ReadAnswer(pos[u])' = ReadAnswer(pos[u])
  BY <1>1 DEF ReadAnswer
<1>3. statusBar' = statusBar
  BY DEF statusBar
<1> QED
  BY <1>1, <1>2, <1>3, ThreadBars

\* What the callers see of a thread inside an operation.
LEMMA Inside ==
    ASSUME IInv, NEW t \in Threads, pc[t] \notin {"idle", "read"}
    PROVE  /\ requestBar[t] = op[t] /\ op[t] \in Ops /\ op[t].key \in Keys
           /\ Abstract!Waiting(t) /\ Serving
           /\ storeBar[op[t].key] = IndexedValue(op[t].key)
<1>1. op[t] \in Ops /\ op[t].key \in Keys /\ Serving
  BY DEF IInv, OpInv, QuietInv, TypeOK, Serving
<1>2. op[t] # NoOp
  BY <1>1, ConstantsAssumption DEF NoOp
<1>3. requestBar[t] = op[t]
  BY DEF requestBar
<1> QED
  BY <1>1, <1>2, <1>3, SameTerms DEF Abstract!Waiting, storeBar

\* A Delete that finds no key, and a write that fails, leave the map as it was.
LEMMA RefusedMaps ==
    ASSUME WholeWrites, IInv, RInv, IInv', NEW t \in Threads,
           CheckAbsent(t) \/ AppendRecordFails(t)
    PROVE  Abstract!DeleteMissing(t) \/ Abstract!FailToWrite(t)
<1>1. /\ pc[t] \in {"check", "append"} /\ UNCHANGED <<file, index, phase>>
  BY DEF CheckAbsent, AppendRecordFails, disk
<1>2. /\ requestBar[t] = op[t] /\ op[t] \in Ops /\ op[t].key \in Keys
      /\ Abstract!Waiting(t) /\ Serving
      /\ storeBar[op[t].key] = IndexedValue(op[t].key)
  BY <1>1, Inside
<1>3. storeBar' = storeBar
  BY <1>1 DEF storeBar, IndexedValue, Serving, LoggedValue, EndOfLog
<1>4. CASE CheckAbsent(t)
  <2>1. /\ op[t].op = "delete" /\ index[op[t].key] = NoPos
        /\ Return(t, Answer("kKeyNotFound", NoValue))
    BY <1>4 DEF CheckAbsent, IInv, OpInv
  <2>2. Abstract!TakeEffect(t, storeBar, Answer("kKeyNotFound", NoValue))
    BY <1>1, <1>3, <2>1, ReturnBars, Effect
  <2> QED
    BY <1>2, <2>1, <2>2, SameTerms DEF Abstract!DeleteMissing, IndexedValue
<1>5. CASE AppendRecordFails(t)
  <2>1. pc[t] = "append" /\ op[t].op \in {"put", "delete"} /\ Return(t, Answer("kIOError", NoValue))
    BY <1>5 DEF AppendRecordFails, IInv, OpInv
  <2>2. op[t].op = "delete" => storeBar[op[t].key] # NoValue
    <3>1. op[t].op = "delete" => index[op[t].key] # NoPos
      BY <2>1 DEF RInv, DeleteInv
    <3> QED
      BY <1>2, <3>1, IndexedLive, ConstantsAssumption
  <2>3. Abstract!TakeEffect(t, storeBar, Answer("kIOError", NoValue))
    BY <1>1, <1>3, <2>1, ReturnBars, Effect
  <2> QED
    BY <1>2, <2>1, <2>2, <2>3, SameTerms DEF Abstract!FailToWrite, Abstract!IsWrite
<1> QED
  BY <1>4, <1>5

\* A write takes effect when its record enters the index.
LEMMA UpdateMaps ==
    ASSUME WholeWrites, IInv, RInv, IInv', NEW t \in Threads, UpdateIndex(t)
    PROVE  Abstract!PutOrDelete(t)
<1> DEFINE new == IF op[t].op = "put" THEN pos[t] ELSE NoPos
<1>1. /\ pc[t] = "index" /\ UNCHANGED <<file, phase>> /\ phase = "open" /\ TypeOK
      /\ index' = [index EXCEPT ![op[t].key] = new]
      /\ Return(t, Answer("kSuccess", NoValue))
  BY DEF UpdateIndex, disk, IInv, PendingInv
<1>2. /\ requestBar[t] = op[t] /\ op[t] \in Ops /\ op[t].key \in Keys
      /\ Abstract!Waiting(t) /\ Serving
      /\ storeBar[op[t].key] = IndexedValue(op[t].key)
  BY <1>1, Inside
<1>3. op[t].op \in {"put", "delete"} /\ statusBar = "serving"
  BY <1>1 DEF IInv, OpInv, statusBar
<1>4. op[t].op = "delete" => storeBar[op[t].key] # NoValue
  <2>1. op[t].op = "delete" => index[op[t].key] # NoPos
    BY <1>1 DEF RInv, DeleteInv
  <2> QED
    BY <1>2, <2>1, IndexedLive, ConstantsAssumption
<1>5. \A k \in Keys : IndexedValue(k)' = IF k = op[t].key THEN op[t].value ELSE IndexedValue(k)
  <2> SUFFICES ASSUME NEW k \in Keys
               PROVE  IndexedValue(k)' = IF k = op[t].key THEN op[t].value ELSE IndexedValue(k)
    OBVIOUS
  <2>1. index'[k] = IF k = op[t].key THEN new ELSE index[k]
    BY <1>1 DEF TypeOK
  <2>2. CASE k # op[t].key
    BY <1>1, <2>1, <2>2 DEF IndexedValue
  <2>3. CASE k = op[t].key /\ op[t].op = "put"
    <3>1. pos[t] \in LogPositions(file) /\ Record(file, pos[t]) = OpRecord(t)
      BY <1>1, <1>2, PendingReplay DEF RInv, WholeInv
    <3>2. pos[t] # NoPos
      BY <1>1, <3>1, LoggedRecord DEF TypeOK
    <3> QED
      BY <1>1, <2>1, <2>3, <3>1, <3>2 DEF IndexedValue, OpRecord
  <2>4. CASE k = op[t].key /\ op[t].op = "delete"
    <3>1. op[t].value = NoValue
      BY <1>2, <2>4 DEF Ops
    <3> QED
      BY <2>1, <2>4, <3>1 DEF IndexedValue
  <2> QED
    BY <1>3, <2>2, <2>3, <2>4
<1>6. storeBar' = [storeBar EXCEPT ![op[t].key] = op[t].value]
  <2>1. Serving'
    BY <1>1 DEF Serving
  <2>2. storeBar = [k \in Keys |-> IndexedValue(k)] /\ storeBar' = [k \in Keys |-> IndexedValue(k)']
    BY <1>2, <2>1 DEF storeBar
  <2> QED
    BY <1>2, <1>5, <2>2
<1>7. Abstract!TakeEffect(t, Abstract!Written(t), Answer("kSuccess", NoValue))
  <2>1. storeBar' = Abstract!Written(t)
    BY <1>2, <1>6 DEF Abstract!Written
  <2>2. /\ requestBar' = [requestBar EXCEPT ![t] = NoOp]
        /\ answerBar' = [answerBar EXCEPT ![t] = Answer("kSuccess", NoValue)]
        /\ statusBar' = statusBar
    BY <1>1, ReturnBars
  <2> QED
    BY <2>1, <2>2, SameTerms DEF Abstract!TakeEffect
<1> QED
  BY <1>2, <1>3, <1>4, <1>7, SameTerms DEF Abstract!PutOrDelete, Abstract!IsWrite

\* A Get takes effect when it looks its key up: what it will read later is fixed then.
LEMMA LookupMaps ==
    ASSUME WholeWrites, IInv, RInv, IInv', NEW t \in Threads, Lookup(t)
    PROVE  Abstract!Get(t)
<1> DEFINE k == op[t].key
<1>1. /\ pc[t] = "lookup" /\ UNCHANGED <<file, index, phase>> /\ op[t].op = "get"
      /\ TypeOK /\ TypeOK'
  BY DEF Lookup, disk, IInv, OpInv
<1>2. /\ requestBar[t] = op[t] /\ k \in Keys
      /\ Abstract!Waiting(t) /\ Serving
      /\ storeBar[k] = IndexedValue(k)
  BY <1>1, Inside
<1>3. storeBar' = storeBar
  BY <1>1 DEF storeBar, IndexedValue, Serving, LoggedValue, EndOfLog
<1>4. CASE index[k] = NoPos
  <2>1. Return(t, Answer("kKeyNotFound", NoValue)) /\ storeBar[k] = NoValue
    BY <1>2, <1>4 DEF Lookup, IndexedValue
  <2>2. Abstract!TakeEffect(t, storeBar, Answer("kKeyNotFound", NoValue))
    BY <1>1, <1>3, <2>1, ReturnBars, Effect
  <2> QED
    BY <1>1, <1>2, <2>1, <2>2, SameTerms DEF Abstract!Get
<1>5. CASE index[k] # NoPos
  <2> DEFINE p == index[k]
             v == storeBar[k]
             a == IF statusBar = "closed" THEN Answer("kDataCorrupted", NoValue)
                  ELSE Answer("kSuccess", v)
  <2>1. /\ pos' = [pos EXCEPT ![t] = p] /\ pc' = [pc EXCEPT ![t] = "read"]
        /\ op' = op /\ ans' = ans
    BY <1>5 DEF Lookup
  <2>2. /\ p \in LogPositions(file) /\ Record(file, p).type = NORMAL
        /\ v = Record(file, p).value /\ v # NoValue
    BY <1>2, <1>5, IndexedLive, ConstantsAssumption
  <2>3. /\ p.file_id = ActiveId /\ IntactAt(file, p.offset) /\ Record(file, p) = RecordAt(file, p.offset)
    <3>1. p.file_id \in 0..ActiveId /\ IntactAt(File(file, p.file_id), p.offset)
      BY <1>1, <2>2, LoggedRecord DEF TypeOK
    <3>2. p.file_id = ActiveId
      BY <3>1 DEF WholeWrites, ActiveId
    <3> QED
      BY <3>1, <3>2 DEF File, Record
  <2>4. statusBar = "closed" <=> phase = "closed"
    BY DEF statusBar
  <2> HIDE DEF p, v
  <2>5. ReadAnswer(p)' = a
    <3>1. p' = p
      BY <1>1, <2>1 DEF p
    <3>2. CASE phase = "closed"
      BY <1>1, <2>4, <3>2 DEF ReadAnswer
    <3>3. CASE phase # "closed"
      BY <1>1, <2>2, <2>3, <2>4, <3>1, <3>3 DEF ReadAnswer, NORMAL, DELETED
    <3> QED
      BY <3>2, <3>3
  <2>6. pc'[t] = "read" /\ pos'[t] = p
    BY <1>1, <2>1 DEF TypeOK
  <2>7. ReadAnswer(pos[t])' = a
    <3>1. p' = p
      BY <1>1, <2>1 DEF p
    <3>2. ReadAnswer(pos[t])' = ReadAnswer(p)'
      BY <2>6, <3>1 DEF ReadAnswer
    <3> QED
      BY <2>5, <3>2
  <2>8. \A u \in Threads \ {t} :
           /\ pc'[u] = pc[u] /\ op'[u] = op[u] /\ ans'[u] = ans[u]
           /\ ReadAnswer(pos[u])' = ReadAnswer(pos[u])
    BY <1>1, <2>1 DEF TypeOK, ReadAnswer
  <2> HIDE DEF a
  <2>9. /\ requestBar' = [requestBar EXCEPT ![t] = NoOp]
        /\ answerBar' = [answerBar EXCEPT ![t] = a]
    BY <1>1, <2>6, <2>7, <2>8, ThreadBars
  <2>10. Abstract!TakeEffect(t, storeBar, a)
    <3>1. statusBar' = statusBar
      BY <1>1 DEF statusBar
    <3> QED
      BY <1>3, <2>9, <3>1, Effect
  <2> QED
    BY <1>1, <1>2, <2>2, <2>10, SameTerms DEF Abstract!Get, a, v
<1> QED
  BY <1>4, <1>5

\* The engine starts as the empty store that is down.
LEMMA InitMaps == WholeWrites /\ Init => Abstract!Init
<1> SUFFICES ASSUME WholeWrites, Init PROVE Abstract!Init
  OBVIOUS
<1>1. LogPositions(file) = {}
  <2>1. file = <<>> /\ file \in Seq(Units) /\ Len(file) = 0 /\ ActiveId = 0
    BY DEF Init, WholeWrites, ActiveId
  <2> SUFFICES ASSUME NEW p \in LogPositions(file) PROVE FALSE
    OBVIOUS
  <2>2. p.file_id \in 0..0 /\ p.offset \in Nat /\ Logged(file, p)
    BY <2>1, LoggedRecord, LogPositionsDef
  <2>3. File(file, p.file_id) = file
    BY <2>1, <2>2 DEF File
  <2> QED
    BY <2>1, <2>2, <2>3 DEF Logged
<1>2. \A k \in Keys : LoggedValue(k) = NoValue
  BY <1>1 DEF LoggedValue
<1>3. storeBar = [k \in Keys |-> NoValue] /\ statusBar = "down"
  BY <1>2 DEF Init, storeBar, statusBar, Serving
<1>4. requestBar = [t \in Threads |-> NoOp] /\ answerBar = [t \in Threads |-> NoAnswer]
  BY DEF Init, requestBar, answerBar
<1> QED
  BY <1>3, <1>4, SameTerms DEF Abstract!Init

\* Every step of the engine is a step of the store or leaves it alone.
LEMMA StepMaps ==
    WholeWrites /\ IInv /\ RInv /\ [Next]_vars => [Abstract!Next]_(Abstract!vars)
<1> SUFFICES ASSUME WholeWrites, IInv, RInv, [Next]_vars PROVE [Abstract!Next]_(Abstract!vars)
  OBVIOUS
<1>1. IInv'
  BY NextInv
<1>2. CASE Open \/ Crash
  BY <1>2, StopMaps DEF Abstract!Next
<1>3. CASE Load
  BY <1>1, <1>3, LoadMaps DEF Abstract!Next
<1>4. CASE Close
  BY <1>4, CloseMaps DEF Abstract!Next
<1>5. ASSUME NEW t \in Threads, Step(t) PROVE [Abstract!Next]_(Abstract!vars)
  <2>1. ~AppendRecordShort(t)
    BY DEF AppendRecordShort, WholeWrites
  <2>2. CASE Lock(t) \/ CheckPresent(t) \/ AppendRecord(t) \/ ReadLogRecord(t)
    BY <1>1, <2>2, InsideMaps
  <2>3. CASE CheckAbsent(t) \/ AppendRecordFails(t)
    BY <1>1, <2>3, RefusedMaps DEF Abstract!Next, Abstract!Operate
  <2>4. CASE UpdateIndex(t)
    BY <1>1, <2>4, UpdateMaps DEF Abstract!Next, Abstract!Operate
  <2>5. CASE Lookup(t)
    BY <1>1, <2>5, LookupMaps DEF Abstract!Next, Abstract!Operate
  <2> QED
    BY <1>5, <2>1, <2>2, <2>3, <2>4, <2>5 DEF Step
<1>6. ASSUME NEW t \in Threads, NEW o \in Ops, Call(t, o) PROVE [Abstract!Next]_(Abstract!vars)
  <2>1. Abstract!Call(t, o)
    BY <1>1, <1>6, CallMaps
  <2> QED
    BY <2>1, SameTerms DEF Abstract!Next, Abstract!Operate
<1>7. CASE UNCHANGED vars
  BY <1>7 DEF vars, Abstract!vars, storeBar, statusBar, requestBar, answerBar, LoggedValue,
     IndexedValue, EndOfLog, Serving, ReadAnswer
<1> QED
  BY <1>2, <1>3, <1>4, <1>5, <1>6, <1>7 DEF Next

\* With whole writes and no archived file, every behaviour of the threads, their writes
\* that fail whole, the restarts and the kills is one of KVStore: Put, Get and Delete take
\* effect at one moment each, and a write that was answered is never lost, for any number
\* of threads, keys and values and a disk of any size.
THEOREM EngineImplementsStore ==
    ASSUME Faults \subseteq {"error", "crash"}, Archive = <<>>
    PROVE  Spec => ImplementsKVStore
<1>1. WholeWrites
  BY DEF WholeWrites
<1>2. Init => IInv /\ RInv /\ Abstract!Init
  BY <1>1, InitInv, InitRest, InitMaps
<1>3. IInv /\ RInv /\ [Next]_vars => IInv' /\ RInv' /\ [Abstract!Next]_(Abstract!vars)
  BY <1>1, NextInv, RestStep, StepMaps
<1> QED
  BY <1>2, <1>3, PTL DEF Spec, ImplementsKVStore, Abstract!Spec
=============================================================================
