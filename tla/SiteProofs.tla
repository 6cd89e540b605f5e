----------------------------- MODULE SiteProofs -----------------------------
(***************************************************************************)
(* Proofs about a connection and the site behind it, from the bottom up:   *)
(* the buffer (for any sizes and any calls the indices stay in bounds, and *)
(* it is a queue of bytes until makeSpace moves them); the connection,     *)
(* which uses its buffer as Buffer allows, handles the requests in the     *)
(* order they were sent and gives the answers of the stream, however it    *)
(* was cut into pieces; the routes, which are those of the file; and the   *)
(* site, where every answer comes of the route the file names.             *)
(***************************************************************************)
EXTENDS Site, SequenceLemmas, FiniteSetTheorems

-----------------------------------------------------------------------------
(* The buffer.                                                             *)

Sound(b) ==
    /\ b \in [size : Nat, reader : Nat, writer : Nat, cells : [0..(b.size - 1) -> Byte]]
    /\ Prepend <= b.reader /\ b.reader <= b.writer /\ b.writer <= b.size

-----------------------------------------------------------------------------
(* What each member function makes of a sound buffer.                      *)

\* The readable bytes are a sequence of bytes.
LEMMA ReadableIsSeq ==
    ASSUME NEW b, Sound(b)
    PROVE  /\ Readable(b) \in Seq(Byte)
           /\ Len(Readable(b)) = ReadableBytes(b)
           /\ ReadableBytes(b) \in Nat /\ WritableBytes(b) \in Nat
<1>1. ReadableBytes(b) \in Nat /\ WritableBytes(b) \in Nat
  BY DEF Sound, ReadableBytes, WritableBytes
<1>2. \A i \in 1..ReadableBytes(b) : b.cells[b.reader + i - 1] \in Byte
  <2> TAKE i \in 1..ReadableBytes(b)
  <2>1. b.reader + i - 1 \in 0..(b.size - 1)
    BY DEF Sound, ReadableBytes
  <2> QED BY <2>1 DEF Sound
<1> QED BY <1>1, <1>2 DEF Readable

\* retrieve takes the first n readable bytes.
LEMMA RetrievedSound ==
    ASSUME NEW b, Sound(b), NEW n \in 0..ReadableBytes(b)
    PROVE  /\ Sound(Retrieved(b, n))
           /\ ReadableBytes(Retrieved(b, n)) = ReadableBytes(b) - n
           /\ Readable(Retrieved(b, n)) = SubSeq(Readable(b), n + 1, ReadableBytes(b))
<1> DEFINE r == Retrieved(b, n)
<1>0. ReadableBytes(b) \in Nat
  BY ReadableIsSeq
<1>1. CASE n < ReadableBytes(b)
  <2>1. r = [b EXCEPT !.reader = @ + n]
    BY <1>1 DEF Retrieved
  <2>2. /\ r.size = b.size /\ r.writer = b.writer /\ r.cells = b.cells
        /\ r.reader = b.reader + n
        /\ r \in [size : Nat, reader : Nat, writer : Nat, cells : [0..(b.size - 1) -> Byte]]
    BY <2>1 DEF Sound
  <2>3. Sound(r)
    BY <2>2, <1>0, <1>1, BufferAssumption DEF Sound, ReadableBytes
  <2>4. ReadableBytes(r) = ReadableBytes(b) - n
    BY <2>2, <1>0 DEF Sound, ReadableBytes
  <2>5. Readable(r) = SubSeq(Readable(b), n + 1, ReadableBytes(b))
    <3>1. Readable(r) = [i \in 1..(ReadableBytes(b) - n) |-> b.cells[b.reader + n + i - 1]]
      BY <2>2, <2>4 DEF Readable
    <3>2. SubSeq(Readable(b), n + 1, ReadableBytes(b))
          = [i \in 1..(ReadableBytes(b) - n) |-> Readable(b)[i + n]]
      BY <1>0, <1>1, ReadableIsSeq
    <3>3. \A i \in 1..(ReadableBytes(b) - n) : Readable(b)[i + n] = b.cells[b.reader + n + i - 1]
      <4> TAKE i \in 1..(ReadableBytes(b) - n)
      <4>1. i + n \in 1..ReadableBytes(b)
        BY <1>0
      <4>2. b.reader + (i + n) - 1 = b.reader + n + i - 1
        BY DEF Sound
      <4> QED BY <4>1, <4>2 DEF Readable
    <3> QED BY <3>1, <3>2, <3>3
  <2> QED BY <2>3, <2>4, <2>5
<1>2. CASE ~(n < ReadableBytes(b))
  <2>1. r = [b EXCEPT !.reader = Prepend, !.writer = Prepend]
    BY <1>2 DEF Retrieved
  <2>2. /\ r.size = b.size /\ r.writer = Prepend /\ r.reader = Prepend /\ r.cells = b.cells
        /\ r \in [size : Nat, reader : Nat, writer : Nat, cells : [0..(b.size - 1) -> Byte]]
    BY <2>1, BufferAssumption DEF Sound
  <2>3. n = ReadableBytes(b)
    BY <1>2, <1>0
  <2>4. Sound(r)
    BY <2>2, BufferAssumption DEF Sound
  <2>5. ReadableBytes(r) = 0
    BY <2>2, BufferAssumption DEF ReadableBytes
  <2>6. Readable(r) = <<>>
    BY <2>5 DEF Readable
  <2>7. SubSeq(Readable(b), n + 1, ReadableBytes(b)) = <<>>
    BY <2>3, <1>0, ReadableIsSeq
  <2> QED BY <2>3, <2>4, <2>5, <2>6, <2>7, <1>0
<1> QED BY <1>1, <1>2

\* Bytes written where there is room for them follow the readable ones.
LEMMA WrittenSound ==
    ASSUME NEW b, Sound(b), NEW text \in Seq(Byte), Len(text) <= WritableBytes(b)
    PROVE  /\ Sound(Written(b, text))
           /\ ReadableBytes(Written(b, text)) = ReadableBytes(b) + Len(text)
           /\ WritableBytes(Written(b, text)) = WritableBytes(b) - Len(text)
           /\ Written(b, text).reader = b.reader
           /\ Readable(Written(b, text)) = Readable(b) \o text
<1> DEFINE w == Written(b, text)
           cells == [i \in 0..(b.size - 1) |->
                      IF i \in b.writer..(b.writer + Len(text) - 1)
                      THEN text[i - b.writer + 1] ELSE b.cells[i]]
<1>0. Len(text) \in Nat /\ \A i \in 1..Len(text) : text[i] \in Byte
  OBVIOUS
<1>n. /\ b.size \in Nat /\ b.reader \in Nat /\ b.writer \in Nat
      /\ b.reader <= b.writer /\ b.writer + Len(text) <= b.size
  BY <1>0 DEF Sound, WritableBytes
<1>1. cells \in [0..(b.size - 1) -> Byte]
  <2> SUFFICES ASSUME NEW i \in 0..(b.size - 1) PROVE cells[i] \in Byte
    OBVIOUS
  <2>1. CASE i \in b.writer..(b.writer + Len(text) - 1)
    <3>1. i - b.writer + 1 \in 1..Len(text)
      BY <2>1, <1>0 DEF Sound
    <3> QED BY <3>1, <2>1, <1>0
  <2>2. CASE i \notin b.writer..(b.writer + Len(text) - 1)
    BY <2>2 DEF Sound
  <2> QED BY <2>1, <2>2
<1>2. /\ w.size = b.size /\ w.reader = b.reader /\ w.writer = b.writer + Len(text)
      /\ w.cells = cells
      /\ w \in [size : Nat, reader : Nat, writer : Nat, cells : [0..(b.size - 1) -> Byte]]
  <2>1. w = [b EXCEPT !.writer = b.writer + Len(text), !.cells = cells]
    BY DEF Written
  <2>2. b = [size |-> b.size, reader |-> b.reader, writer |-> b.writer, cells |-> b.cells]
    BY DEF Sound
  <2>3. w = [size |-> b.size, reader |-> b.reader, writer |-> b.writer + Len(text), cells |-> cells]
    <3> HIDE DEF cells, w
    <3> QED BY <2>1, <2>2
  <2> HIDE DEF cells, w
  <2> QED BY <2>3, <1>0, <1>1, <1>n
<1>3. Sound(w)
  BY <1>2, <1>0 DEF Sound, WritableBytes
<1>4. /\ ReadableBytes(w) = ReadableBytes(b) + Len(text)
      /\ WritableBytes(w) = WritableBytes(b) - Len(text)
  BY <1>2, <1>0 DEF Sound, ReadableBytes, WritableBytes
<1>5. Readable(w) = Readable(b) \o text
  <2>0. /\ Readable(b) \in Seq(Byte) /\ Len(Readable(b)) = ReadableBytes(b)
        /\ ReadableBytes(b) \in Nat
    BY ReadableIsSeq
  <2>1. Readable(w) \in Seq(Byte) /\ Len(Readable(w)) = ReadableBytes(b) + Len(text)
    BY <1>3, <1>4, ReadableIsSeq
  <2>2. Readable(b) \o text \in Seq(Byte) /\ Len(Readable(b) \o text) = ReadableBytes(b) + Len(text)
    BY <2>0, <1>0
  <2>3. ASSUME NEW i \in 1..(ReadableBytes(b) + Len(text))
        PROVE  Readable(w)[i] = (Readable(b) \o text)[i]
    <3>1. Readable(w)[i] = cells[b.reader + i - 1]
      BY <1>2, <1>4 DEF Readable
    <3>2. CASE i <= ReadableBytes(b)
      <4>1. /\ b.reader + i - 1 \in 0..(b.size - 1)
            /\ b.reader + i - 1 \notin b.writer..(b.writer + Len(text) - 1)
        BY <3>2, <1>0, <1>n, SMTT(30), ZenonT(40) DEF ReadableBytes
      <4>2. cells[b.reader + i - 1] = b.cells[b.reader + i - 1]
        BY <4>1
      <4>3. (Readable(b) \o text)[i] = Readable(b)[i]
        BY <3>2, <2>0, <1>0
      <4> QED BY <3>1, <3>2, <4>2, <4>3, <2>0 DEF Readable
    <3>3. CASE ~(i <= ReadableBytes(b))
      <4> DEFINE k == b.reader + i - 1
      <4>0. ReadableBytes(b) = b.writer - b.reader /\ i \in Int /\ i > ReadableBytes(b)
        BY <3>3, <2>0 DEF ReadableBytes
      <4>1. /\ k \in 0..(b.size - 1)
            /\ k \in b.writer..(b.writer + Len(text) - 1)
            /\ k - b.writer + 1 = i - ReadableBytes(b)
        BY <4>0, <1>0, <1>n, SMTT(30), ZenonT(40)
      <4>2. cells[k] = text[i - ReadableBytes(b)]
        <5>1. cells[k] = text[k - b.writer + 1]
          <6> HIDE DEF k
          <6> QED BY <4>1
        <5> HIDE DEF k, cells
        <5> QED BY <5>1, <4>1
      <4>3. (Readable(b) \o text)[i] = text[i - ReadableBytes(b)]
        BY <3>3, <2>0, <1>0
      <4> QED BY <3>1, <4>2, <4>3
    <3> QED BY <3>2, <3>3
  <2> QED BY <2>1, <2>2, <2>3, SeqEqual
<1> QED BY <1>2, <1>3, <1>4, <1>5

\* Growing keeps the readable bytes and makes room for exactly len more.
LEMMA GrownSound ==
    ASSUME NEW b, Sound(b), NEW len \in Nat, WritableBytes(b) < len
    PROVE  /\ Sound(Grown(b, len))
           /\ ReadableBytes(Grown(b, len)) = ReadableBytes(b)
           /\ WritableBytes(Grown(b, len)) = len
           /\ Readable(Grown(b, len)) = Readable(b)
<1> DEFINE cells == [i \in 0..(b.writer + len - 1) |-> IF i < b.size THEN b.cells[i] ELSE Zero]
           g == Grown(b, len)
<1>n. /\ b.size \in Nat /\ b.reader \in Nat /\ b.writer \in Nat
      /\ b.reader <= b.writer /\ b.writer <= b.size /\ b.size < b.writer + len
  BY DEF Sound, WritableBytes
<1>1. cells \in [0..(b.writer + len - 1) -> Byte]
  <2> SUFFICES ASSUME NEW i \in 0..(b.writer + len - 1)
               PROVE  (IF i < b.size THEN b.cells[i] ELSE Zero) \in Byte
    OBVIOUS
  <2>1. i < b.size => i \in 0..(b.size - 1)
    BY <1>n
  <2> QED BY <2>1, BufferAssumption DEF Sound
<1>2. g = [size |-> b.writer + len, reader |-> b.reader, writer |-> b.writer, cells |-> cells]
  <2>1. b = [size |-> b.size, reader |-> b.reader, writer |-> b.writer, cells |-> b.cells]
    BY DEF Sound
  <2>2. g = [b EXCEPT !.size = b.writer + len, !.cells = cells]
    BY DEF Grown
  <2> HIDE DEF cells, g
  <2> QED BY <2>1, <2>2
<1>3. Sound(g)
  <2> HIDE DEF cells, g
  <2> QED BY <1>n, <1>1, <1>2 DEF Sound
<1>4. ReadableBytes(g) = ReadableBytes(b) /\ WritableBytes(g) = len
  BY <1>2, <1>n DEF ReadableBytes, WritableBytes
<1>5. \A i \in 1..ReadableBytes(b) : cells[b.reader + i - 1] = b.cells[b.reader + i - 1]
  <2> TAKE i \in 1..ReadableBytes(b)
  <2> DEFINE k == b.reader + i - 1
  <2>1. k \in 0..(b.writer + len - 1) /\ k < b.size
    BY <1>n DEF ReadableBytes
  <2> HIDE DEF k
  <2> QED BY <2>1 DEF k
<1>6. Readable(g) = Readable(b)
  <2>1. g.cells = cells /\ g.reader = b.reader
    BY <1>2
  <2> HIDE DEF cells, g
  <2> QED BY <2>1, <1>4, <1>5 DEF Readable
<1> QED BY <1>3, <1>4, <1>6

\* Moving keeps the number of readable bytes, if not the bytes, and makes room.
LEMMA ShiftedSound ==
    ASSUME NEW b, Sound(b), NEW len \in Nat, ShiftMakesRoom(b, len)
    PROVE  /\ Sound(Shifted(b))
           /\ ReadableBytes(Shifted(b)) = ReadableBytes(b)
           /\ WritableBytes(Shifted(b)) >= len
<1> DEFINE cells == [i \in 0..(b.size - 1) |->
                      IF i \in Prepend..(Prepend + WritableBytes(b) - ReadableBytes(b) - 1)
                      THEN b.cells[i - Prepend + ReadableBytes(b)] ELSE b.cells[i]]
           m == Shifted(b)
<1>n. /\ b.size \in Nat /\ b.reader \in Nat /\ b.writer \in Nat /\ Prepend \in Nat
      /\ Prepend <= b.reader /\ b.reader <= b.writer /\ b.writer <= b.size
      /\ ReadableBytes(b) = b.writer - b.reader /\ WritableBytes(b) = b.size - b.writer
  BY BufferAssumption DEF Sound, ReadableBytes, WritableBytes
<1>1. cells \in [0..(b.size - 1) -> Byte]
  <2> SUFFICES ASSUME NEW i \in 0..(b.size - 1) PROVE cells[i] \in Byte
    OBVIOUS
  <2>1. ASSUME i \in Prepend..(Prepend + WritableBytes(b) - ReadableBytes(b) - 1)
        PROVE  i - Prepend + ReadableBytes(b) \in 0..(b.size - 1)
    BY <2>1, <1>n
  <2> QED BY <2>1 DEF Sound
<1>2. m = [size |-> b.size, reader |-> Prepend, writer |-> Prepend + ReadableBytes(b), cells |-> cells]
  <2>1. b = [size |-> b.size, reader |-> b.reader, writer |-> b.writer, cells |-> b.cells]
    BY DEF Sound
  <2>2. m = [b EXCEPT !.reader = Prepend, !.writer = Prepend + ReadableBytes(b), !.cells = cells]
    BY DEF Shifted
  <2> HIDE DEF cells, m
  <2> QED BY <2>1, <2>2
<1>3. Sound(m)
  <2> HIDE DEF cells, m
  <2> QED BY <1>n, <1>1, <1>2 DEF Sound
<1>4. ReadableBytes(m) = ReadableBytes(b)
  BY <1>2, <1>n DEF ReadableBytes
<1>5. WritableBytes(m) >= len
  BY <1>2, <1>n DEF WritableBytes, ShiftMakesRoom
<1> QED BY <1>3, <1>4, <1>5

\* append puts the bytes behind the readable ones, unless it has to move those.
LEMMA AppendedSound ==
    ASSUME NEW b, Sound(b), NEW text \in Seq(Byte)
    PROVE  /\ Sound(Appended(b, text))
           /\ ReadableBytes(Appended(b, text)) = ReadableBytes(b) + Len(text)
           /\ ~Shifts(b, Len(text)) => Readable(Appended(b, text)) = Readable(b) \o text
<1> DEFINE e == Ensured(b, Len(text))
<1>0. Len(text) \in Nat
  OBVIOUS
<1>1. Sound(e) /\ ReadableBytes(e) = ReadableBytes(b) /\ Len(text) <= WritableBytes(e)
  <2>1. CASE ~(WritableBytes(b) < Len(text))
    BY <2>1, <1>0, ReadableIsSeq DEF Ensured
  <2>2. CASE WritableBytes(b) < Len(text) /\ ShiftMakesRoom(b, Len(text))
    <3>1. e = Shifted(b)
      BY <2>2 DEF Ensured, MakeSpace
    <3>2. Sound(Shifted(b)) /\ ReadableBytes(Shifted(b)) = ReadableBytes(b)
          /\ WritableBytes(Shifted(b)) >= Len(text)
      BY <2>2, <1>0, ShiftedSound
    <3>3. WritableBytes(Shifted(b)) \in Nat
      BY <3>2, ReadableIsSeq
    <3> QED BY <3>1, <3>2, <3>3, <1>0
  <2>3. CASE WritableBytes(b) < Len(text) /\ ~ShiftMakesRoom(b, Len(text))
    BY <2>3, <1>0, GrownSound DEF Ensured, MakeSpace
  <2> QED BY <2>1, <2>2, <2>3
<1>2. ~Shifts(b, Len(text)) => Readable(e) = Readable(b)
  BY <1>0, GrownSound DEF Ensured, MakeSpace, Shifts
<1>3. Appended(b, text) = Written(e, text)
  BY DEF Appended
<1> HIDE DEF e
<1> QED BY <1>1, <1>2, <1>3, WrittenSound

\* readFd puts both parts behind the readable bytes, unless it has to move those.
LEMMA ReadIntoSound ==
    ASSUME NEW b, Sound(b), NEW text \in Seq(Byte)
    PROVE  /\ Sound(ReadInto(b, text))
           /\ ReadableBytes(ReadInto(b, text)) = ReadableBytes(b) + Len(text)
           /\ ~ReadShifts(b, text) => Readable(ReadInto(b, text)) = Readable(b) \o text
<1>0. Len(text) \in Nat /\ WritableBytes(b) \in Nat /\ ReadableBytes(b) \in Nat
      /\ Readable(b) \in Seq(Byte)
  BY ReadableIsSeq
<1>1. CASE Len(text) <= WritableBytes(b)
  <2>1. ReadInto(b, text) = Written(b, text)
    BY <1>1 DEF ReadInto
  <2> QED BY <2>1, <1>1, WrittenSound
<1>2. CASE ~(Len(text) <= WritableBytes(b))
  <2> DEFINE first == First(b, text)
             rest == Rest(b, text)
             w == Written(b, first)
  <2>1. ReadInto(b, text) = Appended(w, rest)
    BY <1>2, SMTT(30), ZenonT(40) DEF ReadInto
  <2>2. /\ first \in Seq(Byte) /\ Len(first) = WritableBytes(b)
        /\ rest \in Seq(Byte) /\ Len(rest) = Len(text) - WritableBytes(b)
        /\ first \o rest = text
    <3> DEFINE k == WritableBytes(b)
    <3>1. k \in 0..Len(text) /\ k + 1 \in Int /\ 1 \in 1..(Len(text) + 1) /\ k \in (1 - 1)..Len(text)
          /\ Len(text) \in k..Len(text)
      BY <1>0, <1>2
    <3>2. first = SubSeq(text, 1, k) /\ rest = SubSeq(text, k + 1, Len(text))
      BY DEF First, Rest
    <3> HIDE DEF k, first, rest
    <3>3. first \in Seq(Byte) /\ Len(first) = k
      BY <3>1, <3>2, <1>0
    <3>4. rest \in Seq(Byte) /\ Len(rest) = Len(text) - k
      BY <3>1, <3>2, <1>0
    <3>5. first \o rest = SubSeq(text, 1, Len(text))
      BY <3>1, <3>2, ConcatAdjacentSubSeq
    <3>6. SubSeq(text, 1, Len(text)) = text
      BY SubSeqFull
    <3> QED BY <3>3, <3>4, <3>5, <3>6, SMTT(30), ZenonT(40) DEF k
  <2>3. /\ Sound(w) /\ ReadableBytes(w) = ReadableBytes(b) + WritableBytes(b)
        /\ Readable(w) = Readable(b) \o first
    <3>1. first \in Seq(Byte) /\ Len(first) <= WritableBytes(b) /\ Len(first) = WritableBytes(b)
      BY <2>2, <1>0
    <3> HIDE DEF first
    <3> QED BY <3>1, <1>0, WrittenSound
  <2>4. /\ Sound(Appended(w, rest)) /\ ReadableBytes(Appended(w, rest)) = ReadableBytes(w) + Len(rest)
        /\ ~Shifts(w, Len(rest)) => Readable(Appended(w, rest)) = Readable(w) \o rest
    <3> HIDE DEF w, rest
    <3> QED BY <2>2, <2>3, AppendedSound
  <2>5. ~ReadShifts(b, text) => ~Shifts(w, Len(rest))
    BY <2>2, <1>0, <1>2 DEF ReadShifts
  <2>6. (Readable(b) \o first) \o rest = Readable(b) \o text
    <3>0. Readable(b) \in Seq(Byte) /\ first \in Seq(Byte) /\ rest \in Seq(Byte)
      BY <1>0, <2>2
    <3> HIDE DEF first, rest, w
    <3>1. (Readable(b) \o first) \o rest = Readable(b) \o (first \o rest)
      <4> DEFINE q == Readable(b)
      <4> HIDE DEF q
      <4>1. q \in Seq(Byte)
        BY <3>0 DEF q
      <4>2. (q \o first) \o rest = q \o (first \o rest)
        BY <4>1, <3>0, ConcatAssociative, SMTT(30)
      <4> QED BY <4>2 DEF q
    <3> QED BY <3>1, <2>2
  <2> HIDE DEF first, rest, w
  <2>7. ReadableBytes(w) + Len(rest) = ReadableBytes(b) + Len(text)
    BY <2>2, <2>3, <1>0
  <2> QED BY <2>1, <2>3, <2>4, <2>5, <2>6, <2>7
<1> QED BY <1>1, <1>2

-----------------------------------------------------------------------------
(* The inductive invariant: the three properties together.                 *)
BufferInv == BufferTypeOK /\ IndicesInBounds /\ BufferIsQueue

LEMMA InvIsSound == BufferInv => Sound(buffer)
  BY DEF BufferInv, BufferTypeOK, IndicesInBounds, Sound

\* A step that leaves a sound buffer with as many bytes as the queue, and with the
\* same ones unless it moved them, keeps the invariant.
LEMMA StepKeepsInv ==
    ASSUME BufferInv, Sound(buffer'), queue' \in Seq(Byte), moved' \in {"no", "moved", "died"},
           ReadableBytes(buffer') = Len(queue'),
           moved' = "no" => Readable(buffer') = queue'
    PROVE  BufferInv'
<1>1. BufferTypeOK'
  BY DEF BufferTypeOK, Sound
<1>2. IndicesInBounds'
  BY DEF IndicesInBounds, Sound
<1>3. BufferIsQueue'
  BY DEF BufferIsQueue
<1> QED BY <1>1, <1>2, <1>3 DEF BufferInv

LEMMA InitKeepsInv == BufferInit => BufferInv
<1> SUFFICES ASSUME BufferInit PROVE BufferInv
  OBVIOUS
<1> DEFINE cells == [i \in 0..(Prepend + InitialSize - 1) |-> Zero]
<1>1. cells \in [0..(Prepend + InitialSize - 1) -> Byte]
  BY BufferAssumption
<1>2. buffer = [size |-> Prepend + InitialSize, reader |-> Prepend, writer |-> Prepend, cells |-> cells]
  BY DEF BufferInit, NewBuffer
<1> HIDE DEF cells
<1>3. BufferTypeOK
  BY <1>1, <1>2, BufferAssumption DEF BufferInit, BufferTypeOK
<1>4. ReadableBytes(buffer) = 0
  BY <1>2, BufferAssumption DEF ReadableBytes
<1>5. Readable(buffer) = <<>>
  BY <1>4 DEF Readable
<1>6. IndicesInBounds
  BY <1>2, <1>4, BufferAssumption DEF IndicesInBounds, BufferInit
<1> QED BY <1>3, <1>5, <1>6 DEF BufferInv, BufferIsQueue, BufferInit

LEMMA RetrieveKeepsInv ==
    ASSUME BufferInv, NEW n, Retrieve(n)
    PROVE  BufferInv'
<1>1. Sound(buffer)
  BY InvIsSound
<1>2. /\ n \in 0..ReadableBytes(buffer) /\ ReadableBytes(buffer) = Len(queue)
      /\ queue \in Seq(Byte)
      /\ moved \in {"no", "moved", "died"}
      /\ moved = "no" => Readable(buffer) = queue
  BY DEF Retrieve, BufferInv, IndicesInBounds, BufferTypeOK, BufferIsQueue
<1>3. /\ Sound(buffer') /\ ReadableBytes(buffer') = ReadableBytes(buffer) - n
      /\ Readable(buffer') = SubSeq(Readable(buffer), n + 1, ReadableBytes(buffer))
  BY <1>1, <1>2, RetrievedSound DEF Retrieve
<1>4. /\ queue' = SubSeq(queue, n + 1, Len(queue)) /\ moved' = moved
  BY DEF Retrieve
<1>5. queue' \in Seq(Byte) /\ Len(queue') = Len(queue) - n
  BY <1>2, <1>4
<1>6. moved' = "no" => Readable(buffer') = queue'
  BY <1>2, <1>3, <1>4
<1>7. ReadableBytes(buffer') = Len(queue')
  BY <1>2, <1>3, <1>5
<1> QED BY <1>2, <1>3, <1>4, <1>5, <1>6, <1>7, StepKeepsInv

LEMMA AppendKeepsInv ==
    ASSUME BufferInv, NEW text \in Seq(Byte), AppendBytes(text) \/ ReadFd(text)
    PROVE  BufferInv'
<1>1. Sound(buffer)
  BY InvIsSound
<1>2. /\ ReadableBytes(buffer) = Len(queue) /\ queue \in Seq(Byte)
      /\ moved \in {"no", "moved", "died"}
      /\ moved = "no" => Readable(buffer) = queue
  BY DEF BufferInv, IndicesInBounds, BufferTypeOK, BufferIsQueue
<1>3. queue' = queue \o text
  BY DEF AppendBytes, ReadFd
<1>4. queue' \in Seq(Byte) /\ Len(queue') = Len(queue) + Len(text)
  BY <1>2, <1>3
<1>o. ASSUME NEW shifts \in BOOLEAN, NEW b, moved' \in Outcomes(shifts, b)
      PROVE  /\ moved' \in {"no", "moved", "died"}
             /\ moved' = "no" => moved = "no" /\ ~shifts
  BY <1>o, <1>2 DEF Outcomes
<1>5. CASE AppendBytes(text)
  <2>1. /\ buffer' = Appended(buffer, text)
        /\ moved' \in Outcomes(Shifts(buffer, Len(text)), buffer)
    BY <1>5 DEF AppendBytes
  <2>2. /\ Sound(buffer') /\ ReadableBytes(buffer') = ReadableBytes(buffer) + Len(text)
        /\ ~Shifts(buffer, Len(text)) => Readable(buffer') = Readable(buffer) \o text
    BY <2>1, <1>1, AppendedSound
  <2>3. /\ moved' \in {"no", "moved", "died"}
        /\ moved' = "no" => moved = "no" /\ ~Shifts(buffer, Len(text))
    <3>1. Shifts(buffer, Len(text)) \in BOOLEAN
      BY DEF Shifts
    <3> QED BY <3>1, <2>1, <1>o
  <2> QED BY <2>2, <2>3, <1>2, <1>3, <1>4, StepKeepsInv
<1>6. CASE ReadFd(text)
  <2>1. /\ buffer' = ReadInto(buffer, text)
        /\ moved' \in Outcomes(ReadShifts(buffer, text), Written(buffer, First(buffer, text)))
    BY <1>6 DEF ReadFd
  <2>2. /\ Sound(buffer') /\ ReadableBytes(buffer') = ReadableBytes(buffer) + Len(text)
        /\ ~ReadShifts(buffer, text) => Readable(buffer') = Readable(buffer) \o text
    BY <2>1, <1>1, ReadIntoSound
  <2>3. /\ moved' \in {"no", "moved", "died"}
        /\ moved' = "no" => moved = "no" /\ ~ReadShifts(buffer, text)
    <3>1. ReadShifts(buffer, text) \in BOOLEAN
      BY DEF ReadShifts
    <3> QED BY <3>1, <2>1, <1>o
  <2> QED BY <2>2, <2>3, <1>2, <1>3, <1>4, StepKeepsInv
<1> QED BY <1>5, <1>6

LEMMA UnchangedKeepsInv == BufferInv /\ UNCHANGED bufferVars => BufferInv'
<1> SUFFICES ASSUME BufferInv, UNCHANGED bufferVars PROVE BufferInv'
  OBVIOUS
<1>1. buffer' = buffer /\ queue' = queue /\ moved' = moved
  BY DEF bufferVars
<1> QED BY <1>1, InvIsSound, StepKeepsInv
        DEF BufferInv, BufferTypeOK, IndicesInBounds, BufferIsQueue, ReadableBytes, Readable, Sound

LEMMA NextKeepsInv == BufferInv /\ [BufferNext]_bufferVars => BufferInv'
<1> SUFFICES ASSUME BufferInv, [BufferNext]_bufferVars PROVE BufferInv'
  OBVIOUS
<1>1. ASSUME NEW n \in Nat, Retrieve(n) PROVE BufferInv'
  BY <1>1, RetrieveKeepsInv
<1>2. ASSUME NEW text \in Seq(Byte), AppendBytes(text) \/ ReadFd(text) PROVE BufferInv'
  BY <1>2, AppendKeepsInv
<1>3. CASE UNCHANGED bufferVars
  BY <1>3, UnchangedKeepsInv
<1> QED BY <1>1, <1>2, <1>3 DEF BufferNext

\* For any sizes and any sequence of calls of Buffer (buffer.h, buffer.cpp): the
\* indices stay in bounds and count the bytes put in and not yet taken out.
THEOREM BufferIndices == BufferSpec => []IndicesInBounds
<1>1. BufferInit => BufferInv
  BY InitKeepsInv
<1>2. BufferInv /\ [BufferNext]_bufferVars => BufferInv'
  BY NextKeepsInv
<1>3. BufferInv => IndicesInBounds
  BY DEF BufferInv
<1> QED BY <1>1, <1>2, <1>3, PTL DEF BufferSpec

\* And the readable bytes are those of a queue, until makeSpace moves them.
THEOREM BufferBytes == BufferSpec => []BufferIsQueue
<1>1. BufferInit => BufferInv
  BY InitKeepsInv
<1>2. BufferInv /\ [BufferNext]_bufferVars => BufferInv'
  BY NextKeepsInv
<1>3. BufferInv => BufferIsQueue
  BY DEF BufferInv
<1> QED BY <1>1, <1>2, <1>3, PTL DEF BufferSpec

-----------------------------------------------------------------------------
(* The connection: what it reads, and how it uses the buffer.              *)

\* What is on its way are bytes, and nothing runs on after a crash in makeSpace.
StreamInv ==
    /\ wire \in Seq(Byte)
    /\ sent \in Seq(Kinds)
    /\ pc \in {"wait", "read", "parse", "died"}
    /\ moved = "died" => pc = "died"

ConnInv == BufferInv /\ StreamInv

LEMMA InitConn == Init => ConnInv
<1> SUFFICES ASSUME Init PROVE ConnInv
  OBVIOUS
<1>1. BufferInv
  BY InitKeepsInv DEF Init
<1>2. StreamInv
  BY DEF Init, BufferInit, StreamInv
<1> QED BY <1>1, <1>2 DEF ConnInv

\* retrieveUntil and retrieveAsString are calls Buffer allows.
LEMMA RetrieveIsBufferStep ==
    ASSUME BufferInv, moved # "died", NEW n, Retrieve(n)
    PROVE  BufferNext /\ moved' = moved
<1>1. ReadableBytes(buffer) \in Nat
  BY InvIsSound, ReadableIsSeq
<1>2. n \in Nat
  BY <1>1 DEF Retrieve
<1> QED BY <1>2 DEF BufferNext, Retrieve

\* Every step of a connection is a step of its buffer or leaves it alone.
LEMMA StepIsBufferStep ==
    ASSUME ConnInv, Next
    PROVE  [BufferNext]_bufferVars /\ StreamInv'
<1>0. /\ BufferInv /\ wire \in Seq(Byte) /\ sent \in Seq(Kinds)
      /\ moved = "died" => pc = "died"
  BY DEF ConnInv, StreamInv
<1>1. ASSUME NEW kind \in Kinds, Send(kind)
      PROVE  [BufferNext]_bufferVars /\ StreamInv'
  <2>1. UNCHANGED bufferVars /\ UNCHANGED <<pc, moved>>
    BY <1>1 DEF Send, bufferVars
  <2>2. Len(sent) + 1 \in 1..MaxRequests
    BY <1>0, <1>1, ConstantsAssumption DEF Send
  <2>3. Encoded(kind, Len(sent) + 1) \in Seq(Byte)
    BY <2>2, BytesAssumption
  <2>4. wire' \in Seq(Byte) /\ sent' \in Seq(Kinds)
    BY <1>0, <1>1, <2>3 DEF Send
  <2> QED BY <2>1, <2>4 DEF ConnInv, StreamInv
<1>2. ASSUME NEW n \in 1..Len(wire), Read(n)
      PROVE  [BufferNext]_bufferVars /\ StreamInv'
  <2> DEFINE text == SubSeq(wire, 1, n)
  <2>1. text \in Seq(Byte) /\ wire' \in Seq(Byte) /\ sent' = sent
    BY <1>0, <1>2 DEF Read
  <2>2. AppendBytes(text) \/ ReadFd(text)
    BY <1>2 DEF Read
  <2>3. moved # "died"
    BY <1>0, <1>2 DEF Read
  <2>4. BufferNext
    BY <2>1, <2>2, <2>3 DEF BufferNext
  <2>5. pc' = IF moved' = "died" THEN "died" ELSE "read"
    BY <1>2 DEF Read
  <2> QED BY <1>0, <2>1, <2>4, <2>5 DEF StreamInv
<1>3. CASE ReadDone \/ Incomplete \/ BadLine \/ Serve
  <2>1. UNCHANGED bufferVars /\ UNCHANGED <<wire, sent, moved>>
    BY <1>3 DEF ReadDone, Incomplete, BadLine, Serve, bufferVars
  <2>2. pc # "died" /\ pc' \in {"wait", "parse"}
    BY <1>3 DEF ReadDone, Incomplete, BadLine, Serve, Parsing
  <2> QED BY <1>0, <2>1, <2>2 DEF StreamInv
<1>4. CASE ParseRequestLine \/ ParseHeader \/ EndOfHeaders
  <2>1. Retrieve(LineEnd) /\ UNCHANGED <<wire, sent>>
    BY <1>4 DEF ParseRequestLine, ParseHeader, EndOfHeaders
  <2>2. pc = "parse" /\ pc' \in {"parse", "died"}
    BY <1>4 DEF ParseRequestLine, ParseHeader, EndOfHeaders, Parsing
  <2>3. BufferNext /\ moved' = moved
    BY <1>0, <2>1, <2>2, RetrieveIsBufferStep
  <2> QED BY <1>0, <2>1, <2>2, <2>3 DEF StreamInv
<1>5. CASE ParseBody
  <2>1. (Retrieve(2) \/ UNCHANGED bufferVars) /\ UNCHANGED <<wire, sent, pc>> /\ pc = "parse"
    BY <1>5 DEF ParseBody, Parsing
  <2>2. CASE Retrieve(2)
    <3>1. BufferNext /\ moved' = moved
      BY <1>0, <2>1, <2>2, RetrieveIsBufferStep
    <3> QED BY <1>0, <2>1, <3>1 DEF StreamInv
  <2>3. CASE UNCHANGED bufferVars
    BY <1>0, <2>1, <2>3 DEF StreamInv, bufferVars
  <2> QED BY <2>1, <2>2, <2>3
<1> QED BY <1>1, <1>2, <1>3, <1>4, <1>5 DEF Next, Parse

LEMMA ConnStep == ConnInv /\ [Next]_vars => [BufferNext]_bufferVars /\ ConnInv'
<1> SUFFICES ASSUME ConnInv, [Next]_vars
             PROVE  [BufferNext]_bufferVars /\ ConnInv'
  OBVIOUS
<1>1. [BufferNext]_bufferVars /\ StreamInv'
  <2>1. CASE Next
    BY <2>1, StepIsBufferStep
  <2>2. CASE UNCHANGED vars
    BY <2>2 DEF vars, bufferVars, ConnInv, StreamInv
  <2> QED BY <2>1, <2>2
<1>2. BufferInv'
  BY <1>1, NextKeepsInv DEF ConnInv
<1> QED BY <1>1, <1>2 DEF ConnInv

\* handleRead and parse use the buffer as its member functions are meant, for any
\* requests, however the network cuts them (connection.cpp, http_request.cpp).
THEOREM ConnectionUsesBuffer == Spec => BufferSpec
<1>1. Init => BufferInit /\ ConnInv
  BY InitConn DEF Init
<1>2. ConnInv /\ [Next]_vars => [BufferNext]_bufferVars /\ ConnInv'
  BY ConnStep
<1> QED BY <1>1, <1>2, PTL DEF Spec, BufferSpec

\* So, for any requests cut in any way, the bytes parse sees are those the client sent,
\* until makeSpace moves them, and no assert of Buffer fails.
THEOREM InputIsWhatWasSent == Spec => [](BufferIsQueue /\ IndicesInBounds)
BY ConnectionUsesBuffer, BufferBytes, BufferIndices, PTL

-----------------------------------------------------------------------------
(* The order of the requests, however badly their bodies are cut.          *)

\* The first byte of a request line; the bytes that were sent and not yet parsed; the
\* requests that were begun.
IsUnit(u) == u = Unit(u.req, u.line, u.part)
IsRequest(r) == r = [state |-> r.state, req |-> r.req, method |-> r.method,
                     length |-> r.length, close |-> r.close, body |-> r.body]
Starts(u) == u.part = 1 /\ u.line \in {"GET", "POST"}
Stream == queue \o wire
Begun == {executed[i] : i \in 1..Len(executed)}
         \cup (IF request.state = "kExpectRequestLine" THEN {} ELSE {request.req})

\* The requests of a stream are numbered as they come, after those in "begun", up to n.
InTurn(q, begun, n) ==
    /\ \A i \in 1..Len(q) : IsUnit(q[i])
    /\ \A i \in 1..Len(q) : Starts(q[i]) => q[i].req \in 1..n /\ \A r \in begun : r < q[i].req
    /\ \A i, j \in 1..Len(q) : i < j /\ Starts(q[i]) /\ Starts(q[j]) => q[i].req < q[j].req

OrderInv ==
    /\ IsRequest(request)
    /\ InTurn(Stream, {}, Len(sent))
    /\ moved = "no" =>
          /\ executed \in Seq(Nat)
          /\ InTurn(Stream, Begun, Len(sent))
          /\ Begun \subseteq 0..Len(sent)
          /\ request.state # "kExpectRequestLine" =>
                \A i \in 1..Len(executed) : executed[i] < request.req
          /\ \A i, j \in 1..Len(executed) : i < j => executed[i] < executed[j]

LEMMA LinesStart ==
    ASSUME NEW kind \in Kinds
    PROVE  /\ Len(Lines(kind)) \in 1..3
           /\ \A k \in 1..Len(Lines(kind)) : Lines(kind)[k] \in {"GET", "POST"} => k = 1
<1>1. CASE kind = "get"
  BY <1>1 DEF Lines
<1>2. CASE kind = "close"
  BY <1>2 DEF Lines
<1>3. CASE kind = "post"
  BY <1>3 DEF Lines
<1>4. CASE kind = "post0"
  BY <1>4 DEF Lines
<1>5. CASE kind = "post2"
  BY <1>5 DEF Lines
<1>6. CASE kind = "nan"
  BY <1>6 DEF Lines
<1>7. CASE kind = "badheader"
  BY <1>7 DEF Lines
<1>8. CASE kind = "junk"
  BY <1>8 DEF Lines
<1> QED
  BY <1>1, <1>2, <1>3, <1>4, <1>5, <1>6, <1>7, <1>8, ConstantsAssumption DEF ConstantsAssumption

\* A request starts once, with its own number.
LEMMA EncodedStarts ==
    ASSUME NEW kind \in Kinds, NEW n \in Nat
    PROVE  /\ Len(Encoded(kind, n)) \in Nat
           /\ \A i \in 1..Len(Encoded(kind, n)) :
                 /\ IsUnit(Encoded(kind, n)[i])
                 /\ Encoded(kind, n)[i].req = n
                 /\ Starts(Encoded(kind, n)[i]) => i = 1
<1> DEFINE head == 2 * Len(Lines(kind))
<1> DEFINE len == head + BodyLength(kind)
<1>1. Len(Lines(kind)) \in 1..3 /\ head \in Nat /\ len \in Nat
  BY LinesStart DEF BodyLength
<1> DEFINE unit(i) == IF i <= head THEN Unit(n, Lines(kind)[(i + 1) \div 2], IF i % 2 = 1 THEN 1 ELSE 2)
                      ELSE Unit(n, "body", 0)
<1>2. Encoded(kind, n) = [i \in 1..len |-> unit(i)]
  BY DEF Encoded
<1>3. Len(Encoded(kind, n)) = len
  BY <1>1, <1>2
<1>4. ASSUME NEW i \in 1..len
      PROVE  /\ Encoded(kind, n)[i] = unit(i)
             /\ IsUnit(unit(i)) /\ unit(i).req = n
             /\ Starts(unit(i)) => i = 1
  <2>1. Encoded(kind, n)[i] = unit(i)
    BY <1>2
  <2>2. CASE i <= head
    <3> DEFINE k == (i + 1) \div 2
    <3> DEFINE p == IF i % 2 = 1 THEN 1 ELSE 2
    <3>1. unit(i) = Unit(n, Lines(kind)[k], p)
      BY <2>2
    <3>2. k \in 1..Len(Lines(kind)) /\ i % 2 \in 0..1 /\ (k = 1 => i \in 1..2)
      BY <1>1, <2>2
    <3>3. Lines(kind)[k] \in {"GET", "POST"} => k = 1
      BY <3>2, LinesStart
    <3>4. i = 2 => p = 2
      OBVIOUS
    <3> HIDE DEF k, p
    <3> QED
      BY <2>1, <3>1, <3>2, <3>3, <3>4 DEF IsUnit, Unit, Starts
  <2>3. CASE ~(i <= head)
    BY <2>1, <2>3 DEF IsUnit, Unit, Starts
  <2> QED
    BY <2>2, <2>3
<1> HIDE DEF unit, len
<1> QED
  BY <1>1, <1>3, <1>4

LEMMA InTurnGrows ==
    ASSUME NEW q \in Seq(Byte), NEW begun, NEW n \in Nat, InTurn(q, begun, n),
           begun \subseteq 0..n, NEW kind \in Kinds, Encoded(kind, n + 1) \in Seq(Byte)
    PROVE  InTurn(q \o Encoded(kind, n + 1), begun, n + 1)
<1> DEFINE e == Encoded(kind, n + 1)
<1> DEFINE t == q \o e
<1>1. /\ Len(e) \in Nat
      /\ \A i \in 1..Len(e) : IsUnit(e[i]) /\ e[i].req = n + 1 /\ (Starts(e[i]) => i = 1)
  BY EncodedStarts
<1>2. e \in Seq(Byte)
  OBVIOUS
<1> HIDE DEF e
<1>3. /\ Len(t) = Len(q) + Len(e) /\ Len(q) \in Nat
      /\ \A i \in 1..Len(q) : t[i] = q[i]
      /\ \A i \in 1..Len(t) : i \notin 1..Len(q) => i - Len(q) \in 1..Len(e) /\ t[i] = e[i - Len(q)]
  BY <1>2
<1> HIDE DEF t
<1>4. \A i \in 1..Len(t) : IsUnit(t[i])
  BY <1>1, <1>3 DEF InTurn
<1>5. ASSUME NEW i \in 1..Len(t), Starts(t[i])
      PROVE  t[i].req \in 1..(n + 1) /\ \A r \in begun : r < t[i].req
  <2>1. CASE i \in 1..Len(q)
    BY <1>3, <1>5, <2>1 DEF InTurn
  <2>2. CASE i \notin 1..Len(q)
    BY <1>1, <1>3, <1>5, <2>2
  <2> QED
    BY <2>1, <2>2
<1>6. ASSUME NEW i \in 1..Len(t), NEW j \in 1..Len(t), i < j, Starts(t[i]), Starts(t[j])
      PROVE  t[i].req < t[j].req
  <2>1. CASE j \in 1..Len(q)
    <3>1. i \in 1..Len(q)
      BY <1>3, <1>6, <2>1
    <3>2. t[i] = q[i] /\ t[j] = q[j]
      BY <1>3, <2>1, <3>1
    <3> QED
      BY <1>6, <2>1, <3>1, <3>2 DEF InTurn
  <2>2. CASE i \in 1..Len(q) /\ j \notin 1..Len(q)
    <3>1. t[i].req \in 1..n
      BY <1>3, <1>6, <2>2 DEF InTurn
    <3>2. t[j].req = n + 1
      BY <1>1, <1>3, <2>2
    <3> QED
      BY <3>1, <3>2
  <2>3. CASE i \notin 1..Len(q)
    <3>1. j \notin 1..Len(q)
      BY <1>3, <1>6, <2>3
    <3>2. i - Len(q) = 1 /\ j - Len(q) = 1
      BY <1>1, <1>3, <1>6, <2>3, <3>1
    <3> QED
      BY <1>3, <1>6, <3>2
  <2> QED
    BY <2>1, <2>2, <2>3
<1> QED
  BY <1>4, <1>5, <1>6 DEF InTurn, t, e

\* What was taken away were the first bytes.
LEMMA InTurnRest ==
    ASSUME NEW q \in Seq(Byte), NEW begun, NEW n, InTurn(q, begun, n), NEW k \in 0..Len(q)
    PROVE  InTurn(SubSeq(q, k + 1, Len(q)), begun, n)
<1> DEFINE t == SubSeq(q, k + 1, Len(q))
<1>1. /\ Len(t) = Len(q) - k /\ Len(q) \in Nat
      /\ \A i \in 1..Len(t) : i + k \in 1..Len(q) /\ t[i] = q[i + k]
  OBVIOUS
<1> HIDE DEF t
<1>2. \A i, j \in 1..Len(t) : i < j => i + k < j + k
  BY <1>1
<1> QED
  BY <1>1, <1>2 DEF InTurn, t

LEMMA InTurnNext ==
    ASSUME NEW q \in Seq(Byte), NEW begun, NEW n, InTurn(q, begun, n), Starts(q[1]),
           NEW k \in 1..Len(q)
    PROVE  /\ InTurn(SubSeq(q, k + 1, Len(q)), begun \cup {q[1].req}, n)
           /\ q[1].req \in 1..n /\ \A r \in begun : r < q[1].req
<1> DEFINE t == SubSeq(q, k + 1, Len(q))
<1>1. /\ Len(t) = Len(q) - k /\ Len(q) \in Nat
      /\ \A i \in 1..Len(t) : i + k \in 1..Len(q) /\ t[i] = q[i + k]
  OBVIOUS
<1> HIDE DEF t
<1>2. \A i, j \in 1..Len(t) : i < j => i + k < j + k
  BY <1>1
<1>3. 1 \in 1..Len(q) /\ \A i \in 1..Len(t) : 1 < i + k
  BY <1>1
<1> QED
  BY <1>1, <1>2, <1>3 DEF InTurn, t

LEMMA FewerBegun ==
    ASSUME NEW q, NEW begun, NEW n, InTurn(q, begun, n), NEW fewer \in SUBSET begun
    PROVE  InTurn(q, fewer, n)
  BY DEF InTurn

\* What arrives and what is taken, in terms of the stream as a whole.
LEMMA StreamParts ==
    ASSUME NEW q \in Seq(Byte), NEW w \in Seq(Byte)
    PROVE  /\ q \o w \in Seq(Byte)
           /\ \A n \in 1..Len(w) :
                 (q \o SubSeq(w, 1, n)) \o SubSeq(w, n + 1, Len(w)) = q \o w
           /\ \A n \in 0..Len(q) :
                 /\ n \in 0..Len(q \o w)
                 /\ SubSeq(q, n + 1, Len(q)) \o w = SubSeq(q \o w, n + 1, Len(q \o w))
           /\ \A e \in Seq(Byte) : q \o (w \o e) = (q \o w) \o e
<1>1. q \o w \in Seq(Byte) /\ Len(q) \in Nat /\ Len(w) \in Nat /\ Len(q \o w) = Len(q) + Len(w)
  OBVIOUS
<1>2. ASSUME NEW n \in 1..Len(w)
      PROVE  (q \o SubSeq(w, 1, n)) \o SubSeq(w, n + 1, Len(w)) = q \o w
  <2> DEFINE a == SubSeq(w, 1, n)
  <2> DEFINE b == SubSeq(w, n + 1, Len(w))
  <2>1. a \in Seq(Byte) /\ b \in Seq(Byte)
    OBVIOUS
  <2>2. a \o b = w
    OBVIOUS
  <2>3. \A x, y, z \in Seq(Byte) : (x \o y) \o z = x \o (y \o z)
    OBVIOUS
  <2> HIDE DEF a, b
  <2>4. (q \o a) \o b = q \o w
    BY <2>1, <2>2, <2>3
  <2> QED
    BY <2>4 DEF a, b
<1>3. ASSUME NEW n \in 0..Len(q)
      PROVE  /\ n \in 0..Len(q \o w)
             /\ SubSeq(q, n + 1, Len(q)) \o w = SubSeq(q \o w, n + 1, Len(q \o w))
  <2> DEFINE a == SubSeq(q, n + 1, Len(q)) \o w
  <2> DEFINE b == SubSeq(q \o w, n + 1, Len(q \o w))
  <2>1. a \in Seq(Byte) /\ Len(a) = Len(q) - n + Len(w)
    OBVIOUS
  <2>2. b \in Seq(Byte) /\ Len(b) = Len(q) + Len(w) - n
    BY <1>1
  <2>3. \A i \in 1..(Len(q) - n + Len(w)) : a[i] = (q \o w)[i + n]
    OBVIOUS
  <2>4. \A i \in 1..(Len(q) - n + Len(w)) : b[i] = (q \o w)[i + n]
    BY <1>1
  <2>5. a = b
    <3> HIDE DEF a, b
    <3>1. Len(a) = Len(b) /\ \A i \in 1..Len(a) : a[i] = b[i]
      BY <1>1, <2>1, <2>2, <2>3, <2>4
    <3> QED
      BY <2>1, <2>2, <3>1, SeqEqual
  <2>6. n \in 0..Len(q \o w)
    BY <1>1
  <2> QED
    BY <2>5, <2>6, Zenon
<1>4. \A e \in Seq(Byte) : q \o (w \o e) = (q \o w) \o e
  OBVIOUS
<1> QED
  BY <1>1, <1>2, <1>3, <1>4

\* What begins, and what was executed.
LEMMA BegunIs ==
    /\ request.state = "kExpectRequestLine" => Begun = {executed[i] : i \in 1..Len(executed)}
    /\ request.state # "kExpectRequestLine" =>
          Begun = {executed[i] : i \in 1..Len(executed)} \cup {request.req}
  BY DEF Begun

LEMMA OrderInit == Init => OrderInv
<1> SUFFICES ASSUME Init PROVE OrderInv
  OBVIOUS
<1>1. Stream = <<>> /\ Len(Stream) = 0 /\ sent = <<>> /\ executed = <<>> /\ Len(executed) = 0
  BY DEF Init, BufferInit, Stream
<1>2. request.state = "kExpectRequestLine" /\ Begun = {}
  BY <1>1, BegunIs DEF Init, NewRequest
<1> QED
  BY <1>1, <1>2 DEF Init, OrderInv, InTurn, NewRequest, IsRequest

\* A step that takes the first bytes and begins no request.
LEMMA OrderKept ==
    ASSUME ConnInv, OrderInv, UNCHANGED <<sent, executed>>,
           moved' = "no" => moved = "no",
           Begun' = Begun, IsRequest(request'),
           request'.state # "kExpectRequestLine" =>
              request.state # "kExpectRequestLine" /\ request'.req = request.req,
           NEW n \in 0..Len(Stream), Stream' = SubSeq(Stream, n + 1, Len(Stream))
    PROVE  OrderInv'
<1>1. Stream \in Seq(Byte)
  BY StreamParts DEF ConnInv, StreamInv, BufferInv, BufferTypeOK, Stream
<1>2. InTurn(Stream', {}, Len(sent))
  BY <1>1, InTurnRest DEF OrderInv
<1>3. moved = "no" => InTurn(Stream', Begun, Len(sent))
  BY <1>1, InTurnRest DEF OrderInv
<1> HIDE DEF Stream, Begun
<1> QED
  BY <1>2, <1>3 DEF OrderInv

\* A request line is parsed: it is the first of the stream, and its number is the next.
LEMMA BeginsNext ==
    ASSUME ConnInv, OrderInv, ParseRequestLine
    PROVE  OrderInv'
<1>1. /\ Stream \in Seq(Byte) /\ queue \in Seq(Byte) /\ wire \in Seq(Byte)
      /\ Len(queue) \in Nat /\ Len(queue) = ReadableBytes(buffer)
      /\ moved = "no" => Text = queue
  <2>1. queue \in Seq(Byte) /\ wire \in Seq(Byte)
    BY DEF ConnInv, StreamInv, BufferInv, BufferTypeOK
  <2>2. Len(queue) = ReadableBytes(buffer) /\ (moved = "no" => Text = queue)
    BY DEF ConnInv, BufferInv, IndicesInBounds, BufferIsQueue, Text
  <2> QED
    BY <2>1, <2>2, StreamParts DEF Stream
<1>2. /\ UNCHANGED <<sent, wire, executed, moved>>
      /\ LineEnd \in 0..ReadableBytes(buffer) /\ LineEnd # 0
      /\ queue' = SubSeq(queue, LineEnd + 1, Len(queue))
      /\ Line \in {"GET", "POST"}
      /\ request.state = "kExpectRequestLine"
      /\ request' = [request EXCEPT !.state = "kExpectHeaders", !.method = Line, !.req = Text[1].req]
  BY DEF ParseRequestLine, Parsing, Retrieve
<1>3. /\ Stream' = SubSeq(Stream, LineEnd + 1, Len(Stream))
      /\ LineEnd \in 1..Len(Stream)
  <2>1. LineEnd \in 0..Len(queue)
    BY <1>1, <1>2
  <2>2. /\ LineEnd \in 0..Len(queue \o wire)
        /\ SubSeq(queue, LineEnd + 1, Len(queue)) \o wire
              = SubSeq(queue \o wire, LineEnd + 1, Len(queue \o wire))
    BY <1>1, <2>1, StreamParts, SMTT(30), ZenonT(40)
  <2>3. LineEnd \in 1..Len(Stream)
    BY <1>2, <2>1, <2>2 DEF Stream
  <2> QED
    BY <1>2, <2>2, <2>3 DEF Stream
<1>4. InTurn(Stream', {}, Len(sent))
  BY <1>1, <1>3, InTurnRest DEF OrderInv
<1>5. ASSUME moved = "no"
      PROVE  Starts(Stream[1]) /\ Stream[1].req = Text[1].req
  <2>1. LineEnd = 2 /\ Text[1] = [Text[2] EXCEPT !.part = 1] /\ Text[1].line \in {"GET", "POST"}
    BY <1>2 DEF Line
  <2>2. 1 \in 1..Len(queue) /\ 2 \in 1..Len(queue)
    BY <1>1, <1>2, <2>1
  <2>3. /\ Stream[1] = Text[1] /\ Stream[2] = Text[2]
        /\ 1 \in 1..Len(Stream) /\ 2 \in 1..Len(Stream)
    BY <1>1, <1>5, <2>2 DEF Stream
  <2>4. IsUnit(Text[2])
    BY <2>3 DEF OrderInv, InTurn
  <2>5. Text[1].part = 1
    BY <2>1, <2>4 DEF IsUnit, Unit
  <2> QED
    BY <2>1, <2>3, <2>5 DEF Starts
<1>6. IsRequest(request') /\ request'.state = "kExpectHeaders" /\ request'.req = Text[1].req
  BY <1>2 DEF OrderInv, IsRequest
<1>7. ASSUME moved = "no"
      PROVE  /\ InTurn(Stream', Begun', Len(sent)')
             /\ Begun' \subseteq 0..Len(sent)'
             /\ \A i \in 1..Len(executed) : executed[i] < request'.req
  <2>1. Begun = {executed[i] : i \in 1..Len(executed)}
    BY <1>2, BegunIs
  <2>2. /\ InTurn(Stream', Begun \cup {Text[1].req}, Len(sent))
        /\ Text[1].req \in 1..Len(sent) /\ \A r \in Begun : r < Text[1].req
    BY <1>1, <1>3, <1>5, <1>7, InTurnNext DEF OrderInv
  <2>3. Begun' = Begun \cup {Text[1].req}
    BY <1>2, <1>6, <2>1 DEF Begun
  <2>4. Begun \subseteq 0..Len(sent)
    BY <1>7 DEF OrderInv
  <2> QED
    BY <1>2, <1>6, <2>1, <2>2, <2>3, <2>4
<1> QED
  BY <1>2, <1>4, <1>7, <1>6 DEF OrderInv

\* retrieve leaves the rest of the stream.
LEMMA RetrievedStream ==
    ASSUME ConnInv, NEW n, Retrieve(n), UNCHANGED wire
    PROVE  n \in 0..Len(Stream) /\ Stream' = SubSeq(Stream, n + 1, Len(Stream))
<1>1. queue \in Seq(Byte) /\ wire \in Seq(Byte) /\ Len(queue) = ReadableBytes(buffer)
  BY DEF ConnInv, StreamInv, BufferInv, BufferTypeOK, IndicesInBounds
<1>2. n \in 0..Len(queue) /\ queue' = SubSeq(queue, n + 1, Len(queue)) /\ wire' = wire
  BY <1>1 DEF Retrieve
<1>3. /\ n \in 0..Len(queue \o wire)
      /\ SubSeq(queue, n + 1, Len(queue)) \o wire
            = SubSeq(queue \o wire, n + 1, Len(queue \o wire))
  BY <1>1, <1>2, StreamParts, SMTT(30), ZenonT(40)
<1> QED
  BY <1>2, <1>3 DEF Stream

\* The stream is the same, and so is the request.
LEMMA OrderUnchanged ==
    ASSUME ConnInv, OrderInv, UNCHANGED <<sent, executed, request>>, Stream' = Stream,
           moved' = "no" => moved = "no"
    PROVE  OrderInv'
<1>1. Begun' = Begun
  BY DEF Begun
<1> HIDE DEF Stream, Begun
<1> QED
  BY <1>1 DEF OrderInv

\* More arrives of what was sent.
LEMMA Arrives ==
    ASSUME ConnInv, OrderInv, NEW n \in 1..Len(wire), Read(n)
    PROVE  OrderInv'
<1>1. queue \in Seq(Byte) /\ wire \in Seq(Byte)
  BY DEF ConnInv, StreamInv, BufferInv, BufferTypeOK
<1>2. /\ queue' = queue \o SubSeq(wire, 1, n) /\ wire' = SubSeq(wire, n + 1, Len(wire))
      /\ UNCHANGED <<sent, executed, request>>
  BY DEF Read, AppendBytes, ReadFd
<1>3. moved' = "no" => moved = "no"
  BY DEF Read, AppendBytes, ReadFd, Outcomes
<1>4. Stream' = Stream
  BY <1>1, <1>2, StreamParts DEF Stream
<1> QED
  BY <1>2, <1>3, <1>4, OrderUnchanged

\* A client sends one more request.
LEMMA SendsNext ==
    ASSUME ConnInv, OrderInv, NEW kind \in Kinds, Send(kind)
    PROVE  OrderInv'
<1>1. queue \in Seq(Byte) /\ wire \in Seq(Byte) /\ sent \in Seq(Kinds) /\ Len(sent) \in Nat
  BY DEF ConnInv, StreamInv, BufferInv, BufferTypeOK
<1> DEFINE e == Encoded(kind, Len(sent) + 1)
<1>2. /\ wire' = wire \o e /\ sent' = Append(sent, kind) /\ Len(sent) < MaxRequests
      /\ UNCHANGED <<queue, executed, request, moved>>
  BY DEF Send, bufferVars
<1>3. e \in Seq(Byte)
  BY <1>1, <1>2, BytesAssumption, ConstantsAssumption DEF ConstantsAssumption
<1>4. Len(sent') = Len(sent) + 1
  BY <1>1, <1>2
<1> HIDE DEF e
<1>5. Stream' = Stream \o e /\ Stream \in Seq(Byte)
  BY <1>1, <1>2, <1>3, StreamParts, SMTT(30), ZenonT(40) DEF Stream
<1>6. Begun' = Begun
  BY <1>2 DEF Begun
<1>7. InTurn(Stream', {}, Len(sent'))
  BY <1>1, <1>3, <1>4, <1>5, InTurnGrows DEF OrderInv, e
<1>8. moved = "no" => InTurn(Stream', Begun', Len(sent')) /\ Begun' \subseteq 0..Len(sent')
  <2> SUFFICES ASSUME moved = "no"
               PROVE  InTurn(Stream', Begun', Len(sent')) /\ Begun' \subseteq 0..Len(sent')
    OBVIOUS
  <2>1. InTurn(Stream, Begun, Len(sent)) /\ Begun \subseteq 0..Len(sent)
    BY DEF OrderInv
  <2>2. InTurn(Stream \o e, Begun, Len(sent) + 1)
    BY <1>1, <1>3, <1>5, <2>1, InTurnGrows DEF e
  <2> QED
    BY <1>1, <1>4, <1>5, <1>6, <2>1, <2>2
<1> HIDE DEF Stream, Begun
<1> QED
  BY <1>2, <1>7, <1>8 DEF OrderInv

\* A request is handled once it is whole, and is begun no more.
LEMMA ServesNext ==
    ASSUME ConnInv, OrderInv, Serve
    PROVE  OrderInv'
<1>1. /\ request.state = "kGotALL" /\ request' = NewRequest
      /\ executed' = Append(executed, request.req)
      /\ UNCHANGED <<queue, wire, sent, moved>>
  BY DEF Serve, Parsing, Reset, bufferVars
<1>2. Stream' = Stream
  BY <1>1 DEF Stream
<1>3. IsRequest(request') /\ request'.state = "kExpectRequestLine"
  BY <1>1 DEF NewRequest, IsRequest
<1>4. ASSUME moved = "no"
      PROVE  /\ executed' \in Seq(Nat) /\ Begun' = Begun
             /\ \A i, j \in 1..Len(executed') : i < j => executed'[i] < executed'[j]
  <2>1. /\ executed \in Seq(Nat) /\ Len(executed) \in Nat
        /\ request.req \in Nat
        /\ \A i \in 1..Len(executed) : executed[i] < request.req
        /\ \A i, j \in 1..Len(executed) : i < j => executed[i] < executed[j]
    <3>1. request.req \in Begun
      BY <1>1 DEF Begun
    <3> QED
      BY <1>1, <1>4, <3>1 DEF OrderInv
  <2>2. /\ executed' \in Seq(Nat) /\ Len(executed') = Len(executed) + 1
        /\ \A i \in 1..Len(executed) : executed'[i] = executed[i]
        /\ executed'[Len(executed) + 1] = request.req
    BY <1>1, <2>1
  <2>3. \A i \in 1..Len(executed') : i \in 1..Len(executed) \/ i = Len(executed) + 1
    BY <2>1, <2>2
  <2>4. \A i, j \in 1..Len(executed') : i < j => executed'[i] < executed'[j]
    <3> SUFFICES ASSUME NEW i \in 1..Len(executed'), NEW j \in 1..Len(executed'), i < j
                 PROVE  executed'[i] < executed'[j]
      OBVIOUS
    <3>1. i \in 1..Len(executed)
      BY <2>1, <2>2
    <3> QED
      BY <2>1, <2>2, <2>3, <3>1
  <2>5. Begun' = {executed[i] : i \in 1..Len(executed)} \cup {request.req}
    <3>1. Begun' = {executed'[i] : i \in 1..Len(executed')}
      BY <1>3 DEF Begun
    <3> DEFINE t == executed'
    <3>2. /\ \A i \in 1..Len(t) : i \in 1..Len(executed) \/ i = Len(executed) + 1
          /\ \A i \in 1..Len(executed) : i \in 1..Len(t) /\ t[i] = executed[i]
          /\ Len(executed) + 1 \in 1..Len(t) /\ t[Len(executed) + 1] = request.req
      BY <2>1, <2>2, <2>3
    <3>3. Begun' = {t[i] : i \in 1..Len(t)}
      BY <3>1
    <3> HIDE DEF t, Begun
    <3> QED
      BY <3>2, <3>3
  <2> QED
    BY <1>1, <2>2, <2>4, <2>5, BegunIs
<1> HIDE DEF Stream, Begun
<1> QED
  BY <1>1, <1>2, <1>3, <1>4 DEF OrderInv

LEMMA OrderStep == ConnInv /\ OrderInv /\ [Next]_vars => OrderInv'
<1> SUFFICES ASSUME ConnInv, OrderInv, [Next]_vars PROVE OrderInv'
  OBVIOUS
<1>1. ASSUME NEW kind \in Kinds, Send(kind) PROVE OrderInv'
  BY <1>1, SendsNext
<1>2. ASSUME NEW n \in 1..Len(wire), Read(n) PROVE OrderInv'
  BY <1>2, Arrives
<1>3. CASE ReadDone \/ Incomplete \/ BadLine \/ UNCHANGED vars
  <2>1. UNCHANGED <<sent, executed, request, queue, wire, moved>>
    BY <1>3 DEF ReadDone, Incomplete, BadLine, vars, bufferVars
  <2> QED
    BY <2>1, OrderUnchanged DEF Stream
<1>4. CASE ParseRequestLine
  BY <1>4, BeginsNext
<1>5. CASE ParseHeader \/ EndOfHeaders \/ ParseBody
  <2>1. /\ UNCHANGED <<sent, executed, wire>>
        /\ request.state \in {"kExpectHeaders", "kExpectBody"}
        /\ (\E n : Retrieve(n)) \/ UNCHANGED bufferVars
    BY <1>5 DEF ParseHeader, EndOfHeaders, ParseBody, Parsing
  <2>2. IsRequest(request)
    BY DEF OrderInv
  <2>3. /\ IsRequest(request') /\ request'.req = request.req
        /\ request'.state # "kExpectRequestLine"
    <3>1. CASE ParseHeader
      BY <2>2, <3>1 DEF ParseHeader, IsRequest, Parsing
    <3>2. CASE EndOfHeaders
      BY <2>2, <3>2 DEF EndOfHeaders, IsRequest
    <3>3. CASE ParseBody
      BY <2>2, <3>3 DEF ParseBody, IsRequest
    <3> QED
      BY <1>5, <3>1, <3>2, <3>3
  <2>4. Begun' = Begun
    BY <2>1, <2>3 DEF Begun
  <2>5. ASSUME NEW n, Retrieve(n) PROVE OrderInv'
    <3>1. n \in 0..Len(Stream) /\ Stream' = SubSeq(Stream, n + 1, Len(Stream)) /\ moved' = moved
      BY <2>1, <2>5, RetrievedStream DEF Retrieve
    <3> QED
      BY <2>1, <2>3, <2>4, <3>1, OrderKept
  <2>6. CASE UNCHANGED bufferVars
    <3>1. Stream' = Stream /\ moved' = moved
      BY <2>1, <2>6 DEF Stream, bufferVars
    <3> HIDE DEF Stream, Begun
    <3> QED
      BY <2>1, <2>3, <2>4, <3>1 DEF OrderInv
  <2> QED
    BY <2>1, <2>5, <2>6
<1>6. CASE Serve
  BY <1>6, ServesNext
<1> QED
  BY <1>1, <1>2, <1>3, <1>4, <1>5, <1>6 DEF Next, Parse

\* No request reaches a handler twice, or after a later one, whatever clients send and
\* however the network cuts it: even when a body is taken before it is there and its
\* bytes are read as lines later (the known fault of parseBody).
THEOREM HandledInOrder == Spec => []ExecutedInOrder
<1>1. Init => ConnInv /\ OrderInv
  BY InitConn, OrderInit
<1>2. ConnInv /\ [Next]_vars => ConnInv'
  BY ConnStep
<1>3. ConnInv /\ OrderInv /\ [Next]_vars => OrderInv'
  BY OrderStep
<1>4. OrderInv => ExecutedInOrder
  <2> SUFFICES ASSUME OrderInv, moved = "no"
               PROVE \A i, j \in DOMAIN executed : i < j => executed[i] < executed[j]
    BY DEF ExecutedInOrder
  <2> QED
    BY DEF OrderInv
<1> QED
  BY <1>1, <1>2, <1>3, <1>4, PTL DEF Spec

-----------------------------------------------------------------------------
(* The answers, as long as no body was cut and no byte was moved.          *)

\* Where the requests lie in the stream: request i from off[i] + 1 on, what was parsed
\* of them before its first byte.
RequestBytes(i) == Encoded(sent[i], i)
Laid(off) ==
    /\ off \in [1..(Len(sent) + 1) -> Int]
    /\ off[Len(sent) + 1] = Len(Stream)
    /\ \A i \in 1..Len(sent) :
          /\ off[i + 1] = off[i] + Len(RequestBytes(i)) /\ off[i + 1] <= Len(Stream)
          /\ \A j \in 1..Len(RequestBytes(i)) :
                off[i] + j >= 1 => Stream[off[i] + j] = RequestBytes(i)[j]

\* What the first lines of a request have made of the HttpRequest.
HeaderOf(kind) == Lines(kind)[2]
AfterLines(kind, n, l) ==
    [state |-> "kExpectHeaders", req |-> n, method |-> Lines(kind)[1],
     length |-> IF l = 1 \/ HeaderOf(kind) = "close" THEN "none" ELSE HeaderOf(kind),
     close |-> l = 2 /\ HeaderOf(kind) = "close", body |-> 0]

\* How far parse has come in request n.
InLines(off, n) ==
    \E l \in 1..(Len(Lines(sent[n])) - 1) :
        off[n] = 0 - (2 * l) /\ request = AfterLines(sent[n], n, l)
InBody(off, n) ==
    /\ request.state = "kExpectBody" /\ request.req = n /\ request.close = FALSE
    /\ request.method = Lines(sent[n])[1]
    /\ sent[n] = "post2" /\ off[n] = 0 - (2 * Len(Lines(sent[n])))
AtEnd(off, n) ==
    /\ request.state = "kGotALL" /\ request.req = n /\ request.method = Lines(sent[n])[1]
    /\ sent[n] \notin {"junk", "badheader", "nan"} /\ off[n + 1] = 0
    /\ request.body = BodyLength(sent[n]) /\ request.close = (sent[n] = "close")

\* Parse is before request m + 1 or in it, and as long as answers are sent the first m
\* were answered.
Answered(m) == [i \in 1..m |-> Expected(i)]
Progress(off, m) ==
    /\ conn = "kConnected" => answers = Answered(m) /\ \A i \in 1..m : ~EndsStream(sent[i])
    /\ \/ request = NewRequest /\ off[m + 1] = 0
       \/ m < Len(sent) /\ (InLines(off, m + 1) \/ InBody(off, m + 1) \/ AtEnd(off, m + 1))

\* The request that ends the stream was met.
Done ==
    \E e \in 1..Len(sent) :
        /\ EndsStream(sent[e]) /\ \A i \in 1..(e - 1) : ~EndsStream(sent[i])
        /\ answers = Answered(IF sent[e] = "nan" THEN e - 1 ELSE e)

Running == conn = "kConnected" /\ pc # "died"
Reading == ~cut /\ moved = "no" /\ pc # "died"
AnswerInv ==
    /\ conn \in {"kConnected", "kDisconnecting"}
    /\ \E off : Laid(off) /\ (Reading => \E m \in 0..Len(sent) : Progress(off, m))
    /\ ~cut /\ moved = "no" /\ ~Running => Done
    /\ ~cut /\ moved = "no" /\ pc = "wait" /\ conn = "kConnected" =>
          LineEnd = 0 /\ request.state \in {"kExpectRequestLine", "kExpectHeaders"}

\* What parse makes of the lines of each kind of request.
LEMMA LineFacts ==
    ASSUME NEW kind \in Kinds, NEW L, L = Lines(kind)
    PROVE  /\ Len(L) \in 1..3
           /\ L[1] \notin {"GET", "POST"} => kind = "junk"
           /\ L[1] \in {"GET", "POST"} => Len(L) >= 2 /\ kind # "junk"
           /\ \A k \in 2..Len(L) :
                 /\ L[k] = "junk" => kind = "badheader"
                 /\ L[k] = "end" => k = Len(L) /\ kind \notin {"junk", "badheader"}
                 /\ L[k] \notin {"end", "junk"} => k = 2 /\ Len(L) = 3
<1>1. CASE kind = "get"
  BY <1>1 DEF Lines
<1>2. CASE kind = "close"
  BY <1>2 DEF Lines
<1>3. CASE kind = "post"
  BY <1>3 DEF Lines
<1>4. CASE kind = "post0"
  BY <1>4 DEF Lines
<1>5. CASE kind = "post2"
  BY <1>5 DEF Lines
<1>6. CASE kind = "nan"
  BY <1>6 DEF Lines
<1>7. CASE kind = "badheader"
  BY <1>7 DEF Lines
<1>8. CASE kind = "junk"
  BY <1>8 DEF Lines
<1> QED
  BY <1>1, <1>2, <1>3, <1>4, <1>5, <1>6, <1>7, <1>8, ConstantsAssumption DEF ConstantsAssumption
LEMMA HeaderFacts ==
    ASSUME NEW kind \in Kinds \ {"junk", "badheader"}, NEW n, NEW r,
           r = AfterLines(kind, n, Len(Lines(kind)) - 1)
    PROVE  /\ r.method = "POST" /\ r.length = "length2" <=> kind = "post2"
           /\ r.method = "POST" /\ r.length = "lengthNaN" <=> kind = "nan"
           /\ r.close = (kind = "close")
<1> DEFINE L == Lines(kind)
<1>1. CASE kind = "get"
  <2>1. Len(L) = 2 /\ L[1] = "GET" /\ L[2] = "end"
    BY <1>1 DEF Lines
  <2> HIDE DEF L
  <2> QED
    BY <1>1, <2>1 DEF AfterLines, HeaderOf, L
<1>2. CASE kind = "close"
  <2>1. Len(L) = 3 /\ L[1] = "GET" /\ L[2] = "close"
    BY <1>2 DEF Lines
  <2> HIDE DEF L
  <2> QED
    BY <1>2, <2>1 DEF AfterLines, HeaderOf, L
<1>3. CASE kind = "post"
  <2>1. Len(L) = 2 /\ L[1] = "POST" /\ L[2] = "end"
    BY <1>3 DEF Lines
  <2> HIDE DEF L
  <2> QED
    BY <1>3, <2>1 DEF AfterLines, HeaderOf, L
<1>4. CASE kind = "post0"
  <2>1. Len(L) = 3 /\ L[1] = "POST" /\ L[2] = "length0"
    BY <1>4 DEF Lines
  <2> HIDE DEF L
  <2> QED
    BY <1>4, <2>1 DEF AfterLines, HeaderOf, L
<1>5. CASE kind = "post2"
  <2>1. Len(L) = 3 /\ L[1] = "POST" /\ L[2] = "length2"
    BY <1>5 DEF Lines
  <2> HIDE DEF L
  <2> QED
    BY <1>5, <2>1 DEF AfterLines, HeaderOf, L
<1>6. CASE kind = "nan"
  <2>1. Len(L) = 3 /\ L[1] = "POST" /\ L[2] = "lengthNaN"
    BY <1>6 DEF Lines
  <2> HIDE DEF L
  <2> QED
    BY <1>6, <2>1 DEF AfterLines, HeaderOf, L
<1> QED
  BY <1>1, <1>2, <1>3, <1>4, <1>5, <1>6, ConstantsAssumption DEF ConstantsAssumption

\* The bytes of a request: two for every line, then its body.
LEMMA EncodedIs ==
    ASSUME NEW kind \in Kinds, NEW n \in Nat
    PROVE  /\ Len(Lines(kind)) \in 1..3 /\ BodyLength(kind) \in {0, 2}
           /\ Len(Encoded(kind, n)) = 2 * Len(Lines(kind)) + BodyLength(kind)
           /\ \A k \in 1..Len(Lines(kind)) :
                 /\ 2 * k - 1 \in 1..Len(Encoded(kind, n)) /\ 2 * k \in 1..Len(Encoded(kind, n))
                 /\ Encoded(kind, n)[2 * k - 1] = Unit(n, Lines(kind)[k], 1)
                 /\ Encoded(kind, n)[2 * k] = Unit(n, Lines(kind)[k], 2)
<1> DEFINE e == Encoded(kind, n)
<1> DEFINE len == Len(Lines(kind))
<1>1. len \in 1..3 /\ BodyLength(kind) \in {0, 2}
  BY LinesStart DEF BodyLength
<1> DEFINE unit(i) == IF i <= 2 * len THEN Unit(n, Lines(kind)[(i + 1) \div 2], IF i % 2 = 1 THEN 1 ELSE 2)
                      ELSE Unit(n, "body", 0)
<1> DEFINE all == 2 * len + BodyLength(kind)
<1>2. e = [i \in 1..all |-> unit(i)] /\ all \in Nat
  BY <1>1 DEF Encoded
<1>3. Len(e) = all
  BY <1>2
<1>4. ASSUME NEW k \in 1..len
      PROVE  /\ 2 * k - 1 \in 1..all /\ 2 * k \in 1..all
             /\ unit(2 * k - 1) = Unit(n, Lines(kind)[k], 1)
             /\ unit(2 * k) = Unit(n, Lines(kind)[k], 2)
  <2>1. ((2 * k - 1) + 1) \div 2 = k /\ (2 * k + 1) \div 2 = k
        /\ (2 * k - 1) % 2 = 1 /\ (2 * k) % 2 = 0 /\ 2 * k <= 2 * len /\ 2 * k - 1 <= 2 * len
    BY <1>1
  <2> QED
    BY <1>1, <2>1
<1>5. \A k \in 1..len : /\ 2 * k - 1 \in 1..Len(e) /\ 2 * k \in 1..Len(e)
                         /\ e[2 * k - 1] = Unit(n, Lines(kind)[k], 1)
                         /\ e[2 * k] = Unit(n, Lines(kind)[k], 2)
  <2> HIDE DEF unit, all, e, len
  <2> QED
    BY <1>2, <1>3, <1>4
<1> QED
  BY <1>1, <1>3, <1>5, Zenon

\* The sequences of a connection, and what the text is.
LEMMA TextIs ==
    ASSUME ConnInv
    PROVE  /\ queue \in Seq(Byte) /\ wire \in Seq(Byte) /\ sent \in Seq(Kinds) /\ Stream \in Seq(Byte)
           /\ Len(queue) \in Nat /\ Len(sent) \in Nat /\ Len(Stream) \in Nat
           /\ Len(queue) = ReadableBytes(buffer) /\ Len(Stream) = Len(queue) + Len(wire)
           /\ Len(wire) \in Nat
           /\ moved = "no" => /\ Text = queue
                              /\ \A i \in 1..Len(queue) : Text[i] = Stream[i]
<1>1. queue \in Seq(Byte) /\ wire \in Seq(Byte) /\ sent \in Seq(Kinds)
  BY DEF ConnInv, StreamInv, BufferInv, BufferTypeOK
<1>2. Len(queue) = ReadableBytes(buffer) /\ (moved = "no" => Text = queue)
  BY DEF ConnInv, BufferInv, IndicesInBounds, BufferIsQueue, Text
<1>3. \A i \in 1..Len(queue) : Stream[i] = queue[i]
  BY <1>1 DEF Stream
<1>4. Stream \in Seq(Byte) /\ Len(Stream) = Len(queue) + Len(wire)
  BY <1>1 DEF Stream
<1>5. Len(queue) \in Nat /\ Len(wire) \in Nat /\ Len(sent) \in Nat /\ Len(Stream) \in Nat
  BY <1>1, <1>4
<1>6. ASSUME moved = "no" PROVE Text = queue /\ \A i \in 1..Len(queue) : Text[i] = Stream[i]
  BY <1>2, <1>3, <1>6
<1> HIDE DEF Stream, Text
<1> QED
  BY <1>1, <1>2, <1>4, <1>5, <1>6

\* The next line parse finds is the next of the request.
LEMMA NextLine ==
    ASSUME ConnInv, NEW off, Laid(off), moved = "no", NEW n \in 1..Len(sent),
           NEW l \in 0..(Len(Lines(sent[n])) - 1), off[n] = 0 - (2 * l)
    PROVE  /\ LineEnd # 0 => /\ LineEnd = 2 /\ Line = Lines(sent[n])[l + 1]
                             /\ Text[1].req = n
           /\ LineEnd = 0 => wire # <<>>
           /\ off[n + 1] = 2 * (Len(Lines(sent[n])) - l) + BodyLength(sent[n])
<1> DEFINE L == Lines(sent[n])
<1> DEFINE e == RequestBytes(n)
<1> DEFINE k == l + 1
<1>1. sent[n] \in Kinds
  BY TextIs
<1>2. /\ Len(L) \in 1..3 /\ BodyLength(sent[n]) \in {0, 2}
      /\ Len(e) = 2 * Len(L) + BodyLength(sent[n])
      /\ \A i \in 1..Len(L) : /\ 2 * i - 1 \in 1..Len(e) /\ 2 * i \in 1..Len(e)
                              /\ e[2 * i - 1] = Unit(n, L[i], 1)
                              /\ e[2 * i] = Unit(n, L[i], 2)
  <2>1. e = Encoded(sent[n], n) /\ n \in Nat
    BY DEF RequestBytes
  <2> HIDE DEF e
  <2> QED
    BY <1>1, <2>1, EncodedIs
<1>3. k \in 1..Len(L) /\ 2 * k - 1 = 2 * l + 1 /\ 2 * k = 2 * l + 2
  BY <1>2
<1>4. /\ off[n + 1] = off[n] + Len(e) /\ off[n + 1] <= Len(Stream)
      /\ \A j \in 1..Len(e) : off[n] + j >= 1 => Stream[off[n] + j] = e[j]
  BY DEF Laid
<1>5. Stream[1] = Unit(n, L[k], 1) /\ Stream[2] = Unit(n, L[k], 2)
  <2>1. /\ 2 * k - 1 \in 1..Len(e) /\ 2 * k \in 1..Len(e)
        /\ e[2 * k - 1] = Unit(n, L[k], 1) /\ e[2 * k] = Unit(n, L[k], 2)
    BY <1>2, <1>3
  <2>2. off[n] + (2 * k - 1) = 1 /\ off[n] + 2 * k = 2
    BY <1>3
  <2> DEFINE i == 2 * k - 1
  <2> DEFINE j == 2 * k
  <2>3. i \in 1..Len(e) /\ j \in 1..Len(e) /\ off[n] + i = 1 /\ off[n] + j = 2
        /\ e[i] = Unit(n, L[k], 1) /\ e[j] = Unit(n, L[k], 2)
    BY <2>1, <2>2
  <2>5. off[n] \in Int
    BY <1>3
  <2> HIDE DEF L, e, k, i, j
  <2>4. Stream[off[n] + i] = e[i] /\ Stream[off[n] + j] = e[j]
    <3>1. off[n] + i >= 1 /\ off[n] + j >= 1
      BY <2>3
    <3> QED
      BY <1>4, <2>3, <3>1, Zenon
  <2> QED
    BY <2>3, <2>4
<1>6. Len(Stream) >= 2
  BY <1>2, <1>3, <1>4, TextIs, SMTT(30), ZenonT(40)
<1>7. off[n + 1] = 2 * (Len(L) - l) + BodyLength(sent[n])
  BY <1>2, <1>4, SMTT(30), ZenonT(40)
<1>8. DOMAIN Text = 1..Len(queue) /\ \A i \in 1..Len(queue) : Text[i] = Stream[i]
  BY TextIs
<1> HIDE DEF L, e, k
<1>9. /\ 1 \in DOMAIN Text => Text[1] = Unit(n, L[k], 1) /\ Text[1].part = 1 /\ Text[1].line = L[k] /\ Text[1].req = n
      /\ 2 \in DOMAIN Text => Text[2] = Unit(n, L[k], 2) /\ Text[2].part = 2
  BY <1>5, <1>8 DEF Unit
<1>10. ASSUME LineEnd # 0
       PROVE  LineEnd = 2 /\ Line = L[k] /\ Text[1].req = n
  <2>1. /\ LineEnd \in DOMAIN Text /\ Text[LineEnd].part = 2
        /\ \A j \in 1..(LineEnd - 1) : Text[j].part # 2
    BY <1>10 DEF LineEnd
  <2> DEFINE end == LineEnd
  <2>2. end \in 1..Len(queue) /\ Len(queue) \in Nat
    BY <1>8, <2>1, TextIs
  <2> HIDE DEF end
  <2>3. end # 1
    BY <1>9, <2>1, <2>2 DEF end
  <2>4. 1 \in DOMAIN Text /\ 2 \in DOMAIN Text
    BY <1>8, <2>2, <2>3
  <2>5. ~(2 \in 1..(end - 1))
    BY <1>9, <2>1, <2>4 DEF end
  <2>6. LineEnd = 2
    BY <2>2, <2>3, <2>5 DEF end
  <2>7. Text[1] = [Text[2] EXCEPT !.part = 1]
    BY <1>9, <2>4 DEF Unit
  <2> QED
    BY <1>9, <2>4, <2>6, <2>7 DEF Line
<1>11. ASSUME wire = <<>> PROVE LineEnd # 0
  <2>1. 2 \in DOMAIN Text
    BY <1>6, <1>8, <1>11, TextIs
  <2>2. 1 \in DOMAIN Text
    BY <1>8, <2>1, TextIs
  <2>3. Text[2].part = 2 /\ \A j \in 1..(2 - 1) : Text[j].part # 2
    BY <1>9, <2>1, <2>2
  <2>4. LineEnd \in DOMAIN Text
    BY <2>1, <2>3 DEF LineEnd
  <2> QED
    BY <1>8, <2>4, TextIs
<1> QED
  BY <1>7, <1>10, <1>11 DEF L, k

\* At the end of all requests there is no line.
LEMMA NoLine ==
    ASSUME ConnInv, moved = "no", Len(Stream) = 0
    PROVE  LineEnd = 0
<1>1. DOMAIN Text = {}
  BY TextIs
<1> QED
  BY <1>1 DEF LineEnd

\* The requests stay laid out when the first k bytes are taken.
LEMMA LaidMoves ==
    ASSUME ConnInv, NEW off, Laid(off), UNCHANGED sent, NEW k \in 0..Len(Stream),
           Stream' = SubSeq(Stream, k + 1, Len(Stream)),
           NEW off2, off2 = [i \in 1..(Len(sent) + 1) |-> off[i] - k]
    PROVE  Laid(off2)'
<1>1. Len(sent) \in Nat /\ Stream \in Seq(Byte) /\ Len(Stream) \in Nat
  BY TextIs
<1>2. /\ Len(Stream') = Len(Stream) - k
      /\ \A i \in 1..Len(Stream') : Stream'[i] = Stream[i + k]
  BY <1>1
<1>3. off \in [1..(Len(sent) + 1) -> Int] /\ off[Len(sent) + 1] = Len(Stream)
  BY DEF Laid
<1>4. off2 \in [1..(Len(sent) + 1) -> Int] /\ off2[Len(sent) + 1] = Len(Stream')
  BY <1>1, <1>2, <1>3
<1>5. ASSUME NEW i \in 1..Len(sent)
      PROVE  /\ off2[i + 1] = off2[i] + Len(RequestBytes(i))
             /\ off2[i + 1] <= Len(Stream')
             /\ \A j \in 1..Len(RequestBytes(i)) :
                   off2[i] + j >= 1 => Stream'[off2[i] + j] = RequestBytes(i)[j]
  <2>1. /\ off[i + 1] = off[i] + Len(RequestBytes(i)) /\ off[i + 1] <= Len(Stream)
        /\ \A j \in 1..Len(RequestBytes(i)) :
              off[i] + j >= 1 => Stream[off[i] + j] = RequestBytes(i)[j]
    BY DEF Laid
  <2>2. /\ i \in 1..(Len(sent) + 1) /\ i + 1 \in 1..(Len(sent) + 1)
    BY <1>1
  <2>3. off2[i] = off[i] - k /\ off2[i + 1] = off[i + 1] - k /\ off[i] \in Int /\ off[i + 1] \in Int
    BY <1>3, <2>2
  <2> DEFINE len == Len(RequestBytes(i))
  <2>4. len \in Nat
    <3>1. sent[i] \in Kinds /\ i \in Nat
      BY TextIs
    <3> QED
      BY <3>1, EncodedStarts DEF RequestBytes
  <2> DEFINE a == off[i]
  <2> DEFINE b == off[i + 1]
  <2>5. off2[i + 1] = off2[i] + len /\ off2[i + 1] <= Len(Stream')
    <3>1. a \in Int /\ b \in Int /\ b = a + len /\ b <= Len(Stream) /\ off2[i] = a - k /\ off2[i + 1] = b - k
      BY <2>1, <2>3
    <3> HIDE DEF a, b, len
    <3> QED
      BY <1>1, <1>2, <2>4, <3>1
  <2>6. ASSUME NEW j \in 1..len, off2[i] + j >= 1
        PROVE  Stream'[off2[i] + j] = RequestBytes(i)[j]
    <3> DEFINE x == off2[i] + j
    <3>1. x \in 1..Len(Stream') /\ x + k = off[i] + j /\ off[i] + j >= 1
      <4>1. a \in Int /\ b \in Int /\ b = a + len /\ b <= Len(Stream) /\ off2[i] = a - k
        BY <2>1, <2>3
      <4>2. x = (a - k) + j /\ x >= 1 /\ j \in 1..len
        BY <2>6, <4>1
      <4>3. x + k = a + j
        BY <4>1, <4>2, <2>4, SMTT(30), ZenonT(40)
      <4> HIDE DEF a, b, len, x
      <4>4. x \in 1..Len(Stream') /\ a + j >= 1
        BY <1>1, <1>2, <2>4, <4>1, <4>2
      <4> QED
        BY <4>3, <4>4 DEF a
    <3> HIDE DEF x
    <3>2. Stream'[x] = Stream[x + k]
      BY <1>2, <3>1
    <3>3. Stream[off[i] + j] = RequestBytes(i)[j]
      BY <2>1, <3>1
    <3> QED
      BY <3>1, <3>2, <3>3 DEF x
  <2> QED
    BY <2>5, <2>6
<1>6. /\ Len(sent') = Len(sent)
      /\ \A i \in 1..Len(sent) : RequestBytes(i)' = RequestBytes(i)
  BY DEF RequestBytes
<1>7. ASSUME NEW i \in 1..Len(sent')
      PROVE  /\ off2[i + 1] = off2[i] + Len(RequestBytes(i)')
             /\ off2[i + 1] <= Len(Stream')
             /\ \A j \in 1..Len(RequestBytes(i)') :
                   off2[i] + j >= 1 => Stream'[off2[i] + j] = (RequestBytes(i)')[j]
  BY <1>5, <1>6, SMTT(30), ZenonT(40)
<1>8. off2 \in [1..(Len(sent') + 1) -> Int] /\ off2[Len(sent') + 1] = Len(Stream')
  BY <1>4, <1>6
<1> HIDE DEF RequestBytes, Stream
<1> QED
  BY <1>7, <1>8, Zenon DEF Laid

-----------------------------------------------------------------------------
LEMMA ProgressCases ==
    ASSUME NEW off, NEW m, Progress(off, m)
    PROVE  /\ request.state = "kExpectRequestLine" => request = NewRequest /\ off[m + 1] = 0
           /\ request.state = "kExpectHeaders" => m < Len(sent) /\ InLines(off, m + 1)
           /\ request.state = "kExpectBody" => m < Len(sent) /\ InBody(off, m + 1)
           /\ request.state = "kGotALL" => m < Len(sent) /\ AtEnd(off, m + 1)
<1>1. request = NewRequest => request.state = "kExpectRequestLine"
  BY DEF NewRequest
<1>2. InLines(off, m + 1) => request.state = "kExpectHeaders"
  BY DEF InLines, AfterLines
<1>3. InBody(off, m + 1) => request.state = "kExpectBody"
  BY DEF InBody
<1>4. AtEnd(off, m + 1) => request.state = "kGotALL"
  BY DEF AtEnd
<1> QED
  BY <1>1, <1>2, <1>3, <1>4 DEF Progress

LEMMA ProgressNext ==
    ASSUME UNCHANGED sent, NEW off, NEW m,
           conn' = "kConnected" => answers' = Answered(m) /\ \A i \in 1..m : ~EndsStream(sent[i]),
           \/ request' = NewRequest /\ off[m + 1] = 0
           \/ m < Len(sent) /\ (InLines(off, m + 1)' \/ InBody(off, m + 1)' \/ AtEnd(off, m + 1)')
    PROVE  Progress(off, m)'
<1>1. Answered(m)' = Answered(m)
  BY DEF Answered, Expected
<1> QED
  BY <1>1 DEF Progress

LEMMA ProgressKept ==
    ASSUME UNCHANGED <<sent, request, answers, conn>>, NEW off, NEW m, Progress(off, m)
    PROVE  Progress(off, m)'
<1>1. /\ InLines(off, m + 1) => InLines(off, m + 1)'
      /\ InBody(off, m + 1) => InBody(off, m + 1)'
      /\ AtEnd(off, m + 1) => AtEnd(off, m + 1)'
  BY DEF InLines, InBody, AtEnd
<1> QED
  BY <1>1, ProgressNext DEF Progress

LEMMA DoneKept == ASSUME UNCHANGED <<sent, answers>>, Done PROVE Done'
  BY DEF Done, Answered, Expected

LEMMA LaidKept ==
    ASSUME UNCHANGED <<sent, queue, wire>>, NEW off, Laid(off) PROVE Laid(off)'
  BY DEF Laid, Stream, RequestBytes

LEMMA LineEndKept == ASSUME UNCHANGED buffer PROVE LineEnd' = LineEnd /\ Line' = Line
<1>1. Text' = Text
  BY DEF Text
<1>2. LineEnd' = LineEnd
  BY <1>1 DEF LineEnd
<1> QED
  BY <1>1, <1>2 DEF Line

\* After retrieve all requests lie that much further to the front.
LEMMA LaidRetrieved ==
    ASSUME ConnInv, NEW off, Laid(off), UNCHANGED <<sent, wire>>, NEW n, Retrieve(n)
    PROVE  /\ moved' = moved
           /\ \E off2 : /\ Laid(off2)'
                        /\ \A i \in 1..(Len(sent) + 1) : off2[i] = off[i] - n
<1>1. n \in 0..Len(Stream) /\ Stream' = SubSeq(Stream, n + 1, Len(Stream))
  BY RetrievedStream
<1>2. PICK off2 : off2 = [i \in 1..(Len(sent) + 1) |-> off[i] - n]
  OBVIOUS
<1>3. Laid(off2)'
  BY <1>1, <1>2, LaidMoves
<1>4. \A i \in 1..(Len(sent) + 1) : off2[i] = off[i] - n
  BY <1>2
<1> QED
  BY <1>3, <1>4 DEF Retrieve

\* The requests begin and end where they should, as far as the stream goes.
LEMMA LaidIs ==
    ASSUME ConnInv, NEW off, Laid(off)
    PROVE  /\ \A i \in 1..(Len(sent) + 1) : off[i] \in Int
           /\ off[Len(sent) + 1] = Len(Stream)
           /\ \A m \in 0..Len(sent) :
                 /\ m + 1 \in 1..(Len(sent) + 1)
                 /\ m < Len(sent) => m + 1 \in 1..Len(sent) /\ m + 2 \in 1..(Len(sent) + 1)
                                     /\ sent[m + 1] \in Kinds
                 /\ moved = "no" /\ off[m + 1] = 0 /\ LineEnd # 0 => m < Len(sent)
<1>1. Len(sent) \in Nat /\ sent \in Seq(Kinds)
  BY TextIs
<1>2. \A i \in 1..(Len(sent) + 1) : off[i] \in Int
  BY DEF Laid
<1>3. off[Len(sent) + 1] = Len(Stream)
  BY DEF Laid
<1>4. ASSUME NEW m \in 0..Len(sent)
      PROVE  /\ m + 1 \in 1..(Len(sent) + 1)
             /\ m < Len(sent) => m + 1 \in 1..Len(sent) /\ m + 2 \in 1..(Len(sent) + 1)
                                 /\ sent[m + 1] \in Kinds
             /\ moved = "no" /\ off[m + 1] = 0 /\ LineEnd # 0 => m < Len(sent)
  <2>1. /\ m + 1 \in 1..(Len(sent) + 1)
        /\ m < Len(sent) => m + 1 \in 1..Len(sent) /\ m + 2 \in 1..(Len(sent) + 1)
    BY <1>1
  <2>2. m < Len(sent) => sent[m + 1] \in Kinds
    BY <1>1, <2>1
  <2>3. moved = "no" /\ off[m + 1] = 0 /\ LineEnd # 0 => m < Len(sent)
    BY <1>1, <1>3, NoLine
  <2> QED
    BY <2>1, <2>2, <2>3
<1> QED
  BY <1>2, <1>3, <1>4

LEMMA AnswerNext ==
    ASSUME conn' \in {"kConnected", "kDisconnecting"},
           NEW off, Laid(off)',
           Reading' => \E m \in 0..Len(sent') : Progress(off, m)',
           ~cut' /\ moved' = "no" /\ ~Running' => Done',
           ~cut' /\ moved' = "no" /\ pc' = "wait" /\ conn' = "kConnected" =>
              LineEnd' = 0 /\ request'.state \in {"kExpectRequestLine", "kExpectHeaders"}
    PROVE  AnswerInv'
  BY DEF AnswerInv

\* What each step of parse makes of the HttpRequest.
LEMMA AfterFirstLine ==
    ASSUME NEW kind, NEW n, NEW mth, mth = Lines(kind)[1], NEW r, r = NewRequest,
           NEW q, q = [r EXCEPT !.state = "kExpectHeaders", !.method = mth, !.req = n]
    PROVE  q = AfterLines(kind, n, 1)
<1>1. AfterLines(kind, n, 1) =
         [state |-> "kExpectHeaders", req |-> n, method |-> mth,
          length |-> "none", close |-> FALSE, body |-> 0]
  <2>1. (1 = 2 /\ HeaderOf(kind) = "close") = FALSE /\ (1 = 1 \/ HeaderOf(kind) = "close") = TRUE
    OBVIOUS
  <2> QED
    BY <2>1, Zenon DEF AfterLines
<1>2. q = [state |-> "kExpectHeaders", req |-> n, method |-> mth,
           length |-> "none", close |-> FALSE, body |-> 0]
  BY DEF NewRequest
<1> QED
  BY <1>1, <1>2, Zenon

LEMMA AfterSecondLine ==
    ASSUME NEW kind, NEW n, NEW line, line = HeaderOf(kind), NEW r, r = AfterLines(kind, n, 1),
           NEW q, q = IF line = "close" THEN [r EXCEPT !.close = TRUE] ELSE [r EXCEPT !.length = line]
    PROVE  q = AfterLines(kind, n, 2)
<1>0. PICK mth : mth = Lines(kind)[1]
  OBVIOUS
<1>1. r = [state |-> "kExpectHeaders", req |-> n, method |-> mth,
           length |-> "none", close |-> FALSE, body |-> 0]
  <2>1. (1 = 2 /\ HeaderOf(kind) = "close") = FALSE /\ (1 = 1 \/ HeaderOf(kind) = "close") = TRUE
    OBVIOUS
  <2> QED
    BY <1>0, <2>1, Zenon DEF AfterLines
<1>2. AfterLines(kind, n, 2) =
         [state |-> "kExpectHeaders", req |-> n, method |-> mth,
          length |-> IF line = "close" THEN "none" ELSE line, close |-> line = "close", body |-> 0]
  <2>1. (2 = 2 /\ HeaderOf(kind) = "close") = (line = "close")
        /\ (2 = 1 \/ HeaderOf(kind) = "close") = (line = "close")
    OBVIOUS
  <2> QED
    BY <1>0, <2>1, Zenon DEF AfterLines
<1>3. ASSUME line = "close" PROVE q = AfterLines(kind, n, 2)
  <2>1. (line = "close") = TRUE
    BY <1>3
  <2>2. AfterLines(kind, n, 2) =
           [state |-> "kExpectHeaders", req |-> n, method |-> mth,
            length |-> "none", close |-> TRUE, body |-> 0]
    BY <1>2, <1>3, <2>1, Zenon
  <2>3. q = [r EXCEPT !.close = TRUE]
    BY <1>3
  <2> QED
    BY <1>1, <2>2, <2>3
<1>4. ASSUME line # "close" PROVE q = AfterLines(kind, n, 2)
  <2>1. (line = "close") = FALSE
    BY <1>4
  <2>2. AfterLines(kind, n, 2) =
           [state |-> "kExpectHeaders", req |-> n, method |-> mth,
            length |-> line, close |-> FALSE, body |-> 0]
    BY <1>2, <1>4, <2>1, Zenon
  <2>3. q = [r EXCEPT !.length = line]
    BY <1>4
  <2>4. q = [state |-> "kExpectHeaders", req |-> n, method |-> mth,
             length |-> line, close |-> FALSE, body |-> 0]
    BY ONLY <1>1, <2>3
  <2> QED
    BY <2>2, <2>4, Zenon
<1> QED
  BY <1>3, <1>4

\* Steps that parse a line of the request line or the headers, and go on.
LEMMA RequestLineParsed ==
    ASSUME ConnInv, AnswerInv, ParseRequestLine
    PROVE  AnswerInv'
<1>1. PICK off : Laid(off) /\ (Reading => \E m \in 0..Len(sent) : Progress(off, m))
  BY DEF AnswerInv
<1>2. /\ UNCHANGED <<sent, wire, conn, pc, answers, cut>> /\ pc = "parse"
      /\ Retrieve(LineEnd) /\ LineEnd # 0 /\ Line \in {"GET", "POST"}
      /\ request.state = "kExpectRequestLine"
      /\ request' = [request EXCEPT !.state = "kExpectHeaders", !.method = Line, !.req = Text[1].req]
  BY DEF ParseRequestLine, Parsing
<1>3. PICK off2 : /\ Laid(off2)' /\ moved' = moved
                  /\ \A i \in 1..(Len(sent) + 1) : off2[i] = off[i] - LineEnd
  BY <1>1, <1>2, LaidRetrieved
<1>4. ASSUME Reading, moved = "no"
      PROVE  \E m \in 0..Len(sent) : Progress(off2, m)'
  <2>1. PICK m \in 0..Len(sent) : Progress(off, m)
    BY <1>1, <1>4
  <2>2. request = NewRequest /\ off[m + 1] = 0
    BY <1>2, <2>1, ProgressCases
  <2> DEFINE n == m + 1
  <2> DEFINE kind == sent[n]
  <2>3. m < Len(sent) /\ n \in 1..Len(sent) /\ kind \in Kinds /\ n \in 1..(Len(sent) + 1)
    BY <1>1, <1>2, <1>4, <2>2, LaidIs
  <2>4. Len(Lines(kind)) \in 1..3
    BY <2>3, LineFacts
  <2>5. LineEnd = 2 /\ Line = Lines(kind)[1] /\ Text[1].req = n
    <3>1. 0 \in 0..(Len(Lines(sent[n])) - 1) /\ 0 + 1 = 1
      <4> DEFINE len == Len(Lines(sent[n]))
      <4>1. len \in 1..3
        BY <2>4
      <4> HIDE DEF len
      <4>2. 0 \in 0..(len - 1)
        BY <4>1
      <4> QED
        BY <4>2 DEF len
    <3>2. 0 - (2 * 0) = 0
      OBVIOUS
    <3>3. off[n] = 0 - (2 * 0)
      BY <2>2, <3>2
    <3> QED
      BY <1>1, <1>2, <1>4, <2>3, <3>1, <3>3, NextLine
  <2>6. Len(Lines(kind)) >= 2
    BY <1>2, <2>3, <2>5, LineFacts
  <2>7. request' = AfterLines(kind, n, 1)
    <3> HIDE DEF n, kind
    <3>1. request' = [request EXCEPT !.state = "kExpectHeaders", !.method = Lines(kind)[1], !.req = n]
      BY <1>2, <2>5
    <3> QED
      BY <2>2, <3>1, AfterFirstLine
  <2>8. off2[n] = 0 - (2 * 1) /\ 1 \in 1..(Len(Lines(kind)) - 1)
    BY <1>3, <2>2, <2>3, <2>4, <2>5, <2>6
  <2>9. InLines(off2, n)'
    BY <1>2, <2>7, <2>8 DEF InLines
  <2>10. Progress(off2, m)'
    BY <1>2, <2>1, <2>3, <2>9, ProgressNext DEF Progress
  <2> QED
    BY <2>10
<1>5. ASSUME ~cut, moved = "no", ~Running PROVE Done'
  BY <1>2, <1>5, DoneKept DEF AnswerInv
<1>6. /\ Running' = Running /\ conn \in {"kConnected", "kDisconnecting"}
      /\ Reading' => Reading /\ moved = "no"
  BY <1>2, <1>3 DEF Running, Reading, AnswerInv
<1> QED
  BY <1>2, <1>3, <1>4, <1>5, <1>6, AnswerNext

LEMMA HeaderParsed ==
    ASSUME ConnInv, AnswerInv, ParseHeader
    PROVE  AnswerInv'
<1>1. PICK off : Laid(off) /\ (Reading => \E m \in 0..Len(sent) : Progress(off, m))
  BY DEF AnswerInv
<1>2. /\ UNCHANGED <<sent, wire, conn, pc, answers, cut>> /\ pc = "parse"
      /\ Retrieve(LineEnd) /\ LineEnd # 0 /\ Line \notin {"end", "junk"}
      /\ request.state = "kExpectHeaders"
      /\ request' = IF Line = "close" THEN [request EXCEPT !.close = TRUE]
                                      ELSE [request EXCEPT !.length = Line]
  BY DEF ParseHeader, Parsing
<1>3. PICK off2 : /\ Laid(off2)' /\ moved' = moved
                  /\ \A i \in 1..(Len(sent) + 1) : off2[i] = off[i] - LineEnd
  BY <1>1, <1>2, LaidRetrieved
<1>4. ASSUME Reading, moved = "no"
      PROVE  \E m \in 0..Len(sent) : Progress(off2, m)'
  <2>1. PICK m \in 0..Len(sent) : Progress(off, m)
    BY <1>1, <1>4
  <2>2. m < Len(sent) /\ InLines(off, m + 1)
    BY <1>2, <2>1, ProgressCases
  <2> DEFINE n == m + 1
  <2> DEFINE kind == sent[n]
  <2>3. n \in 1..Len(sent) /\ kind \in Kinds /\ n \in 1..(Len(sent) + 1)
    BY <1>1, <2>2, LaidIs
  <2>4. PICK l \in 1..(Len(Lines(kind)) - 1) :
           off[n] = 0 - (2 * l) /\ request = AfterLines(kind, n, l)
    BY <2>2 DEF InLines
  <2>5. Len(Lines(kind)) \in 1..3
    BY <2>3, LineFacts
  <2>6. l \in 0..(Len(Lines(kind)) - 1) /\ l + 1 \in 2..Len(Lines(kind))
    BY <2>4, <2>5
  <2>7. LineEnd = 2 /\ Line = Lines(kind)[l + 1]
    BY <1>1, <1>2, <1>4, <2>3, <2>4, <2>6, NextLine, SMTT(30), ZenonT(40)
  <2>8. l + 1 = 2 /\ Len(Lines(kind)) = 3
    BY <1>2, <2>3, <2>6, <2>7, LineFacts
  <2>9. l = 1 /\ Line = HeaderOf(kind)
    BY <2>6, <2>7, <2>8 DEF HeaderOf
  <2>10. request' = AfterLines(kind, n, 2)
    BY <1>2, <2>4, <2>9, AfterSecondLine
  <2>11. off2[n] = 0 - (2 * 2) /\ 2 \in 1..(Len(Lines(kind)) - 1)
    <3>1. off2[n] = off[n] - 2 /\ off[n] = 0 - (2 * 1)
      BY <1>3, <2>3, <2>4, <2>7, <2>9
    <3>2. off2[n] = 0 - (2 * 2)
      BY <3>1
    <3> QED
      BY <2>8, <3>2
  <2>12. InLines(off2, n)'
    BY <1>2, <2>10, <2>11 DEF InLines
  <2>13. Progress(off2, m)'
    BY <1>2, <2>1, <2>2, <2>12, ProgressNext DEF Progress
  <2> QED
    BY <2>13
<1>5. ASSUME ~cut, moved = "no", ~Running PROVE Done'
  BY <1>2, <1>5, DoneKept DEF AnswerInv
<1>6. /\ Running' = Running /\ conn \in {"kConnected", "kDisconnecting"}
      /\ Reading' => Reading /\ moved = "no"
  BY <1>2, <1>3 DEF Running, Reading, AnswerInv
<1> QED
  BY <1>2, <1>3, <1>4, <1>5, <1>6, AnswerNext

\* The end of the headers: the length of the body is known, or stoi throws.
LEMMA HeadersEnd ==
    ASSUME ConnInv, AnswerInv, EndOfHeaders
    PROVE  AnswerInv'
<1>1. PICK off : Laid(off) /\ (Reading => \E m \in 0..Len(sent) : Progress(off, m))
  BY DEF AnswerInv
<1>2. /\ UNCHANGED <<sent, wire, conn, answers, cut>> /\ pc = "parse"
      /\ Retrieve(LineEnd) /\ LineEnd # 0 /\ Line = "end"
      /\ request.state = "kExpectHeaders"
      /\ request' = [request EXCEPT !.state = IF BodyFollows THEN "kExpectBody" ELSE "kGotALL"]
      /\ pc' = IF Throws THEN "died" ELSE "parse"
  BY DEF EndOfHeaders, Parsing
<1>3. PICK off2 : /\ Laid(off2)' /\ moved' = moved
                  /\ \A i \in 1..(Len(sent) + 1) : off2[i] = off[i] - LineEnd
  BY <1>1, <1>2, LaidRetrieved
<1>4. ASSUME Reading, moved = "no"
      PROVE  /\ Reading' => \E m \in 0..Len(sent) : Progress(off2, m)'
             /\ Running /\ ~Running' => Done'
  <2>1. PICK m \in 0..Len(sent) : Progress(off, m)
    BY <1>1, <1>4
  <2>2. m < Len(sent) /\ InLines(off, m + 1)
    BY <1>2, <2>1, ProgressCases
  <2> DEFINE n == m + 1
  <2> DEFINE kind == sent[n]
  <2> DEFINE len == Len(Lines(kind))
  <2>3. n \in 1..Len(sent) /\ kind \in Kinds /\ n \in 1..(Len(sent) + 1) /\ n + 1 \in 1..(Len(sent) + 1)
    BY <1>1, <2>2, LaidIs
  <2>4. PICK l \in 1..(len - 1) : off[n] = 0 - (2 * l) /\ request = AfterLines(kind, n, l)
    BY <2>2 DEF InLines
  <2>5. len \in 1..3 /\ BodyLength(kind) \in {0, 2}
    BY <2>3, LineFacts DEF BodyLength
  <2>6. l \in 0..(len - 1) /\ l + 1 \in 2..len
    BY <2>4, <2>5
  <2>7. LineEnd = 2 /\ Line = Lines(kind)[l + 1] /\ off[n + 1] = 2 * (len - l) + BodyLength(kind)
    <3>1. off[n] = 0 - (2 * l) /\ l \in 0..(len - 1) /\ n \in 1..Len(sent)
      BY <2>3, <2>4, <2>6
    <3>2. LineEnd = 2 /\ Line = Lines(kind)[l + 1]
      BY <1>1, <1>2, <1>4, <3>1, NextLine, SMTT(30), ZenonT(40)
    <3>3. off[n + 1] = 2 * (len - l) + BodyLength(kind)
      BY <1>1, <1>4, <3>1, NextLine, Zenon
    <3> QED
      BY <3>2, <3>3
  <2>8. l + 1 = len /\ kind \notin {"junk", "badheader"}
    BY <1>2, <2>3, <2>6, <2>7, LineFacts, SMTT(30), ZenonT(40)
  <2>9. l = len - 1
    BY <2>6, <2>8
  <2>10. /\ BodyFollows <=> kind = "post2"
         /\ Throws <=> kind = "nan"
         /\ request.close = (kind = "close")
    BY <2>3, <2>4, <2>8, <2>9, HeaderFacts DEF BodyFollows, Throws
  <2>11. request.req = n /\ request.body = 0 /\ request.method = Lines(kind)[1]
    BY <2>4 DEF AfterLines
  <2>12. /\ request'.req = n /\ request'.body = 0 /\ request'.close = (kind = "close")
         /\ request'.method = Lines(kind)[1]
         /\ request'.state = IF BodyFollows THEN "kExpectBody" ELSE "kGotALL"
    <3> DEFINE st == IF BodyFollows THEN "kExpectBody" ELSE "kGotALL"
    <3>1. /\ request' = [request EXCEPT !.state = st]
          /\ request = AfterLines(kind, n, l)
      BY <1>2, <2>4
    <3> HIDE DEF st
    <3>2. /\ request'.req = request.req /\ request'.body = request.body
          /\ request'.method = request.method
          /\ request'.close = request.close /\ request'.state = st
      BY <3>1 DEF AfterLines
    <3> QED
      BY <2>10, <2>11, <3>2 DEF st
  <2>13. off2[n] = 0 - (2 * len) /\ off2[n + 1] = BodyLength(kind)
    <3>1. /\ off2[n] = off[n] - 2 /\ off2[n + 1] = off[n + 1] - 2
      BY <1>3, <2>3, <2>7
    <3> HIDE DEF n, kind, len
    <3> QED
      BY <2>4, <2>5, <2>7, <2>9, <3>1
  <2>14. conn = "kConnected" => answers = Answered(m) /\ \A i \in 1..m : ~EndsStream(sent[i])
    BY <2>1 DEF Progress
  <2>15. ASSUME kind = "nan" PROVE pc' = "died" /\ (conn = "kConnected" => Done')
    <3>1. pc' = "died"
      BY <1>2, <2>10, <2>15
    <3> SUFFICES ASSUME conn = "kConnected" PROVE Done'
      BY <3>1
    <3>2. n - 1 = m
      OBVIOUS
    <3>3. EndsStream(sent[n])
      BY <2>15 DEF EndsStream
    <3>4. \A i \in 1..(n - 1) : ~EndsStream(sent[i])
      BY <2>14, <3>2
    <3>5. answers = Answered(IF sent[n] = "nan" THEN n - 1 ELSE n)
      BY <2>14, <2>15, <3>2
    <3>6. Done
      BY <2>3, <3>3, <3>4, <3>5 DEF Done
    <3> QED
      BY <1>2, <3>6, DoneKept
  <2>16. ASSUME kind # "nan" PROVE pc' # "died" /\ Progress(off2, m)'
    <3>1. pc' # "died"
      BY <1>2, <2>10, <2>16
    <3>2. CASE kind = "post2"
      <4>1. request'.close = FALSE /\ request'.state = "kExpectBody"
        BY <2>10, <2>12, <3>2
      <4>2. InBody(off2, n)'
        BY <1>2, <2>12, <2>13, <3>2, <4>1 DEF InBody
      <4> QED
        BY <1>2, <2>2, <2>14, <3>1, <4>2, ProgressNext
    <3>3. CASE kind # "post2"
      <4>1. request'.state = "kGotALL" /\ BodyLength(kind) = 0
        BY <2>10, <2>12, <3>3 DEF BodyLength
      <4>2. AtEnd(off2, n)'
        BY <1>2, <2>8, <2>12, <2>13, <2>16, <4>1 DEF AtEnd
      <4> QED
        BY <1>2, <2>2, <2>14, <3>1, <4>2, ProgressNext
    <3> QED
      BY <3>2, <3>3
  <2>17. /\ Running => conn = "kConnected"
         /\ Running /\ ~Running' => pc' = "died"
         /\ Reading' => pc' # "died"
    BY <1>2 DEF Running, Reading
  <2> QED
    BY <2>15, <2>16, <2>17
<1>5. ASSUME ~cut, moved = "no", ~Running PROVE Done' /\ ~Running'
  BY <1>2, <1>5, DoneKept DEF AnswerInv, Running
<1>6. /\ conn \in {"kConnected", "kDisconnecting"} /\ pc' # "wait"
      /\ ~cut' /\ moved' = "no" => Reading /\ ~cut /\ moved = "no"
      /\ Reading' => ~cut' /\ moved' = "no"
  BY <1>2, <1>3 DEF AnswerInv, Reading
<1> QED
  BY <1>2, <1>3, <1>4, <1>5, <1>6, AnswerNext

LEMMA BodyParsed ==
    ASSUME ConnInv, OrderInv, AnswerInv, ParseBody
    PROVE  AnswerInv'
<1>1. PICK off : Laid(off) /\ (Reading => \E m \in 0..Len(sent) : Progress(off, m))
  BY DEF AnswerInv
<1> DEFINE whole == ReadableBytes(buffer) >= 2
<1>2. /\ UNCHANGED <<sent, wire, conn, answers, pc>> /\ pc = "parse"
      /\ request.state = "kExpectBody"
      /\ request' = [request EXCEPT !.state = "kGotALL", !.body = IF whole THEN 2 ELSE 0]
      /\ IF whole THEN Retrieve(2) ELSE UNCHANGED bufferVars
      /\ cut' = (cut \/ ~whole)
  BY DEF ParseBody, Parsing
<1>3. /\ Running' = Running /\ conn' \in {"kConnected", "kDisconnecting"}
      /\ pc' # "wait"
  BY <1>2 DEF Running, AnswerInv
<1>4. ASSUME ~cut, moved = "no", ~Running PROVE Done'
  BY <1>2, <1>4, DoneKept DEF AnswerInv
<1>5. CASE ~whole
  <2>1. cut' /\ ~Reading' /\ UNCHANGED bufferVars
    BY <1>2, <1>5 DEF Reading
  <2>2. Laid(off)'
    BY <1>1, <1>2, <2>1, LaidKept DEF bufferVars
  <2> QED
    BY <1>2, <1>3, <2>1, <2>2, AnswerNext
<1>6. CASE whole
  <2>1. /\ Retrieve(2) /\ (~cut' => ~cut)
        /\ request' = [request EXCEPT !.state = "kGotALL", !.body = 2]
    BY <1>2, <1>6
  <2>2. PICK off2 : /\ Laid(off2)' /\ moved' = moved
                    /\ \A i \in 1..(Len(sent) + 1) : off2[i] = off[i] - 2
    BY <1>1, <1>2, <2>1, LaidRetrieved
  <2>3. ASSUME Reading, moved = "no"
        PROVE  \E m \in 0..Len(sent) : Progress(off2, m)'
    <3>1. PICK m \in 0..Len(sent) : Progress(off, m)
      BY <1>1, <2>3
    <3>2. m < Len(sent) /\ InBody(off, m + 1)
      BY <1>2, <3>1, ProgressCases
    <3> DEFINE n == m + 1
    <3> DEFINE len == Len(Lines(sent[n]))
    <3>3. n \in 1..Len(sent) /\ n + 1 \in 1..(Len(sent) + 1) /\ sent[n] = "post2" /\ sent[n] \in Kinds
      BY <1>1, <3>2, LaidIs DEF InBody
    <3>4. off[n + 1] = off[n] + Len(RequestBytes(n)) /\ off[n] = 0 - (2 * len)
      BY <1>1, <3>2, <3>3 DEF Laid, InBody
    <3>5. Len(RequestBytes(n)) = 2 * len + BodyLength(sent[n]) /\ BodyLength(sent[n]) = 2 /\ len \in 1..3
      <4>1. n \in Nat
        BY <3>3
      <4> QED
        BY <3>3, <4>1, EncodedIs DEF RequestBytes, BodyLength
    <3>6. off2[n + 1] = 0
      <4>1. off2[n + 1] = off[n + 1] - 2
        BY <2>2, <3>3
      <4> HIDE DEF n, len
      <4> QED
        BY <3>4, <3>5, <4>1
    <3>7. /\ request'.state = "kGotALL" /\ request'.body = BodyLength(sent[n])
          /\ request'.req = n /\ request'.close = FALSE /\ request'.method = Lines(sent[n])[1]
      <4>1. request.req = n /\ request.close = FALSE /\ request.method = Lines(sent[n])[1]
        BY <3>2 DEF InBody
      <4>2. /\ request'.req = request.req /\ request'.close = request.close
            /\ request'.method = request.method
        BY <2>1
      <4>3. request'.state = "kGotALL" /\ request'.body = 2
        <5>1. IsRequest(request)
          BY DEF OrderInv
        <5> QED
          BY <2>1, <5>1 DEF IsRequest
      <4> QED
        BY <3>5, <4>1, <4>2, <4>3
    <3>8. AtEnd(off2, n)'
      BY <1>2, <3>3, <3>6, <3>7 DEF AtEnd, BodyLength
    <3>9. Progress(off2, m)'
      BY <1>2, <3>1, <3>2, <3>8, ProgressNext DEF Progress
    <3> QED
      BY <1>2, <3>9
  <2>4. Reading' => Reading /\ moved = "no"
    BY <1>2, <2>1, <2>2 DEF Reading
  <2> QED
    BY <1>2, <1>3, <1>4, <2>1, <2>2, <2>3, <2>4, AnswerNext
<1> QED
  BY <1>5, <1>6

LEMMA AnsweredNext ==
    ASSUME NEW m \in Nat, NEW a, a = Expected(m + 1)
    PROVE  Append(Answered(m), a) = Answered(m + 1)
<1> DEFINE s == Answered(m)
<1> DEFINE t == Append(s, a)
<1> DEFINE u == Answered(m + 1)
<1> DEFINE S == {Expected(i) : i \in 1..(m + 1)}
<1>1. \A i \in 1..(m + 1) : Expected(i) \in S
  OBVIOUS
<1> HIDE DEF S
<1>2. /\ s \in Seq(S) /\ Len(s) = m /\ \A i \in 1..m : s[i] = Expected(i)
      /\ u \in Seq(S) /\ Len(u) = m + 1 /\ \A i \in 1..(m + 1) : u[i] = Expected(i)
  BY <1>1 DEF Answered
<1>3. a \in S
  BY <1>1
<1> HIDE DEF s, u
<1>4. /\ t \in Seq(S) /\ Len(t) = m + 1 /\ \A i \in 1..m : t[i] = s[i]
      /\ t[m + 1] = a
  BY <1>2, <1>3
<1>5. \A i \in 1..(m + 1) : t[i] = u[i]
  <2> TAKE i \in 1..(m + 1)
  <2>1. i \in 1..m \/ i = m + 1
    OBVIOUS
  <2> HIDE DEF t
  <2> QED
    BY <1>2, <1>4, <2>1
<1> HIDE DEF t
<1>6. t = u
  BY <1>2, <1>4, <1>5, SeqEqual
<1> QED
  BY <1>6 DEF t, s, u

LEMMA AnsweredKept == ASSUME UNCHANGED sent PROVE \A k : Answered(k)' = Answered(k)
  BY DEF Answered, Expected

\* The request after the m that were answered ends the stream.
LEMMA DoneNext ==
    ASSUME UNCHANGED sent, NEW m \in Nat, NEW n, n = m + 1, n \in 1..Len(sent),
           EndsStream(sent[n]), \A i \in 1..m : ~EndsStream(sent[i]),
           sent[n] # "nan", answers' = Answered(n)
    PROVE  Done'
<1>1. n - 1 = m
  OBVIOUS
<1>2. answers' = Answered(n)'
  BY AnsweredKept
<1> QED
  BY <1>1, <1>2 DEF Done

\* A whole request is answered, and the next one begins where it ended.
LEMMA RequestServed ==
    ASSUME ConnInv, OrderInv, AnswerInv, Serve
    PROVE  AnswerInv'
<1>1. PICK off : Laid(off) /\ (Reading => \E m \in 0..Len(sent) : Progress(off, m))
  BY DEF AnswerInv
<1>2. /\ UNCHANGED <<sent, wire, queue, buffer, moved, cut>> /\ pc = "parse"
      /\ request.state = "kGotALL" /\ request' = NewRequest
      /\ answers' = IF conn = "kConnected" THEN Append(answers, Answer) ELSE answers
      /\ conn' = IF request.close THEN "kDisconnecting" ELSE conn
      /\ pc' = IF ReadableBytes(buffer) = 0 THEN "wait" ELSE "parse"
  BY DEF Serve, Parsing, Reset, bufferVars
<1>3. /\ conn \in {"kConnected", "kDisconnecting"} /\ conn' \in {"kConnected", "kDisconnecting"}
      /\ pc' # "died"
  BY <1>2 DEF AnswerInv
<1>4. Laid(off)'
  BY <1>1, <1>2, LaidKept
<1>5. ASSUME ~cut, moved = "no", ~Running PROVE Done' /\ ~Running'
  <2>1. conn # "kConnected"
    BY <1>2, <1>5 DEF Running
  <2>2. conn' # "kConnected" /\ answers' = answers
    BY <1>2, <1>3, <2>1
  <2> QED
    BY <1>2, <1>5, <2>2, DoneKept DEF AnswerInv, Running
<1>6. ASSUME Reading, moved = "no"
      PROVE  /\ \E m \in 0..Len(sent) : Progress(off, m)'
             /\ Running /\ ~Running' => Done'
  <2>1. PICK m \in 0..Len(sent) : Progress(off, m)
    BY <1>1, <1>6
  <2>2. m < Len(sent) /\ AtEnd(off, m + 1)
    BY <1>2, <2>1, ProgressCases
  <2> DEFINE n == m + 1
  <2>3. n \in 1..Len(sent) /\ n \in Nat /\ m \in Nat /\ n \in 0..Len(sent)
    BY <1>1, <2>2, LaidIs
  <2>4. /\ request.req = n /\ request.body = BodyLength(sent[n])
        /\ sent[n] \notin {"junk", "badheader", "nan"} /\ off[n + 1] = 0
        /\ request.close = (sent[n] = "close")
    BY <2>2 DEF AtEnd
  <2>5. Answer = Expected(m + 1)
    BY <2>4 DEF Answer, Expected
  <2>6. conn = "kConnected" => answers' = Append(Answered(m), Answer)
    BY <1>2, <2>1 DEF Progress
  <2>7. conn = "kConnected" => answers' = Answered(n)
    BY <2>3, <2>5, <2>6, AnsweredNext
  <2>8. conn = "kConnected" => \A i \in 1..m : ~EndsStream(sent[i])
    BY <2>1 DEF Progress
  <2>9. ASSUME sent[n] = "close", conn = "kConnected" PROVE Done'
    <3>2. EndsStream(sent[n]) /\ n - 1 = m
      BY <2>9 DEF EndsStream
    <3> QED
      BY <1>2, <2>3, <2>7, <2>8, <2>9, <3>2, DoneNext
  <2>10. conn' = "kConnected" => conn = "kConnected" /\ sent[n] # "close"
    BY <1>2, <1>3, <2>4
  <2>11. ASSUME conn' = "kConnected"
         PROVE  answers' = Answered(n) /\ \A i \in 1..n : ~EndsStream(sent[i])
    <3>2. ~EndsStream(sent[n])
      BY <2>4, <2>10, <2>11 DEF EndsStream
    <3>3. \A i \in 1..n : ~EndsStream(sent[i])
      <4> TAKE i \in 1..n
      <4>1. i \in 1..m \/ i = n
        BY <2>3
      <4> QED
        BY <2>8, <2>10, <2>11, <3>2, <4>1
    <3> QED
      BY <2>7, <2>10, <2>11, <3>3
  <2>12. Progress(off, n)'
    BY <1>2, <2>4, <2>11, ProgressNext
  <2>13. Running /\ ~Running' => sent[n] = "close" /\ conn = "kConnected"
    BY <1>2, <1>3, <2>4 DEF Running
  <2> QED
    BY <2>3, <2>9, <2>12, <2>13
<1>7. moved = "no" /\ pc' = "wait" => LineEnd' = 0
  <2> SUFFICES ASSUME moved = "no", pc' = "wait" PROVE LineEnd' = 0
    OBVIOUS
  <2>1. ReadableBytes(buffer) = 0
    BY <1>2
  <2>2. DOMAIN Text = {}
    BY <2>1, TextIs
  <2>3. LineEnd = 0
    BY <2>2 DEF LineEnd
  <2> QED
    BY <1>2, <2>3, LineEndKept
<1>8. request'.state = "kExpectRequestLine"
  BY <1>2 DEF NewRequest
<1>9. /\ ~cut' /\ moved' = "no" => Reading /\ ~cut /\ moved = "no"
      /\ Reading' => ~cut' /\ moved' = "no"
  BY <1>2 DEF Reading
<1> QED
  BY <1>2, <1>3, <1>4, <1>5, <1>6, <1>7, <1>8, <1>9, AnswerNext

\* A line that does not parse is answered, and is the last.
LEMMA LineRefused ==
    ASSUME ConnInv, AnswerInv, BadLine
    PROVE  AnswerInv'
<1>1. PICK off : Laid(off) /\ (Reading => \E m \in 0..Len(sent) : Progress(off, m))
  BY DEF AnswerInv
<1> DEFINE bad == [code |-> 400, req |-> 0, body |-> 0]
<1>2. /\ UNCHANGED <<sent, wire, queue, moved, cut, request>> /\ pc = "parse"
      /\ LineEnd # 0
      /\ \/ request.state = "kExpectRequestLine" /\ Line \notin {"GET", "POST"}
         \/ request.state = "kExpectHeaders" /\ Line = "junk"
      /\ answers' = IF conn = "kConnected" THEN Append(answers, bad) ELSE answers
      /\ conn' = "kDisconnecting"
  BY DEF BadLine, Parsing, bufferVars
<1>3. ~Running' /\ conn' # "kConnected"
  BY <1>2 DEF Running
<1>4. Laid(off)'
  BY <1>1, <1>2, LaidKept
<1>5. ASSUME ~cut, moved = "no", ~Running PROVE Done'
  <2>1. answers' = answers
    BY <1>2, <1>5 DEF Running
  <2> QED
    BY <1>2, <1>5, <2>1, DoneKept DEF AnswerInv
<1>6. ASSUME Reading, moved = "no", Running PROVE Done'
  <2>1. PICK m \in 0..Len(sent) : Progress(off, m)
    BY <1>1, <1>6
  <2> DEFINE n == m + 1
  <2> DEFINE kind == sent[n]
  <2>2. m < Len(sent) /\ kind \in {"junk", "badheader"}
    <3>1. CASE request.state = "kExpectRequestLine"
      <4>1. off[m + 1] = 0 /\ Line \notin {"GET", "POST"}
        BY <1>2, <2>1, <3>1, ProgressCases
      <4>2. m < Len(sent) /\ n \in 1..Len(sent) /\ kind \in Kinds
        BY <1>1, <1>2, <1>6, <4>1, LaidIs
      <4>3. Len(Lines(kind)) \in 1..3
        BY <4>2, LineFacts
      <4>4. 0 \in 0..(Len(Lines(kind)) - 1) /\ 0 + 1 = 1
        <5> DEFINE len == Len(Lines(kind))
        <5>1. len \in 1..3
          BY <4>3
        <5> HIDE DEF len
        <5>2. 0 \in 0..(len - 1)
          BY <5>1
        <5> QED
          BY <5>2 DEF len
      <4>5. off[n] = 0 - (2 * 0)
        BY <4>1
      <4>6. Line = Lines(kind)[1]
        BY <1>1, <1>2, <1>6, <4>2, <4>4, <4>5, NextLine
      <4> QED
        BY <4>1, <4>2, <4>6, LineFacts
    <3>2. CASE request.state = "kExpectHeaders"
      <4>1. m < Len(sent) /\ InLines(off, m + 1) /\ Line = "junk"
        BY <1>2, <2>1, <3>2, ProgressCases
      <4>2. n \in 1..Len(sent) /\ kind \in Kinds
        BY <1>1, <4>1, LaidIs
      <4>3. PICK l \in 1..(Len(Lines(kind)) - 1) : off[n] = 0 - (2 * l)
        BY <4>1 DEF InLines
      <4>4. Len(Lines(kind)) \in 1..3
        BY <4>2, LineFacts
      <4>5. l \in 0..(Len(Lines(kind)) - 1) /\ l + 1 \in 2..Len(Lines(kind))
        BY <4>3, <4>4
      <4>6. Line = Lines(kind)[l + 1]
        BY <1>1, <1>2, <1>6, <4>2, <4>3, <4>5, NextLine
      <4> QED
        BY <4>1, <4>2, <4>5, <4>6, LineFacts
    <3> QED
      BY <1>2, <3>1, <3>2
  <2>3. n \in 1..Len(sent) /\ m \in Nat /\ n - 1 = m
    BY <1>1, <2>2, LaidIs
  <2>4. bad = Expected(m + 1) /\ EndsStream(sent[n]) /\ sent[n] # "nan"
    BY <2>2 DEF Expected, EndsStream
  <2>5. answers' = Append(Answered(m), bad)
    BY <1>2, <1>6, <2>1 DEF Running, Progress
  <2>6. answers' = Answered(n)
    <3> HIDE DEF bad
    <3> QED
      BY <2>3, <2>4, <2>5, AnsweredNext
  <2>7. \A i \in 1..m : ~EndsStream(sent[i])
    BY <1>6, <2>1 DEF Progress, Running
  <2> QED
    BY <1>2, <2>3, <2>4, <2>6, <2>7, DoneNext
<1>7. ASSUME Reading, NEW m, Progress(off, m) PROVE Progress(off, m)'
  <2>1. /\ InLines(off, m + 1) => InLines(off, m + 1)'
        /\ InBody(off, m + 1) => InBody(off, m + 1)'
        /\ AtEnd(off, m + 1) => AtEnd(off, m + 1)'
    BY <1>2 DEF InLines, InBody, AtEnd
  <2> QED
    BY <1>2, <1>3, <1>7, <2>1, ProgressNext DEF Progress
<1>8. /\ ~cut' /\ moved' = "no" => Reading /\ ~cut /\ moved = "no"
      /\ Reading' => ~cut' /\ moved' = "no"
  BY <1>2 DEF Reading
<1> QED
  BY <1>1, <1>2, <1>3, <1>4, <1>5, <1>6, <1>7, <1>8, AnswerNext

\* One more request is laid out behind the others.
LEMMA LaidGrows ==
    ASSUME ConnInv, NEW off, Laid(off), NEW kind \in Kinds, Send(kind)
    PROVE  \E off2 : /\ Laid(off2)'
                     /\ \A i \in 1..(Len(sent) + 1) : off2[i] = off[i]
<1> DEFINE len == Len(sent)
<1> DEFINE e == Encoded(kind, len + 1)
<1>1. queue \in Seq(Byte) /\ wire \in Seq(Byte) /\ sent \in Seq(Kinds) /\ len \in Nat
      /\ Stream \in Seq(Byte) /\ Len(Stream) \in Nat
  BY TextIs
<1>2. /\ wire' = wire \o e /\ sent' = Append(sent, kind) /\ len < MaxRequests /\ queue' = queue
  BY DEF Send, bufferVars
<1>3. e \in Seq(Byte)
  BY <1>1, <1>2, BytesAssumption, ConstantsAssumption DEF ConstantsAssumption
<1>4. /\ Len(sent') = len + 1 /\ sent'[len + 1] = kind
      /\ \A i \in 1..len : sent'[i] = sent[i]
  BY <1>1, <1>2
<1> HIDE DEF e
<1>5. Stream' = Stream \o e
  BY <1>1, <1>2, <1>3, StreamParts, SMTT(30), ZenonT(40) DEF Stream
<1> HIDE DEF Stream
<1>6. /\ Len(Stream') = Len(Stream) + Len(e) /\ Len(e) \in Nat
      /\ \A i \in 1..Len(Stream) : Stream'[i] = Stream[i]
      /\ \A j \in 1..Len(e) : Stream'[Len(Stream) + j] = e[j]
  BY <1>1, <1>3, <1>5
<1>7. PICK off2 : off2 = [i \in 1..(len + 2) |-> IF i = len + 2 THEN Len(Stream) + Len(e) ELSE off[i]]
  OBVIOUS
<1>8. /\ off \in [1..(len + 1) -> Int] /\ off[len + 1] = Len(Stream)
  BY DEF Laid
<1>9. /\ off2 \in [1..(len + 2) -> Int] /\ off2[len + 2] = Len(Stream) + Len(e)
      /\ \A i \in 1..(len + 1) : off2[i] = off[i]
  BY <1>1, <1>6, <1>7, <1>8
<1>10. ASSUME NEW i \in 1..(len + 1)
       PROVE  /\ off2[i + 1] = off2[i] + Len(RequestBytes(i)')
              /\ off2[i + 1] <= Len(Stream')
              /\ \A j \in 1..Len(RequestBytes(i)') :
                    off2[i] + j >= 1 => Stream'[off2[i] + j] = (RequestBytes(i)')[j]
  <2>1. CASE i = len + 1
    <3>1. RequestBytes(i)' = e
      BY <1>4, <2>1 DEF RequestBytes, e
    <3>2. off2[i] = Len(Stream) /\ off2[i + 1] = Len(Stream) + Len(e)
      BY <1>1, <1>8, <1>9, <2>1
    <3> HIDE DEF len, RequestBytes
    <3> QED
      BY <1>1, <1>6, <3>1, <3>2, SMTT(30), ZenonT(40)
  <2>2. CASE i \in 1..len
    <3>1. RequestBytes(i)' = RequestBytes(i)
      BY <1>4, <2>2 DEF RequestBytes
    <3>2. /\ off[i + 1] = off[i] + Len(RequestBytes(i)) /\ off[i + 1] <= Len(Stream)
          /\ \A j \in 1..Len(RequestBytes(i)) :
                off[i] + j >= 1 => Stream[off[i] + j] = RequestBytes(i)[j]
      BY <2>2 DEF Laid
    <3>3. /\ off2[i] = off[i] /\ off2[i + 1] = off[i + 1]
          /\ off[i] \in Int /\ off[i + 1] \in Int
      <4>1. i \in 1..(len + 1) /\ i + 1 \in 1..(len + 1)
        BY <1>1, <2>2
      <4> HIDE DEF len
      <4> QED
        BY <1>8, <1>9, <4>1
    <3>4. Len(RequestBytes(i)) \in Nat
      <4>1. sent[i] \in Kinds /\ i \in Nat
        BY <1>1, <2>2
      <4> QED
        BY <4>1, EncodedStarts DEF RequestBytes
    <3> DEFINE r == RequestBytes(i)
    <3> HIDE DEF r, len
    <3>5. \A j \in 1..Len(r) : off[i] + j >= 1 => Stream'[off[i] + j] = r[j]
      <4> SUFFICES ASSUME NEW j \in 1..Len(r), off[i] + j >= 1
                   PROVE  Stream'[off[i] + j] = r[j]
        OBVIOUS
      <4>1. off[i] + j \in 1..Len(Stream)
        BY <1>1, <3>2, <3>3, <3>4 DEF r
      <4> QED
        BY <1>6, <3>2, <4>1 DEF r
    <3> QED
      BY <1>1, <1>6, <3>1, <3>2, <3>3, <3>5 DEF r
  <2> QED
    BY <1>1, <2>1, <2>2
<1>11. Laid(off2)'
  <2>1. Len(sent') = len + 1 /\ Len(sent') + 1 = len + 2
    BY <1>1, <1>4
  <2> HIDE DEF len, RequestBytes
  <2>2. off2 \in [1..(Len(sent') + 1) -> Int] /\ off2[Len(sent') + 1] = Len(Stream')
    BY <1>6, <1>9, <2>1
  <2>3. ASSUME NEW i \in 1..Len(sent')
        PROVE  /\ off2[i + 1] = off2[i] + Len(RequestBytes(i)')
               /\ off2[i + 1] <= Len(Stream')
               /\ \A j \in 1..Len(RequestBytes(i)') :
                     off2[i] + j >= 1 => Stream'[off2[i] + j] = (RequestBytes(i)')[j]
    BY <1>10, <2>1
  <2> QED
    BY <2>2, <2>3, Zenon DEF Laid
<1> QED
  BY <1>9, <1>11

LEMMA RequestSent ==
    ASSUME ConnInv, AnswerInv, NEW kind \in Kinds, Send(kind)
    PROVE  AnswerInv'
<1>1. PICK off : Laid(off) /\ (Reading => \E m \in 0..Len(sent) : Progress(off, m))
  BY DEF AnswerInv
<1>2. PICK off2 : /\ Laid(off2)'
                  /\ \A i \in 1..(Len(sent) + 1) : off2[i] = off[i]
  BY <1>1, LaidGrows
<1>3. /\ UNCHANGED <<buffer, moved, request, conn, pc, answers, cut>>
      /\ sent' = Append(sent, kind)
  BY DEF Send, bufferVars
<1>4. sent \in Seq(Kinds) /\ Len(sent) \in Nat
  BY TextIs
<1>5. /\ Len(sent') = Len(sent) + 1
      /\ \A i \in 1..Len(sent) : sent'[i] = sent[i]
  BY <1>3, <1>4
<1>6. \A i \in 1..Len(sent) : Expected(i)' = Expected(i)
  BY <1>5 DEF Expected
<1>7. \A m \in 0..Len(sent) : Answered(m)' = Answered(m)
  <2> TAKE m \in 0..Len(sent)
  <2>1. \A i \in 1..m : i \in 1..Len(sent)
    BY <1>4
  <2>2. \A i \in 1..m : Expected(i)' = Expected(i)
    BY <1>6, <2>1
  <2> QED
    BY <2>2 DEF Answered
<1>8. ASSUME Reading
      PROVE  \E m \in 0..Len(sent') : Progress(off2, m)'
  <2>1. PICK m \in 0..Len(sent) : Progress(off, m)
    BY <1>1, <1>8
  <2>2. conn' = "kConnected" => answers' = Answered(m)'
    BY <1>3, <1>7, <2>1 DEF Progress
  <2>3. conn' = "kConnected" => \A i \in 1..m : ~EndsStream(sent'[i])
    <3> SUFFICES ASSUME conn' = "kConnected", NEW i \in 1..m PROVE ~EndsStream(sent'[i])
      OBVIOUS
    <3>1. i \in 1..Len(sent)
      BY <1>4
    <3> QED
      BY <1>3, <1>5, <2>1, <3>1 DEF Progress
  <2>4. m + 1 \in 1..(Len(sent) + 1) /\ off2[m + 1] = off[m + 1]
    BY <1>2, <1>4
  <2>5. CASE request = NewRequest /\ off[m + 1] = 0
    <3>1. m \in 0..Len(sent')
      BY <1>4, <1>5
    <3> QED
      BY <1>3, <2>2, <2>3, <2>4, <2>5, <3>1 DEF Progress
  <2>6. CASE m < Len(sent) /\ (InLines(off, m + 1) \/ InBody(off, m + 1) \/ AtEnd(off, m + 1))
    <3> DEFINE n == m + 1
    <3>1. n \in 1..Len(sent) /\ n + 1 \in 1..(Len(sent) + 1) /\ m \in 0..Len(sent') /\ m < Len(sent')
      BY <1>4, <1>5, <2>6
    <3>2. sent'[n] = sent[n] /\ off2[n] = off[n] /\ off2[n + 1] = off[n + 1]
      BY <1>2, <1>5, <2>4, <3>1
    <3> HIDE DEF n
    <3>3. InLines(off, n) => InLines(off2, n)'
      BY <1>3, <3>2 DEF InLines
    <3>4. InBody(off, n) => InBody(off2, n)'
      BY <1>3, <3>2 DEF InBody
    <3>5. AtEnd(off, n) => AtEnd(off2, n)'
      BY <1>3, <3>2 DEF AtEnd
    <3> QED
      BY <2>2, <2>3, <2>6, <3>1, <3>3, <3>4, <3>5 DEF Progress, n
  <2> QED
    BY <2>1, <2>5, <2>6 DEF Progress
<1>9. ASSUME ~cut, moved = "no", ~Running PROVE Done'
  <2>1. PICK e \in 1..Len(sent) :
           /\ EndsStream(sent[e]) /\ \A i \in 1..(e - 1) : ~EndsStream(sent[i])
           /\ answers = Answered(IF sent[e] = "nan" THEN e - 1 ELSE e)
    BY <1>9 DEF AnswerInv, Done
  <2>2. e \in 1..Len(sent') /\ sent'[e] = sent[e] /\ e \in 0..Len(sent) /\ e - 1 \in 0..Len(sent)
    BY <1>4, <1>5
  <2>3. \A i \in 1..(e - 1) : ~EndsStream(sent'[i])
    <3> TAKE i \in 1..(e - 1)
    <3>1. i \in 1..Len(sent)
      BY <1>4
    <3> QED
      BY <1>5, <2>1, <3>1
  <2>4. EndsStream(sent'[e])
    BY <2>1, <2>2
  <2>5. PICK k \in 0..Len(sent) : k = IF sent[e] = "nan" THEN e - 1 ELSE e
    BY <2>2
  <2>6. answers' = Answered(k)'
    BY <1>3, <1>7, <2>1, <2>5
  <2>7. k = IF sent'[e] = "nan" THEN e - 1 ELSE e
    BY <2>2, <2>5
  <2> QED
    BY <2>2, <2>3, <2>4, <2>6, <2>7, Zenon DEF Done
<1>10. Running' = Running /\ Reading' = Reading /\ LineEnd' = LineEnd
  BY <1>3, LineEndKept DEF Running, Reading
<1> QED
  BY <1>2, <1>3, <1>8, <1>9, <1>10, AnswerNext DEF AnswerInv

\* Steps that take nothing from the stream and answer nothing.
LEMMA NothingParsed ==
    ASSUME ConnInv, AnswerInv, UNCHANGED <<sent, request, conn, answers, cut>>,
           Stream' = Stream, moved' = "no" => moved = "no",
           moved' = "no" => Running' = Running /\ (Reading' => Reading),
           moved' = "no" /\ pc' = "wait" =>
              LineEnd' = 0 /\ request'.state \in {"kExpectRequestLine", "kExpectHeaders"}
    PROVE  AnswerInv'
<1>1. PICK off : Laid(off) /\ (Reading => \E m \in 0..Len(sent) : Progress(off, m))
  BY DEF AnswerInv
<1>2. Laid(off)'
  <2> HIDE DEF Stream
  <2>1. \A i : RequestBytes(i)' = RequestBytes(i)
    BY DEF RequestBytes
  <2> QED
    BY <1>1, <2>1 DEF Laid
<1>3. ASSUME Reading' PROVE \E m \in 0..Len(sent) : Progress(off, m)'
  <2>1. Reading
    BY <1>3 DEF Reading
  <2> QED
    BY <1>1, <2>1, ProgressKept
<1>4. ASSUME ~cut', moved' = "no", ~Running' PROVE Done'
  BY <1>4, DoneKept DEF AnswerInv
<1>5. conn' \in {"kConnected", "kDisconnecting"}
  BY DEF AnswerInv
<1> QED
  BY <1>2, <1>3, <1>4, <1>5, AnswerNext

LEMMA AnswerStep == ConnInv /\ OrderInv /\ AnswerInv /\ [Next]_vars => AnswerInv'
<1> SUFFICES ASSUME ConnInv, OrderInv, AnswerInv, [Next]_vars PROVE AnswerInv'
  OBVIOUS
<1>1. ASSUME NEW kind \in Kinds, Send(kind) PROVE AnswerInv'
  BY <1>1, RequestSent
<1>2. ASSUME NEW n \in 1..Len(wire), Read(n) PROVE AnswerInv'
  <2>1. /\ queue' = queue \o SubSeq(wire, 1, n) /\ wire' = SubSeq(wire, n + 1, Len(wire))
        /\ UNCHANGED <<sent, request, conn, answers, cut>>
        /\ pc \in {"wait", "read"} /\ pc' = IF moved' = "died" THEN "died" ELSE "read"
    BY <1>2 DEF Read, AppendBytes, ReadFd
  <2>2. moved' = "no" => moved = "no"
    BY <1>2 DEF Read, AppendBytes, ReadFd, Outcomes
  <2>3. Stream' = Stream
    BY <2>1, TextIs, StreamParts, SMTT(30), ZenonT(40) DEF Stream
  <2>4. pc' # "wait" /\ (moved' = "no" => Running' = Running /\ (Reading' => Reading))
    BY <2>1, <2>2 DEF Running, Reading
  <2> QED
    BY <2>1, <2>2, <2>3, <2>4, NothingParsed
<1>3. CASE ReadDone
  <2>1. /\ UNCHANGED <<sent, request, conn, answers, cut, queue, wire, moved>>
        /\ pc = "read" /\ pc' = "parse"
    BY <1>3 DEF ReadDone, bufferVars
  <2>2. Stream' = Stream /\ Running' = Running /\ Reading' = Reading
    BY <2>1 DEF Stream, Running, Reading
  <2> QED
    BY <2>1, <2>2, NothingParsed
<1>4. CASE Incomplete
  <2>1. /\ UNCHANGED <<sent, request, conn, answers, cut, queue, buffer, wire, moved>>
        /\ pc = "parse" /\ pc' = "wait" /\ LineEnd = 0
        /\ request.state \in {"kExpectRequestLine", "kExpectHeaders"}
    BY <1>4 DEF Incomplete, Parsing, bufferVars
  <2>2. Stream' = Stream /\ Running' = Running /\ Reading' = Reading
    BY <2>1 DEF Stream, Running, Reading
  <2>3. LineEnd' = LineEnd
    BY <2>1, LineEndKept
  <2> QED
    BY <2>1, <2>2, <2>3, NothingParsed
<1>5. CASE UNCHANGED vars
  <2>1. UNCHANGED <<sent, request, conn, answers, cut, queue, buffer, wire, moved, pc>>
    BY <1>5 DEF vars, bufferVars
  <2>2. PICK off : Laid(off) /\ (Reading => \E m \in 0..Len(sent) : Progress(off, m))
    BY DEF AnswerInv
  <2>3. Laid(off)' /\ Running' = Running /\ Reading' = Reading /\ LineEnd' = LineEnd
    BY <2>1, <2>2, LaidKept, LineEndKept DEF Running, Reading
  <2>4. ASSUME Reading' PROVE \E m \in 0..Len(sent) : Progress(off, m)'
    BY <2>1, <2>2, <2>3, <2>4, ProgressKept
  <2>5. ASSUME ~cut', moved' = "no", ~Running' PROVE Done'
    BY <2>1, <2>3, <2>5, DoneKept DEF AnswerInv
  <2>6. conn' \in {"kConnected", "kDisconnecting"}
    BY <2>1 DEF AnswerInv
  <2>7. ~cut' /\ moved' = "no" /\ pc' = "wait" /\ conn' = "kConnected" =>
           LineEnd' = 0 /\ request'.state \in {"kExpectRequestLine", "kExpectHeaders"}
    BY <2>1, <2>3 DEF AnswerInv
  <2> QED
    BY <2>1, <2>3, <2>4, <2>5, <2>6, <2>7, AnswerNext
<1>6. CASE Incomplete \/ BadLine \/ ParseRequestLine \/ ParseHeader \/ EndOfHeaders \/ ParseBody \/ Serve
  BY <1>4, <1>6, LineRefused, RequestLineParsed, HeaderParsed, HeadersEnd, BodyParsed, RequestServed
<1> QED
  BY <1>1, <1>2, <1>3, <1>5, <1>6 DEF Next, Parse

LEMMA AnswerStart == Init => AnswerInv
<1> SUFFICES ASSUME Init PROVE AnswerInv
  OBVIOUS
<1>1. /\ Stream = <<>> /\ Len(Stream) = 0 /\ sent = <<>> /\ Len(sent) = 0 /\ queue = <<>>
      /\ answers = <<>> /\ request = NewRequest /\ conn = "kConnected" /\ pc = "wait"
      /\ request.state = "kExpectRequestLine"
  BY DEF Init, BufferInit, Stream, NewRequest
<1> HIDE DEF Stream
<1>2. PICK off : off = [i \in 1..1 |-> 0]
  OBVIOUS
<1>3. off \in [1..1 -> Int] /\ off[1] = 0
  BY <1>2
<1>4. 1..0 = {} /\ 0 + 1 = 1
  OBVIOUS
<1>5. Laid(off)
  BY <1>1, <1>3, <1>4 DEF Laid
<1>6. Answered(0) = <<>>
  BY <1>4 DEF Answered
<1>7. Progress(off, 0)
  BY <1>1, <1>3, <1>4, <1>6 DEF Progress
<1>8. LineEnd = 0
  <2>1. BufferInv
    BY InitKeepsInv DEF Init
  <2>2. ReadableBytes(buffer) = 0
    BY <1>1, <2>1 DEF BufferInv, IndicesInBounds
  <2>3. DOMAIN Text = {}
    BY <2>2 DEF Text, Readable
  <2> QED
    BY <2>3 DEF LineEnd
<1>9. 0 \in 0..Len(sent)
  BY <1>1
<1> QED
  BY <1>1, <1>5, <1>7, <1>8, <1>9 DEF AnswerInv, Running

\* What the stream means: the requests up to the first that ends it, and that one
\* unless nothing can be answered any more.
LEMMA MeantIs ==
    ASSUME sent \in Seq(Kinds)
    PROVE  /\ (\A i \in 1..Len(sent) : ~EndsStream(sent[i])) => Meaning = Answered(Len(sent))
           /\ \A e \in 1..Len(sent) :
                 EndsStream(sent[e]) /\ (\A i \in 1..(e - 1) : ~EndsStream(sent[i])) =>
                     Meaning = Answered(IF sent[e] = "nan" THEN e - 1 ELSE e)
<1>0. DOMAIN sent = 1..Len(sent) /\ Len(sent) \in Nat
  OBVIOUS
<1>1. ASSUME \A i \in 1..Len(sent) : ~EndsStream(sent[i])
      PROVE  Meaning = Answered(Len(sent))
  <2>1. Ended = {} /\ \A i \in 1..Len(sent) : sent[i] # "nan"
    BY <1>0, <1>1 DEF Ended, EndsStream
  <2>2. Meant = 1..Len(sent)
    BY <1>0, <2>1 DEF Meant
  <2> QED
    BY <2>2 DEF Meaning, Answered
<1>2. ASSUME NEW e \in 1..Len(sent), EndsStream(sent[e]), \A i \in 1..(e - 1) : ~EndsStream(sent[i])
      PROVE  Meaning = Answered(IF sent[e] = "nan" THEN e - 1 ELSE e)
  <2>1. e \in Ended /\ Ended \subseteq 1..Len(sent)
    BY <1>0, <1>2 DEF Ended
  <2>2. \A j \in Ended : e <= j
    <3> TAKE j \in Ended
    <3>1. j \in 1..Len(sent) /\ EndsStream(sent[j])
      BY <1>0 DEF Ended
    <3>2. j \notin 1..(e - 1)
      BY <1>2, <3>1
    <3> QED
      BY <1>0, <3>1, <3>2
  <2>3. \A i \in 1..Len(sent) : (\A j \in Ended : i <= j) <=> i <= e
    <3> TAKE i \in 1..Len(sent)
    <3>1. (\A j \in Ended : i <= j) => i <= e
      BY <2>1
    <3>2. ASSUME i <= e, NEW j \in Ended PROVE i <= j
      <4>1. j \in 1..Len(sent) /\ e <= j
        BY <2>1, <2>2
      <4> QED
        BY <1>0, <3>2, <4>1
    <3> QED
      BY <3>1, <3>2
  <2>4. Meant = {i \in 1..Len(sent) : sent[i] # "nan" /\ i <= e}
    BY <1>0, <2>3 DEF Meant
  <2>5. \A i \in 1..(e - 1) : sent[i] # "nan"
    BY <1>2 DEF EndsStream
  <2>6. CASE sent[e] = "nan"
    <3>1. ASSUME NEW i \in 1..Len(sent)
          PROVE  sent[i] # "nan" /\ i <= e <=> i \in 1..(e - 1)
      <4>1. i \in 1..(e - 1) \/ i = e \/ i > e
        BY <1>0
      <4> QED
        BY <1>0, <2>5, <2>6, <4>1
    <3>2. Meant = 1..(e - 1)
      <4>1. \A i \in 1..(e - 1) : i \in 1..Len(sent)
        BY <1>0
      <4> QED
        BY <2>4, <3>1, <4>1
    <3> QED
      BY <2>6, <3>2 DEF Meaning, Answered
  <2>7. CASE sent[e] # "nan"
    <3>1. ASSUME NEW i \in 1..Len(sent)
          PROVE  sent[i] # "nan" /\ i <= e <=> i \in 1..e
      <4>1. i \in 1..(e - 1) \/ i = e \/ i > e
        BY <1>0
      <4> QED
        BY <1>0, <2>5, <2>7, <4>1
    <3>2. Meant = 1..e
      <4>1. \A i \in 1..e : i \in 1..Len(sent)
        BY <1>0
      <4> QED
        BY <2>4, <3>1, <4>1
    <3> QED
      BY <2>7, <3>2 DEF Meaning, Answered
  <2> QED
    BY <2>6, <2>7
<1> QED
  BY <1>1, <1>2

LEMMA AnsweredPrefix ==
    ASSUME NEW m \in Nat, NEW k \in Nat, m <= k PROVE IsPrefix(Answered(m), Answered(k))
<1> DEFINE S == {Expected(i) : i \in 1..k}
<1> DEFINE s == Answered(m)
<1> DEFINE t == Answered(k)
<1>1. \A i \in 1..k : Expected(i) \in S
  OBVIOUS
<1>2. \A i \in 1..m : i \in 1..k
  OBVIOUS
<1> HIDE DEF S
<1>3. /\ s \in Seq(S) /\ Len(s) = m /\ \A i \in 1..m : s[i] = Expected(i)
      /\ t \in Seq(S) /\ Len(t) = k /\ \A i \in 1..k : t[i] = Expected(i)
  BY <1>1, <1>2 DEF Answered
<1> HIDE DEF s, t
<1>4. SubSeq(s, 1, m) = SubSeq(t, 1, m)
  <2> DEFINE a == SubSeq(s, 1, m)
  <2> DEFINE b == SubSeq(t, 1, m)
  <2>1. /\ a \in Seq(S) /\ Len(a) = m /\ \A i \in 1..m : a[i] = s[i]
        /\ b \in Seq(S) /\ Len(b) = m /\ \A i \in 1..m : b[i] = t[i]
    BY <1>3
  <2> HIDE DEF a, b
  <2>2. \A i \in 1..m : a[i] = b[i]
    BY <1>2, <1>3, <2>1
  <2>3. a = b
    BY <2>1, <2>2, SeqEqual
  <2> QED
    BY <2>3 DEF a, b
<1>5. IsPrefix(s, t)
  BY <1>3, <1>4 DEF IsPrefix
<1> QED
  BY <1>5 DEF s, t

\* What is answered before any request that ends the stream.
LEMMA AnsweredIsMeant ==
    ASSUME sent \in Seq(Kinds), NEW m \in 0..Len(sent), \A i \in 1..m : ~EndsStream(sent[i])
    PROVE  /\ IsPrefix(Answered(m), Meaning)
           /\ m = Len(sent) => Answered(m) = Meaning
<1>0. Len(sent) \in Nat /\ m \in Nat
  OBVIOUS
<1>1. CASE \A i \in 1..Len(sent) : ~EndsStream(sent[i])
  BY <1>0, <1>1, MeantIs, AnsweredPrefix
<1>2. CASE ~\A i \in 1..Len(sent) : ~EndsStream(sent[i])
  <2> DEFINE T == {i \in 1..Len(sent) : EndsStream(sent[i])}
  <2>1. T \subseteq Nat /\ T # {}
    BY <1>0, <1>2
  <2>2. PICK e \in T : \A y \in T : e <= y
    <3> HIDE DEF T
    <3> QED
      BY <2>1, LeastNatural
  <2>3. e \in 1..Len(sent) /\ EndsStream(sent[e])
    OBVIOUS
  <2>4. \A i \in 1..(e - 1) : ~EndsStream(sent[i])
    <3> SUFFICES ASSUME NEW i \in 1..(e - 1), EndsStream(sent[i]) PROVE FALSE
      OBVIOUS
    <3>1. i \in T
      BY <1>0, <2>3
    <3> QED
      BY <2>2, <2>3, <3>1
  <2>5. e > m
    BY <1>0, <2>3
  <2>6. PICK k : k = IF sent[e] = "nan" THEN e - 1 ELSE e
    OBVIOUS
  <2>7. k \in Nat /\ m <= k /\ m # Len(sent)
    BY <1>0, <2>3, <2>5, <2>6
  <2>8. Meaning = Answered(k)
    BY <2>3, <2>4, <2>6, MeantIs
  <2> QED
    BY <1>0, <2>7, <2>8, AnsweredPrefix
<1> QED
  BY <1>1, <1>2

LEMMA AnswersAreThose == ConnInv /\ AnswerInv => AnswersFollowStream
<1> SUFFICES ASSUME ConnInv, AnswerInv, ~cut, moved = "no"
             PROVE  /\ IsPrefix(answers, Meaning)
                    /\ pc = "wait" /\ wire = <<>> => answers = Meaning
  BY DEF AnswersFollowStream
<1>1. sent \in Seq(Kinds) /\ Len(sent) \in Nat
  BY TextIs
<1>2. CASE Running
  <2>1. PICK off : Laid(off) /\ \E m \in 0..Len(sent) : Progress(off, m)
    BY <1>2 DEF AnswerInv, Running, Reading
  <2>2. PICK m \in 0..Len(sent) : Progress(off, m)
    BY <2>1
  <2>3. answers = Answered(m) /\ \A i \in 1..m : ~EndsStream(sent[i])
    BY <1>2, <2>2 DEF Progress, Running
  <2>4. ASSUME pc = "wait", wire = <<>> PROVE m = Len(sent)
    <3>1. LineEnd = 0 /\ request.state \in {"kExpectRequestLine", "kExpectHeaders"}
      BY <1>2, <2>4 DEF AnswerInv, Running
    <3> SUFFICES ASSUME m < Len(sent) PROVE FALSE
      BY <1>1
    <3> DEFINE n == m + 1
    <3>2. n \in 1..Len(sent) /\ sent[n] \in Kinds
      BY <2>1, LaidIs
    <3>3. Len(Lines(sent[n])) \in 1..3
      BY <3>2, LineFacts
    <3>4. \E l \in 0..(Len(Lines(sent[n])) - 1) : off[n] = 0 - (2 * l)
      <4>1. CASE request.state = "kExpectRequestLine"
        <5>1. off[n] = 0 - (2 * 0)
          BY <2>2, <4>1, ProgressCases
        <5>2. 0 \in 0..(Len(Lines(sent[n])) - 1)
          <6> DEFINE len == Len(Lines(sent[n]))
          <6>1. len \in 1..3
            BY <3>3
          <6> HIDE DEF len
          <6>2. 0 \in 0..(len - 1)
            BY <6>1
          <6> QED
            BY <6>2 DEF len
        <5> QED
          BY <5>1, <5>2
      <4>2. CASE request.state = "kExpectHeaders"
        <5>1. PICK l \in 1..(Len(Lines(sent[n])) - 1) : off[n] = 0 - (2 * l)
          BY <2>2, <4>2, ProgressCases DEF InLines
        <5>2. l \in 0..(Len(Lines(sent[n])) - 1)
          BY <3>3
        <5> QED
          BY <5>1, <5>2
      <4> QED
        BY <3>1, <4>1, <4>2
    <3>5. PICK l \in 0..(Len(Lines(sent[n])) - 1) : off[n] = 0 - (2 * l)
      BY <3>4
    <3>6. wire # <<>>
      BY <2>1, <3>1, <3>2, <3>5, NextLine
    <3> QED
      BY <2>4, <3>6
  <2> QED
    BY <1>1, <2>3, <2>4, AnsweredIsMeant
<1>3. CASE ~Running
  <2>1. PICK e \in 1..Len(sent) :
           /\ EndsStream(sent[e]) /\ \A i \in 1..(e - 1) : ~EndsStream(sent[i])
           /\ answers = Answered(IF sent[e] = "nan" THEN e - 1 ELSE e)
    BY <1>3 DEF AnswerInv, Done
  <2>2. answers = Meaning
    BY <1>1, <2>1, MeantIs
  <2>3. PICK k : k = IF sent[e] = "nan" THEN e - 1 ELSE e
    OBVIOUS
  <2>4. k \in Nat /\ k <= k /\ answers = Answered(k)
    BY <1>1, <2>1, <2>3
  <2>5. IsPrefix(Answered(k), Answered(k))
    BY <2>4, AnsweredPrefix
  <2> QED
    BY <2>2, <2>4, <2>5
<1> QED
  BY <1>2, <1>3

\* Whatever requests clients send, wherever the network cuts the stream and whether TLS
\* is used: as long as no body was cut and makeSpace moved no byte, the answers are
\* those of the stream, in its order, and when everything has arrived none is missing.
THEOREM AnswersAreMeant == Spec => []AnswersFollowStream
<1>1. Init => ConnInv /\ OrderInv /\ AnswerInv
  BY InitConn, OrderInit, AnswerStart
<1>2. ConnInv /\ [Next]_vars => ConnInv'
  BY ConnStep
<1>3. ConnInv /\ OrderInv /\ [Next]_vars => OrderInv'
  BY OrderStep
<1>4. ConnInv /\ OrderInv /\ AnswerInv /\ [Next]_vars => AnswerInv'
  BY AnswerStep
<1>5. ConnInv /\ AnswerInv => AnswersFollowStream
  BY AnswersAreThose
<1> QED
  BY <1>1, <1>2, <1>3, <1>4, <1>5, PTL DEF Spec

-----------------------------------------------------------------------------
(* The configuration: what Config::load and the loop over [routes] have    *)
(* made of the lines read so far.                                          *)

LEMMA RankIs ==
    ASSUME NEW k \in ToSet(KeyOrder), NEW j \in ToSet(KeyOrder)
    PROVE  Rank(k) \in Nat /\ (Rank(k) = Rank(j) => k = j)
<1>1. DOMAIN KeyOrder \subseteq Nat
  BY KeyOrderAssumption DEF KeyOrderAssumption
<1>2. \A x \in ToSet(KeyOrder) : \E i \in DOMAIN KeyOrder : KeyOrder[i] = x
  BY DEF ToSet
<1>3. \A x \in ToSet(KeyOrder) : Rank(x) \in DOMAIN KeyOrder /\ KeyOrder[Rank(x)] = x
  BY <1>2 DEF Rank
<1> QED
  BY <1>1, <1>3

\* The lines that were read, the headers and the entries of [routes] among them.
Seen == Len(ini) - Len(file)
SeenHeaders == {h \in Headers : h <= Seen}
SeenEntries == {i \in EntryLines(RoutesSection) : i <= Seen}
IsLast(i, lines) == \A k \in lines : KeyOf(FileLine[k]) = KeyOf(FileLine[i]) => k <= i

FileInv ==
    /\ ini \in Files
    /\ Seen \in 0..Len(ini)
    /\ file = SubSeq(ini, Seen + 1, Len(ini))
SectionInv ==
    \/ SeenHeaders = {} /\ section = <<>>
    \/ \E h \in SeenHeaders :
          (\A g \in SeenHeaders : g <= h) /\ section = NameOf(FileLine[h])
Given == SectionOf(RoutesSection)
EntriesInv ==
    /\ \A i \in SeenEntries : KeyOf(FileLine[i]) \in DOMAIN Given
    /\ \A k \in DOMAIN Given : \E i \in SeenEntries :
          /\ KeyOf(FileLine[i]) = k /\ Given[k] = ValueOf(FileLine[i])
          /\ IsLast(i, SeenEntries)
LoadInv == FileInv /\ SectionInv /\ EntriesInv

LEMMA IniIs == ASSUME ini \in Files
               PROVE  /\ ini \in Seq(ToSet(ini)) /\ Len(ini) \in Nat
                      /\ DOMAIN FileLine = 1..Len(ini)
                      /\ \A i \in 1..Len(ini) : FileLine[i] = Trim(ini[i])
                      /\ Headers \subseteq 1..Len(ini)
                      /\ \A s : EntryLines(s) \subseteq 1..Len(ini)
<1>1. ini \in Seq(ToSet(ini))
  BY FilesAssumption DEF FilesAssumption
<1>2. Len(ini) \in Nat /\ DOMAIN ini = 1..Len(ini)
  BY <1>1
<1>3. DOMAIN FileLine = 1..Len(ini) /\ \A i \in 1..Len(ini) : FileLine[i] = Trim(ini[i])
  BY <1>2 DEF FileLine
<1> QED
  BY <1>1, <1>2, <1>3 DEF Headers, EntryLines

\* The file does not change.
LEMMA FileStays ==
    ASSUME UNCHANGED ini
    PROVE  /\ FileLine' = FileLine /\ Headers' = Headers
           /\ EntryLines(RoutesSection)' = EntryLines(RoutesSection)
           /\ \A i, lines : IsLast(i, lines)' = IsLast(i, lines)
<1>1. FileLine' = FileLine
  BY DEF FileLine
<1>2. Headers' = Headers
  BY <1>1 DEF Headers
<1>3. EntryLines(RoutesSection)' = EntryLines(RoutesSection)
  BY <1>1, <1>2 DEF EntryLines, InSection
<1> QED
  BY <1>1, <1>2, <1>3 DEF IsLast

\* The line that is read next.
LEMMA LineRead ==
    ASSUME FileInv, file # <<>>, file' = Tail(file), UNCHANGED ini, NEW n, n = Seen + 1
    PROVE  /\ n \in 1..Len(ini) /\ Trim(Head(file)) = FileLine[n]
           /\ FileInv' /\ Seen' = n
           /\ SeenHeaders' = IF n \in Headers THEN SeenHeaders \cup {n} ELSE SeenHeaders
           /\ SeenEntries' = IF n \in EntryLines(RoutesSection) THEN SeenEntries \cup {n} ELSE SeenEntries
<1>1. /\ ini \in Seq(ToSet(ini)) /\ Len(ini) \in Nat
      /\ \A i \in 1..Len(ini) : FileLine[i] = Trim(ini[i])
      /\ Headers \subseteq 1..Len(ini) /\ EntryLines(RoutesSection) \subseteq 1..Len(ini)
  BY IniIs DEF FileInv
<1>2. PICK seen : seen = Seen
  OBVIOUS
<1>3. seen \in 0..Len(ini) /\ file = SubSeq(ini, seen + 1, Len(ini)) /\ n = seen + 1
  BY <1>2 DEF FileInv
<1>4. Len(file) = Len(ini) - seen /\ seen < Len(ini)
  BY <1>1, <1>3
<1>5. n \in 1..Len(ini) /\ Head(file) = ini[n]
  BY <1>1, <1>3, <1>4
<1>6. Tail(file) = SubSeq(ini, n + 1, Len(ini)) /\ Len(Tail(file)) = Len(ini) - n
  BY <1>1, <1>3, <1>4, SMTT(30), ZenonT(40)
<1>7. Seen' = n
  BY <1>1, <1>5, <1>6 DEF Seen
<1>8. FileInv'
  BY <1>1, <1>5, <1>6, <1>7 DEF FileInv
<1>9. /\ SeenHeaders' = {h \in Headers : h <= n} /\ SeenHeaders = {h \in Headers : h <= seen}
      /\ SeenEntries' = {i \in EntryLines(RoutesSection) : i <= n}
      /\ SeenEntries = {i \in EntryLines(RoutesSection) : i <= seen}
  BY <1>2, <1>7, FileStays DEF SeenHeaders, SeenEntries
<1>10. SeenHeaders' = IF n \in Headers THEN SeenHeaders \cup {n} ELSE SeenHeaders
  <2>1. \A h \in Headers : h <= n <=> h <= seen \/ h = n
    BY <1>1, <1>3
  <2> QED
    BY <1>9, <2>1
<1>11. SeenEntries' = IF n \in EntryLines(RoutesSection) THEN SeenEntries \cup {n} ELSE SeenEntries
  BY <1>1, <1>3, <1>9
<1> QED
  BY <1>1, <1>5, <1>7, <1>8, <1>10, <1>11

\* An entry is of the section that is current when it is read.
LEMMA EntryOfSection ==
    ASSUME FileInv, SectionInv, NEW n, n = Seen + 1, n \in 1..Len(ini), n \notin Headers,
           ~Ignored(FileLine[n])
    PROVE  n \in EntryLines(RoutesSection) <=> IsEntry(FileLine[n]) /\ section = RoutesSection
<1>1. Headers \subseteq 1..Len(ini) /\ Len(ini) \in Nat /\ DOMAIN FileLine = 1..Len(ini)
  BY IniIs DEF FileInv
<1>2. Seen \in Nat
  BY <1>1 DEF FileInv
<1>3. \A h \in Headers : h < n <=> h \in SeenHeaders
  BY <1>1, <1>2 DEF SeenHeaders
<1>4. InSection(n, RoutesSection) <=>
        \E h \in SeenHeaders : (\A g \in SeenHeaders : g <= h) /\ NameOf(FileLine[h]) = RoutesSection
  BY <1>3 DEF InSection, SeenHeaders
<1>5. \A g, h \in SeenHeaders : g <= h /\ h <= g => g = h
  BY <1>1 DEF SeenHeaders
<1>6. RoutesSection # <<>>
  BY DEF RoutesSection
<1>7. InSection(n, RoutesSection) <=> section = RoutesSection
  BY <1>4, <1>5, <1>6 DEF SectionInv
<1> QED
  BY <1>1, <1>7 DEF EntryLines

LEMMA SectionReplaced ==
    ASSUME NEW s, NEW y, data' = With(data, s, y)
    PROVE  /\ s = RoutesSection => Given' = y
           /\ s # RoutesSection => Given' = Given
<1>1. DOMAIN data' = DOMAIN data \cup {s} /\ data'[s] = y
  BY DEF With
<1>2. \A z \in DOMAIN data : z # s => data'[z] = data[z]
  BY DEF With
<1>3. Given' = IF RoutesSection \in DOMAIN data' THEN data'[RoutesSection] ELSE <<>>
  BY DEF Given, SectionOf
<1>4. Given = IF RoutesSection \in DOMAIN data THEN data[RoutesSection] ELSE <<>>
  BY DEF Given, SectionOf
<1> QED
  BY <1>1, <1>2, <1>3, <1>4

LEMMA LineLoaded ==
    ASSUME LoadInv, ReadLine, UNCHANGED ini
    PROVE  LoadInv'
<1>0. PICK n : n = Seen + 1
  OBVIOUS
<1> DEFINE line == FileLine[n]
<1>1. FileInv /\ SectionInv /\ EntriesInv /\ file # <<>> /\ file' = Tail(file)
  BY DEF LoadInv, ReadLine
<1>2. /\ n \in 1..Len(ini) /\ Trim(Head(file)) = line
      /\ FileInv' /\ Seen' = n
      /\ SeenHeaders' = IF n \in Headers THEN SeenHeaders \cup {n} ELSE SeenHeaders
      /\ SeenEntries' = IF n \in EntryLines(RoutesSection) THEN SeenEntries \cup {n} ELSE SeenEntries
  BY <1>0, <1>1, LineRead
<1>3. /\ FileLine' = FileLine /\ \A i, lines : IsLast(i, lines)' = IsLast(i, lines)
  BY FileStays
<1>4. /\ DOMAIN FileLine = 1..Len(ini) /\ Len(ini) \in Nat /\ Seen \in Nat
      /\ Headers \subseteq 1..Len(ini) /\ EntryLines(RoutesSection) \subseteq 1..Len(ini)
  BY <1>1, IniIs DEF FileInv
<1>5. n \in Headers <=> ~Ignored(line) /\ IsHeader(line)
  BY <1>2, <1>4 DEF Headers
<1>6. n \in EntryLines(RoutesSection) => ~Ignored(line) /\ n \notin Headers
  BY DEF EntryLines
<1>7. \/ Ignored(line) /\ UNCHANGED <<section, data>>
      \/ ~Ignored(line) /\ IsHeader(line) /\ ReadHeader(line)
      \/ ~Ignored(line) /\ ~IsHeader(line) /\ ReadEntry(line)
  BY <1>2 DEF ReadLine
<1>8. \A h \in SeenHeaders : h < n
  BY <1>0, <1>4 DEF SeenHeaders
<1>9. \A i \in SeenEntries : i < n
  BY <1>0, <1>4 DEF SeenEntries
<1> HIDE DEF line
<1>10. SectionInv'
  <2>1. CASE n \in Headers
    <3>1. section' = NameOf(FileLine'[n]) /\ n \in SeenHeaders'
      BY <1>2, <1>3, <1>5, <1>7, <2>1 DEF ReadHeader, line
    <3>2. \A g \in SeenHeaders' : g <= n
      BY <1>2, <1>4, <1>8, <2>1 DEF SeenHeaders
    <3> QED
      BY <3>1, <3>2 DEF SectionInv
  <2>2. CASE n \notin Headers
    <3>1. section' = section /\ SeenHeaders' = SeenHeaders
      BY <1>2, <1>5, <1>7, <2>2 DEF ReadEntry
    <3> QED
      BY <1>1, <1>3, <3>1 DEF SectionInv
  <2> QED
    BY <2>1, <2>2
<1>11. CASE n \in EntryLines(RoutesSection)
  <2> DEFINE key == KeyOf(line)
  <2>1. IsEntry(line) /\ section = RoutesSection /\ ~Ignored(line) /\ n \notin Headers
    BY <1>0, <1>1, <1>2, <1>6, <1>11, EntryOfSection DEF line
  <2>2. data' = With(data, RoutesSection, With(Given, key, ValueOf(line)))
    <3>1. RoutesSection # <<>>
      BY DEF RoutesSection
    <3> QED
      BY <1>5, <1>7, <2>1, <3>1 DEF ReadEntry, Given
  <2>3. Given' = With(Given, key, ValueOf(line))
    BY <2>2, SectionReplaced
  <2> HIDE DEF key
  <2>4. /\ DOMAIN Given' = DOMAIN Given \cup {key} /\ Given'[key] = ValueOf(line)
        /\ \A k \in DOMAIN Given : k # key => Given'[k] = Given[k]
    BY <2>3 DEF With
  <2>5. SeenEntries' = SeenEntries \cup {n}
    BY <1>2, <1>11
  <2>6. \A i \in SeenEntries' : KeyOf(FileLine'[i]) \in DOMAIN Given'
    BY <1>1, <1>3, <2>4, <2>5 DEF EntriesInv, key, line
  <2>7. ASSUME NEW k \in DOMAIN Given'
        PROVE  \E i \in SeenEntries' :
                  /\ KeyOf(FileLine'[i]) = k /\ Given'[k] = ValueOf(FileLine'[i])
                  /\ IsLast(i, SeenEntries)'
    <3>1. CASE k = key
      <4>1. IsLast(n, SeenEntries')
        BY <1>2, <1>9, <2>5 DEF IsLast, SeenEntries
      <4>2. IsLast(n, SeenEntries)'
        BY <1>3, <4>1 DEF IsLast
      <4> QED
        BY <1>3, <2>4, <2>5, <3>1, <4>2 DEF key, line
    <3>2. CASE k # key
      <4>1. k \in DOMAIN Given /\ Given'[k] = Given[k]
        BY <2>4, <3>2
      <4>2. PICK i \in SeenEntries : KeyOf(FileLine[i]) = k /\ Given[k] = ValueOf(FileLine[i])
                                     /\ IsLast(i, SeenEntries)
        BY <1>1, <4>1 DEF EntriesInv
      <4>3. IsLast(i, SeenEntries')
        BY <2>5, <3>2, <4>2 DEF IsLast, key, line
      <4>4. IsLast(i, SeenEntries)'
        BY <1>3, <4>3 DEF IsLast
      <4> QED
        BY <1>3, <2>5, <4>1, <4>2, <4>4
    <3> QED
      BY <3>1, <3>2
  <2> QED
    BY <1>2, <1>10, <2>6, <2>7 DEF LoadInv, EntriesInv
<1>12. CASE n \notin EntryLines(RoutesSection)
  <2>1. SeenEntries' = SeenEntries
    BY <1>2, <1>12
  <2>2. Given' = Given
    <3>1. CASE data' = data
      BY <3>1 DEF Given, SectionOf
    <3>2. CASE data' # data
      <4>1. ~Ignored(line) /\ n \notin Headers /\ ReadEntry(line) /\ IsEntry(line)
        BY <1>5, <1>7, <3>2 DEF ReadHeader, ReadEntry
      <4>2. section # RoutesSection
        BY <1>0, <1>1, <1>2, <1>12, <4>1, EntryOfSection DEF line
      <4>3. PICK y : data' = With(data, section, y)
        BY <3>2, <4>1 DEF ReadEntry
      <4> QED
        BY <4>2, <4>3, SectionReplaced
    <3> QED
      BY <3>1, <3>2
  <2>3. EntriesInv'
    <3>1. \A i \in SeenEntries' : KeyOf(FileLine'[i]) \in DOMAIN Given'
      BY <1>1, <1>3, <2>1, <2>2 DEF EntriesInv
    <3>2. ASSUME NEW k \in DOMAIN Given'
          PROVE  \E i \in SeenEntries' :
                    /\ KeyOf(FileLine'[i]) = k /\ Given'[k] = ValueOf(FileLine'[i])
                    /\ IsLast(i, SeenEntries)'
      <4>1. PICK i \in SeenEntries : KeyOf(FileLine[i]) = k /\ Given[k] = ValueOf(FileLine[i])
                                     /\ IsLast(i, SeenEntries)
        BY <1>1, <2>2 DEF EntriesInv
      <4>2. IsLast(i, SeenEntries)'
        BY <1>3, <2>1, <4>1 DEF IsLast
      <4> QED
        BY <1>3, <2>1, <2>2, <4>1, <4>2
    <3> QED
      BY <3>1, <3>2 DEF EntriesInv
  <2> QED
    BY <1>2, <1>10, <2>3 DEF LoadInv
<1> QED
  BY <1>11, <1>12

-----------------------------------------------------------------------------
(* The routes: those registered so far are the ones of the names that come *)
(* first.                                                                  *)

Route(k) == RouteOf(Given[k])
Registered == DOMAIN Given \ names
Placed(k, m, p) ==
    IsRoute(Route(k)) /\ Route(k).method = m /\ Route(k).path = p /\ IsStatic(p)
IsPattern(k) ==
    IsRoute(Route(k)) /\ ~IsStatic(Route(k).path) /\ Compiles(Route(k).path)

\* Of the routes of D the one with the last name has the exact path.
HeldAt(D, m, p) ==
    /\ \A k \in D : Placed(k, m, p) => IsExact(m, p)
    /\ IsExact(m, p) =>
          \E k \in D : /\ Placed(k, m, p) /\ statics[p][m] = Route(k).handler
                       /\ \A j \in D : Placed(j, m, p) => Rank(j) <= Rank(k)
\* The patterns of D are tried in the order of their names.
InOrder(D, keys) ==
    /\ keys \in [1..Len(regexes) -> D]
    /\ \A i \in 1..Len(regexes) : IsPattern(keys[i]) /\ regexes[i] = Route(keys[i])
    /\ \A i, j \in 1..Len(regexes) : i < j => Rank(keys[i]) < Rank(keys[j])
    /\ \A k \in D : IsPattern(k) => \E i \in 1..Len(regexes) : keys[i] = k
PatternsOf(D) ==
    /\ regexes \in Seq({Route(k) : k \in DOMAIN Given})
    /\ \E keys : InOrder(D, keys)

IsDevTools(m, p) == m = DevTools.method /\ p = DevTools.path
RegisterInv ==
    /\ phase = "load" => names = {} /\ statics = <<>> /\ regexes = <<>>
    /\ phase # "load" => file = <<>>
    /\ phase = "register" =>
          /\ names \subseteq DOMAIN Given
          /\ \A k \in Registered, j \in names : Rank(k) < Rank(j)
          /\ \A m, p : HeldAt(Registered, m, p)
          /\ PatternsOf(Registered)
    /\ phase = "serve" =>
          /\ \A m, p : ~IsDevTools(m, p) => HeldAt(DOMAIN Given, m, p)
          /\ IsExact(DevTools.method, DevTools.path)
          /\ statics[DevTools.path][DevTools.method] = DevTools.handler
          /\ PatternsOf(DOMAIN Given)
    /\ phase \in {"load", "register", "serve"}
RouteInv == LoadInv /\ RegisterInv

LEMMA KeysKnown ==
    ASSUME LoadInv PROVE DOMAIN Given \subseteq ToSet(KeyOrder)
<1> SUFFICES ASSUME NEW k \in DOMAIN Given PROVE k \in ToSet(KeyOrder)
  OBVIOUS
<1>1. PICK i \in SeenEntries : KeyOf(FileLine[i]) = k
  BY DEF LoadInv, EntriesInv
<1>2. i \in EntryLines(RoutesSection)
  BY DEF SeenEntries
<1>3. /\ i \in DOMAIN ini /\ FileLine[i] = Trim(ini[i])
      /\ ~Ignored(FileLine[i]) /\ ~IsHeader(FileLine[i]) /\ IsEntry(FileLine[i])
  BY <1>2 DEF EntryLines, FileLine, Headers
<1> QED
  BY <1>1, <1>3, FilesAssumption DEF FilesAssumption, LoadInv, FileInv

\* What addRoute does to the exact paths and to the patterns.
LEMMA StaticAdded ==
    ASSUME NEW r, AddRoute(r), IsStatic(r.path)
    PROVE  /\ UNCHANGED regexes
           /\ IsExact(r.method, r.path)' /\ statics'[r.path][r.method] = r.handler
           /\ \A m, p : ~(m = r.method /\ p = r.path) =>
                 /\ IsExact(m, p)' = IsExact(m, p)
                 /\ IsExact(m, p) => statics'[p][m] = statics[p][m]
<1>1. UNCHANGED regexes /\ statics' = With(statics, r.path, With(HandlersAt(r.path), r.method, r.handler))
  BY DEF AddRoute
<1> DEFINE h == With(HandlersAt(r.path), r.method, r.handler)
<1>2. /\ DOMAIN h = DOMAIN HandlersAt(r.path) \cup {r.method} /\ h[r.method] = r.handler
      /\ \A m \in DOMAIN HandlersAt(r.path) : m # r.method => h[m] = HandlersAt(r.path)[m]
  BY DEF With
<1>3. /\ DOMAIN statics' = DOMAIN statics \cup {r.path} /\ statics'[r.path] = h
      /\ \A p \in DOMAIN statics : p # r.path => statics'[p] = statics[p]
  <2> HIDE DEF h
  <2> QED
    BY <1>1 DEF With, h
<1> HIDE DEF h
<1>4. IsExact(r.method, r.path)' /\ statics'[r.path][r.method] = r.handler
  BY <1>2, <1>3 DEF IsExact
<1>5. HandlersAt(r.path) = IF r.path \in DOMAIN statics THEN statics[r.path] ELSE <<>>
  BY DEF HandlersAt
<1>6. ASSUME NEW m, NEW p, ~(m = r.method /\ p = r.path)
      PROVE  /\ IsExact(m, p)' = IsExact(m, p)
             /\ IsExact(m, p) => statics'[p][m] = statics[p][m]
  <2>1. CASE p # r.path
    BY <1>3, <2>1 DEF IsExact
  <2>2. CASE p = r.path
    <3>1. m # r.method
      BY <1>6, <2>2
    <3>2. IsExact(m, p)' <=> m \in DOMAIN HandlersAt(r.path)
      BY <1>2, <1>3, <2>2, <3>1 DEF IsExact
    <3>3. IsExact(m, p) <=> m \in DOMAIN HandlersAt(r.path)
      BY <1>5, <2>2 DEF IsExact
    <3>4. IsExact(m, p) => statics'[p][m] = statics[p][m]
      BY <1>2, <1>3, <1>5, <2>2, <3>1, <3>3 DEF IsExact
    <3> QED
      BY <3>2, <3>3, <3>4 DEF IsExact
  <2> QED
    BY <2>1, <2>2
<1> QED
  BY <1>1, <1>4, <1>6

LEMMA HeldKept ==
    ASSUME UNCHANGED <<statics, data>>, NEW D, NEW m, NEW p, HeldAt(D, m, p)
    PROVE  HeldAt(D, m, p)'
  BY DEF HeldAt, IsExact, Placed, Route, Given, SectionOf

LEMMA PatternsKept ==
    ASSUME UNCHANGED <<regexes, data>>, NEW D, PatternsOf(D)
    PROVE  PatternsOf(D)'
  BY DEF PatternsOf, InOrder, IsPattern, Route, Given, SectionOf

LEMMA RouteRegistered ==
    ASSUME RouteInv, RegisterRoute, UNCHANGED ini
    PROVE  RegisterInv'
<1>1. /\ phase = "register" /\ UNCHANGED <<file, section, data, phase>>
  BY DEF RegisterRoute
<1>2. PICK key \in names :
         /\ \A k \in names : Rank(key) <= Rank(k)
         /\ LET r == RouteOf(data[RoutesSection][key]) IN
            IF IsRoute(r) THEN AddRoute(r) ELSE UNCHANGED <<statics, regexes>>
         /\ names' = names \ {key}
  BY DEF RegisterRoute
<1>3. PICK G : G = Given
  OBVIOUS
<1>4. Given' = G /\ (\A k : Route(k)' = Route(k)) /\ \A k : IsPattern(k)' = IsPattern(k)
  BY <1>1, <1>3 DEF Given, SectionOf, Route, IsPattern
<1>5. \A k, m, p : Placed(k, m, p)' = Placed(k, m, p)
  BY <1>4 DEF Placed
<1>6. /\ names \subseteq DOMAIN G
      /\ \A k \in DOMAIN G \ names, j \in names : Rank(k) < Rank(j)
      /\ \A m, p : HeldAt(DOMAIN G \ names, m, p)
      /\ PatternsOf(DOMAIN G \ names)
  BY <1>1, <1>3 DEF RouteInv, RegisterInv, Registered
<1>7. DOMAIN G \subseteq ToSet(KeyOrder)
  BY <1>3, KeysKnown DEF RouteInv
<1>8. PICK D : D = DOMAIN G \ names
  OBVIOUS
<1>9. DOMAIN G \ names' = D \cup {key} /\ key \notin D /\ key \in DOMAIN G /\ D \subseteq DOMAIN G
  BY <1>2, <1>6, <1>8
<1>10. \A k \in D : Rank(k) < Rank(key)
  BY <1>2, <1>6, <1>8
<1>11. \A k \in D \cup {key} : Rank(k) \in Nat
  BY <1>7, <1>9, RankIs
<1>12. ASSUME NEW k \in D \cup {key}, NEW j \in names' PROVE Rank(k) < Rank(j)
  <2>1. j \in names /\ j # key /\ Rank(key) <= Rank(j)
    BY <1>2
  <2>2. Rank(key) # Rank(j) /\ Rank(j) \in Nat
    BY <1>6, <1>7, <2>1, RankIs
  <2> QED
    BY <1>6, <1>8, <1>11, <2>1, <2>2
<1>13. IF IsRoute(Route(key)) THEN AddRoute(Route(key)) ELSE UNCHANGED <<statics, regexes>>
  <2>1. RoutesSection \in DOMAIN data => Given = data[RoutesSection]
    BY DEF Given, SectionOf
  <2>2. RoutesSection \in DOMAIN data
    BY <1>3, <1>9 DEF Given, SectionOf
  <2> QED
    BY <1>2, <2>1, <2>2 DEF Route
<1>14. PICK r : r = Route(key)
  OBVIOUS
<1>15. \A m, p : HeldAt(D \cup {key}, m, p)'
  <2> SUFFICES ASSUME NEW m, NEW p PROVE HeldAt(D \cup {key}, m, p)'
    OBVIOUS
  <2>0. HeldAt(D, m, p)
    BY <1>6, <1>8
  <2>1. CASE Placed(key, m, p)
    <3>1. IsRoute(r) /\ r.method = m /\ r.path = p /\ IsStatic(p)
      BY <1>14, <2>1 DEF Placed
    <3>2. IsExact(m, p)' /\ statics'[p][m] = r.handler
      BY <1>13, <1>14, <3>1, StaticAdded
    <3>3. \A j \in D \cup {key} : Rank(j) <= Rank(key)
      BY <1>9, <1>10, <1>11
    <3> QED
      BY <1>4, <1>5, <1>14, <2>1, <3>2, <3>3 DEF HeldAt
  <2>2. CASE ~Placed(key, m, p)
    <3>1. /\ IsExact(m, p)' = IsExact(m, p)
          /\ IsExact(m, p) => statics'[p][m] = statics[p][m]
      <4>1. CASE IsRoute(r) /\ IsStatic(r.path)
        <5>1. ~(m = r.method /\ p = r.path)
          BY <1>14, <2>2, <4>1 DEF Placed
        <5> QED
          BY <1>13, <1>14, <4>1, <5>1, StaticAdded
      <4>2. CASE ~(IsRoute(r) /\ IsStatic(r.path))
        <5>1. UNCHANGED statics
          BY <1>13, <1>14, <4>2 DEF AddRoute
        <5> QED
          BY <5>1 DEF IsExact
      <4> QED
        BY <4>1, <4>2
    <3> QED
      BY <1>4, <1>5, <2>0, <2>2, <3>1 DEF HeldAt
  <2> QED
    BY <2>1, <2>2
<1>16. PatternsOf(D \cup {key})'
  <2> DEFINE S == {Route(k) : k \in DOMAIN G}
  <2>1. S = {Route(k) : k \in DOMAIN Given} /\ S = {Route(k)' : k \in DOMAIN Given'} /\ r \in S
    BY <1>3, <1>4, <1>9, <1>14
  <2>2. regexes \in Seq(S) /\ Len(regexes) \in Nat
    <3>1. regexes \in Seq({Route(k) : k \in DOMAIN Given})
      BY <1>6 DEF PatternsOf
    <3>2. regexes \in Seq(S)
      BY <2>1, <3>1, Zenon
    <3> HIDE DEF S
    <3> QED
      BY <3>2
  <2> HIDE DEF S
  <2>3. PICK keys : InOrder(D, keys)
    BY <1>6, <1>8 DEF PatternsOf
  <2>4. /\ keys \in [1..Len(regexes) -> D]
        /\ \A i \in 1..Len(regexes) : IsPattern(keys[i]) /\ regexes[i] = Route(keys[i])
        /\ \A i, j \in 1..Len(regexes) : i < j => Rank(keys[i]) < Rank(keys[j])
        /\ \A k \in D : IsPattern(k) => \E i \in 1..Len(regexes) : keys[i] = k
    BY <2>3 DEF InOrder
  <2>5. CASE IsPattern(key)
    <3>1. IsRoute(r) /\ ~IsStatic(r.path) /\ Compiles(r.path)
      BY <1>14, <2>5 DEF IsPattern
    <3>2. regexes' = Append(regexes, r)
      BY <1>13, <1>14, <3>1 DEF AddRoute
    <3>3. PICK n : n = Len(regexes)
      OBVIOUS
    <3>4. /\ regexes' \in Seq(S) /\ Len(regexes') = n + 1 /\ n \in Nat
          /\ regexes'[n + 1] = r /\ \A i \in 1..n : regexes'[i] = regexes[i]
      BY <2>1, <2>2, <3>2, <3>3
    <3>5. PICK k2 : k2 = [i \in 1..(n + 1) |-> IF i = n + 1 THEN key ELSE keys[i]]
      OBVIOUS
    <3>6. /\ k2 \in [1..(n + 1) -> D \cup {key}] /\ k2[n + 1] = key
          /\ \A i \in 1..n : k2[i] = keys[i] /\ keys[i] \in D
      BY <2>4, <3>3, <3>4, <3>5
    <3>7. \A i \in 1..(n + 1) : i \in 1..n \/ i = n + 1
      BY <3>4
    <3>8. \A i \in 1..(n + 1) : IsPattern(k2[i]) /\ regexes'[i] = Route(k2[i])
      BY <1>14, <2>4, <2>5, <3>3, <3>4, <3>6, <3>7
    <3>9. ASSUME NEW i \in 1..(n + 1), NEW j \in 1..(n + 1), i < j
          PROVE  Rank(k2[i]) < Rank(k2[j])
      <4>1. i \in 1..n
        BY <3>4, <3>9
      <4>2. CASE j \in 1..n
        BY <2>4, <3>3, <3>6, <3>9, <4>1, <4>2
      <4>3. CASE j = n + 1
        BY <1>10, <3>6, <4>1, <4>3
      <4> QED
        BY <3>7, <4>2, <4>3
    <3>10. ASSUME NEW k \in D \cup {key}, IsPattern(k)
           PROVE  \E i \in 1..(n + 1) : k2[i] = k
      <4>1. CASE k = key
        BY <3>4, <3>6, <4>1
      <4>2. CASE k \in D
        <5>1. PICK i \in 1..n : keys[i] = k
          BY <2>4, <3>3, <3>10, <4>2
        <5> QED
          BY <3>4, <3>6, <5>1
      <4> QED
        BY <4>1, <4>2
    <3>11. InOrder(D \cup {key}, k2)'
      BY <1>4, <3>4, <3>6, <3>8, <3>9, <3>10 DEF InOrder
    <3> QED
      BY <2>1, <3>4, <3>11 DEF PatternsOf
  <2>6. CASE ~IsPattern(key)
    <3>1. regexes' = regexes
      <4>1. CASE IsRoute(r) /\ IsStatic(r.path)
        BY <1>13, <1>14, <4>1, StaticAdded
      <4>2. CASE IsRoute(r) /\ ~IsStatic(r.path)
        <5>1. ~Compiles(r.path)
          BY <1>14, <2>6, <4>2 DEF IsPattern
        <5> QED
          BY <1>13, <1>14, <4>2, <5>1 DEF AddRoute
      <4>3. CASE ~IsRoute(r)
        BY <1>13, <1>14, <4>3
      <4> QED
        BY <4>1, <4>2, <4>3
    <3>2. InOrder(D \cup {key}, keys)'
      BY <1>4, <2>4, <2>6, <3>1 DEF InOrder
    <3> QED
      BY <2>1, <2>2, <3>1, <3>2 DEF PatternsOf
  <2> QED
    BY <2>5, <2>6
<1>17. Registered' = D \cup {key} /\ names' \subseteq DOMAIN Given'
  BY <1>2, <1>4, <1>6, <1>9 DEF Registered
<1>18. file' = <<>>
  BY <1>1 DEF RouteInv, RegisterInv
<1> QED
  BY <1>1, <1>12, <1>15, <1>16, <1>17, <1>18 DEF RegisterInv

LEMMA LoadingEnds ==
    ASSUME RouteInv, LoadEnds, UNCHANGED ini
    PROVE  RegisterInv'
<1>1. /\ phase = "load" /\ file = <<>> /\ names' = DOMAIN Given /\ phase' = "register"
      /\ UNCHANGED <<file, section, data, statics, regexes>>
  BY DEF LoadEnds, Given
<1>2. statics = <<>> /\ regexes = <<>>
  BY <1>1 DEF RouteInv, RegisterInv
<1>3. Given' = Given
  BY <1>1 DEF Given, SectionOf
<1>4. Registered' = {}
  BY <1>1, <1>3 DEF Registered
<1>5. \A m, p : HeldAt({}, m, p)'
  BY <1>1, <1>2 DEF HeldAt, IsExact
<1>6. PatternsOf({})'
  <2>1. regexes' = <<>> /\ Len(regexes') = 0 /\ 1..0 = {}
    BY <1>1, <1>2
  <2>2. PICK keys : keys = [i \in 1..0 |-> i]
    OBVIOUS
  <2>3. keys \in [1..0 -> {}]
    BY <2>2
  <2>4. InOrder({}, keys)'
    BY <2>1, <2>3 DEF InOrder
  <2> QED
    BY <2>1, <2>4 DEF PatternsOf
<1> QED
  BY <1>1, <1>3, <1>4, <1>5, <1>6 DEF RegisterInv

LEMMA LastRegistered ==
    ASSUME RouteInv, RegisterLast, UNCHANGED ini
    PROVE  RegisterInv'
<1>1. /\ phase = "register" /\ names = {} /\ AddRoute(DevTools) /\ phase' = "serve"
      /\ UNCHANGED <<file, section, data, names>>
  BY DEF RegisterLast
<1>2. /\ Registered = DOMAIN Given /\ Given' = Given /\ file' = <<>>
      /\ \A m, p : HeldAt(DOMAIN Given, m, p)
      /\ PatternsOf(DOMAIN Given)
  <2>1. Registered = DOMAIN Given /\ Given' = Given
    BY <1>1 DEF Registered, Given, SectionOf
  <2> QED
    BY <1>1, <2>1 DEF RouteInv, RegisterInv
<1>3. IsStatic(DevTools.path)
  <2>1. DevTools.path = <<"/.well-known">>
    BY DEF DevTools
  <2>2. ToSet(DevTools.path) = {"/.well-known"}
    <3>1. DOMAIN <<"/.well-known">> = {1} /\ <<"/.well-known">>[1] = "/.well-known"
      OBVIOUS
    <3> QED
      BY <2>1, <3>1 DEF ToSet
  <2>3. "/.well-known" \notin Special
    BY DEF Special, Groups
  <2> QED
    BY <2>2, <2>3 DEF IsStatic
<1>4. /\ UNCHANGED regexes
      /\ IsExact(DevTools.method, DevTools.path)'
      /\ statics'[DevTools.path][DevTools.method] = DevTools.handler
      /\ \A m, p : ~IsDevTools(m, p) =>
            /\ IsExact(m, p)' = IsExact(m, p)
            /\ IsExact(m, p) => statics'[p][m] = statics[p][m]
  BY <1>1, <1>3, StaticAdded DEF IsDevTools
<1>5. PatternsOf(DOMAIN Given)'
  BY <1>1, <1>2, <1>4, PatternsKept
<1>6. (\A k : Route(k)' = Route(k)) /\ \A k, m, p : Placed(k, m, p)' = Placed(k, m, p)
  BY <1>2 DEF Route, Placed
<1>7. \A m, p : ~IsDevTools(m, p) => HeldAt(DOMAIN Given, m, p)'
  BY <1>2, <1>4, <1>6 DEF HeldAt
<1> QED
  BY <1>1, <1>2, <1>4, <1>5, <1>7 DEF RegisterInv

LEMMA RouteInit == SiteInit => RouteInv
<1> SUFFICES ASSUME SiteInit PROVE RouteInv
  OBVIOUS
<1>1. /\ ini \in Files /\ file = ini /\ section = <<>> /\ data = <<>> /\ names = {}
      /\ statics = <<>> /\ regexes = <<>> /\ phase = "load"
  BY DEF SiteInit, RouterInit
<1>2. ini \in Seq(ToSet(ini)) /\ Len(ini) \in Nat /\ Headers \subseteq 1..Len(ini)
      /\ EntryLines(RoutesSection) \subseteq 1..Len(ini)
  BY <1>1, IniIs
<1>3. Seen = 0
  BY <1>1, <1>2 DEF Seen
<1>4. SeenHeaders = {} /\ SeenEntries = {}
  <2>1. \A i \in 1..Len(ini) : ~(i <= 0)
    BY <1>2
  <2> QED
    BY <1>2, <1>3, <2>1 DEF SeenHeaders, SeenEntries
<1>5. DOMAIN Given = {}
  BY <1>1 DEF Given, SectionOf
<1>6. FileInv
  <2>1. SubSeq(ini, 1, Len(ini)) = ini
    BY <1>2
  <2> QED
    BY <1>1, <1>2, <1>3, <2>1 DEF FileInv
<1> QED
  BY <1>1, <1>4, <1>5, <1>6 DEF RouteInv, LoadInv, SectionInv, EntriesInv, RegisterInv

LEMMA RouteKept ==
    ASSUME RouteInv, UNCHANGED <<ini, routerVars>>
    PROVE  RouteInv'
<1>1. UNCHANGED <<ini, file, section, data, names, statics, regexes, phase>>
  BY DEF routerVars
<1>2. Given' = Given /\ Seen' = Seen /\ Registered' = Registered
  BY <1>1 DEF Given, SectionOf, Seen, Registered
<1>3. SeenHeaders' = SeenHeaders /\ SeenEntries' = SeenEntries
  BY <1>1, <1>2, FileStays DEF SeenHeaders, SeenEntries
<1>4. FileLine' = FileLine /\ \A i, lines : IsLast(i, lines)' = IsLast(i, lines)
  BY <1>1, FileStays
<1>5. FileInv' /\ SectionInv'
  BY <1>1, <1>2, <1>3, <1>4 DEF RouteInv, LoadInv, FileInv, SectionInv
<1>6. EntriesInv'
  <2>1. \A i : IsLast(i, SeenEntries)' = IsLast(i, SeenEntries)
    BY <1>3, <1>4 DEF IsLast
  <2> QED
    BY <1>2, <1>3, <1>4, <2>1 DEF RouteInv, LoadInv, EntriesInv
<1>7. \A D, m, p : HeldAt(D, m, p) => HeldAt(D, m, p)'
  BY <1>1, HeldKept
<1>8. \A D : PatternsOf(D) => PatternsOf(D)'
  BY <1>1, PatternsKept
<1>9. \A m, p : IsExact(m, p)' = IsExact(m, p)
  BY <1>1 DEF IsExact
<1>10. RegisterInv'
  BY <1>1, <1>2, <1>7, <1>8, <1>9 DEF RouteInv, RegisterInv
<1> QED
  BY <1>5, <1>6, <1>10 DEF RouteInv, LoadInv

LEMMA LoadKept ==
    ASSUME LoadInv, UNCHANGED <<ini, file, section, data>>
    PROVE  LoadInv'
<1>2. Given' = Given /\ Seen' = Seen
  BY DEF Given, SectionOf, Seen
<1>3. SeenHeaders' = SeenHeaders /\ SeenEntries' = SeenEntries
  BY <1>2, FileStays DEF SeenHeaders, SeenEntries
<1>4. FileLine' = FileLine /\ \A i, lines : IsLast(i, lines)' = IsLast(i, lines)
  BY FileStays
<1>5. \A i : IsLast(i, SeenEntries)' = IsLast(i, SeenEntries)
  BY <1>3, <1>4 DEF IsLast
<1> QED
  BY <1>2, <1>3, <1>4, <1>5 DEF LoadInv, FileInv, SectionInv, EntriesInv

LEMMA RouteStep == RouteInv /\ [SiteNext]_<<vars, routerVars, siteVars>> => RouteInv'
<1> SUFFICES ASSUME RouteInv, [SiteNext]_<<vars, routerVars, siteVars>> PROVE RouteInv'
  OBVIOUS
<1>1. CASE Configure
  <2>1. Load /\ UNCHANGED ini
    BY <1>1 DEF Configure, siteVars
  <2>2. CASE ReadLine
    <3>1. LoadInv'
      BY <2>1, <2>2, LineLoaded DEF RouteInv
    <3>2. RegisterInv'
      BY <2>2 DEF RouteInv, RegisterInv, ReadLine
    <3> QED
      BY <3>1, <3>2 DEF RouteInv
  <2>3. CASE LoadEnds \/ RegisterRoute \/ RegisterLast
    <3>1. UNCHANGED <<file, section, data>>
      BY <2>3 DEF LoadEnds, RegisterRoute, RegisterLast
    <3>2. LoadInv'
      BY <2>1, <3>1, LoadKept DEF RouteInv
    <3> QED
      BY <2>1, <2>3, <3>2, LoadingEnds, RouteRegistered, LastRegistered DEF RouteInv
  <2> QED
    BY <2>1, <2>2, <2>3 DEF Load
<1>2. CASE ~Configure
  <2>1. UNCHANGED <<ini, routerVars>>
    BY <1>2 DEF SiteNext, SendRequest, RouteAndServe, siteVars
  <2> QED
    BY <2>1, RouteKept
<1> QED
  BY <1>1, <1>2

-----------------------------------------------------------------------------
(* Once all routes are registered the router leads where the file says.    *)

LEMMA DeclaredIs ==
    ASSUME LoadInv, file = <<>>
    PROVE  Declared = {[rank |-> Rank(k), route |-> Route(k)] : k \in {j \in DOMAIN Given : IsRoute(Route(j))}}
<1>1. Len(ini) \in Nat /\ EntryLines(RoutesSection) \subseteq 1..Len(ini)
  BY IniIs DEF LoadInv, FileInv
<1>2. SeenEntries = EntryLines(RoutesSection)
  <2>1. Seen = Len(ini)
    BY <1>1 DEF Seen
  <2> QED
    BY <1>1, <2>1 DEF SeenEntries
<1> DEFINE E == EntryLines(RoutesSection)
<1>3. \A i \in Holding(E) : i \in E /\ IsLast(i, E)
  BY DEF Holding, IsLast
<1>4. \A i \in E : IsLast(i, E) => i \in Holding(E)
  BY DEF Holding, IsLast
<1>5. /\ \A i \in E : KeyOf(FileLine[i]) \in DOMAIN Given
      /\ \A k \in DOMAIN Given : \E i \in E :
            KeyOf(FileLine[i]) = k /\ Given[k] = ValueOf(FileLine[i]) /\ IsLast(i, E)
  BY <1>2 DEF LoadInv, EntriesInv
<1>6. \A i, j \in E : IsLast(i, E) /\ IsLast(j, E) /\ KeyOf(FileLine[i]) = KeyOf(FileLine[j]) => i = j
  BY <1>1 DEF IsLast
<1> HIDE DEF E
<1>7. Entries(RoutesSection) = {<<k, Given[k]>> : k \in DOMAIN Given}
  <2>1. Entries(RoutesSection) = {<<KeyOf(FileLine[i]), ValueOf(FileLine[i])>> : i \in Holding(E)}
    BY DEF Entries, E
  <2>2. \A i \in Holding(E) : KeyOf(FileLine[i]) \in DOMAIN Given /\ Given[KeyOf(FileLine[i])] = ValueOf(FileLine[i])
    BY <1>3, <1>5, <1>6
  <2>3. \A k \in DOMAIN Given : \E i \in Holding(E) :
           KeyOf(FileLine[i]) = k /\ Given[k] = ValueOf(FileLine[i])
    BY <1>4, <1>5
  <2> QED
    BY <2>1, <2>2, <2>3
<1>8. \A k : <<k, Given[k]>>[1] = k /\ RouteOf(<<k, Given[k]>>[2]) = Route(k)
  BY DEF Route
<1>9. Declared = {[rank |-> Rank(e[1]), route |-> RouteOf(e[2])] : e \in
                    {f \in Entries(RoutesSection) : IsRoute(RouteOf(f[2]))}}
  BY DEF Declared
<1>10. \A e \in Entries(RoutesSection) : e[1] \in DOMAIN Given /\ RouteOf(e[2]) = Route(e[1])
  BY <1>7, <1>8
<1>11. \A k \in DOMAIN Given : \E e \in Entries(RoutesSection) : e[1] = k /\ RouteOf(e[2]) = Route(k)
  BY <1>7, <1>8
<1> QED
  BY <1>9, <1>10, <1>11

LEMMA HandlerIs ==
    ASSUME NEW leading, NEW d \in leading, NEW h, \A e \in leading : e.route.handler = h
    PROVE  HandlerOf(leading) = h
  BY DEF HandlerOf

LEMMA MinIs ==
    ASSUME NEW T, T \subseteq Nat, T # {}
    PROVE  Min(T) \in T /\ \A x \in T : Min(T) <= x
<1>1. \E x \in T : \A y \in T : x <= y
  BY LeastNatural
<1> QED
  BY <1>1 DEF Min

LEMMA RouterLeads ==
    ASSUME RouteInv, phase = "serve", NEW method, NEW path
    PROVE  HandlerFor(method, path) = MeantHandler(Declared, method, path)
<1> DEFINE Rec(k) == [rank |-> Rank(k), route |-> Route(k)]
<1> DEFINE K == {k \in DOMAIN Given : IsRoute(Route(k))}
<1> DEFINE exact == Exact(Declared, method, path)
<1> DEFINE fitting == Fitting(Declared, method, path)
<1> DEFINE Fits2(k) == IsPattern(k) /\ Route(k).method = method /\ Matches(Route(k).path, path)
<1>1. Declared = {Rec(k) : k \in K}
  BY DeclaredIs DEF RouteInv, RegisterInv
<1>2. \A k \in K, j \in K : Rank(k) \in Nat /\ (Rank(k) = Rank(j) => k = j)
  BY KeysKnown, RankIs DEF RouteInv
<1>3. \A k : Rec(k).rank = Rank(k) /\ Rec(k).route = Route(k)
  OBVIOUS
<1> HIDE DEF Rec
<1>4. \A d \in exact : \E k \in K : d = Rec(k) /\ Placed(k, method, path)
  BY <1>1, <1>3 DEF Exact, Placed
<1>5. \A k \in DOMAIN Given : Placed(k, method, path) => k \in K /\ Rec(k) \in exact
  BY <1>1, <1>3 DEF Exact, Placed
<1>6. \A d \in fitting : \E k \in K : d = Rec(k) /\ Fits2(k)
  BY <1>1, <1>3 DEF Fitting, IsPattern
<1>7. \A k \in DOMAIN Given : Fits2(k) => k \in K /\ Rec(k) \in fitting
  BY <1>1, <1>3 DEF Fitting, IsPattern
<1> HIDE DEF exact, fitting, Fits2, K
<1>8. CASE IsDevTools(method, path)
  <2>1. IsExact(method, path) /\ statics[path][method] = DevTools.handler
    BY <1>8 DEF IsDevTools, RouteInv, RegisterInv
  <2>2. method = <<"GET">> /\ path = DevTools.path
    BY <1>8 DEF IsDevTools, DevTools
  <2> QED
    BY <2>1, <2>2 DEF HandlerFor, MeantHandler
<1>9. CASE ~IsDevTools(method, path)
  <2>1. MeantHandler(Declared, method, path) = HandlerOf(Leading(exact, fitting))
    <3>1. ~(method = <<"GET">> /\ path = DevTools.path)
      BY <1>9 DEF IsDevTools, DevTools
    <3> QED
      BY <3>1 DEF MeantHandler, exact, fitting
  <2>2. HeldAt(DOMAIN Given, method, path) /\ PatternsOf(DOMAIN Given)
    BY <1>9 DEF RouteInv, RegisterInv
  <2>3. CASE IsExact(method, path)
    <3>1. PICK k \in DOMAIN Given :
             /\ Placed(k, method, path) /\ statics[path][method] = Route(k).handler
             /\ \A j \in DOMAIN Given : Placed(j, method, path) => Rank(j) <= Rank(k)
      BY <2>2, <2>3 DEF HeldAt
    <3>2. k \in K /\ Rec(k) \in exact
      BY <1>5, <3>1
    <3>3. \A d \in exact : d.rank <= Rec(k).rank
      <4>1. \A j \in K : j \in DOMAIN Given
        BY DEF K
      <4> QED
        BY <1>3, <1>4, <3>1, <4>1
    <3>4. Leading(exact, fitting) = {d \in exact : \A f \in exact : f.rank <= d.rank}
      BY <3>2 DEF Leading
    <3>5. Rec(k) \in Leading(exact, fitting)
      BY <3>2, <3>3, <3>4
    <3>6. ASSUME NEW d \in Leading(exact, fitting) PROVE d.route.handler = Route(k).handler
      <4>1. d \in exact /\ Rec(k).rank <= d.rank /\ d.rank <= Rec(k).rank
        BY <3>2, <3>3, <3>4, <3>6
      <4>2. PICK j \in K : d = Rec(j)
        BY <1>4, <4>1
      <4>3. j = k
        BY <1>2, <1>3, <3>2, <4>1, <4>2
      <4> QED
        BY <1>3, <4>2, <4>3
    <3>7. HandlerOf(Leading(exact, fitting)) = Route(k).handler
      BY <3>5, <3>6, HandlerIs
    <3>8. HandlerFor(method, path) = statics[path][method]
      BY <2>3 DEF HandlerFor
    <3> QED
      BY <2>1, <3>1, <3>7, <3>8
  <2>4. CASE ~IsExact(method, path)
    <3>1. exact = {}
      <4>1. \A k \in K : ~Placed(k, method, path)
        BY <2>2, <2>4 DEF HeldAt, K
      <4> QED
        BY <1>4, <4>1
    <3>2. Leading(exact, fitting) = {d \in fitting : \A f \in fitting : d.rank <= f.rank}
      BY <3>1 DEF Leading
    <3>3. PICK keys : InOrder(DOMAIN Given, keys)
      BY <2>2 DEF PatternsOf
    <3>4. /\ regexes \in Seq({Route(k) : k \in DOMAIN Given})
          /\ keys \in [1..Len(regexes) -> DOMAIN Given]
          /\ \A i \in 1..Len(regexes) : IsPattern(keys[i]) /\ regexes[i] = Route(keys[i])
          /\ \A i, j \in 1..Len(regexes) : i < j => Rank(keys[i]) < Rank(keys[j])
          /\ \A k \in DOMAIN Given : IsPattern(k) => \E i \in 1..Len(regexes) : keys[i] = k
      BY <2>2, <3>3 DEF PatternsOf, InOrder
    <3>5. DOMAIN regexes = 1..Len(regexes) /\ Len(regexes) \in Nat
      BY <3>4
    <3> DEFINE M == Matching(method, path)
    <3>6. \A i \in M : i \in 1..Len(regexes) /\ keys[i] \in DOMAIN Given /\ Fits2(keys[i])
      BY <3>4, <3>5 DEF Matching, Fits2
    <3>7. \A i \in 1..Len(regexes) : Fits2(keys[i]) => i \in M
      BY <3>4, <3>5 DEF Matching, Fits2
    <3> HIDE DEF M
    <3>8. CASE M = {}
      <4>1. fitting = {}
        <5> SUFFICES ASSUME NEW d \in fitting PROVE FALSE
          OBVIOUS
        <5>1. PICK k \in K : Fits2(k)
          BY <1>6
        <5>2. k \in DOMAIN Given /\ IsPattern(k)
          BY <5>1 DEF K, Fits2
        <5>3. PICK i \in 1..Len(regexes) : keys[i] = k
          BY <3>4, <5>2
        <5> QED
          BY <3>7, <3>8, <5>1, <5>3
      <4>2. Leading(exact, fitting) = {}
        BY <3>2, <4>1
      <4> QED
        BY <2>1, <2>4, <3>8, <4>2 DEF HandlerFor, HandlerOf, M
    <3>9. CASE M # {}
      <4>1. Min(M) \in M /\ \A i \in M : Min(M) <= i
        <5>1. M \subseteq Nat
          BY <3>5, <3>6
        <5> QED
          BY <3>9, <5>1, MinIs
      <4>2. PICK least \in M : least = Min(M) /\ \A i \in M : least <= i
        BY <4>1
      <4>3. PICK k : k = keys[least]
        OBVIOUS
      <4>4. k \in DOMAIN Given /\ Fits2(k) /\ regexes[least] = Route(k)
        BY <3>4, <3>6, <4>3
      <4>5. k \in K /\ Rec(k) \in fitting
        BY <1>7, <4>4
      <4>6. ASSUME NEW d \in fitting PROVE Rec(k).rank <= d.rank /\ (d.rank <= Rec(k).rank => d = Rec(k))
        <5>1. PICK j \in K : d = Rec(j) /\ Fits2(j)
          BY <1>6
        <5>2. j \in DOMAIN Given /\ IsPattern(j)
          BY <5>1 DEF K, Fits2
        <5>3. PICK i \in 1..Len(regexes) : keys[i] = j
          BY <3>4, <5>2
        <5>4. i \in M /\ least <= i /\ least \in 1..Len(regexes)
          BY <3>6, <3>7, <4>2, <5>1, <5>3
        <5>5. least < i => Rank(k) < Rank(j)
          BY <3>4, <4>3, <5>3, <5>4
        <5>6. least = i \/ least < i
          BY <3>5, <5>4
        <5>7. Rank(k) \in Nat /\ Rank(j) \in Nat
          BY <1>2, <4>5
        <5> QED
          BY <1>3, <4>3, <5>1, <5>3, <5>5, <5>6, <5>7
      <4>7. Rec(k) \in Leading(exact, fitting)
        BY <3>2, <4>5, <4>6
      <4>8. \A d \in Leading(exact, fitting) : d.route.handler = Route(k).handler
        BY <1>3, <3>2, <4>5, <4>6
      <4>9. HandlerOf(Leading(exact, fitting)) = Route(k).handler
        BY <4>7, <4>8, HandlerIs
      <4>10. HandlerFor(method, path) = regexes[least].handler
        BY <2>4, <3>9, <4>2 DEF HandlerFor, M
      <4> QED
        BY <2>1, <4>4, <4>9, <4>10
    <3> QED
      BY <3>8, <3>9
  <2> QED
    BY <2>3, <2>4
<1> QED
  BY <1>8, <1>9

\* Whatever lines server.ini holds, once it is loaded the router leads every request
\* where the file says.
THEOREM SiteFollowsFile == SiteSpec => []RoutesFollowFile
<1>1. SiteInit => RouteInv
  BY RouteInit
<1>2. RouteInv /\ [SiteNext]_<<vars, routerVars, siteVars>> => RouteInv'
  BY RouteStep
<1>3. RouteInv => RoutesFollowFile
  BY RouterLeads DEF RoutesFollowFile
<1> QED
  BY <1>1, <1>2, <1>3, PTL DEF SiteSpec

-----------------------------------------------------------------------------
(* A site's connection is a connection as HttpRequest has it.              *)

LEMMA SiteStepIsConnStep == [SiteNext]_<<vars, routerVars, siteVars>> => [Next]_vars
<1> SUFFICES ASSUME [SiteNext]_<<vars, routerVars, siteVars>> PROVE [Next]_vars
  OBVIOUS
<1>1. CASE Configure \/ UNCHANGED <<vars, routerVars, siteVars>>
  BY <1>1 DEF Configure
<1>2. ASSUME NEW r \in UNION Range(Requests), SendRequest(r[1], r[2]) PROVE Next
  <2>1. Send(r[1]) /\ <<r[1], r[2]>> \in Requests[ini] /\ ini \in DOMAIN Requests
    BY <1>2 DEF SendRequest
  <2>2. <<r[1], r[2]>>[1] \in Kinds
    BY <2>1, RequestsAssumption DEF RequestsAssumption
  <2> QED
    BY <2>1, <2>2 DEF Next
<1>3. CASE Receive \/ ReadOn
  BY <1>3 DEF Receive, ReadOn, Next, Parse
<1>4. CASE RouteAndServe
  BY <1>4 DEF RouteAndServe, Next, Parse
<1> QED
  BY <1>1, <1>2, <1>3, <1>4 DEF SiteNext

\* Whatever its configuration and its routes, the connection of a site reads its input
\* as HttpRequest says: what is proved of every connection holds of this one.
THEOREM SiteReadsRequests == SiteSpec => Spec
<1>1. SiteInit => Init
  BY DEF SiteInit
<1> QED
  BY <1>1, SiteStepIsConnStep, PTL DEF SiteSpec, Spec

\* So the answers of a site are those of the stream, in its order, and none is missing
\* (how they are cut into pieces, and where the buffer moves bytes, apart).
THEOREM SiteAnswersFollowStream ==
    SiteSpec => [](AnswersFollowStream /\ ExecutedInOrder /\ BufferIsQueue /\ IndicesInBounds)
  BY SiteReadsRequests, AnswersAreMeant, HandledInOrder, InputIsWhatWasSent, PTL

-----------------------------------------------------------------------------
(* What the texts of a file are cut into are sequences, which is what the  *)
(* patterns need of them.                                                  *)

LEMMA FirstOfIs ==
    ASSUME NEW S, NEW s \in Seq(S), NEW chars
    PROVE  FirstOf(s, chars) \in 1..(Len(s) + 1)
<1> DEFINE T == {i \in DOMAIN s : s[i] \in chars} \cup {Len(s) + 1}
<1>1. T \subseteq 1..(Len(s) + 1) /\ T \subseteq Nat /\ T # {}
  OBVIOUS
<1>2. Min(T) \in T
  <2> HIDE DEF T
  <2> QED
    BY <1>1, MinIs
<1> QED
  BY <1>1, <1>2 DEF FirstOf

LEMMA TextsAreSeqs ==
    ASSUME NEW S, NEW s \in Seq(S), NEW chars
    PROVE  Trim(s) \in Seq(S) /\ Before(s, chars) \in Seq(S) /\ Behind(s, chars) \in Seq(S)
<1>1. Len(s) \in Nat /\ DOMAIN s = 1..Len(s)
  OBVIOUS
<1>2. PICK n : n = FirstOf(s, chars)
  OBVIOUS
<1>3. n \in 1..(Len(s) + 1)
  BY <1>2, FirstOfIs
<1>4. SubSeq(s, 1, n - 1) \in Seq(S) /\ SubSeq(s, n + 1, Len(s)) \in Seq(S)
  BY <1>1, <1>3
<1>5. Before(s, chars) \in Seq(S) /\ Behind(s, chars) \in Seq(S)
  BY <1>2, <1>4 DEF Before, Behind
<1>6. Trim(s) \in Seq(S)
  <2> DEFINE solid == {i \in DOMAIN s : s[i] # " "}
  <2>a. Trim(s) = IF solid = {} THEN <<>> ELSE SubSeq(s, Min(solid), Max(solid))
    BY Zenon DEF Trim
  <2>b. \A i \in solid : i \in 1..Len(s) /\ i \in Nat
    <3>1. \A i \in solid : i \in DOMAIN s
      BY Zenon
    <3> HIDE DEF solid
    <3> QED
      BY <1>1, <3>1
  <2> HIDE DEF solid
  <2>1. CASE solid = {}
    BY <2>a, <2>1
  <2>2. CASE solid # {}
    <3>1. solid \subseteq Nat /\ solid \in SUBSET (1..Len(s))
      BY <2>b
    <3>2. Trim(s) = SubSeq(s, Min(solid), Max(solid))
      BY <2>a, <2>2
    <3>3. Min(solid) \in solid /\ Max(solid) \in solid
      BY <1>1, <2>2, <3>1, MinIs, MaxMember
    <3>4. PICK x \in 1..Len(s), y \in 1..Len(s) : x = Min(solid) /\ y = Max(solid)
      BY <3>1, <3>3
    <3>5. SubSeq(s, x, y) \in Seq(S)
      BY <1>1, <3>4
    <3> QED
      BY <3>2, <3>4, <3>5
  <2> QED
    BY <2>1, <2>2
<1> QED
  BY <1>5, <1>6

\* The pattern of a route of the file is a sequence of pieces.
LEMMA PatternIsSeq ==
    ASSUME LoadInv, NEW k \in DOMAIN Given
    PROVE  \E S : Route(k).path \in Seq(S)
<1>1. PICK i \in SeenEntries : Given[k] = ValueOf(FileLine[i])
  BY DEF LoadInv, EntriesInv
<1>2. i \in DOMAIN ini /\ FileLine[i] = Trim(ini[i])
  BY DEF SeenEntries, EntryLines, FileLine
<1>3. PICK S : ini[i] \in Seq(S)
  BY <1>2, FilesAssumption DEF FilesAssumption, LoadInv, FileInv
<1>4. FileLine[i] \in Seq(S)
  BY <1>2, <1>3, TextsAreSeqs
<1>5. Given[k] \in Seq(S)
  <2>1. Behind(FileLine[i], {"="}) \in Seq(S)
    BY <1>4, TextsAreSeqs
  <2> QED
    BY <1>1, <2>1, TextsAreSeqs DEF ValueOf
<1>6. Before(Given[k], {";", "#"}) \in Seq(S)
  BY <1>5, TextsAreSeqs
<1>7. Behind(Before(Given[k], {";", "#"}), {","}) \in Seq(S)
  BY <1>6, TextsAreSeqs
<1>8. Trim(Before(Behind(Before(Given[k], {";", "#"}), {","}), {","})) \in Seq(S)
  BY <1>7, TextsAreSeqs
<1>9. Route(k).path = Trim(Before(Behind(Before(Given[k], {";", "#"}), {","}), {","}))
  BY DEF Route, RouteOf
<1> QED
  BY <1>8, <1>9

\* Flattening loses no element.
LEMMA FlattenKeeps ==
    ASSUME NEW S, NEW ss \in Seq(Seq(S)), NEW i \in 1..Len(ss), NEW j \in 1..Len(ss[i])
    PROVE  \E x \in 1..Len(FlattenSeq(ss)) : FlattenSeq(ss)[x] = ss[i][j]
<1>1. Len(ss) \in Nat /\ ss # <<>>
  OBVIOUS
<1>2. PICK f \in [1..Len(ss) -> Seq(S)] : Flattens(f, ss) /\ FlattenSeq(ss) = f[Len(ss)]
  BY <1>1, FlattenIs
<1>3. FlattensTo(f, ss, Len(ss))
  BY <1>1, <1>2, FlattensIsTo
<1> DEFINE Has(s) == \E x \in 1..Len(s) : s[x] = ss[i][j]
<1>4. \A m \in 1..Len(ss) : f[m] \in Seq(S) /\ ss[m] \in Seq(S)
                             /\ f[m] = IF m = 1 THEN ss[m] ELSE f[m - 1] \o ss[m]
  <2> SUFFICES ASSUME NEW m \in 1..Len(ss)
               PROVE  /\ f[m] \in Seq(S) /\ ss[m] \in Seq(S)
                      /\ f[m] = IF m = 1 THEN ss[m] ELSE f[m - 1] \o ss[m]
    OBVIOUS
  <2>1. f[m] \in Seq(S) /\ ss[m] \in Seq(S)
    <3>1. f[m] \in Seq(S)
      BY <1>2, Zenon
    <3>2. ss[m] \in Seq(S)
      OBVIOUS
    <3> QED
      BY <3>1, <3>2
  <2>2. f[m] = IF m = 1 THEN ss[m] ELSE f[m - 1] \o ss[m]
    BY <1>3, Zenon DEF FlattensTo
  <2> QED
    BY <2>1, <2>2
<1>5. \A s, t \in Seq(S) : (Has(s) \/ Has(t)) => Has(s \o t)
  <2> SUFFICES ASSUME NEW s \in Seq(S), NEW t \in Seq(S), Has(s) \/ Has(t) PROVE Has(s \o t)
    OBVIOUS
  <2> DEFINE e == ss[i][j]
  <2> HIDE DEF e
  <2>1. CASE \E x \in 1..Len(s) : s[x] = e
    <3>1. PICK x \in 1..Len(s) : s[x] = e
      BY <2>1
    <3>2. x \in 1..Len(s \o t) /\ (s \o t)[x] = e
      BY <3>1
    <3> QED
      BY <3>2 DEF e
  <2>2. CASE \E x \in 1..Len(t) : t[x] = e
    <3>1. PICK x \in 1..Len(t) : t[x] = e
      BY <2>2
    <3>2. Len(s) + x \in 1..Len(s \o t) /\ (s \o t)[Len(s) + x] = e
      BY <3>1
    <3> QED
      BY <3>2 DEF e
  <2> QED
    BY <2>1, <2>2 DEF e
<1>6. Has(ss[i])
  OBVIOUS
<1> DEFINE P == {n \in Nat : n \in i..Len(ss) => Has(f[n])}
<1> HIDE DEF Has
<1>7. Has(f[i])
  <2>1. CASE i = 1
    BY <1>4, <1>6, <2>1
  <2>2. CASE i # 1
    <3>1. i - 1 \in 1..Len(ss)
      BY <1>1, <2>2
    <3>2. f[i] = f[i - 1] \o ss[i]
      BY <1>4, <2>2
    <3> QED
      BY <1>4, <1>5, <1>6, <3>1, <3>2, SMTT(30), ZenonT(40)
  <2> QED
    BY <2>1, <2>2
<1>8. 0 \in P
  OBVIOUS
<1>9. ASSUME NEW n \in Nat, n \in P PROVE n + 1 \in P
  <2> SUFFICES ASSUME n + 1 \in i..Len(ss) PROVE Has(f[n + 1])
    OBVIOUS
  <2>1. CASE n + 1 = i
    BY <1>7, <2>1
  <2>2. CASE n + 1 # i
    <3>1. n \in i..Len(ss) /\ n \in 1..Len(ss) /\ n + 1 \in 1..Len(ss) /\ n + 1 # 1 /\ (n + 1) - 1 = n
      BY <1>1, <2>2
    <3>2. f[n + 1] = f[n] \o ss[n + 1] /\ Has(f[n])
      BY <1>4, <1>9, <3>1
    <3> QED
      BY <1>4, <1>5, <3>1, <3>2, SMTT(30), ZenonT(40)
  <2> QED
    BY <2>1, <2>2
<1>10. Len(ss) \in P
  <2> HIDE DEF P
  <2> QED
    BY <1>1, <1>8, <1>9, SetInduction
<1> QED
  BY <1>1, <1>2, <1>10 DEF Has

\* A pattern with a group captures something of every path it matches.
LEMMA CapturesSome ==
    ASSUME NEW S, NEW pattern \in Seq(S), NEW path, Len(path) \in Nat,
           ToSet(pattern) \cap Groups # {}, Matches(pattern, path)
    PROVE  Captured(pattern, path) # <<>>
<1>1. PICK p : p \in Readings(pattern, path) /\ p = CHOOSE q \in Readings(pattern, path) : TRUE
  BY SMTT(30), ZenonT(40) DEF Matches
<1>2. PICK n \in 0..Len(path) : p = Widened(pattern, n)
  BY <1>1, SMTT(30), ZenonT(40) DEF Readings
<1> DEFINE ss == [i \in DOMAIN pattern |-> IF pattern[i] = ".*" THEN [j \in 1..n |-> "."] ELSE <<pattern[i]>>]
<1> DEFINE U == S \cup {"."}
<1>3. ss \in Seq(Seq(U)) /\ Len(ss) = Len(pattern)
  <2>1. DOMAIN pattern = 1..Len(pattern) /\ Len(pattern) \in Nat /\ n \in Nat
    OBVIOUS
  <2>2. [j \in 1..n |-> "."] \in Seq(U)
    BY <2>1
  <2>3. \A i \in 1..Len(pattern) : <<pattern[i]>> \in Seq(U)
    OBVIOUS
  <2>4. \A i \in 1..Len(pattern) : ss[i] \in Seq(U)
    BY <2>1, <2>2, <2>3
  <2> HIDE DEF U
  <2> QED
    BY <2>1, <2>4
<1>4. PICK i \in 1..Len(pattern) : pattern[i] \in Groups
  <2>1. DOMAIN pattern = 1..Len(pattern)
    OBVIOUS
  <2> QED
    BY <2>1 DEF ToSet
<1>5. ss[i] = <<pattern[i]>>
  <2>1. pattern[i] # ".*"
    BY <1>4 DEF Groups
  <2> QED
    BY <1>4, <2>1
<1>6. p = FlattenSeq(ss)
  BY <1>2 DEF Widened
<1> HIDE DEF ss, U
<1>7. p \in Seq(U)
  BY <1>3, <1>6, FlattenIs
<1>8. PICK x \in 1..Len(p) : p[x] = pattern[i]
  <2>1. Len(ss[i]) = 1 /\ ss[i][1] = pattern[i] /\ 1 \in 1..Len(ss[i]) /\ i \in 1..Len(ss)
    BY <1>3, <1>5
  <2>2. \E x \in 1..Len(FlattenSeq(ss)) : FlattenSeq(ss)[x] = ss[i][1]
    BY <1>3, <2>1, FlattenKeeps
  <2> QED
    BY <1>6, <2>1, <2>2
<1> DEFINE groups == {y \in DOMAIN p : p[y] \in Groups}
<1>9. x \in groups /\ groups \subseteq 1..Len(p) /\ Len(p) \in Nat
  BY <1>4, <1>7, <1>8
<1> HIDE DEF groups
<1>10. IsFiniteSet(groups)
  <2>1. IsFiniteSet(1..Len(p))
    BY <1>9, FS_Interval
  <2> QED
    BY <1>9, <2>1, FS_Subset
<1>11. Cardinality(groups) \in Nat /\ Cardinality(groups) # 0
  BY <1>9, <1>10, FS_CardinalityType, FS_EmptySet
<1>12. PICK c : c = Captured(pattern, path)
  OBVIOUS
<1>13. DOMAIN c = 1..Cardinality(groups)
  BY <1>1, <1>12 DEF Captured, groups
<1>14. 1 \in DOMAIN c
  BY <1>11, <1>13
<1> QED
  BY <1>12, <1>14

-----------------------------------------------------------------------------
(* The answers of a site.                                                  *)

\* The handlers that answer with a parameter, and that their routes capture one: the
\* answers of these have no length without it.
Takers == {<<"getUserById">>, <<"getProductByName">>}
TakersCapture ==
    \A d \in Declared : d.route.handler \in Takers => ToSet(d.route.path) \cap Groups # {}

LEMMA Lengths ==
    ASSUME NEW h, NEW path, NEW x, NEW c
    PROVE  /\ h \notin Takers => /\ \A y : Handle(h, path, x, c) = Handle(h, path, y, c)
                                 /\ Handle(h, path, x, c).hasLength
           /\ h \in Takers /\ x # <<>> => Handle(h, path, x, c).hasLength
<1>1. /\ NotFound.hasLength /\ Login(c).hasLength
      /\ StaticFile(path).hasLength /\ Response(200, h, TRUE).hasLength
      /\ x # <<>> => GetUserById(x).hasLength /\ GetProductByName(x).hasLength
  <2>1. \A code, body : Response(code, body, TRUE).hasLength
    BY DEF Response
  <2>2. NotFound.hasLength /\ Response(200, h, TRUE).hasLength
    BY <2>1 DEF NotFound
  <2>3. Login(c).hasLength
    BY <2>1 DEF Login
  <2>4. StaticFile(path).hasLength
    <3>1. CASE IsSafe(path) /\ path \in Unreadable
      <4>1. StaticFile(path) = Response(500, <<>>, TRUE)
        BY <3>1 DEF StaticFile
      <4> QED
        BY <2>1, <4>1, SMTT(30), ZenonT(40)
    <3>2. CASE IsSafe(path) /\ path \notin Unreadable
      <4>1. StaticFile(path) = Response(200, path, TRUE)
        BY <3>2 DEF StaticFile
      <4> QED
        BY <2>1, <4>1
    <3>3. CASE ~IsSafe(path)
      BY <2>2, <3>3 DEF StaticFile
    <3> QED
      BY <3>1, <3>2, <3>3
  <2>5. x # <<>> => GetUserById(x).hasLength /\ GetProductByName(x).hasLength
    BY <2>1 DEF GetUserById, GetProductByName
  <2> QED
    BY <2>2, <2>3, <2>4, <2>5
<1>2. CASE h = <<"static">>
  <2>1. h \notin Takers /\ \A y : Handle(h, path, y, c) = StaticFile(path)
    BY <1>2 DEF Handle, Takers
  <2> QED
    BY <1>1, <2>1
<1>3. CASE h = <<"login">>
  <2>1. h \notin Takers /\ \A y : Handle(h, path, y, c) = Login(c)
    BY <1>3 DEF Handle, Takers
  <2> QED
    BY <1>1, <2>1
<1>4. CASE h = <<"getUserById">>
  <2>1. h \in Takers /\ Handle(h, path, x, c) = GetUserById(x)
    BY <1>4 DEF Handle, Takers
  <2> QED
    BY <1>1, <2>1
<1>5. CASE h = <<"getProductByName">>
  <2>1. h \in Takers /\ Handle(h, path, x, c) = GetProductByName(x)
    BY <1>5 DEF Handle, Takers
  <2> QED
    BY <1>1, <2>1
<1>6. CASE h \in {<<"handleNotFound">>, <<"devtools">>}
  <2>1. h \notin Takers /\ \A y : Handle(h, path, y, c) = NotFound
    BY <1>6 DEF Handle, Takers
  <2> QED
    BY <1>1, <2>1
<1>7. CASE h \notin {<<"static">>, <<"login">>, <<"getUserById">>, <<"getProductByName">>,
                    <<"handleNotFound">>, <<"devtools">>}
  <2>1. h \notin Takers /\ \A y : Handle(h, path, y, c) = Response(200, h, TRUE)
    BY <1>7 DEF Handle, Takers
  <2> QED
    BY <1>1, <2>1
<1> QED
  BY <1>2, <1>3, <1>4, <1>5, <1>6, <1>7

\* Only a pattern with a group leads to a handler that takes parameters, so that the
\* parameters an earlier request left do not matter.
LEMMA AnsweredAlone ==
    ASSUME RouteInv, TakersCapture, phase = "serve", NEW method, NEW path, NEW old, NEW c,
           Len(path) \in Nat,
           NEW h, h = HandlerFor(method, path)
    PROVE  /\ Handle(h, path, ParamsFor(method, path, old), c) = Handle(h, path, ParamsOf(method, path), c)
           /\ Handle(h, path, ParamsFor(method, path, old), c).hasLength
<1>0. LoadInv /\ file = <<>>
  BY DEF RouteInv, RegisterInv
<1>1. \A k \in DOMAIN Given : IsRoute(Route(k)) /\ Route(k).handler \in Takers
                              => ToSet(Route(k).path) \cap Groups # {}
  <2> SUFFICES ASSUME NEW k \in DOMAIN Given, IsRoute(Route(k)), Route(k).handler \in Takers
               PROVE  ToSet(Route(k).path) \cap Groups # {}
    OBVIOUS
  <2>1. [rank |-> Rank(k), route |-> Route(k)] \in Declared
    BY <1>0, DeclaredIs
  <2> QED
    BY <2>1 DEF TakersCapture
<1>2. CASE IsExact(method, path)
  <2>1. h = statics[path][method]
    BY <1>2 DEF HandlerFor
  <2>2. h \notin Takers
    <3>1. CASE IsDevTools(method, path)
      <4>1. h = DevTools.handler
        BY <2>1, <3>1 DEF IsDevTools, RouteInv, RegisterInv
      <4> QED
        BY <4>1 DEF DevTools, Takers
    <3>2. CASE ~IsDevTools(method, path)
      <4>1. PICK k \in DOMAIN Given : Placed(k, method, path) /\ statics[path][method] = Route(k).handler
        BY <1>2, <3>2 DEF RouteInv, RegisterInv, HeldAt
      <4>2. IsRoute(Route(k)) /\ ToSet(Route(k).path) \cap Special = {}
        BY <4>1 DEF Placed, IsStatic
      <4> QED
        BY <1>1, <2>1, <4>1, <4>2 DEF Special
    <3> QED
      BY <3>1, <3>2
  <2> QED
    BY <2>2, Lengths
<1>3. CASE ~IsExact(method, path) /\ Matching(method, path) = {}
  <2>1. h = <<"handleNotFound">>
    BY <1>3 DEF HandlerFor
  <2>2. h \notin Takers
    BY <2>1 DEF Takers
  <2> QED
    BY <2>2, Lengths
<1>4. CASE ~IsExact(method, path) /\ Matching(method, path) # {}
  <2>1. PatternsOf(DOMAIN Given)
    BY DEF RouteInv, RegisterInv
  <2>2. PICK keys : InOrder(DOMAIN Given, keys)
    BY <2>1 DEF PatternsOf
  <2>3. DOMAIN regexes = 1..Len(regexes) /\ Len(regexes) \in Nat
    BY <2>1 DEF PatternsOf
  <2> DEFINE M == Matching(method, path)
  <2>4. M \subseteq Nat
    BY <2>3 DEF Matching
  <2>5. PICK i \in M : i = Min(M)
    <3> HIDE DEF M
    <3> QED
      BY <1>4, <2>4, MinIs DEF M
  <2>6. i \in 1..Len(regexes) /\ Matches(regexes[i].path, path)
    BY <2>3 DEF Matching
  <2> HIDE DEF M
  <2>7. PICK k \in DOMAIN Given : IsPattern(k) /\ regexes[i] = Route(k)
    BY <2>2, <2>6 DEF InOrder
  <2>8. /\ h = Route(k).handler
        /\ ParamsFor(method, path, old) = Captured(Route(k).path, path)
        /\ ParamsOf(method, path) = Captured(Route(k).path, path)
    BY <1>4, <2>5, <2>7 DEF HandlerFor, ParamsFor, ParamsOf, M
  <2>9. ASSUME h \in Takers PROVE Captured(Route(k).path, path) # <<>>
    <3>1. ToSet(Route(k).path) \cap Groups # {}
      BY <1>1, <2>7, <2>8, <2>9 DEF IsPattern
    <3>2. PICK S : Route(k).path \in Seq(S)
      BY <1>0, PatternIsSeq
    <3> QED
      BY <2>6, <2>7, <3>1, <3>2, CapturesSome
  <2> QED
    BY <2>8, <2>9, Lengths
<1> QED
  BY <1>2, <1>3, <1>4

\* What the connection of a site adds to the site: every request has a path, and the
\* last one that was handled whole was answered by itself.
AnswerIsAlone ==
    LET r == Last(responses) IN
    /\ r.req \in 1..Len(sent) /\ r.response = Alone(r.req) /\ r.response.hasLength
SiteInv ==
    /\ sent # <<>> => phase = "serve" /\ ini \in DOMAIN Requests
    /\ paths \in Seq(ToSet(paths)) /\ Len(paths) = Len(sent)
    /\ \A i \in 1..Len(paths) : Len(paths[i]) \in Nat
    /\ responses \in Seq(ToSet(responses))
    /\ moved = "no" /\ ~cut /\ responses # <<>> => AnswerIsAlone

LEMMA SeqGrows ==
    ASSUME NEW s, s \in Seq(ToSet(s)), NEW e
    PROVE  /\ Append(s, e) \in Seq(ToSet(Append(s, e))) /\ Len(Append(s, e)) = Len(s) + 1
           /\ Append(s, e)[Len(s) + 1] = e /\ Last(Append(s, e)) = e /\ Append(s, e) # <<>>
           /\ \A i \in 1..Len(s) : Append(s, e)[i] = s[i]
<1> DEFINE S == ToSet(s) \cup {e}
<1> DEFINE t == Append(s, e)
<1>1. s \in Seq(S) /\ e \in S
  <2>1. \A T : ToSet(s) \subseteq T => s \in Seq(T)
    OBVIOUS
  <2> QED
    BY <2>1
<1>2. t \in Seq(S) /\ ToSet(t) = ToSet(s) \cup {e}
  <2> HIDE DEF S
  <2> QED
    BY <1>1, QueueGrows
<1>3. t \in Seq(ToSet(t))
  BY <1>2
<1> HIDE DEF S
<1>4. Len(t) = Len(s) + 1 /\ t[Len(s) + 1] = e /\ \A i \in 1..Len(s) : t[i] = s[i]
  BY <1>1
<1>5. Len(t) # 0 /\ t # <<>> /\ Last(t) = e
  BY <1>1, <1>4 DEF Last
<1> QED
  BY <1>3, <1>4, <1>5

\* The answer of a request depends on nothing that changes while the site serves.
LEMMA AloneKept ==
    ASSUME UNCHANGED <<statics, regexes>>, NEW r, sent'[r] = sent[r], paths'[r] = paths[r]
    PROVE  Alone(r)' = Alone(r)
<1>1. \A m, p : /\ IsExact(m, p)' = IsExact(m, p)
                /\ Matching(m, p)' = Matching(m, p)
  BY DEF IsExact, Matching
<1>2. \A m, p : HandlerFor(m, p)' = HandlerFor(m, p) /\ ParamsOf(m, p)' = ParamsOf(m, p)
  BY <1>1 DEF HandlerFor, ParamsOf
<1> QED
  BY <1>2 DEF Alone

\* The request that is whole, as long as no body was cut and no byte was moved.
LEMMA WholeRequest ==
    ASSUME ConnInv, AnswerInv, Parsing("kGotALL"), ~cut, moved = "no"
    PROVE  /\ request.req \in 1..Len(sent) /\ request.method = Lines(sent[request.req])[1]
           /\ request.body = BodyLength(sent[request.req])
<1>1. Reading /\ request.state = "kGotALL"
  BY DEF Reading, Parsing
<1>2. PICK off : Laid(off) /\ \E m \in 0..Len(sent) : Progress(off, m)
  BY <1>1 DEF AnswerInv
<1>3. PICK m \in 0..Len(sent) : Progress(off, m)
  BY <1>2
<1>4. m < Len(sent) /\ AtEnd(off, m + 1)
  BY <1>1, <1>3, ProgressCases
<1>5. m + 1 \in 1..Len(sent)
  BY <1>2, <1>4, LaidIs
<1> QED
  BY <1>4, <1>5 DEF AtEnd

LEMMA SiteStarts == SiteInit => SiteInv
<1> SUFFICES ASSUME SiteInit PROVE SiteInv
  OBVIOUS
<1>1. sent = <<>> /\ paths = <<>> /\ responses = <<>>
  BY DEF SiteInit, Init
<1> QED
  BY <1>1 DEF SiteInv

\* What was answered by itself stays so, and so does what is said of the paths, while the
\* site only reads.
LEMMA SiteKept ==
    ASSUME SiteInv, UNCHANGED <<sent, paths, responses, ini, phase, statics, regexes>>,
           moved' = "no" => moved = "no", ~cut' => ~cut
    PROVE  SiteInv'
<1>1. \A r : Alone(r)' = Alone(r)
  BY AloneKept
<1>2. AnswerIsAlone => AnswerIsAlone'
  BY <1>1 DEF AnswerIsAlone
<1> QED
  BY <1>2 DEF SiteInv

LEMMA SiteSends ==
    ASSUME RouteInv, ConnInv, SiteInv, NEW kind, NEW path, SendRequest(kind, path)
    PROVE  SiteInv'
<1>1. /\ phase = "serve" /\ ini \in DOMAIN Requests /\ <<kind, path>> \in Requests[ini]
      /\ sent' = Append(sent, kind) /\ paths' = Append(paths, path)
      /\ UNCHANGED <<phase, ini, statics, regexes, responses, moved, cut>>
  BY DEF SendRequest, Send, routerVars, bufferVars
<1>2. sent \in Seq(Kinds)
  BY DEF ConnInv, StreamInv
<1>3. Len(path) \in Nat
  <2>1. path \in Seq(ToSet(path))
    BY <1>1, RequestsAssumption, <<kind, path>>[2] = path DEF RequestsAssumption
  <2> QED
    BY <2>1
<1>4. \A i \in 1..Len(sent) : sent'[i] = sent[i] /\ i \in 1..Len(sent')
  <2>1. kind \in Kinds
    BY <1>1, RequestsAssumption, <<kind, path>>[1] = kind DEF RequestsAssumption
  <2>2. Len(sent') = Len(sent) + 1 /\ \A i \in 1..Len(sent) : sent'[i] = sent[i]
    BY <1>1, <1>2, <2>1
  <2>3. Len(sent) \in Nat
    BY <1>2
  <2> QED
    BY <2>2, <2>3
<1>5. /\ paths' \in Seq(ToSet(paths')) /\ Len(paths') = Len(paths) + 1
      /\ paths'[Len(paths) + 1] = path /\ \A i \in 1..Len(paths) : paths'[i] = paths[i]
  <2>1. paths \in Seq(ToSet(paths))
    BY DEF SiteInv
  <2> QED
    BY <1>1, <2>1, SeqGrows
<1>6. Len(paths) = Len(sent) /\ Len(sent) \in Nat
  BY <1>2 DEF SiteInv
<1>7. Len(paths') = Len(sent') 
  BY <1>1, <1>2, <1>5, <1>6
<1>8. \A i \in 1..Len(paths') : Len(paths'[i]) \in Nat
  BY <1>3, <1>5, <1>6 DEF SiteInv
<1>9. AnswerIsAlone => AnswerIsAlone'
  <2> SUFFICES ASSUME AnswerIsAlone PROVE AnswerIsAlone'
    OBVIOUS
  <2> DEFINE r == Last(responses).req
  <2>1. r \in 1..Len(sent) /\ Last(responses') = Last(responses)
    BY <1>1 DEF AnswerIsAlone
  <2>2. sent'[r] = sent[r] /\ paths'[r] = paths[r] /\ r \in 1..Len(sent')
    BY <1>4, <1>5, <1>6, <2>1
  <2>3. Alone(r)' = Alone(r)
    <3> SUFFICES ASSUME NEW n, n = r PROVE Alone(n)' = Alone(n)
      BY <2>1
    <3> QED
      BY <1>1, <2>2, AloneKept
  <2> QED
    BY <2>1, <2>2, <2>3 DEF AnswerIsAlone
<1> QED
  BY <1>1, <1>5, <1>7, <1>8, <1>9 DEF SiteInv

LEMMA SiteServes ==
    ASSUME RouteInv, TakersCapture, ConnInv, AnswerInv, SiteInv, RouteAndServe
    PROVE  SiteInv'
<1> DEFINE req == request.req
<1> DEFINE method == <<request.method>>
<1> DEFINE path == RootPath(paths[req])
<1> DEFINE answer == Handle(HandlerFor(method, path), path, ParamsFor(method, path, params), request.body # 0)
<1>1. /\ Serve /\ responses' = Append(responses, [req |-> req, response |-> answer])
      /\ UNCHANGED <<phase, statics, regexes, ini, paths, sent, moved, cut>>
  BY DEF RouteAndServe, Serve, routerVars, bufferVars
<1> HIDE DEF answer
<1>2. /\ responses' \in Seq(ToSet(responses')) /\ responses' # <<>>
      /\ Last(responses') = [req |-> req, response |-> answer]
  BY <1>1, SeqGrows DEF SiteInv
<1>3. ASSUME moved = "no", ~cut PROVE req \in 1..Len(sent) /\ answer = Alone(req) /\ answer.hasLength
  <2>1. /\ req \in 1..Len(sent) /\ request.method = Lines(sent[req])[1]
        /\ request.body = BodyLength(sent[req])
    BY <1>1, <1>3, WholeRequest DEF Serve
  <2>2. phase = "serve"
    <3>1. sent # <<>>
      BY <2>1
    <3> QED
      BY <3>1 DEF SiteInv
  <2>3. Len(path) \in Nat
    <3>1. Len(paths[req]) \in Nat
      BY <2>1 DEF SiteInv
    <3>2. Len(<<"/index.html">>) \in Nat
      OBVIOUS
    <3> QED
      BY <3>1, <3>2 DEF RootPath
  <2>4. PICK h, c : h = HandlerFor(method, path) /\ c = (request.body # 0)
    OBVIOUS
  <2>5. /\ Handle(h, path, ParamsFor(method, path, params), c) = Handle(h, path, ParamsOf(method, path), c)
        /\ Handle(h, path, ParamsFor(method, path, params), c).hasLength
    <3> HIDE DEF method, path
    <3> QED
      BY <2>2, <2>3, <2>4, AnsweredAlone
  <2>6. answer = Handle(h, path, ParamsFor(method, path, params), c)
    BY <2>4 DEF answer
  <2>7. Alone(req) = Handle(h, path, ParamsOf(method, path), c)
    BY <2>1, <2>4 DEF Alone
  <2> QED
    BY <2>1, <2>5, <2>6, <2>7
<1>4. ASSUME moved = "no", ~cut PROVE AnswerIsAlone'
  <2>1. PICK r : r = req
    OBVIOUS
  <2>2. Last(responses').req = r /\ Last(responses').response = answer
    BY <1>2, <2>1
  <2>3. Alone(r)' = Alone(r)
    BY <1>1, AloneKept
  <2> QED
    BY <1>1, <1>3, <1>4, <2>1, <2>2, <2>3 DEF AnswerIsAlone
<1> QED
  BY <1>1, <1>2, <1>4 DEF SiteInv

\* What the lines of the file declare does not change, as the file does not.
LEMMA DeclaredKept == ASSUME UNCHANGED ini, TakersCapture PROVE TakersCapture'
<1>1. Headers' = Headers /\ FileLine' = FileLine
  BY DEF Headers, FileLine
<1>2. EntryLines(RoutesSection)' = EntryLines(RoutesSection)
  BY <1>1 DEF EntryLines, InSection
<1>3. Entries(RoutesSection)' = Entries(RoutesSection)
  BY <1>1, <1>2 DEF Entries, Holding
<1>4. Declared' = Declared
  BY <1>3 DEF Declared
<1> QED
  BY <1>4 DEF TakersCapture

LEMMA SiteStep ==
    RouteInv /\ TakersCapture /\ ConnInv /\ AnswerInv /\ SiteInv /\ [SiteNext]_<<vars, routerVars, siteVars>>
        => SiteInv' /\ TakersCapture'
<1> SUFFICES ASSUME RouteInv, TakersCapture, ConnInv, AnswerInv, SiteInv,
                    [SiteNext]_<<vars, routerVars, siteVars>>
             PROVE  SiteInv' /\ TakersCapture'
  OBVIOUS
<1>1. CASE Configure
  <2>1. UNCHANGED <<sent, responses, paths, ini>> /\ phase # "serve"
    BY <1>1 DEF Configure, Load, ReadLine, LoadEnds, RegisterRoute, RegisterLast, vars, siteVars
  <2>2. sent = <<>>
    BY <2>1 DEF SiteInv
  <2>3. moved' = moved /\ cut' = cut
    BY <1>1 DEF Configure, vars, bufferVars
  <2>4. ~(moved = "no" /\ ~cut /\ responses # <<>>)
    <3>1. 1..Len(sent) = {}
      BY <2>2
    <3> QED
      BY <3>1 DEF SiteInv, AnswerIsAlone
  <2>5. SiteInv'
    BY <2>1, <2>2, <2>3, <2>4 DEF SiteInv
  <2> QED
    BY <2>1, <2>5, DeclaredKept
<1>2. ASSUME NEW r \in UNION Range(Requests), SendRequest(r[1], r[2]) PROVE SiteInv' /\ TakersCapture'
  <2>1. ini' = ini
    BY <1>2 DEF SendRequest
  <2> QED
    BY <1>2, <2>1, SiteSends, DeclaredKept
<1>3. CASE Receive /\ UNCHANGED <<routerVars, siteVars>>
  <2>1. UNCHANGED <<sent, paths, responses, ini, phase, statics, regexes, cut>>
    BY <1>3 DEF Receive, Read, ReadDone, routerVars, siteVars
  <2>2. moved' = "no" => moved = "no"
    <3>1. \A shifts, b : "no" \in Outcomes(shifts, b) => moved = "no"
      BY DEF Outcomes
    <3>2. CASE ReadDone
      BY <3>2 DEF ReadDone, bufferVars
    <3>3. ASSUME NEW n \in 1..Len(wire), Read(n), moved' = "no" PROVE moved = "no"
      <4>1. PICK d : AppendBytes(d) \/ ReadFd(d)
        BY <3>3 DEF Read
      <4>2. \E shifts, b : moved' \in Outcomes(shifts, b)
        BY <4>1 DEF AppendBytes, ReadFd
      <4> QED
        BY <3>1, <3>3, <4>2
    <3> QED
      BY <1>3, <3>2, <3>3 DEF Receive
  <2> QED
    BY <2>1, <2>2, SiteKept, DeclaredKept
<1>4. CASE ReadOn /\ UNCHANGED <<routerVars, siteVars>>
  <2>1. UNCHANGED <<sent, paths, responses, ini, phase, statics, regexes>>
    BY <1>4 DEF ReadOn, Incomplete, BadLine, ParseRequestLine, ParseHeader, EndOfHeaders,
                ParseBody, routerVars, siteVars
  <2>2. moved' = moved
    BY <1>4 DEF ReadOn, Incomplete, BadLine, ParseRequestLine, ParseHeader, EndOfHeaders,
                ParseBody, Retrieve, bufferVars
  <2>3. ~cut' => ~cut
    BY <1>4 DEF ReadOn, Incomplete, BadLine, ParseRequestLine, ParseHeader, EndOfHeaders, ParseBody
  <2> QED
    BY <2>1, <2>2, <2>3, SiteKept, DeclaredKept
<1>5. CASE RouteAndServe
  <2>1. ini' = ini
    BY <1>5 DEF RouteAndServe
  <2> QED
    BY <1>5, <2>1, SiteServes, DeclaredKept
<1>6. CASE UNCHANGED <<vars, routerVars, siteVars>>
  <2>1. UNCHANGED <<sent, paths, responses, ini, phase, statics, regexes, moved, cut>>
    BY <1>6 DEF vars, bufferVars, routerVars, siteVars
  <2> QED
    BY <2>1, SiteKept, DeclaredKept
<1> QED
  BY <1>1, <1>2, <1>3, <1>4, <1>5, <1>6 DEF SiteNext

\* In a site whose routes capture what their handlers take, a request is answered as its
\* route says, by itself and with its length, whatever requests came before it on the
\* connection and in whatever pieces they arrived.
THEOREM SiteAnswersByRoute == SiteSpec /\ TakersCapture => []AnsweredByItsRoute
<1> DEFINE Inv == RouteInv /\ TakersCapture /\ ConnInv /\ OrderInv /\ AnswerInv /\ SiteInv
<1>1. SiteInit /\ TakersCapture => Inv
  <2>1. SiteInit => Init
    BY DEF SiteInit
  <2> QED
    BY <2>1, RouteInit, SiteStarts, InitConn, OrderInit, AnswerStart
<1>2. Inv /\ [SiteNext]_<<vars, routerVars, siteVars>> => Inv'
  BY SiteStepIsConnStep, RouteStep, SiteStep, ConnStep, OrderStep, AnswerStep
<1>3. Inv => AnsweredByItsRoute
  BY DEF SiteInv, AnswerIsAlone, AnsweredByItsRoute
<1> QED
  BY <1>1, <1>2, <1>3, PTL DEF SiteSpec

=============================================================================
