------------------------------- MODULE Buffer -------------------------------
(***************************************************************************)
(* The byte buffer of a connection: a vector with a reader and a writer    *)
(* index.  The operators say what each member function makes of a buffer;  *)
(* the actions keep beside it the queue of bytes it stands for.            *)
(***************************************************************************)
EXTENDS Integers, Sequences

CONSTANTS
    Byte,          \* what a cell may hold
    Zero,          \* what a new cell holds
    Prepend,       \* kCheapPrepend
    InitialSize,   \* kInitialSize
    Extra          \* the size of the second buffer of readFd

ASSUME BufferAssumption ==
    /\ Zero \in Byte
    /\ Prepend \in Nat /\ InitialSize \in Nat /\ Extra \in Nat \ {0}

VARIABLES
    buffer,   \* cells is buffer_, from index 0 to size - 1; reader and writer its indices
    queue,    \* what a queue of bytes would hold in its place
    moved     \* "no", "moved" once makeSpace has moved bytes, "died" if it crashed there

bufferVars == <<buffer, queue, moved>>

NewBuffer ==
    [size |-> Prepend + InitialSize, reader |-> Prepend, writer |-> Prepend,
     cells |-> [i \in 0..(Prepend + InitialSize - 1) |-> Zero]]

ReadableBytes(b) == b.writer - b.reader
WritableBytes(b) == b.size - b.writer
Readable(b) == [i \in 1..ReadableBytes(b) |-> b.cells[b.reader + i - 1]]

RetrievedOneLess(b, n) ==   \* faulty variant: one byte is left
    IF n < ReadableBytes(b) THEN [b EXCEPT !.reader = @ + n - 1]
    ELSE [b EXCEPT !.reader = Prepend, !.writer = Prepend]
\* retrieve: an emptied buffer starts again at the front.
Retrieved(b, n) ==
    IF n < ReadableBytes(b) THEN [b EXCEPT !.reader = @ + n]
    ELSE [b EXCEPT !.reader = Prepend, !.writer = Prepend]

\* The bytes are copied behind writer, where there is room for them.
Written(b, data) ==
    [b EXCEPT !.writer = @ + Len(data),
              !.cells = [i \in 0..(b.size - 1) |->
                  IF i \in b.writer..(b.writer + Len(data) - 1)
                  THEN data[i - b.writer + 1] ELSE b.cells[i]]]

\* resize(write_index_ + len).
Grown(b, len) ==
    [b EXCEPT !.size = b.writer + len,
              !.cells = [i \in 0..(b.writer + len - 1) |->
                  IF i < b.size THEN b.cells[i] ELSE Zero]]

\* The other branch of makeSpace copies the bytes from readableBytes() up to
\* writableBytes() of the vector, not those between reader and writer.
Shifted(b) ==
    [b EXCEPT !.reader = Prepend, !.writer = Prepend + ReadableBytes(b),
              !.cells = [i \in 0..(b.size - 1) |->
                  IF i \in Prepend..(Prepend + WritableBytes(b) - ReadableBytes(b) - 1)
                  THEN b.cells[i - Prepend + ReadableBytes(b)] ELSE b.cells[i]]]

ShiftMakesRoom(b, len) == WritableBytes(b) + b.reader >= len + Prepend
MakeSpace(b, len) == IF ShiftMakesRoom(b, len) THEN Shifted(b) ELSE Grown(b, len)
Ensured(b, len) == IF WritableBytes(b) < len THEN MakeSpace(b, len) ELSE b
Appended(b, data) == Written(Ensured(b, Len(data)), data)

\* readFd: what does not fit goes through the buffer on the stack.
First(b, data) == SubSeq(data, 1, WritableBytes(b))
Rest(b, data) == SubSeq(data, WritableBytes(b) + 1, Len(data))
ReadIntoFromStart(b, data) ==   \* faulty variant: the second part is read from the first
    IF Len(data) <= WritableBytes(b) THEN Written(b, data)
    ELSE Appended(Written(b, First(b, data)), SubSeq(data, 1, Len(data) - WritableBytes(b)))
ReadInto(b, data) ==
    IF Len(data) <= WritableBytes(b) THEN Written(b, data)
    ELSE Appended(Written(b, First(b, data)), Rest(b, data))
ReadLimit(b) == WritableBytes(b) + (IF WritableBytes(b) < Extra THEN Extra ELSE 0)

Shifts(b, len) == WritableBytes(b) < len /\ ShiftMakesRoom(b, len)
ReadShifts(b, data) ==
    /\ Len(data) > WritableBytes(b)
    /\ Shifts(Written(b, First(b, data)), Len(data) - WritableBytes(b))

\* std::copy over a range that ends before it begins does nothing or crashes,
\* depending on the library.
Outcomes(shifts, b) ==
    IF ~shifts THEN {moved}
    ELSE IF WritableBytes(b) < ReadableBytes(b) THEN {"moved", "died"} ELSE {"moved"}

-----------------------------------------------------------------------------
BufferInit == buffer = NewBuffer /\ queue = <<>> /\ moved = "no"

\* assert(len <= readableBytes()) holds of every call.
Retrieve(n) ==
    /\ n \in 0..ReadableBytes(buffer)
    /\ buffer' = Retrieved(buffer, n)
    /\ queue' = SubSeq(queue, n + 1, Len(queue))
    /\ UNCHANGED moved

AppendBytes(data) ==
    /\ buffer' = Appended(buffer, data)
    /\ queue' = queue \o data
    /\ moved' \in Outcomes(Shifts(buffer, Len(data)), buffer)

ReadFd(data) ==
    /\ Len(data) <= ReadLimit(buffer)
    /\ buffer' = ReadInto(buffer, data)
    /\ queue' = queue \o data
    /\ moved' \in Outcomes(ReadShifts(buffer, data), Written(buffer, First(buffer, data)))

BufferNext ==
    /\ moved # "died"
    /\ \/ \E n \in Nat : Retrieve(n)
       \/ \E data \in Seq(Byte) : AppendBytes(data) \/ ReadFd(data)

BufferSpec == BufferInit /\ [][BufferNext]_bufferVars

-----------------------------------------------------------------------------
BufferTypeOK ==
    /\ buffer \in [size : Nat, reader : Nat, writer : Nat, cells : [0..(buffer.size - 1) -> Byte]]
    /\ queue \in Seq(Byte)
    /\ moved \in {"no", "moved", "died"}

\* Whatever is appended, read and retrieved, the readable bytes stay inside the vector
\* and behind the prepended area, and there are as many as were put in and not yet
\* taken out, so that the asserts of retrieve and ensureWritableBytes hold.
IndicesInBounds ==
    /\ Prepend <= buffer.reader /\ buffer.reader <= buffer.writer
    /\ buffer.writer <= buffer.size
    /\ ReadableBytes(buffer) = Len(queue)

\* The buffer is a queue of bytes as long as makeSpace has not moved them: growth,
\* the two-part read and the restart at the front neither lose nor garble a byte.
BufferIsQueue == moved = "no" => Readable(buffer) = queue

=============================================================================
