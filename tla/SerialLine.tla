----------------------------- MODULE SerialLine -----------------------------
(***************************************************************************)
(* The buffered byte I/O of serial2002_lib.c: one end of a serial line     *)
(* writes messages with serial2002_write through the write buffer of its   *)
(* struct serial2002_io, the other end reads them with serial2002_read     *)
(* through its read buffer, and its poll may time out anywhere, also       *)
(* inside a message.                                                       *)
(*                                                                         *)
(* Every byte carries the number of the message it belongs to (0: an event *)
(* character of the adapter) and its place in it: a history that no step   *)
(* looks at.                                                               *)
(***************************************************************************)
EXTENDS SerialCodec, SequencesExt

CONSTANTS
    Data,           \* the messages that can be written
    BufferSize,     \* sizeof(io.read.data) = sizeof(io.write.data)
    MaxMessages,    \* bound: messages written
    MaxTimeouts,    \* bound: reads that time out
    MaxEvents       \* bound: event characters

ASSUME BufferAssumption == BufferSize \in Nat \ {0}
ASSUME BoundsAssumption == MaxMessages \in Nat /\ MaxTimeouts \in Nat /\ MaxEvents \in Nat
ASSUME DataAssumption ==
    /\ Data \subseteq [kind : {"digital", "channel"}, index : Index, value : Nat]
    /\ \A d \in Data : d.kind = "digital" => d.value \in {0, 1}

VARIABLES
    todo,           \* bytes tty_write has not buffered yet
    write_buffer,   \* io.write.data[n .. pos - 1]
    flushing,       \* whether serial2002_flush is in its loop
    line,           \* bytes on the way and in the receiver's kernel
    read_buffer,    \* io.read.data[0 .. count - 1]
    read_pos,       \* io.read.pos
    reading,        \* the receiver's message so far
    sent,           \* history: the messages written
    got,            \* history: what the reads returned
    torn,           \* history: a timeout hit inside the current message
    timeouts,       \* number of timeouts
    events          \* number of event characters

writerVars == <<todo, write_buffer, flushing, sent, events>>
readerVars == <<read_buffer, read_pos, reading, got, torn, timeouts>>
vars == <<writerVars, line, readerVars>>

Init ==
    /\ todo = << >> /\ write_buffer = << >> /\ flushing = FALSE
    /\ line = << >>
    /\ read_buffer = << >> /\ read_pos = 0 /\ reading = Start
    /\ sent = << >> /\ got = << >>
    /\ torn = FALSE /\ timeouts = 0 /\ events = 0

Tagged(bytes, of) == [i \in 1..Len(bytes) |-> [b |-> bytes[i], of |-> of, at |-> i]]

-----------------------------------------------------------------------------
(* The writer *)

write_message(d) ==
    /\ todo = << >> /\ ~flushing
    /\ Len(sent) < MaxMessages
    /\ sent' = Append(sent, d)
    /\ todo' = Tagged(serial2002_write(d), Len(sent) + 1)
    /\ UNCHANGED <<write_buffer, flushing, events, line, readerVars>>

\* Seeded fault: only a full buffer is flushed.
tty_write_without_flush ==
    /\ todo # << >> /\ ~flushing
    /\ write_buffer' = Append(write_buffer, Head(todo))
    /\ todo' = Tail(todo)
    /\ flushing' = (Len(write_buffer') >= BufferSize)
    /\ UNCHANGED <<sent, events, line, readerVars>>

\* One byte into the buffer, which is flushed when it is full and at the end.
tty_write ==
    /\ todo # << >> /\ ~flushing
    /\ write_buffer' = Append(write_buffer, Head(todo))
    /\ todo' = Tail(todo)
    /\ flushing' = (Len(write_buffer') >= BufferSize \/ todo' = << >>)
    /\ UNCHANGED <<sent, events, line, readerVars>>

\* serial2002_flush: write() takes some of the bytes that are left.
flush_some(n) ==
    /\ flushing
    /\ line' = line \o SubSeq(write_buffer, 1, n)
    /\ write_buffer' = SubSeq(write_buffer, n + 1, Len(write_buffer))
    /\ flushing' = (write_buffer' # << >>)
    /\ UNCHANGED <<todo, sent, events, readerVars>>

\* The adapter inserts its event character between two messages.
adapter_event ==
    /\ todo = << >> /\ ~flushing
    /\ events < MaxEvents
    /\ events' = events + 1
    /\ line' = line \o Tagged(<<EventCharacter>>, 0)
    /\ UNCHANGED <<todo, write_buffer, flushing, sent, readerVars>>

-----------------------------------------------------------------------------
(* The reader *)

BufferEmpty == read_pos >= Len(read_buffer)

Available == IF Len(line) > BufferSize THEN BufferSize ELSE Len(line)

\* What serial2002_read does with the next byte; it returns when the status is
\* not "more" any more, and is called again.
consume(byte) ==
    LET r == read_byte(reading, byte.b)
    IN  /\ reading' = IF r.status = "more" THEN r ELSE Start
        /\ got' = IF r.status = "more" THEN got
                  ELSE Append(got, [status |-> r.status, of |-> byte.of, clean |-> ~torn,
                                    data |-> Message(r.kind, r.index, r.value)])
        /\ torn' = (torn /\ Continues(byte.b))

\* The next byte is in the buffer.
tty_read ==
    /\ ~BufferEmpty
    /\ consume(read_buffer[read_pos + 1])
    /\ read_pos' = read_pos + 1
    /\ UNCHANGED <<writerVars, line, read_buffer, timeouts>>

\* The buffer is empty: poll() returns, read() fills it, the first byte is taken.
tty_read_fill ==
    /\ BufferEmpty /\ line # << >>
    /\ read_buffer' = SubSeq(line, 1, Available)
    /\ line' = SubSeq(line, Available + 1, Len(line))
    /\ consume(Head(line))
    /\ read_pos' = 1
    /\ UNCHANGED <<writerVars, timeouts>>

\* poll() times out: serial2002_read returns ETIMEDOUT and what it had read of
\* the message is lost; pos advances all the same.
tty_read_timeout ==
    /\ BufferEmpty /\ line = << >>
    /\ timeouts < MaxTimeouts
    /\ timeouts' = timeouts + 1
    /\ read_pos' = read_pos + 1
    /\ reading' = Start
    /\ torn' = (torn \/ reading.length > 0)
    /\ UNCHANGED <<writerVars, line, read_buffer, got>>

WriterStep ==
    \/ tty_write
    \/ \E n \in 1..Len(write_buffer) : flush_some(n)

ReaderStep == tty_read \/ tty_read_fill

Next ==
    \/ \E d \in Data : write_message(d)
    \/ WriterStep \/ adapter_event
    \/ ReaderStep \/ tty_read_timeout

\* A write that was begun and a read that has bytes go on.
Spec == Init /\ [][Next]_vars /\ WF_vars(WriterStep) /\ WF_vars(ReaderStep)

-----------------------------------------------------------------------------
(* Safety *)

TaggedByte == [b : Byte, of : 0..MaxMessages, at : 1..6]

\* Positions stay inside the buffers, which are as long as the code makes them.
TypeOK ==
    /\ \A bytes \in {todo, write_buffer, line, read_buffer} : bytes \in Seq(TaggedByte)
    /\ flushing \in BOOLEAN /\ torn \in BOOLEAN
    /\ Len(write_buffer) <= BufferSize /\ Len(read_buffer) <= BufferSize
    /\ read_pos \in Nat /\ timeouts \in 0..MaxTimeouts /\ events \in 0..MaxEvents
    /\ reading.length \in 0..5 /\ reading.value \in Nat
    /\ sent \in Seq(Data)

\* A read that no timeout interrupted returns the message that was written,
\* whatever its length, wherever the buffers were flushed and filled, and
\* also when the message before it was torn: readers resynchronise at once.
\* The messages are read in the order they were written, none twice, and
\* without timeouts none is missing.
CleanReadsExact ==
    /\ \A i \in 1..Len(got) : got[i].clean =>
          got[i].status = "OK" /\ got[i].data = sent[got[i].of]
    /\ \A i, j \in 1..Len(got) : i < j => got[i].of < got[j].of
    /\ timeouts = 0 => \A i \in 1..Len(got) : got[i].of = i

\* The messages whose last byte the reader has passed.
Passed ==
    {m \in 1..Len(sent) :
        \A bytes \in {todo, write_buffer, line,
                      SubSeq(read_buffer, read_pos + 1, Len(read_buffer))} :
            \A i \in 1..Len(bytes) : bytes[i].of # m}

\* A timeout costs no more than the message it interrupts.
TimeoutCostsOneMessage ==
    Cardinality({m \in Passed : ~ \E i \in 1..Len(got) : got[i].of = m /\ got[i].clean})
        <= timeouts

-----------------------------------------------------------------------------
(* Liveness *)

\* What was written is read: no byte stays behind in a buffer.
EverythingIsPassed ==
    \A m \in 1..MaxMessages : Len(sent) >= m ~> m \in Passed
=============================================================================
