----------------------------- MODULE RTMPMessages -----------------------------
(***************************************************************************)
(* The messages of an RTMP connection (internal/protocols/rtmp/rawmessage,   *)
(* chunk and message): the writer splits messages into chunks whose headers  *)
(* leave out what the chunk stream said before, and the reader of the peer   *)
(* puts them together again.  A body is a sequence of bytes <<n, i>>, the    *)
(* i-th of the n-th message; a reader that takes a wrong number of bytes off *)
(* the connection is lost, which is err here.  Acknowledgements and messages *)
(* above maxBodySize are left out.                                           *)
(***************************************************************************)
EXTENDS Integers, Sequences, SequencesExt, FiniteSetsExt

CONSTANTS
    ChunkStreams,       \* chunk stream IDs
    ControlChunkStream, \* ControlChunkStreamID
    MessageStreams,     \* message stream IDs
    Steps,              \* steps of the timestamps, which may also go back
    BodyLens,           \* lengths of the bodies
    InitialChunkSize,   \* 128
    NewChunkSize,       \* the one that SetChunkSize sets
    Word,               \* 2^32
    Extended,           \* 0xFFFFFF: greater timestamps are put after the header
    MaxMessages         \* messages that are sent (a bound)

VARIABLES
    writer,     \* rawmessage.Writer
    wire,       \* chunks on the connection
    reader,     \* rawmessage.Reader
    sent,       \* messages passed to Write()
    received    \* messages returned by Read()

vars == <<writer, wire, reader, sent, received>>

\* A pointer of the writer that may be nil is a set with at most one element.
NoWriterStream == [id |-> {}, type |-> {}, len |-> {}, time |-> {}, delta |-> {}, ext |-> FALSE]

NoReaderStream ==
    [started |-> FALSE, id |-> 0, type |-> "", len |-> 0, time |-> 0, delta |-> {},
     ext |-> FALSE, recv |-> <<>>]

Init ==
    /\ writer = [chunkSize |-> InitialChunkSize, streams |-> [c \in ChunkStreams |-> NoWriterStream]]
    /\ wire = <<>>
    /\ reader = [chunkSize |-> InitialChunkSize, err |-> FALSE,
                 streams |-> [c \in ChunkStreams |-> NoReaderStream]]
    /\ sent = <<>>
    /\ received = <<>>

-----------------------------------------------------------------------------
(* writer.go.                                                                *)

\* The type of the first chunk: 0 has a whole header, 1 leaves out the message
\* stream, 2 the type and the length too, 3 everything.
ChunkType(w, m, delta) ==
    IF w.id # {m.id} \/ delta = {} THEN 0
    ELSE IF w.type # {m.type} \/ w.len # {Len(m.body)} THEN 1
    ELSE IF w.delta # delta THEN 2
    ELSE 3

\* Mutant of Uint32: a timestamp that does not fit is sent as it is.
Uint32Unbounded(t) == t

Uint32(t) == t % Word

Fragments(body, size) ==
    [i \in 1..Max({1, (Len(body) + size - 1) \div size}) |->
        SubSeq(body, (i - 1) * size + 1, Min({i * size, Len(body)}))]

\* The header of the first chunk; the difference to the timestamp before is used
\* only if it is not negative.
Header(w, m) ==
    LET delta == {d \in {m.time - t : t \in w.time} : d >= 0}
        type == ChunkType(w, m, delta)
        time == Uint32(IF type = 0 THEN m.time ELSE CHOOSE d \in delta : TRUE)
    IN  [type |-> type, time |-> time, delta |-> delta,
         ext |-> IF type = 3 THEN w.ext ELSE time >= Extended]

\* The chunks of a message: those after the first leave out everything.
Chunks(w, m) ==
    LET h == Header(w.streams[m.cs], m)
        fragments == Fragments(m.body, w.chunkSize)
    IN  [i \in DOMAIN fragments |->
            [cs |-> m.cs, type |-> IF i = 1 THEN h.type ELSE 3, time |-> h.time, id |-> m.id,
             mtype |-> m.type, len |-> Len(m.body), ext |-> h.ext, body |-> fragments[i]]]

\* What the writer keeps of a message, and the chunk size that message.Writer
\* sets after it.
AfterWrite(w, m) ==
    LET s == w.streams[m.cs]
        h == Header(s, m)
    IN  [chunkSize |-> IF m.type = "SetChunkSize" THEN NewChunkSize ELSE w.chunkSize,
         streams |-> [w.streams EXCEPT ![m.cs] =
            [id |-> {m.id}, type |-> {m.type}, len |-> {Len(m.body)}, time |-> {m.time},
             delta |-> IF h.delta = {} THEN s.delta ELSE h.delta, ext |-> h.ext]]]

\* writeMessage().
Write(m) ==
    /\ wire' = wire \o Chunks(writer, m)
    /\ writer' = AfterWrite(writer, m)
    /\ sent' = Append(sent, m)
    /\ UNCHANGED <<reader, received>>

\* The chunk size is set on the control chunk stream, which has no other type.
WriteMessage ==
    /\ Len(sent) < MaxMessages
    /\ \E cs \in ChunkStreams, id \in MessageStreams, step \in Steps \cup {-1}, len \in BodyLens,
          type \in {"Audio", "DataAMF0", "SetChunkSize"} :
        LET last == writer.streams[cs].time
        IN  /\ type = "SetChunkSize" <=> cs = ControlChunkStream
            /\ type = "SetChunkSize" => len = Max(BodyLens)
            /\ Write([cs |-> cs, id |-> id, type |-> type,
                      time |-> (IF last = {} THEN 0 ELSE CHOOSE t \in last : TRUE) + step,
                      body |-> [i \in 1..len |-> <<Len(sent) + 1, i>>]])

-----------------------------------------------------------------------------
(* reader.go.                                                                *)

\* A chunk that cannot follow what was read on its chunk stream.
Unexpected(r, c) ==
    \/ c.type \in 0..2 /\ r.recv # <<>>
    \/ c.type \in 1..2 /\ ~r.started
    \/ c.type = 3 /\ r.recv = <<>> /\ r.delta = {}

\* Mutant of ReadHeader: the flag of extended timestamps survives a type 2 chunk.
ReadHeaderKeepsExtended(r, c) ==
    LET delta == IF c.type = 3 THEN r.delta ELSE {c.time}
    IN  [started |-> TRUE,
         id |-> IF c.type = 0 THEN c.id ELSE r.id,
         type |-> IF c.type \in 0..1 THEN c.mtype ELSE r.type,
         len |-> IF c.type \in 0..1 THEN c.len ELSE r.len,
         time |-> IF c.type = 0 THEN c.time ELSE IF r.recv # <<>> THEN r.time
                  ELSE (r.time + CHOOSE d \in delta : TRUE) % Word,
         delta |-> IF c.type = 0 THEN {} ELSE delta,
         ext |-> IF c.type \in 2..3 THEN r.ext ELSE c.ext,
         recv |-> r.recv]

\* What readMessage() takes from the header of the chunk and what it keeps.
ReadHeader(r, c) ==
    LET delta == IF c.type = 3 THEN r.delta ELSE {c.time}
    IN  [started |-> TRUE,
         id |-> IF c.type = 0 THEN c.id ELSE r.id,
         type |-> IF c.type \in 0..1 THEN c.mtype ELSE r.type,
         len |-> IF c.type \in 0..1 THEN c.len ELSE r.len,
         time |-> IF c.type = 0 THEN c.time ELSE IF r.recv # <<>> THEN r.time
                  ELSE (r.time + CHOOSE d \in delta : TRUE) % Word,
         delta |-> IF c.type = 0 THEN {} ELSE delta,
         ext |-> IF c.type = 3 THEN r.ext ELSE c.ext,
         recv |-> r.recv]

ReadChunk ==
    LET c == Head(wire)
        r == reader.streams[c.cs]
        n == ReadHeader(r, c)
        size == Min({n.len - Len(r.recv), reader.chunkSize})
        body == r.recv \o c.body
        message == [cs |-> c.cs, id |-> n.id, type |-> n.type, time |-> n.time, body |-> body]
        whole == Len(body) = n.len
    IN  /\ wire # <<>> /\ ~reader.err
        /\ IF Unexpected(r, c) \/ size # Len(c.body) \/ (c.type = 3 /\ r.ext # c.ext)
           THEN /\ reader' = [reader EXCEPT !.err = TRUE]
                /\ UNCHANGED received
           ELSE /\ reader' = [reader EXCEPT
                        !.streams[c.cs] = [n EXCEPT !.recv = IF whole THEN <<>> ELSE body],
                        !.chunkSize = IF whole /\ n.type = "SetChunkSize" THEN NewChunkSize ELSE @]
                /\ received' = IF whole THEN Append(received, message) ELSE received
        /\ wire' = Tail(wire)
        /\ UNCHANGED <<writer, sent>>

Next == WriteMessage \/ ReadChunk

Spec == Init /\ [][Next]_vars

-----------------------------------------------------------------------------
(* Properties.                                                              *)

TypeOK ==
    /\ writer.chunkSize \in {InitialChunkSize, NewChunkSize}
    /\ reader.chunkSize \in {InitialChunkSize, NewChunkSize}
    /\ \A i \in DOMAIN wire : wire[i].type \in 0..3 /\ wire[i].time \in 0..(Word - 1)

\* The message stream and the timestamps of a chunk stream never make the
\* writer start over with a type 0 chunk.
NeverStartsOver ==
    \A i, j \in DOMAIN sent :
        i < j /\ sent[i].cs = sent[j].cs => sent[i].id = sent[j].id /\ sent[i].time <= sent[j].time

\* What is read is what was written, message by message and up to the width of
\* a timestamp, however chunks leave out parts of their headers and wherever
\* the chunk size changes, unless the writer starts over (see the README).
ReceivedAsSent ==
    NeverStartsOver =>
        LET Seen(m) == [m EXCEPT !.time = @ % Word]
        IN  /\ ~reader.err
            /\ IsPrefix(received, [i \in DOMAIN sent |-> Seen(sent[i])])
            /\ wire = <<>> => Len(received) = Len(sent)
=============================================================================
