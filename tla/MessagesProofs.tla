---------------------------- MODULE MessagesProofs ----------------------------
(***************************************************************************)
(* The messages of RTMP, for every number of messages, all lengths, chunk   *)
(* sizes and timestamps, and every width of a timestamp: what is read is    *)
(* what was written.  Lemmas about numbers, about the chunks of a message   *)
(* and about what the two sides know of a chunk stream, in this order.      *)
(***************************************************************************)
EXTENDS ServicesProofs, RecorderProofs

-----------------------------------------------------------------------------
(* Numbers.                                                                 *)

LEMMA DivBounds ==
    ASSUME NEW n \in Nat, NEW s \in Nat \ {0}, NEW q, q = n \div s
    PROVE  q \in Nat /\ q * s <= n /\ n < q * s + s
OBVIOUS

\* A quotient that is rounded up.
LEMMA DivUp ==
    ASSUME NEW n \in Nat, NEW s \in Nat \ {0}, NEW q, q = (n + s - 1) \div s
    PROVE  q \in Nat /\ q * s <= n + s - 1 /\ n <= q * s
<1> DEFINE k == n + s - 1
<1>1. k \in Nat /\ q = k \div s /\ k = n + s - 1
  OBVIOUS
<1> HIDE DEF k
<1>2. q \in Nat /\ q * s <= k /\ k < q * s + s
  BY <1>1, DivBounds
<1>3. q * s \in Nat
  BY <1>2
<1> QED
  BY <1>1, <1>2, <1>3

LEMMA TimesMonotone ==
    ASSUME NEW i \in Nat, NEW q \in Nat, i < q, NEW s \in Nat \ {0}
    PROVE  i * s + s <= q * s
OBVIOUS

LEMMA TimesNext ==
    ASSUME NEW i \in Nat, NEW s \in Nat
    PROVE  i * s \in Nat /\ (i + 1) * s = i * s + s
OBVIOUS

LEMMA ModBounds ==
    ASSUME NEW a \in Int, NEW s \in Nat \ {0}
    PROVE  a % s \in 0..(s - 1)
OBVIOUS

LEMMA DivMod ==
    ASSUME NEW a \in Int, NEW s \in Nat \ {0}
    PROVE  \E k \in Int : a = s * k + (a % s)
<1>1. a \div s \in Int /\ a = s * (a \div s) + (a % s)
  OBVIOUS
<1> QED
  BY <1>1

LEMMA ModUnique ==
    ASSUME NEW a \in Int, NEW s \in Nat \ {0}, NEW k \in Int, NEW r \in 0..(s - 1),
           a = s * k + r
    PROVE  a % s = r
<1>1. PICK l \in Int : a = s * l + (a % s)
  BY DivMod
<1> DEFINE u == a % s
<1>2. u \in 0..(s - 1)
  BY ModBounds
<1> HIDE DEF u
<1>3. s * (k - l) = u - r
  BY <1>1, <1>2 DEF u
<1>4. CASE k - l >= 1
  <2>1. s * (k - l) >= s
    BY <1>4
  <2> QED
    BY <1>2, <1>3, <2>1
<1>5. CASE k - l <= -1
  <2>1. s * (k - l) <= -s
    BY <1>5
  <2> QED
    BY <1>2, <1>3, <2>1
<1>6. CASE k - l = 0
  BY <1>2, <1>3, <1>6 DEF u
<1> QED
  BY <1>4, <1>5, <1>6

\* A timestamp can be summed up from differences that were cut to its width.
LEMMA ModAdd ==
    ASSUME NEW a \in Int, NEW b \in Int, NEW s \in Nat \ {0}
    PROVE  ((a % s) + (b % s)) % s = (a + b) % s
<1> DEFINE u == a % s
           v == b % s
           x == u + v
           w == x % s
<1>1. u \in Int /\ v \in Int
  BY ModBounds
<1>2. /\ \E k \in Int : a = s * k + u
      /\ \E l \in Int : b = s * l + v
  BY DivMod
<1> HIDE DEF u, v
<1>x. x \in Int /\ x = u + v
  BY <1>1
<1> HIDE DEF x
<1>3. /\ w \in 0..(s - 1)
      /\ \E m \in Int : x = s * m + w
  BY <1>x, ModBounds, DivMod
<1> HIDE DEF w
<1>4. PICK k \in Int : a = s * k + u
  BY <1>2
<1>5. PICK l \in Int : b = s * l + v
  BY <1>2
<1>6. PICK m \in Int : x = s * m + w
  BY <1>3
<1>7. a + b = s * (k + l + m) + w /\ a + b \in Int /\ k + l + m \in Int
  BY <1>1, <1>x, <1>3, <1>4, <1>5, <1>6
<1>8. (a + b) % s = w
  BY <1>3, <1>7, ModUnique
<1> QED
  BY <1>8, <1>x DEF u, v, w, x

LEMMA MinMaxOfTwo ==
    ASSUME NEW a \in Int, NEW b \in Int
    PROVE  /\ Messages!Min({a, b}) = IF a <= b THEN a ELSE b
           /\ Messages!Max({a, b}) = IF a >= b THEN a ELSE b
<1>1. \E x \in {a, b} : \A y \in {a, b} : x <= y
  OBVIOUS
<1>2. \E x \in {a, b} : \A y \in {a, b} : x >= y
  OBVIOUS
<1>3. /\ Messages!Min({a, b}) \in {a, b}
      /\ \A y \in {a, b} : Messages!Min({a, b}) <= y
  BY <1>1 DEF Messages!Min
<1>4. /\ Messages!Max({a, b}) \in {a, b}
      /\ \A y \in {a, b} : Messages!Max({a, b}) >= y
  BY <1>2 DEF Messages!Max
<1> QED
  BY <1>3, <1>4

-----------------------------------------------------------------------------
(* The state of the two sides.                                              *)

MessageTypes == {"Audio", "DataAMF0", "SetChunkSize"}
ChunkSizes == {InitialChunkSize, NewChunkSize}
Bytes == Nat \X Nat
RTMPMessage ==
    [cs: ChunkStreams, id: MessageStreams, type: MessageTypes, time: Int, body: Seq(Bytes)]
WriterStream ==
    [id: SUBSET MessageStreams, type: SUBSET MessageTypes, len: SUBSET Nat, time: SUBSET Int,
     delta: SUBSET Nat, ext: BOOLEAN]
RTMPWriter == [chunkSize: ChunkSizes, streams: [ChunkStreams -> WriterStream]]

\* The writer has written on a chunk stream.
Used(w) == w.id # {}

\* Nothing makes the writer start over with message m.
GoesOn(w, m) ==
    IF Used(w) THEN w.id = {m.id} /\ \E t \in Int : w.time = {t} /\ t <= m.time
    ELSE w.time = {} /\ w.delta = {}

\* The reader knows of a chunk stream what the writer has said.
Agree(w, r) ==
    /\ r.started = Used(w)
    /\ Used(w) =>
        /\ w.id = {r.id} /\ w.type = {r.type} /\ w.len = {r.len} /\ w.ext = r.ext
        /\ \E t \in Int : w.time = {t} /\ r.time = t % Word32
        /\ \/ w.delta = {} /\ r.delta = {}
           \/ \E d \in Nat : w.delta = {d} /\ r.delta = {d % Word32}

\* What the writer keeps of a chunk stream after message m.
StreamAfter(w, m) ==
    [id |-> {m.id}, type |-> {m.type}, len |-> {Len(m.body)}, time |-> {m.time},
     delta |-> IF Messages!Header(w, m).delta = {} THEN w.delta ELSE Messages!Header(w, m).delta,
     ext |-> Messages!Header(w, m).ext]

\* Chunk c has the header of the first chunk of message m.
HasHeader(c, w, m) ==
    LET h == Messages!Header(w, m)
    IN  /\ c.type = h.type /\ c.time = h.time /\ c.ext = h.ext
        /\ c.id = m.id /\ c.mtype = m.type /\ c.len = Len(m.body)

\* The header of a message on a chunk stream that was used, and on a new one.
LEMMA HeaderOfNew ==
    ASSUME NEW w \in WriterStream, NEW m \in RTMPMessage, ~Used(w)
    PROVE  LET h == Messages!Header(w, m)
           IN  h.type = 0 /\ h.time = m.time % Word32
BY DEF Messages!Header, Messages!ChunkType, Messages!Uint32, Used, RTMPMessage, WriterStream

LEMMA HeaderOfUsed ==
    ASSUME NEW w \in WriterStream, NEW m \in RTMPMessage, Used(w), w.id = {m.id},
           NEW t \in Int, w.time = {t}, t <= m.time
    PROVE  LET h == Messages!Header(w, m)
               d == m.time - t
           IN  /\ h.delta = {d} /\ d \in Nat /\ h.time = d % Word32
               /\ h.type \in 1..3
               /\ h.type \in 2..3 => w.type = {m.type} /\ w.len = {Len(m.body)}
               /\ h.type = 3 => w.delta = {d} /\ h.ext = w.ext
<1> DEFINE d == m.time - t
           D == {x \in {m.time - y : y \in w.time} : x >= 0}
<1>1. d \in Nat /\ D = {d}
  BY DEF RTMPMessage
<1>2. (CHOOSE x \in D : TRUE) = d
  BY <1>1
<1>3. Messages!Header(w, m) =
        [type |-> Messages!ChunkType(w, m, D),
         time |-> Messages!Uint32(IF Messages!ChunkType(w, m, D) = 0 THEN m.time
                                  ELSE CHOOSE x \in D : TRUE),
         delta |-> D,
         ext |-> IF Messages!ChunkType(w, m, D) = 3 THEN w.ext
                 ELSE Messages!Uint32(IF Messages!ChunkType(w, m, D) = 0 THEN m.time
                                      ELSE CHOOSE x \in D : TRUE) >= Extended]
  BY DEF Messages!Header
<1> HIDE DEF D
<1>4. /\ Messages!ChunkType(w, m, D) \in 1..3
      /\ Messages!ChunkType(w, m, D) \in 2..3 => w.type = {m.type} /\ w.len = {Len(m.body)}
      /\ Messages!ChunkType(w, m, D) = 3 => w.delta = D
  BY <1>1 DEF Messages!ChunkType
<1> QED
  BY <1>1, <1>2, <1>3, <1>4 DEF Messages!Uint32

LEMMA HeaderTypes ==
    ASSUME NEW w \in WriterStream, NEW m \in RTMPMessage
    PROVE  LET h == Messages!Header(w, m)
           IN  /\ h.type \in 0..3 /\ h.time \in 0..(Word32 - 1) /\ h.ext \in BOOLEAN
               /\ h.delta \subseteq Nat
<1> DEFINE D == {x \in {m.time - y : y \in w.time} : x >= 0}
           T == Messages!ChunkType(w, m, D)
           n == IF T = 0 THEN m.time ELSE CHOOSE x \in D : TRUE
<1>1. m.time \in Int /\ D \subseteq Nat
  BY DEF RTMPMessage, WriterStream
<1>2. Messages!Header(w, m) =
        [type |-> T, time |-> Messages!Uint32(n), delta |-> D,
         ext |-> IF T = 3 THEN w.ext ELSE Messages!Uint32(n) >= Extended]
  BY DEF Messages!Header
<1> HIDE DEF D
<1>3. T \in 0..3 /\ (T # 0 => D # {})
  BY DEF Messages!ChunkType
<1>4. n \in Int
  <2>1. CASE T = 0
    BY <1>1, <2>1
  <2>2. CASE T # 0
    <3>1. (CHOOSE x \in D : TRUE) \in D
      BY <1>3, <2>2
    <3>2. n = CHOOSE x \in D : TRUE
      BY <2>2
    <3> HIDE DEF n
    <3>3. n \in D
      BY <3>1, <3>2, Zenon
    <3> QED
      BY <1>1, <3>3
  <2> QED
    BY <2>1, <2>2
<1> HIDE DEF T, n
<1>5. Messages!Uint32(n) \in 0..(Word32 - 1)
  BY <1>4, MessagesAssumption, ModBounds DEF Messages!Uint32
<1> DEFINE e == IF T = 3 THEN w.ext ELSE Messages!Uint32(n) >= Extended
<1>6. e \in BOOLEAN
  <2>1. w.ext \in BOOLEAN
    BY DEF WriterStream
  <2>2. (Messages!Uint32(n) >= Extended) \in BOOLEAN
    OBVIOUS
  <2> QED
    BY <2>1, <2>2, Zenon
<1> HIDE DEF e
<1>7. Messages!Header(w, m) =
        [type |-> T, time |-> Messages!Uint32(n), delta |-> D, ext |-> e]
  BY <1>2 DEF e
<1> QED
  BY <1>1, <1>3, <1>5, <1>6, <1>7

LEMMA StreamAfterType ==
    ASSUME NEW w \in WriterStream, NEW m \in RTMPMessage
    PROVE  StreamAfter(w, m) \in WriterStream /\ Used(StreamAfter(w, m))
<1> DEFINE h == Messages!Header(w, m)
<1>1. h.ext \in BOOLEAN /\ h.delta \subseteq Nat
  BY HeaderTypes
<1>2. Len(m.body) \in Nat /\ m.id \in MessageStreams /\ m.type \in MessageTypes /\ m.time \in Int
  BY DEF RTMPMessage
<1> HIDE DEF h
<1>3. w.delta \subseteq Nat
  BY DEF WriterStream
<1>4. StreamAfter(w, m) =
        [id |-> {m.id}, type |-> {m.type}, len |-> {Len(m.body)}, time |-> {m.time},
         delta |-> IF h.delta = {} THEN w.delta ELSE h.delta, ext |-> h.ext]
  BY DEF StreamAfter, h
<1> QED
  BY <1>1, <1>2, <1>3, <1>4 DEF WriterStream, Used

\* The reader takes the first chunk of a message that goes on with its chunk
\* stream, and then knows what the writer has said, this message included.
LEMMA FirstChunkIsRead ==
    ASSUME NEW w \in WriterStream, NEW m \in RTMPMessage, GoesOn(w, m),
           NEW r, Agree(w, r), r.recv = <<>>,
           NEW c, HasHeader(c, w, m)
    PROVE  LET n == Messages!ReadHeader(r, c)
           IN  /\ ~Messages!Unexpected(r, c)
               /\ c.type = 3 => r.ext = c.ext
               /\ Agree(StreamAfter(w, m), n)
               /\ n.id = m.id /\ n.type = m.type /\ n.len = Len(m.body)
               /\ n.time = m.time % Word32 /\ n.recv = <<>>
<1> DEFINE n == Messages!ReadHeader(r, c)
           h == Messages!Header(w, m)
           a == StreamAfter(w, m)
<1>0. /\ c.type = h.type /\ c.time = h.time /\ c.ext = h.ext
      /\ c.id = m.id /\ c.mtype = m.type /\ c.len = Len(m.body)
  BY DEF HasHeader
<1>1. /\ a.id = {m.id} /\ a.type = {m.type} /\ a.len = {Len(m.body)} /\ a.time = {m.time}
      /\ a.delta = (IF h.delta = {} THEN w.delta ELSE h.delta) /\ a.ext = h.ext /\ Used(a)
      /\ m.time \in Int
  BY StreamAfterType DEF StreamAfter, RTMPMessage
<1>2. n.started /\ n.recv = <<>>
  BY DEF Messages!ReadHeader
<1>3. CASE ~Used(w)
  <2>1. h.type = 0 /\ h.time = m.time % Word32
    BY <1>3, HeaderOfNew
  <2>2. ~Messages!Unexpected(r, c)
    BY <1>0, <2>1 DEF Messages!Unexpected
  <2>3. /\ n.id = m.id /\ n.type = m.type /\ n.len = Len(m.body) /\ n.time = m.time % Word32
        /\ n.delta = {} /\ n.ext = h.ext
    BY <1>0, <2>1 DEF Messages!ReadHeader
  <2>4. h.delta = {} /\ a.delta = {}
    BY <1>1, <1>3 DEF GoesOn, Messages!Header
  <2> HIDE DEF n, h, a
  <2> QED
    BY <1>0, <1>1, <1>2, <2>1, <2>2, <2>3, <2>4 DEF n, a, Agree
<1>4. CASE Used(w)
  <2>1. PICK t \in Int : w.time = {t} /\ t <= m.time
    BY <1>4 DEF GoesOn
  <2> DEFINE d == m.time - t
  <2>2. /\ h.delta = {d} /\ d \in Nat /\ h.time = d % Word32
        /\ h.type \in 1..3
        /\ h.type \in 2..3 => w.type = {m.type} /\ w.len = {Len(m.body)}
        /\ h.type = 3 => w.delta = {d} /\ h.ext = w.ext
    BY <1>4, <2>1, HeaderOfUsed DEF GoesOn
  <2>3. a.delta = {d}
    BY <1>1, <2>2
  <2>4. /\ r.started /\ r.id = m.id /\ w.type = {r.type} /\ w.len = {r.len} /\ w.ext = r.ext
        /\ r.time = t % Word32
        /\ w.delta = {d} => r.delta = {d % Word32}
    BY <1>4, <2>1 DEF Agree, GoesOn
  <2>a. /\ h.type \in 2..3 => r.type = m.type /\ r.len = Len(m.body)
        /\ h.type = 3 => r.ext = h.ext /\ r.delta = {d % Word32}
    BY <2>2, <2>4
  <2>5. ((t % Word32) + (d % Word32)) % Word32 = m.time % Word32
    <3>1. t + d = m.time /\ d \in Int
      BY <1>1, <2>2
    <3> HIDE DEF d
    <3>2. Word32 \in Nat \ {0}
      BY MessagesAssumption
    <3>3. ((t % Word32) + (d % Word32)) % Word32 = (t + d) % Word32
      BY <3>1, <3>2, ModAdd
    <3> QED
      BY <3>1, <3>3
  <2> HIDE DEF d, h, a
  <2>6. /\ ~Messages!Unexpected(r, c)
        /\ c.type = 3 => r.ext = c.ext
    BY <1>0, <2>2, <2>4 DEF Messages!Unexpected
  <2>7. /\ n.id = m.id /\ n.type = m.type /\ n.len = Len(m.body) /\ n.ext = h.ext
    BY <1>0, <2>2, <2>4, <2>a DEF Messages!ReadHeader
  <2>b. (IF c.type = 3 THEN r.delta ELSE {c.time}) = {d % Word32}
    BY <1>0, <2>2, <2>a
  <2>8. n.delta = {d % Word32}
    BY <1>0, <2>2, <2>b DEF Messages!ReadHeader
  <2>9. n.time = m.time % Word32
    <3> DEFINE D == IF c.type = 3 THEN r.delta ELSE {c.time}
    <3>1. n.time = (r.time + CHOOSE x \in D : TRUE) % Word32
      BY <1>0, <2>2 DEF Messages!ReadHeader
    <3>2. (CHOOSE x \in D : TRUE) = d % Word32
      BY <2>b
    <3> QED
      BY <2>4, <2>5, <3>1, <3>2
  <2> HIDE DEF n
  <2> QED
    BY <1>1, <1>2, <2>2, <2>3, <2>6, <2>7, <2>8, <2>9 DEF Agree, n, a
<1> QED
  BY <1>3, <1>4

-----------------------------------------------------------------------------
(* The chunks of a message.                                                 *)

\* The number of chunks, and where each begins.
CountOf(len, size) == Messages!Max({1, (len + size - 1) \div size})
StartOf(i, size) == (i - 1) * size

\* What follows byte o of a body in a chunk.
PieceAt(body, o, size) == SubSeq(body, o + 1, Messages!Min({o + size, Len(body)}))

Prefix(body, o) == SubSeq(body, 1, o)
EndOf(len, o, size) == IF len <= o + size THEN len ELSE o + size

LEMMA CountBounds ==
    ASSUME NEW len \in Nat, NEW size \in Nat \ {0}
    PROVE  /\ CountOf(len, size) \in Nat \ {0}
           /\ StartOf(1, size) = 0
           /\ \A i \in 1..CountOf(len, size) :
                /\ StartOf(i, size) \in Nat
                /\ StartOf(i + 1, size) = StartOf(i, size) + size
                /\ i = CountOf(len, size) => len <= StartOf(i, size) + size
                /\ i # CountOf(len, size) => StartOf(i, size) + size < len
                /\ i # 1 => StartOf(i, size) # 0 /\ StartOf(i, size) < len
<1> DEFINE q == (len + size - 1) \div size
           N == CountOf(len, size)
<1>1. q \in Nat /\ q * size <= len + size - 1 /\ len <= q * size
  BY DivUp
<1> HIDE DEF q
<1>2. N = IF 1 >= q THEN 1 ELSE q
  BY <1>1, MinMaxOfTwo DEF CountOf, q
<1> HIDE DEF N
<1>3. N \in Nat \ {0} /\ len <= N * size
  <2>1. CASE q = 0
    BY <1>1, <1>2, <2>1
  <2>2. CASE q # 0
    BY <1>1, <1>2, <2>2
  <2> QED
    BY <2>1, <2>2
<1>4. N # 1 => N * size < len + size
  <2> SUFFICES ASSUME N # 1 PROVE N * size < len + size
    OBVIOUS
  <2>1. N = q
    BY <1>1, <1>2
  <2>2. q * size \in Nat
    BY <1>1
  <2> HIDE DEF N
  <2> QED
    BY <1>1, <2>1, <2>2
<1>5. StartOf(1, size) = 0
  BY DEF StartOf
<1>6. ASSUME NEW i \in 1..N
      PROVE  /\ StartOf(i, size) \in Nat
             /\ StartOf(i + 1, size) = StartOf(i, size) + size
             /\ i = N => len <= StartOf(i, size) + size
             /\ i # N => StartOf(i, size) + size < len
             /\ i # 1 => StartOf(i, size) # 0 /\ StartOf(i, size) < len
  <2> DEFINE k == i - 1
  <2>1. k \in Nat /\ i = k + 1 /\ (i + 1) - 1 = k + 1 /\ i \in Nat
    BY <1>3
  <2> HIDE DEF k
  <2>2. k * size \in Nat /\ (k + 1) * size = k * size + size
    BY <2>1, TimesNext
  <2>3. StartOf(i, size) = k * size /\ StartOf(i + 1, size) = k * size + size
    BY <2>1, <2>2 DEF StartOf
  <2>4. ASSUME i # N PROVE k * size + size < len
    <3>1. i < N
      BY <1>3, <2>4
    <3>2. i * size + size <= N * size
      BY <1>3, <2>1, <3>1, TimesMonotone
    <3>3. N * size < len + size
      BY <1>4, <3>1, <2>1
    <3>4. N * size \in Nat /\ i * size = k * size + size
      BY <1>3, <2>1, <2>2
    <3> QED
      BY <2>2, <3>2, <3>3, <3>4
  <2>5. ASSUME i = N PROVE len <= k * size + size
    BY <1>3, <2>1, <2>2, <2>5
  <2>6. ASSUME i # 1 PROVE k * size # 0 /\ k * size < len
    <3> DEFINE j == k - 1
    <3>1. j \in Nat /\ k = j + 1
      BY <2>1, <2>6
    <3> HIDE DEF j
    <3>2. j * size \in Nat /\ k * size = j * size + size
      BY <3>1, TimesNext
    <3>3. N # 1
      BY <1>3, <2>6
    <3>4. CASE i = N
      <4>1. N * size < len + size /\ N * size = k * size + size
        BY <1>4, <2>1, <2>2, <3>3, <3>4
      <4> QED
        BY <2>2, <3>2, <4>1
    <3>5. CASE i # N
      BY <2>2, <2>4, <3>2, <3>5
    <3> QED
      BY <3>4, <3>5
  <2> QED
    BY <2>2, <2>3, <2>4, <2>5, <2>6
<1> QED
  BY <1>3, <1>5, <1>6 DEF N

LEMMA FragmentsAre ==
    ASSUME NEW body \in Seq(Bytes), NEW size \in Nat \ {0}
    PROVE  /\ DOMAIN Messages!Fragments(body, size) = 1..CountOf(Len(body), size)
           /\ \A i \in 1..CountOf(Len(body), size) :
                Messages!Fragments(body, size)[i] = PieceAt(body, StartOf(i, size), size)
<1> DEFINE N == CountOf(Len(body), size)
<1>1. N = Messages!Max({1, (Len(body) + size - 1) \div size}) /\ N \in Nat /\ Len(body) \in Nat
  BY CountBounds DEF CountOf
<1>2. Messages!Fragments(body, size) =
        [i \in 1..N |-> SubSeq(body, (i - 1) * size + 1, Messages!Min({i * size, Len(body)}))]
  BY <1>1 DEF Messages!Fragments
<1>3. \A i \in 1..N : i * size = StartOf(i, size) + size
  <2> SUFFICES ASSUME NEW i \in 1..N PROVE i * size = StartOf(i, size) + size
    OBVIOUS
  <2> DEFINE k == i - 1
  <2>1. k \in Nat /\ i = k + 1
    BY <1>1
  <2> HIDE DEF k
  <2>2. StartOf(i, size) = k * size
    BY <2>1 DEF StartOf
  <2> QED
    BY <2>1, <2>2, TimesNext
<1> HIDE DEF N
<1>4. \A i \in 1..N :
        Messages!Fragments(body, size)[i] = PieceAt(body, StartOf(i, size), size)
  <2> SUFFICES ASSUME NEW i \in 1..N
               PROVE  Messages!Fragments(body, size)[i] = PieceAt(body, StartOf(i, size), size)
    OBVIOUS
  <2>1. Messages!Fragments(body, size)[i] =
            SubSeq(body, StartOf(i, size) + 1, Messages!Min({i * size, Len(body)}))
    BY <1>2 DEF StartOf
  <2> QED
    BY <1>3, <2>1 DEF PieceAt
<1> QED
  BY <1>2, <1>4 DEF N

\* A piece continues what comes before it.
Continues(body, o, size, e) ==
    /\ Len(PieceAt(body, o, size)) = e - o
    /\ Messages!Min({Len(body) - o, size}) = e - o
    /\ Len(Prefix(body, o)) = o
    /\ Prefix(body, o) \o PieceAt(body, o, size) = Prefix(body, e)
    /\ Len(Prefix(body, e)) = e
    /\ Prefix(body, Len(body)) = body
    /\ o # 0 => Prefix(body, o) # <<>>

LEMMA PieceContinues ==
    ASSUME NEW body \in Seq(Bytes), NEW o \in Nat, o <= Len(body), NEW size \in Nat \ {0}
    PROVE  /\ PieceAt(body, o, size) \in Seq(Bytes)
           /\ Continues(body, o, size, EndOf(Len(body), o, size))
<1> DEFINE L == Len(body)
           e == EndOf(L, o, size)
<1>0. /\ L \in Nat /\ e \in Nat /\ o <= e /\ e <= L
      /\ e = IF o + size <= L THEN o + size ELSE L
      /\ e - o = IF L - o <= size THEN L - o ELSE size
      /\ L - o \in Int /\ o + size \in Int
  BY DEF EndOf
<1>1. Messages!Min({o + size, L}) = e
  <2> DEFINE a == o + size
  <2>1. a \in Int /\ L \in Int /\ e = IF a <= L THEN a ELSE L
    BY <1>0
  <2> HIDE DEF a, L
  <2>2. Messages!Min({a, L}) = e
    BY <2>1, MinMaxOfTwo
  <2> QED
    BY <2>2 DEF a
<1>2. Messages!Min({L - o, size}) = e - o
  <2> DEFINE a == L - o
             b == e - o
  <2>1. a \in Int /\ size \in Int /\ b = IF a <= size THEN a ELSE size
    BY <1>0
  <2> HIDE DEF a, b
  <2>2. Messages!Min({a, size}) = b
    BY <2>1, MinMaxOfTwo
  <2> QED
    BY <2>2 DEF a, b
<1>3. PieceAt(body, o, size) = SubSeq(body, o + 1, e)
  BY <1>1 DEF PieceAt
<1> HIDE DEF e, L
<1>4. SubSeq(body, o + 1, e) \in Seq(Bytes) /\ Len(SubSeq(body, o + 1, e)) = e - o
  <2>0. \A i \in (o + 1)..e : i \in 1..Len(body)
    BY <1>0 DEF L
  <2>1. \A i \in (o + 1)..e : body[i] \in Bytes
    BY <2>0
  <2> QED
    BY <1>0, <2>1, SubSeqProperties
<1>5. ASSUME NEW k \in 0..L PROVE Len(SubSeq(body, 1, k)) = k
  <2>1. \A i \in 1..k : body[i] \in Bytes
    BY <1>0 DEF L
  <2> QED
    BY <1>0, <2>1, SubSeqProperties
<1>6. SubSeq(body, 1, o) \o SubSeq(body, o + 1, e) = SubSeq(body, 1, e)
  <2>1. 1 \in 1..(Len(body) + 1) /\ o \in (1 - 1)..Len(body) /\ e \in o..Len(body)
    BY <1>0 DEF L
  <2> QED
    BY <2>1, ConcatAdjacentSubSeq
<1>7. SubSeq(body, 1, L) = body
  BY SubSeqFull DEF L
<1>8. SubSeq(body, 1, 0) = <<>>
  BY SubSeqEmpty
<1>10. Len(SubSeq(body, 1, o)) = o /\ Len(SubSeq(body, 1, e)) = e
  BY <1>0, <1>5
<1>9. o # 0 => SubSeq(body, 1, o) # <<>>
  BY <1>10
<1> QED
  BY <1>2, <1>3, <1>4, <1>6, <1>7, <1>8, <1>9, <1>10 DEF L, e, Prefix, Continues

-----------------------------------------------------------------------------
(* The invariant.                                                           *)

RTMPChunk ==
    [cs: ChunkStreams, type: 0..3, time: 0..(Word32 - 1), id: MessageStreams,
     mtype: MessageTypes, len: Nat, ext: BOOLEAN, body: Seq(Bytes)]

\* A place in what was written: message n from its byte o on, written by a writer
\* whose state was w.
Place == [n: Nat \ {0}, o: Nat, w: RTMPWriter]

\* Where the chunk at place p leads to; m is the message of p.
EndsAt(p, m) == Len(m.body) <= p.o + p.w.chunkSize
After(p, m) ==
    IF EndsAt(p, m) THEN [n |-> p.n + 1, o |-> 0, w |-> Messages!AfterWrite(p.w, m)]
    ELSE [n |-> p.n, o |-> p.o + p.w.chunkSize, w |-> p.w]

\* Chunk c is the one at place p.
IsChunk(c, p, m) ==
    /\ c.cs = m.cs
    /\ c.ext = StreamAfter(p.w.streams[m.cs], m).ext
    /\ c.body = PieceAt(m.body, p.o, p.w.chunkSize)
    /\ IF p.o = 0 THEN HasHeader(c, p.w.streams[m.cs], m) ELSE c.type = 3

\* What the reader knows when it has read all that comes before place p.
ReaderAt(r, p, m) ==
    /\ ~r.err /\ r.chunkSize = p.w.chunkSize
    /\ \A c \in ChunkStreams :
        IF p.o # 0 /\ c = m.cs
        THEN /\ Agree(StreamAfter(p.w.streams[c], m), r.streams[c])
             /\ r.streams[c].recv = Prefix(m.body, p.o)
        ELSE /\ Agree(p.w.streams[c], r.streams[c])
             /\ r.streams[c].recv = <<>>

\* A timestamp is received up to its width.
Seen(m) == [m EXCEPT !.time = @ % Word32]

\* The chunks on the connection are at the places g, one after the other; the
\* last of g is the end, and the first is where the reader is.
Trace(g, wr, wi, re, se, rc) ==
    /\ g \in [1..(Len(wi) + 1) -> Place]
    /\ g[Len(wi) + 1] = [n |-> Len(se) + 1, o |-> 0, w |-> wr]
    /\ \A i \in 1..Len(wi) :
        /\ g[i].n \in DOMAIN se
        /\ g[i].o = 0 \/ g[i].o < Len(se[g[i].n].body)
        /\ GoesOn(g[i].w.streams[se[g[i].n].cs], se[g[i].n])
        /\ IsChunk(wi[i], g[i], se[g[i].n])
        /\ g[i + 1] = After(g[i], se[g[i].n])
    /\ ReaderAt(re, g[1], se[g[1].n])
    /\ rc \in Seq(RTMPMessage) /\ Len(rc) = g[1].n - 1
    /\ \A i \in 1..Len(rc) : rc[i] = Seen(se[i])

\* The writer knows of a chunk stream what the last message on it said.
WriterKnows(w, c, se) ==
    \/ ~Used(w) /\ w.time = {} /\ w.delta = {}
    \/ \E i \in 1..Len(se) : se[i].cs = c /\ w.id = {se[i].id} /\ w.time = {se[i].time}

ReaderShape(r) ==
    /\ r = [chunkSize |-> r.chunkSize, err |-> r.err, streams |-> r.streams]
    /\ r.streams = [c \in ChunkStreams |-> r.streams[c]]
    /\ r.chunkSize \in ChunkSizes

MessagesInv ==
    /\ rmWriter \in RTMPWriter
    /\ rmWire \in Seq(RTMPChunk)
    /\ ReaderShape(rmReader)
    /\ rmSent \in Seq(RTMPMessage)
    /\ \A c \in ChunkStreams : WriterKnows(rmWriter.streams[c], c, rmSent)
    /\ Messages!NeverStartsOver =>
        \E g : Trace(g, rmWriter, rmWire, rmReader, rmSent, rmReceived)

LEMMA SizesAreNumbers == ChunkSizes \subseteq Nat \ {0} /\ Word32 \in Nat \ {0}
BY MessagesAssumption DEF ChunkSizes

LEMMA AfterWriteIs ==
    ASSUME NEW w \in RTMPWriter, NEW m \in RTMPMessage
    PROVE  LET a == Messages!AfterWrite(w, m)
           IN  /\ a \in RTMPWriter
               /\ a.chunkSize = IF m.type = "SetChunkSize" THEN NewChunkSize ELSE w.chunkSize
               /\ a.streams[m.cs] = StreamAfter(w.streams[m.cs], m)
               /\ \A c \in ChunkStreams \ {m.cs} : a.streams[c] = w.streams[c]
<1> DEFINE s == StreamAfter(w.streams[m.cs], m)
           z == IF m.type = "SetChunkSize" THEN NewChunkSize ELSE w.chunkSize
<1>1. Messages!AfterWrite(w, m) = [chunkSize |-> z, streams |-> [w.streams EXCEPT ![m.cs] = s]]
  BY DEF Messages!AfterWrite, StreamAfter
<1>2. /\ m.cs \in ChunkStreams /\ w.streams \in [ChunkStreams -> WriterStream]
      /\ w.streams[m.cs] \in WriterStream /\ z \in ChunkSizes
  BY DEF RTMPMessage, RTMPWriter, ChunkSizes
<1>3. s \in WriterStream
  BY <1>2, StreamAfterType
<1> HIDE DEF s, z
<1> QED
  BY <1>1, <1>2, <1>3 DEF RTMPWriter, s, z

LEMMA ChunksAre ==
    ASSUME NEW w \in RTMPWriter, NEW m \in RTMPMessage, NEW k
    PROVE  LET N == CountOf(Len(m.body), w.chunkSize)
               s == Messages!Chunks(w, m)
           IN  /\ s \in Seq(RTMPChunk) /\ Len(s) = N
               /\ \A i \in 1..N :
                    IsChunk(s[i], [n |-> k, o |-> StartOf(i, w.chunkSize), w |-> w], m)
<1> DEFINE N == CountOf(Len(m.body), w.chunkSize)
           s == Messages!Chunks(w, m)
           u == w.streams[m.cs]
           h == Messages!Header(u, m)
<1>1. /\ m.cs \in ChunkStreams /\ u \in WriterStream /\ m.body \in Seq(Bytes)
      /\ Len(m.body) \in Nat /\ w.chunkSize \in Nat \ {0}
      /\ m.id \in MessageStreams /\ m.type \in MessageTypes
  <2>1. /\ m.cs \in ChunkStreams /\ m.body \in Seq(Bytes) /\ Len(m.body) \in Nat
        /\ m.id \in MessageStreams /\ m.type \in MessageTypes
    BY DEF RTMPMessage
  <2>2. w.chunkSize \in ChunkSizes /\ w.streams \in [ChunkStreams -> WriterStream]
    BY DEF RTMPWriter
  <2> QED
    BY <2>1, <2>2, SizesAreNumbers
<1>2. h.type \in 0..3 /\ h.time \in 0..(Word32 - 1) /\ h.ext \in BOOLEAN
  BY <1>1, HeaderTypes
<1>3. /\ DOMAIN Messages!Fragments(m.body, w.chunkSize) = 1..N
      /\ \A i \in 1..N : Messages!Fragments(m.body, w.chunkSize)[i] =
                            PieceAt(m.body, StartOf(i, w.chunkSize), w.chunkSize)
  BY <1>1, FragmentsAre
<1>4. /\ N \in Nat \ {0}
      /\ \A i \in 1..N : /\ StartOf(i, w.chunkSize) \in Nat
                         /\ i # 1 => StartOf(i, w.chunkSize) # 0
                         /\ StartOf(i, w.chunkSize) <= Len(m.body)
      /\ StartOf(1, w.chunkSize) = 0
  <2> DEFINE size == w.chunkSize
             len == Len(m.body)
  <2>1. /\ N \in Nat \ {0} /\ StartOf(1, size) = 0
        /\ \A i \in 1..N : /\ StartOf(i, size) \in Nat
                           /\ i # 1 => StartOf(i, size) # 0 /\ StartOf(i, size) < len
    BY <1>1, CountBounds
  <2>2. len \in Nat
    BY <1>1
  <2> HIDE DEF N, size, len
  <2>3. \A i \in 1..N : StartOf(i, size) <= len
    BY <2>1, <2>2
  <2> QED
    BY <2>1, <2>3 DEF size, len
<1> DEFINE e(i) == [cs |-> m.cs, type |-> IF i = 1 THEN h.type ELSE 3, time |-> h.time,
                    id |-> m.id, mtype |-> m.type, len |-> Len(m.body), ext |-> h.ext,
                    body |-> PieceAt(m.body, StartOf(i, w.chunkSize), w.chunkSize)]
<1>5. s = [i \in 1..N |-> e(i)]
  BY <1>3 DEF Messages!Chunks
<1>6. ASSUME NEW i \in 1..N PROVE e(i) \in RTMPChunk
  <2>1. PieceAt(m.body, StartOf(i, w.chunkSize), w.chunkSize) \in Seq(Bytes)
    <3> DEFINE o == StartOf(i, w.chunkSize)
    <3>1. o \in Nat /\ o <= Len(m.body)
      BY <1>4
    <3> HIDE DEF o
    <3>2. PieceAt(m.body, o, w.chunkSize) \in Seq(Bytes)
      BY <1>1, <3>1, PieceContinues
    <3> QED
      BY <3>2 DEF o
  <2> QED
    BY <1>1, <1>2, <2>1 DEF RTMPChunk
<1>7. ASSUME NEW i \in 1..N
      PROVE  IsChunk(e(i), [n |-> k, o |-> StartOf(i, w.chunkSize), w |-> w], m)
  BY <1>4 DEF IsChunk, HasHeader, StreamAfter
<1> HIDE DEF e, N, s
<1>8. s \in Seq(RTMPChunk) /\ Len(s) = N /\ \A i \in 1..N : s[i] = e(i)
  BY <1>4, <1>5, <1>6
<1> QED
  BY <1>7, <1>8 DEF N, s

-----------------------------------------------------------------------------
(* The steps.                                                               *)

LEMMA MessagesInit ==
    ASSUME Messages!Init
    PROVE  MessagesInv
<1> DEFINE none == [n |-> 1, o |-> 0, w |-> rmWriter]
           g == [i \in 1..1 |-> none]
<1>1. rmWriter \in RTMPWriter
  BY DEF Messages!Init, RTMPWriter, ChunkSizes, WriterStream, Messages!NoWriterStream
<1>2. /\ rmWire = <<>> /\ rmSent = <<>> /\ rmReceived = <<>>
      /\ rmWire \in Seq(RTMPChunk) /\ rmSent \in Seq(RTMPMessage)
      /\ rmReceived \in Seq(RTMPMessage) /\ Len(rmWire) = 0 /\ Len(rmSent) = 0
      /\ Len(rmReceived) = 0
  BY DEF Messages!Init
<1>3. ReaderShape(rmReader)
  BY DEF Messages!Init, ReaderShape, ChunkSizes
<1>4. \A c \in ChunkStreams :
        /\ ~Used(rmWriter.streams[c]) /\ rmWriter.streams[c].time = {}
        /\ rmWriter.streams[c].delta = {}
        /\ rmReader.streams[c].started = FALSE /\ rmReader.streams[c].recv = <<>>
  BY DEF Messages!Init, Used, Messages!NoWriterStream, Messages!NoReaderStream
<1>5. /\ rmReader.chunkSize = rmWriter.chunkSize /\ ~rmReader.err
  BY DEF Messages!Init
<1>6. g \in [1..(0 + 1) -> Place] /\ g[1] = none /\ none.n = 1 /\ none.o = 0 /\ none.w = rmWriter
  BY <1>1 DEF Place
<1> HIDE DEF none, g
<1>7. \A m : ReaderAt(rmReader, none, m)
  <2>1. ASSUME NEW c \in ChunkStreams PROVE Agree(rmWriter.streams[c], rmReader.streams[c])
    <3>1. ~Used(rmWriter.streams[c]) /\ rmReader.streams[c].started = FALSE
      BY <1>4
    <3> QED
      BY <3>1, Zenon DEF Agree, Used
  <2> QED
    BY <1>4, <1>5, <1>6, <2>1 DEF ReaderAt
<1>8. Trace(g, rmWriter, rmWire, rmReader, rmSent, rmReceived)
  BY <1>2, <1>6, <1>7 DEF Trace, none
<1> QED
  BY <1>1, <1>2, <1>3, <1>4, <1>8 DEF MessagesInv, WriterKnows

\* What a message makes of the writer is known from it.
LEMMA WriteKnows ==
    ASSUME MessagesInv, NEW m \in RTMPMessage, Messages!Write(m)
    PROVE  \A c \in ChunkStreams : WriterKnows(rmWriter'.streams[c], c, rmSent')
<1>1. rmWriter' = Messages!AfterWrite(rmWriter, m) /\ rmSent' = Append(rmSent, m)
  BY DEF Messages!Write
<1>2. /\ rmSent \in Seq(RTMPMessage) /\ Len(rmSent) \in Nat
      /\ \A c \in ChunkStreams : WriterKnows(rmWriter.streams[c], c, rmSent)
      /\ rmWriter \in RTMPWriter
  BY DEF MessagesInv
<1>3. /\ Len(rmSent') = Len(rmSent) + 1 /\ rmSent'[Len(rmSent) + 1] = m
      /\ \A i \in 1..Len(rmSent) : rmSent'[i] = rmSent[i]
  BY <1>1, <1>2
<1>4. rmWriter'.streams[m.cs] = StreamAfter(rmWriter.streams[m.cs], m)
      /\ \A c \in ChunkStreams \ {m.cs} : rmWriter'.streams[c] = rmWriter.streams[c]
  BY <1>1, <1>2, AfterWriteIs
<1> SUFFICES ASSUME NEW c \in ChunkStreams
             PROVE  WriterKnows(rmWriter'.streams[c], c, rmSent')
  OBVIOUS
<1>5. CASE c = m.cs
  <2>1. Len(rmSent) + 1 \in 1..Len(rmSent')
    BY <1>2, <1>3
  <2>2. /\ StreamAfter(rmWriter.streams[m.cs], m).id = {m.id}
        /\ StreamAfter(rmWriter.streams[m.cs], m).time = {m.time}
    BY DEF StreamAfter
  <2> QED
    BY <1>3, <1>4, <1>5, <2>1, <2>2 DEF WriterKnows
<1>6. CASE c # m.cs
  <2>1. WriterKnows(rmWriter.streams[c], c, rmSent) /\ rmWriter'.streams[c] = rmWriter.streams[c]
    BY <1>2, <1>4, <1>6
  <2>2. \A i \in 1..Len(rmSent) : i \in 1..Len(rmSent')
    BY <1>2, <1>3
  <2> QED
    BY <1>3, <2>1, <2>2 DEF WriterKnows
<1> QED
  BY <1>5, <1>6

\* A message that does not start over goes on with its chunk stream.
LEMMA WriteGoesOn ==
    ASSUME MessagesInv, NEW m \in RTMPMessage, Messages!Write(m), Messages!NeverStartsOver'
    PROVE  Messages!NeverStartsOver /\ GoesOn(rmWriter.streams[m.cs], m)
<1>1. rmSent' = Append(rmSent, m)
  BY DEF Messages!Write
<1>2. /\ rmSent \in Seq(RTMPMessage) /\ Len(rmSent) \in Nat
      /\ m.cs \in ChunkStreams /\ WriterKnows(rmWriter.streams[m.cs], m.cs, rmSent)
  BY DEF MessagesInv, RTMPMessage
<1>3. /\ Len(rmSent') = Len(rmSent) + 1 /\ rmSent'[Len(rmSent) + 1] = m
      /\ \A i \in 1..Len(rmSent) : rmSent'[i] = rmSent[i]
      /\ DOMAIN rmSent = 1..Len(rmSent) /\ DOMAIN rmSent' = 1..(Len(rmSent) + 1)
  BY <1>1, <1>2
<1>4. \A i, j \in 1..(Len(rmSent) + 1) : i < j /\ rmSent'[i].cs = rmSent'[j].cs =>
        rmSent'[i].id = rmSent'[j].id /\ rmSent'[i].time <= rmSent'[j].time
  BY <1>3 DEF Messages!NeverStartsOver
<1>5. Messages!NeverStartsOver
  <2> SUFFICES ASSUME NEW i \in 1..Len(rmSent), NEW j \in 1..Len(rmSent), i < j,
                      rmSent[i].cs = rmSent[j].cs
               PROVE  rmSent[i].id = rmSent[j].id /\ rmSent[i].time <= rmSent[j].time
    BY <1>3 DEF Messages!NeverStartsOver
  <2>1. i \in 1..(Len(rmSent) + 1) /\ j \in 1..(Len(rmSent) + 1)
    BY <1>2
  <2> QED
    BY <1>3, <1>4, <2>1
<1>6. ASSUME NEW i \in 1..Len(rmSent), rmSent[i].cs = m.cs
      PROVE  rmSent[i].id = m.id /\ rmSent[i].time <= m.time /\ rmSent[i].time \in Int
  <2>1. i \in 1..(Len(rmSent) + 1) /\ Len(rmSent) + 1 \in 1..(Len(rmSent) + 1)
        /\ i < Len(rmSent) + 1
    BY <1>2
  <2>2. rmSent[i] \in RTMPMessage
    BY <1>2
  <2> QED
    BY <1>3, <1>4, <1>6, <2>1, <2>2 DEF RTMPMessage
<1>7. CASE ~Used(rmWriter.streams[m.cs])
  BY <1>2, <1>5, <1>7 DEF WriterKnows, GoesOn, Used
<1>8. CASE Used(rmWriter.streams[m.cs])
  <2>1. PICK i \in 1..Len(rmSent) :
            /\ rmSent[i].cs = m.cs /\ rmWriter.streams[m.cs].id = {rmSent[i].id}
            /\ rmWriter.streams[m.cs].time = {rmSent[i].time}
    BY <1>2, <1>8 DEF WriterKnows
  <2> QED
    BY <1>5, <1>6, <1>8, <2>1 DEF GoesOn
<1> QED
  BY <1>7, <1>8

\* A message is added at the end of the trace, chunk by chunk.
LEMMA WriteExtendsTrace ==
    ASSUME MessagesInv, NEW m \in RTMPMessage, Messages!Write(m),
           GoesOn(rmWriter.streams[m.cs], m),
           NEW g, Trace(g, rmWriter, rmWire, rmReader, rmSent, rmReceived)
    PROVE  \E f : Trace(f, rmWriter', rmWire', rmReader', rmSent', rmReceived')
<1> DEFINE size == rmWriter.chunkSize
           N == CountOf(Len(m.body), size)
           L == Len(rmWire)
           K == Len(rmSent)
           s == Messages!Chunks(rmWriter, m)
           p(i) == [n |-> K + 1, o |-> StartOf(i, size), w |-> rmWriter]
           end == [n |-> K + 2, o |-> 0, w |-> rmWriter']
           f == [i \in 1..(L + N + 1) |-> IF i <= L THEN g[i]
                                          ELSE IF i <= L + N THEN p(i - L) ELSE end]
<1>1. /\ rmWire' = rmWire \o s /\ rmWriter' = Messages!AfterWrite(rmWriter, m)
      /\ rmSent' = Append(rmSent, m) /\ rmReader' = rmReader /\ rmReceived' = rmReceived
  BY DEF Messages!Write
<1>2. /\ rmSent \in Seq(RTMPMessage) /\ K \in Nat /\ rmWire \in Seq(RTMPChunk) /\ L \in Nat
      /\ rmWriter \in RTMPWriter
  BY DEF MessagesInv
<1>3. /\ Len(rmSent') = K + 1 /\ rmSent'[K + 1] = m
      /\ \A i \in 1..K : rmSent'[i] = rmSent[i]
      /\ DOMAIN rmSent = 1..K /\ DOMAIN rmSent' = 1..(K + 1)
  BY <1>1, <1>2
<1>4. size \in Nat \ {0} /\ Len(m.body) \in Nat
  <2>1. size \in ChunkSizes
    BY <1>2 DEF RTMPWriter
  <2>2. m.body \in Seq(Bytes)
    BY DEF RTMPMessage
  <2>3. Len(m.body) \in Nat
    BY <2>2
  <2> HIDE DEF size
  <2> QED
    BY <2>1, <2>3, SizesAreNumbers
<1>5. rmWriter' \in RTMPWriter
  BY <1>1, <1>2, AfterWriteIs
<1>6. /\ s \in Seq(RTMPChunk) /\ Len(s) = N
      /\ \A i \in 1..N : IsChunk(s[i], p(i), m)
  BY <1>2, ChunksAre
<1>7. /\ N \in Nat \ {0} /\ StartOf(1, size) = 0
      /\ \A i \in 1..N :
           /\ StartOf(i, size) \in Nat
           /\ StartOf(i + 1, size) = StartOf(i, size) + size
           /\ i = N => Len(m.body) <= StartOf(i, size) + size
           /\ i # N => StartOf(i, size) + size < Len(m.body)
           /\ i # 1 => StartOf(i, size) # 0 /\ StartOf(i, size) < Len(m.body)
  BY <1>4, CountBounds
<1>8. /\ Len(rmWire') = L + N
      /\ \A i \in 1..L : rmWire'[i] = rmWire[i]
      /\ \A i \in 1..N : rmWire'[L + i] = s[i]
  <2> HIDE DEF s, N
  <2>1. /\ Len(rmWire') = L + N
        /\ \A i \in 1..(L + N) : rmWire'[i] = IF i <= L THEN rmWire[i] ELSE s[i - L]
    <3>1. rmWire' = rmWire \o s /\ rmWire \in Seq(RTMPChunk) /\ s \in Seq(RTMPChunk) /\ Len(s) = N
      BY <1>1, <1>2, <1>6
    <3> QED
      BY <3>1, ConcatProperties, ZenonT(40)
  <2> HIDE DEF L
  <2>2. ASSUME NEW i \in 1..N PROVE rmWire'[L + i] = s[i]
    <3>1. L + i \in 1..(L + N) /\ ~(L + i <= L) /\ (L + i) - L = i
      BY <1>2, <1>7
    <3> QED
      BY <2>1, <3>1
  <2> QED
    BY <1>2, <1>7, <2>1, <2>2
<1>9. \A i \in 1..N : p(i) \in Place
  BY <1>2, <1>7 DEF Place
<1>10. end \in Place
  BY <1>2, <1>5 DEF Place
<1>11. /\ g \in [1..(L + 1) -> Place]
       /\ g[L + 1] = [n |-> K + 1, o |-> 0, w |-> rmWriter]
       /\ \A i \in 1..L :
            /\ g[i].n \in DOMAIN rmSent
            /\ g[i].o = 0 \/ g[i].o < Len(rmSent[g[i].n].body)
            /\ GoesOn(g[i].w.streams[rmSent[g[i].n].cs], rmSent[g[i].n])
            /\ IsChunk(rmWire[i], g[i], rmSent[g[i].n])
            /\ g[i + 1] = After(g[i], rmSent[g[i].n])
       /\ ReaderAt(rmReader, g[1], rmSent[g[1].n])
       /\ rmReceived \in Seq(RTMPMessage) /\ Len(rmReceived) = g[1].n - 1
       /\ \A i \in 1..Len(rmReceived) : rmReceived[i] = Seen(rmSent[i])
  BY DEF Trace
<1>12. p(1) = g[L + 1]
  BY <1>7, <1>11
<1> HIDE DEF s, N, p, end, size, L, K
<1>13. /\ f \in [1..(L + N + 1) -> Place]
       /\ \A i \in 1..L : f[i] = g[i]
       /\ \A i \in 1..N : f[L + i] = p(i)
       /\ f[L + N + 1] = end
  <2>1. ASSUME NEW i \in 1..(L + N + 1) PROVE f[i] \in Place
    <3>1. CASE i <= L
      BY <1>2, <1>7, <1>11, <3>1
    <3>2. CASE ~(i <= L) /\ i <= L + N
      <4>1. i - L \in 1..N /\ f[i] = p(i - L)
        BY <1>2, <1>7, <3>2
      <4> QED
        BY <1>9, <4>1
    <3>3. CASE ~(i <= L + N)
      BY <1>2, <1>7, <1>10, <3>3
    <3> QED
      BY <3>1, <3>2, <3>3
  <2>2. ASSUME NEW i \in 1..N PROVE f[L + i] = p(i)
    <3>1. L + i \in 1..(L + N + 1) /\ ~(L + i <= L) /\ L + i <= L + N /\ (L + i) - L = i
      BY <1>2, <1>7
    <3> QED
      BY <3>1
  <2> QED
    BY <1>2, <1>7, <2>1, <2>2
<1> HIDE DEF f
<1>14. f[1] = g[1] /\ Len(rmReceived) \in Nat
  <2>1. CASE L = 0
    BY <1>7, <1>11, <1>12, <1>13, <2>1
  <2>2. CASE L # 0
    BY <1>2, <1>13, <2>2
  <2> QED
    BY <1>11, <2>1, <2>2
<1>15. ASSUME NEW i \in 1..(L + N)
       PROVE  /\ f[i].n \in DOMAIN rmSent'
              /\ f[i].o = 0 \/ f[i].o < Len(rmSent'[f[i].n].body)
              /\ GoesOn(f[i].w.streams[rmSent'[f[i].n].cs], rmSent'[f[i].n])
              /\ IsChunk(rmWire'[i], f[i], rmSent'[f[i].n])
              /\ f[i + 1] = After(f[i], rmSent'[f[i].n])
  <2>1. CASE i \in 1..L
    <3>1. f[i] = g[i] /\ rmWire'[i] = rmWire[i] /\ g[i].n \in 1..K
      BY <1>3, <1>8, <1>11, <1>13, <2>1
    <3>2. rmSent'[f[i].n] = rmSent[g[i].n] /\ f[i].n \in DOMAIN rmSent'
      BY <1>2, <1>3, <3>1
    <3>3. f[i + 1] = g[i + 1]
      <4>1. CASE i = L
        BY <1>2, <1>7, <1>12, <1>13, <4>1
      <4>2. CASE i # L
        BY <1>2, <1>13, <2>1, <4>2
      <4> QED
        BY <4>1, <4>2
    <3> QED
      BY <1>11, <2>1, <3>1, <3>2, <3>3
  <2>2. CASE i \notin 1..L
    <3> DEFINE j == i - L
    <3>1. j \in 1..N /\ i = L + j /\ i + 1 = L + (j + 1)
      BY <1>2, <1>7, <2>2
    <3> HIDE DEF j
    <3>2. f[i] = p(j) /\ rmWire'[i] = s[j]
      BY <1>8, <1>13, <3>1
    <3>3. p(j).n = K + 1 /\ p(j).o = StartOf(j, size) /\ p(j).w = rmWriter
      BY DEF p
    <3>4. rmSent'[f[i].n] = m /\ f[i].n \in DOMAIN rmSent'
      BY <1>2, <1>3, <3>2, <3>3
    <3>5. f[i].o = 0 \/ f[i].o < Len(m.body)
      BY <1>7, <3>1, <3>2, <3>3
    <3>6. f[i + 1] = After(p(j), m)
      <4>1. CASE j = N
        <5>1. EndsAt(p(j), m)
          BY <1>7, <3>1, <3>3, <4>1 DEF EndsAt, size
        <5>2. After(p(j), m) = end
          BY <1>1, <1>2, <3>3, <5>1 DEF After, end
        <5>3. i + 1 = L + N + 1
          BY <1>2, <1>7, <3>1, <4>1
        <5> QED
          BY <1>13, <5>2, <5>3
      <4>2. CASE j # N
        <5>1. ~EndsAt(p(j), m)
          BY <1>4, <1>7, <3>1, <3>3, <4>2 DEF EndsAt, size
        <5>2. j + 1 \in 1..N
          BY <1>7, <3>1, <4>2
        <5>3. After(p(j), m) = p(j + 1)
          BY <1>7, <3>1, <3>3, <5>1 DEF After, p, size
        <5> QED
          BY <1>13, <3>1, <5>2, <5>3
      <4> QED
        BY <4>1, <4>2
    <3> QED
      BY <1>6, <3>1, <3>2, <3>3, <3>4, <3>5, <3>6
  <2> QED
    BY <2>1, <2>2
<1>16. ReaderAt(rmReader', f[1], rmSent'[f[1].n])
  <2>1. CASE L # 0
    <3>1. g[1].n \in 1..K
      BY <1>2, <1>3, <1>11, <2>1
    <3> QED
      BY <1>1, <1>3, <1>11, <1>14, <3>1
  <2>2. CASE L = 0
    <3>1. f[1] = p(1) /\ p(1).o = 0
      BY <1>7, <1>11, <1>12, <1>14, <2>2 DEF p
    <3>2. g[1].o = 0
      BY <1>14, <3>1
    <3> QED
      BY <1>1, <1>11, <1>14, <3>2 DEF ReaderAt
  <2> QED
    BY <2>1, <2>2
<1>17. \A i \in 1..Len(rmReceived) : rmReceived[i] = Seen(rmSent'[i])
  <2>1. g[1].n - 1 <= K
    <3>1. CASE L # 0
      BY <1>2, <1>3, <1>11, <3>1
    <3>2. CASE L = 0
      BY <1>2, <1>11, <3>2
    <3> QED
      BY <3>1, <3>2
  <2>2. \A i \in 1..Len(rmReceived) : i \in 1..K
    BY <1>2, <1>11, <1>14, <2>1
  <2> QED
    BY <1>3, <1>11, <2>2
<1>18. f[Len(rmWire') + 1] = [n |-> Len(rmSent') + 1, o |-> 0, w |-> rmWriter']
  BY <1>2, <1>3, <1>8, <1>13 DEF end
<1>19. Trace(f, rmWriter', rmWire', rmReader', rmSent', rmReceived')
  BY <1>1, <1>8, <1>11, <1>13, <1>14, <1>15, <1>16, <1>17, <1>18 DEF Trace
<1> QED
  BY <1>19

\* The same for the piece at a place.
LEMMA PieceOfMessage ==
    ASSUME NEW p \in Place, NEW m \in RTMPMessage, p.o = 0 \/ p.o < Len(m.body)
    PROVE  Continues(m.body, p.o, p.w.chunkSize, EndOf(Len(m.body), p.o, p.w.chunkSize))
<1> DEFINE b == m.body
           o == p.o
           size == p.w.chunkSize
<1>1. b \in Seq(Bytes) /\ o \in Nat /\ size \in ChunkSizes
  BY DEF RTMPMessage, Place, RTMPWriter
<1>2. o = 0 \/ o < Len(b)
  OBVIOUS
<1> HIDE DEF b, o, size
<1>3. size \in Nat \ {0} /\ o <= Len(b)
  BY <1>1, <1>2, SizesAreNumbers
<1>4. Continues(b, o, size, EndOf(Len(b), o, size))
  BY <1>1, <1>3, PieceContinues
<1> QED
  BY <1>4 DEF b, o, size

\* The reader, whose chunk stream is r, takes the chunk c at its place: it keeps
\* what the header says and has the body up to the end of the chunk.
IsRead(p, m, c, r, size) ==
    LET n == Messages!ReadHeader(r, c)
        body == r.recv \o c.body
    IN  /\ ~Messages!Unexpected(r, c)
        /\ c.type = 3 => r.ext = c.ext
        /\ Agree(StreamAfter(p.w.streams[m.cs], m), n)
        /\ n.id = m.id /\ n.type = m.type /\ n.len = Len(m.body)
        /\ n.time = m.time % Word32
        /\ Messages!Min({n.len - Len(r.recv), size}) = Len(c.body)
        /\ (Len(body) = n.len) = EndsAt(p, m)
        /\ EndsAt(p, m) => body = m.body
        /\ ~EndsAt(p, m) => body = Prefix(m.body, p.o + p.w.chunkSize)

LEMMA ChunkIsRead ==
    ASSUME NEW p \in Place, NEW m \in RTMPMessage, p.o = 0 \/ p.o < Len(m.body),
           GoesOn(p.w.streams[m.cs], m),
           NEW c, IsChunk(c, p, m),
           NEW re, ReaderAt(re, p, m)
    PROVE  IsRead(p, m, c, re.streams[m.cs], re.chunkSize)
<1> DEFINE r == re.streams[m.cs]
           n == Messages!ReadHeader(r, c)
           w == p.w.streams[m.cs]
           a == StreamAfter(w, m)
           o == p.o
           size == p.w.chunkSize
<1>1. /\ m.cs \in ChunkStreams /\ w \in WriterStream /\ m.body \in Seq(Bytes)
      /\ size \in Nat \ {0} /\ o \in Nat
  <2>1. m.cs \in ChunkStreams /\ m.body \in Seq(Bytes)
    BY DEF RTMPMessage
  <2>2. o \in Nat /\ size \in ChunkSizes /\ p.w.streams \in [ChunkStreams -> WriterStream]
    BY DEF Place, RTMPWriter
  <2> HIDE DEF size
  <2> QED
    BY <2>1, <2>2, SizesAreNumbers
<1>2. re.chunkSize = size
  BY DEF ReaderAt
<1>3. r.recv = Prefix(m.body, o)
  <2>1. Prefix(m.body, 0) = <<>>
    BY SubSeqEmpty DEF Prefix
  <2> QED
    BY <1>1, <2>1 DEF ReaderAt
<1> DEFINE e == EndOf(Len(m.body), o, size)
<1>5. o <= Len(m.body) /\ Len(m.body) \in Nat
  BY <1>1
<1>6. /\ Len(PieceAt(m.body, o, size)) = e - o
      /\ Messages!Min({Len(m.body) - o, size}) = e - o
      /\ Len(Prefix(m.body, o)) = o
      /\ Prefix(m.body, o) \o PieceAt(m.body, o, size) = Prefix(m.body, e)
      /\ Len(Prefix(m.body, e)) = e
      /\ Prefix(m.body, Len(m.body)) = m.body
      /\ o # 0 => Prefix(m.body, o) # <<>>
  BY PieceOfMessage DEF Continues
<1>4. /\ ~Messages!Unexpected(r, c)
      /\ c.type = 3 => r.ext = c.ext
      /\ Agree(a, n)
      /\ n.id = m.id /\ n.type = m.type /\ n.len = Len(m.body)
      /\ n.time = m.time % Word32
  <2>1. CASE o = 0
    <3>1. Agree(w, r) /\ r.recv = <<>>
      BY <1>1, <2>1 DEF ReaderAt
    <3>2. HasHeader(c, w, m)
      BY <2>1 DEF IsChunk
    <3> QED
      BY <1>1, <3>1, <3>2, FirstChunkIsRead
  <2>2. CASE o # 0
    <3>1. Agree(a, r)
      BY <1>1, <2>2 DEF ReaderAt
    <3>2. c.type = 3 /\ c.ext = a.ext
      BY <2>2 DEF IsChunk
    <3>3. Used(a)
      BY <1>1, StreamAfterType
    <3>4. /\ a.id = {m.id} /\ a.type = {m.type} /\ a.len = {Len(m.body)} /\ a.time = {m.time}
      BY DEF StreamAfter
    <3> HIDE DEF a
    <3>5. r.started = TRUE
      BY <3>1, <3>3, Zenon DEF Agree, Used
    <3>6. /\ r.id = m.id /\ r.type = m.type /\ r.len = Len(m.body) /\ r.ext = a.ext
          /\ r.time = m.time % Word32
      BY <3>1, <3>3, <3>4 DEF Agree
    <3>7. r.recv # <<>>
      BY <1>3, <1>6, <2>2
    <3> HIDE DEF r
    <3>8. /\ ~Messages!Unexpected(r, c)
          /\ n.started = TRUE /\ n.id = r.id /\ n.type = r.type /\ n.len = r.len
          /\ n.time = r.time /\ n.delta = r.delta /\ n.ext = r.ext
      BY <3>2, <3>5, <3>7 DEF Messages!Unexpected, Messages!ReadHeader
    <3> HIDE DEF n
    <3>9. Agree(a, n)
      BY <3>1, <3>3, <3>5, <3>8 DEF Agree
    <3> QED
      BY <3>2, <3>6, <3>8, <3>9
  <2> QED
    BY <2>1, <2>2
<1>7. c.body = PieceAt(m.body, o, size)
  BY DEF IsChunk
<1>8. Messages!Min({n.len - Len(r.recv), re.chunkSize}) = Len(c.body)
  <2> HIDE DEF n, r, o, size, e
  <2> QED
    BY <1>2, <1>3, <1>4, <1>6, <1>7
<1>9. r.recv \o c.body = Prefix(m.body, e) /\ Len(r.recv \o c.body) = e
  <2> HIDE DEF n, r, o, size, e
  <2> QED
    BY <1>3, <1>6, <1>7
<1>10. EndsAt(p, m) = (Len(m.body) <= o + size)
  BY DEF EndsAt
<1>11. (e = Len(m.body)) = (Len(m.body) <= o + size)
  BY <1>1, <1>5 DEF EndOf
<1>12. (Len(r.recv \o c.body) = n.len) = EndsAt(p, m)
  <2> HIDE DEF n, r, o, size, e
  <2> QED
    BY <1>4, <1>9, <1>10, <1>11
<1>13. /\ EndsAt(p, m) => r.recv \o c.body = m.body
       /\ ~EndsAt(p, m) => r.recv \o c.body = Prefix(m.body, p.o + p.w.chunkSize)
  <2>1. e = IF EndsAt(p, m) THEN Len(m.body) ELSE p.o + p.w.chunkSize
    BY <1>10 DEF EndOf
  <2> HIDE DEF n, r, o, size, e
  <2> QED
    BY <1>6, <1>9, <2>1
<1> HIDE DEF n, r, a, w
<1> QED
  BY <1>4, <1>8, <1>12, <1>13 DEF n, r, a, w, IsRead

\* A field of the reader and one of its chunk streams change.
IsUpdated(u, r, c, x, z) ==
    /\ ReaderShape(u) /\ u.err = r.err /\ u.chunkSize = z
    /\ u.streams[c] = x
    /\ \A d \in ChunkStreams \ {c} : u.streams[d] = r.streams[d]

LEMMA ReaderUpdate ==
    ASSUME NEW r, ReaderShape(r), NEW c \in ChunkStreams, NEW x, NEW z \in ChunkSizes
    PROVE  IsUpdated([r EXCEPT !.streams[c] = x, !.chunkSize = z], r, c, x, z)
<1> DEFINE f == [r.streams EXCEPT ![c] = x]
           v == [r EXCEPT !.streams[c] = x]
           u == [r EXCEPT !.streams[c] = x, !.chunkSize = z]
<1>1. PICK a, b, h : r = [chunkSize |-> a, err |-> b, streams |-> h]
  BY DEF ReaderShape
<1>2. r.streams = h /\ r.err = b /\ h = [d \in ChunkStreams |-> h[d]]
  BY <1>1 DEF ReaderShape
<1>3. v = [chunkSize |-> a, err |-> b, streams |-> [h EXCEPT ![c] = x]]
  BY <1>1
<1>4. u = [v EXCEPT !.chunkSize = z]
  OBVIOUS
<1> HIDE DEF v, u
<1>5. u = [chunkSize |-> z, err |-> b, streams |-> [h EXCEPT ![c] = x]]
  BY <1>3, <1>4
<1>6. [h EXCEPT ![c] = x] = [d \in ChunkStreams |-> IF d = c THEN x ELSE h[d]]
  BY <1>2
<1>7. u = [chunkSize |-> z, err |-> b, streams |-> [d \in ChunkStreams |-> IF d = c THEN x ELSE h[d]]]
  BY <1>5, <1>6
<1> QED
  BY <1>2, <1>7 DEF ReaderShape, IsUpdated, u

\* The step of the reader when the chunk, of message m, is the one at its place p.
IsAfterChunk(p, m) ==
    LET x == rmReader'.streams[m.cs]
    IN  /\ p \in Place /\ m \in RTMPMessage /\ p.n \in 1..Len(rmSent)
        /\ Agree(StreamAfter(p.w.streams[m.cs], m), x)
        /\ x.recv = IF EndsAt(p, m) THEN <<>> ELSE Prefix(m.body, p.o + p.w.chunkSize)
        /\ \A d \in ChunkStreams \ {m.cs} : rmReader'.streams[d] = rmReader.streams[d]
        /\ ReaderShape(rmReader') /\ ~rmReader'.err
        /\ rmReader'.chunkSize = IF EndsAt(p, m) /\ m.type = "SetChunkSize"
                                 THEN NewChunkSize ELSE p.w.chunkSize
        /\ rmReceived' = IF EndsAt(p, m) THEN Append(rmReceived, Seen(m)) ELSE rmReceived

LEMMA ReadChunkIs ==
    ASSUME MessagesInv, Messages!ReadChunk,
           NEW g, Trace(g, rmWriter, rmWire, rmReader, rmSent, rmReceived)
    PROVE  IsAfterChunk(g[1], rmSent[g[1].n])
<1> DEFINE p == g[1]
           m == rmSent[p.n]
           c == Head(rmWire)
           r == rmReader.streams[m.cs]
           n == Messages!ReadHeader(r, c)
           body == r.recv \o c.body
<1>1. /\ rmWire # <<>> /\ rmWire \in Seq(RTMPChunk) /\ c = rmWire[1] /\ 1 \in 1..Len(rmWire)
      /\ Len(rmWire) \in Nat
  <2>1. rmWire # <<>>
    BY DEF Messages!ReadChunk
  <2>2. rmWire \in Seq(RTMPChunk)
    BY DEF MessagesInv
  <2> QED
    BY <2>1, <2>2
<1>2. /\ p \in Place /\ p.n \in DOMAIN rmSent
      /\ p.o = 0 \/ p.o < Len(m.body)
      /\ GoesOn(p.w.streams[m.cs], m) /\ IsChunk(c, p, m)
      /\ ReaderAt(rmReader, p, m)
  <2>1. 1 \in 1..(Len(rmWire) + 1)
    BY <1>1
  <2> QED
    BY <1>1, <2>1 DEF Trace
<1>3. m \in RTMPMessage /\ p.n \in 1..Len(rmSent) /\ m.cs \in ChunkStreams
  <2>1. rmSent \in Seq(RTMPMessage)
    BY DEF MessagesInv
  <2> HIDE DEF p
  <2>2. p.n \in 1..Len(rmSent) /\ m \in RTMPMessage
    BY <1>2, <2>1
  <2> HIDE DEF m
  <2> QED
    BY <2>2 DEF RTMPMessage
<1> HIDE DEF p, m, c
<1>4. /\ ~Messages!Unexpected(r, c)
      /\ c.type = 3 => r.ext = c.ext
      /\ Agree(StreamAfter(p.w.streams[m.cs], m), n)
      /\ n.id = m.id /\ n.type = m.type /\ n.len = Len(m.body)
      /\ n.time = m.time % Word32
      /\ Messages!Min({n.len - Len(r.recv), rmReader.chunkSize}) = Len(c.body)
      /\ (Len(body) = n.len) = EndsAt(p, m)
      /\ EndsAt(p, m) => body = m.body
      /\ ~EndsAt(p, m) => body = Prefix(m.body, p.o + p.w.chunkSize)
  <2>1. IsRead(p, m, c, rmReader.streams[m.cs], rmReader.chunkSize)
    BY <1>2, <1>3, ChunkIsRead
  <2> QED
    BY <2>1 DEF IsRead
<1>5. c.cs = m.cs
  BY <1>2 DEF IsChunk
<1> DEFINE whole == Len(body) = n.len
           x == [n EXCEPT !.recv = IF whole THEN <<>> ELSE body]
           z == IF whole /\ n.type = "SetChunkSize" THEN NewChunkSize ELSE rmReader.chunkSize
           message == [cs |-> c.cs, id |-> n.id, type |-> n.type, time |-> n.time, body |-> body]
<1>6. /\ rmReader' = [rmReader EXCEPT !.streams[m.cs] = x, !.chunkSize = z]
      /\ rmReceived' = IF whole THEN Append(rmReceived, message) ELSE rmReceived
  BY <1>4, <1>5 DEF Messages!ReadChunk, c
<1>7. z \in ChunkSizes /\ ReaderShape(rmReader)
  BY DEF MessagesInv, ReaderShape, ChunkSizes
<1>8. EndsAt(p, m) => message = Seen(m)
  <2> SUFFICES ASSUME EndsAt(p, m) PROVE message = Seen(m)
    OBVIOUS
  <2>1. message = [cs |-> m.cs, id |-> m.id, type |-> m.type, time |-> m.time % Word32,
                   body |-> m.body]
    BY <1>4, <1>5
  <2> HIDE DEF message
  <2> QED
    BY <1>3, <2>1 DEF Seen, RTMPMessage
<1>9. /\ x.started = n.started /\ x.id = n.id /\ x.type = n.type /\ x.len = n.len
      /\ x.time = n.time /\ x.delta = n.delta /\ x.ext = n.ext
      /\ x.recv = IF whole THEN <<>> ELSE body
  BY DEF Messages!ReadHeader
<1> HIDE DEF message, x, z, n
<1>10. Agree(StreamAfter(p.w.streams[m.cs], m), x)
  BY <1>4, <1>9 DEF Agree
<1>11. /\ ReaderShape(rmReader') /\ rmReader'.err = rmReader.err /\ rmReader'.chunkSize = z
       /\ rmReader'.streams[m.cs] = x
       /\ \A d \in ChunkStreams \ {m.cs} : rmReader'.streams[d] = rmReader.streams[d]
  <2>1. IsUpdated(rmReader', rmReader, m.cs, x, z)
    BY <1>3, <1>6, <1>7, ReaderUpdate
  <2> QED
    BY <2>1 DEF IsUpdated
<1>12. ~rmReader.err /\ rmReader.chunkSize = p.w.chunkSize
  BY <1>2 DEF ReaderAt
<1>13. z = IF EndsAt(p, m) /\ m.type = "SetChunkSize" THEN NewChunkSize ELSE p.w.chunkSize
  BY <1>4, <1>12 DEF z
<1>14. x.recv = IF EndsAt(p, m) THEN <<>> ELSE Prefix(m.body, p.o + p.w.chunkSize)
  BY <1>4, <1>9
<1>15. rmReceived' = IF EndsAt(p, m) THEN Append(rmReceived, Seen(m)) ELSE rmReceived
  BY <1>4, <1>6, <1>8
<1> QED
  BY <1>2, <1>3, <1>10, <1>11, <1>12, <1>13, <1>14, <1>15 DEF p, m, IsAfterChunk

LEMMA SeenIsMessage ==
    ASSUME NEW m \in RTMPMessage
    PROVE  Seen(m) \in RTMPMessage
<1>1. m.time % Word32 \in Int /\ m.time \in Int
  <2>1. m.time \in Int
    BY DEF RTMPMessage
  <2> QED
    BY <2>1, SizesAreNumbers, ModBounds
<1> QED
  BY <1>1 DEF Seen, RTMPMessage

\* The reader is at the next place when it has read the chunk.
LEMMA ReaderIsAfter ==
    ASSUME MessagesInv, Messages!ReadChunk,
           NEW g, Trace(g, rmWriter, rmWire, rmReader, rmSent, rmReceived),
           NEW p, p = g[1], NEW m, m = rmSent[p.n], NEW q, q = After(p, m), NEW y,
           y = m \/ q.o = 0
    PROVE  ReaderAt(rmReader', q, y)
<1>1. IsAfterChunk(p, m)
  BY ReadChunkIs
<1>2. p \in Place /\ p.w \in RTMPWriter /\ p.o \in Nat /\ m \in RTMPMessage /\ m.cs \in ChunkStreams
  BY <1>1 DEF IsAfterChunk, Place, RTMPMessage
<1>3. ReaderAt(rmReader, p, m)
  BY DEF Trace
<1>4. /\ Agree(StreamAfter(p.w.streams[m.cs], m), rmReader'.streams[m.cs])
      /\ rmReader'.streams[m.cs].recv = IF EndsAt(p, m) THEN <<>>
                                        ELSE Prefix(m.body, p.o + p.w.chunkSize)
      /\ \A d \in ChunkStreams \ {m.cs} : rmReader'.streams[d] = rmReader.streams[d]
      /\ ~rmReader'.err
      /\ rmReader'.chunkSize = IF EndsAt(p, m) /\ m.type = "SetChunkSize"
                               THEN NewChunkSize ELSE p.w.chunkSize
  BY <1>1 DEF IsAfterChunk
<1>5. ASSUME NEW d \in ChunkStreams \ {m.cs}
      PROVE  /\ Agree(p.w.streams[d], rmReader'.streams[d])
             /\ rmReader'.streams[d].recv = <<>>
  BY <1>3, <1>4, <1>5 DEF ReaderAt
<1>6. CASE EndsAt(p, m)
  <2> DEFINE a == Messages!AfterWrite(p.w, m)
  <2>1. /\ a.chunkSize = IF m.type = "SetChunkSize" THEN NewChunkSize ELSE p.w.chunkSize
        /\ a.streams[m.cs] = StreamAfter(p.w.streams[m.cs], m)
        /\ \A d \in ChunkStreams \ {m.cs} : a.streams[d] = p.w.streams[d]
    BY <1>2, AfterWriteIs
  <2> HIDE DEF a
  <2>2. q.o = 0 /\ q.w = a
    BY <1>6 DEF After, a
  <2>3. \A d \in ChunkStreams : /\ Agree(a.streams[d], rmReader'.streams[d])
                                /\ rmReader'.streams[d].recv = <<>>
    BY <1>4, <1>5, <1>6, <2>1
  <2> QED
    BY <1>4, <1>6, <2>1, <2>2, <2>3 DEF ReaderAt
<1>7. CASE ~EndsAt(p, m)
  <2>1. q.o = p.o + p.w.chunkSize /\ q.w = p.w
    BY <1>7 DEF After
  <2>2. p.w.chunkSize \in Nat \ {0}
    BY <1>2, SizesAreNumbers DEF RTMPWriter
  <2>3. q.o # 0 /\ y = m
    BY <1>2, <2>1, <2>2
  <2> QED
    BY <1>4, <1>5, <1>7, <2>1, <2>3 DEF ReaderAt
<1> QED
  BY <1>6, <1>7

\* The reader goes along the trace.
LEMMA ReadFollowsTrace ==
    ASSUME MessagesInv, Messages!ReadChunk,
           NEW g, Trace(g, rmWriter, rmWire, rmReader, rmSent, rmReceived)
    PROVE  \E f : Trace(f, rmWriter', rmWire', rmReader', rmSent', rmReceived')
<1> DEFINE L == Len(rmWire)
           p == g[1]
           m == rmSent[p.n]
           f == [i \in 1..L |-> g[i + 1]]
<1>1. /\ rmWire # <<>> /\ rmWire' = Tail(rmWire) /\ rmWriter' = rmWriter /\ rmSent' = rmSent
  BY DEF Messages!ReadChunk
<1>2. rmWire \in Seq(RTMPChunk) /\ rmSent \in Seq(RTMPMessage)
  BY DEF MessagesInv
<1>3. /\ L \in Nat \ {0} /\ Len(rmWire') = L - 1
      /\ \A i \in 1..(L - 1) : rmWire'[i] = rmWire[i + 1]
  BY <1>1, <1>2
<1>4. /\ g \in [1..(L + 1) -> Place]
      /\ g[L + 1] = [n |-> Len(rmSent) + 1, o |-> 0, w |-> rmWriter]
      /\ \A i \in 1..L :
            /\ g[i].n \in DOMAIN rmSent
            /\ g[i].o = 0 \/ g[i].o < Len(rmSent[g[i].n].body)
            /\ GoesOn(g[i].w.streams[rmSent[g[i].n].cs], rmSent[g[i].n])
            /\ IsChunk(rmWire[i], g[i], rmSent[g[i].n])
            /\ g[i + 1] = After(g[i], rmSent[g[i].n])
      /\ rmReceived \in Seq(RTMPMessage) /\ Len(rmReceived) = g[1].n - 1
      /\ \A i \in 1..Len(rmReceived) : rmReceived[i] = Seen(rmSent[i])
  BY DEF Trace
<1>5. IsAfterChunk(p, m)
  BY ReadChunkIs
<1>6. /\ p \in Place /\ p.n \in Nat \ {0} /\ m \in RTMPMessage
      /\ rmReceived' = IF EndsAt(p, m) THEN Append(rmReceived, Seen(m)) ELSE rmReceived
  BY <1>5 DEF IsAfterChunk, Place
<1>7. g[2] = After(p, m)
  <2>1. 1 \in 1..L
    BY <1>3
  <2> QED
    BY <1>4, <2>1
<1>8. ReaderAt(rmReader', g[2], rmSent[g[2].n])
  <2>1. rmSent[g[2].n] = m \/ g[2].o = 0
    BY <1>7 DEF After
  <2> DEFINE y == rmSent[g[2].n]
             q == g[2]
  <2>2. y = m \/ q.o = 0
    BY <2>1
  <2>3. q = After(p, m) /\ p = g[1] /\ m = rmSent[p.n]
    BY <1>7
  <2> HIDE DEF p, m, q, y
  <2>4. ReaderAt(rmReader', q, y)
    BY <2>2, <2>3, ReaderIsAfter
  <2> QED
    BY <2>4 DEF q, y
<1>9. /\ rmReceived' \in Seq(RTMPMessage) /\ Len(rmReceived') = g[2].n - 1
      /\ \A i \in 1..Len(rmReceived') : rmReceived'[i] = Seen(rmSent[i])
  <2>0. Len(rmReceived) = p.n - 1
    BY <1>4
  <2> HIDE DEF p
  <2>1. CASE EndsAt(p, m)
    <3> DEFINE x == Seen(m)
    <3>1. g[2].n = p.n + 1
      BY <1>7, <2>1 DEF After
    <3>2. x \in RTMPMessage /\ x = Seen(rmSent[p.n])
      BY <1>6, SeenIsMessage
    <3>3. rmReceived' = Append(rmReceived, x)
      BY <1>6, <2>1
    <3> HIDE DEF x, m
    <3>4. rmReceived' \in Seq(RTMPMessage) /\ Len(rmReceived') = p.n
      BY <1>4, <1>6, <2>0, <3>2, <3>3
    <3>5. ASSUME NEW i \in 1..Len(rmReceived') PROVE rmReceived'[i] = Seen(rmSent[i])
      <4>1. CASE i = p.n
        BY <1>4, <1>6, <2>0, <3>2, <3>3, <4>1
      <4>2. CASE i # p.n
        <5>1. i \in 1..Len(rmReceived)
          BY <1>6, <2>0, <3>4, <4>2
        <5>2. rmReceived'[i] = rmReceived[i]
          BY <1>4, <3>2, <3>3, <5>1
        <5> QED
          BY <1>4, <5>1, <5>2
      <4> QED
        BY <4>1, <4>2
    <3> QED
      BY <1>6, <3>1, <3>4, <3>5
  <2>2. CASE ~EndsAt(p, m)
    <3>1. g[2].n = p.n
      BY <1>7, <2>2 DEF After
    <3>2. rmReceived' = rmReceived
      BY <1>6, <2>2
    <3> QED
      BY <1>4, <2>0, <3>1, <3>2
  <2> QED
    BY <2>1, <2>2
<1> HIDE DEF p, m, L
<1>10. /\ f \in [1..((L - 1) + 1) -> Place] /\ f[1] = g[2] /\ f[(L - 1) + 1] = g[L + 1]
       /\ \A i \in 1..(L - 1) : f[i] = g[i + 1] /\ f[i + 1] = g[(i + 1) + 1] /\ i + 1 \in 1..L
  <2>1. (L - 1) + 1 = L /\ 1 \in 1..L /\ L \in 1..L
    BY <1>3
  <2>2. \A i \in 1..L : f[i] = g[i + 1]
    OBVIOUS
  <2>3. \A i \in 1..L : i + 1 \in 1..(L + 1)
    BY <1>3
  <2>4. f \in [1..L -> Place]
    BY <1>4, <2>3
  <2>5. \A i \in 1..(L - 1) : i \in 1..L /\ i + 1 \in 1..L
    BY <1>3
  <2>6. f[1] = g[2]
    BY <2>1, <2>2
  <2> HIDE DEF f
  <2> QED
    BY <2>1, <2>2, <2>4, <2>5, <2>6
<1> HIDE DEF f
<1>11. \A i \in 1..(L - 1) :
         /\ f[i].n \in DOMAIN rmSent
         /\ f[i].o = 0 \/ f[i].o < Len(rmSent[f[i].n].body)
         /\ GoesOn(f[i].w.streams[rmSent[f[i].n].cs], rmSent[f[i].n])
         /\ IsChunk(rmWire'[i], f[i], rmSent[f[i].n])
         /\ f[i + 1] = After(f[i], rmSent[f[i].n])
  <2> SUFFICES ASSUME NEW i \in 1..(L - 1)
               PROVE  /\ f[i].n \in DOMAIN rmSent
                      /\ f[i].o = 0 \/ f[i].o < Len(rmSent[f[i].n].body)
                      /\ GoesOn(f[i].w.streams[rmSent[f[i].n].cs], rmSent[f[i].n])
                      /\ IsChunk(rmWire'[i], f[i], rmSent[f[i].n])
                      /\ f[i + 1] = After(f[i], rmSent[f[i].n])
    OBVIOUS
  <2> DEFINE j == i + 1
  <2>1. j \in 1..L /\ f[i] = g[j] /\ f[i + 1] = g[j + 1] /\ rmWire'[i] = rmWire[j]
    BY <1>3, <1>10
  <2> HIDE DEF j
  <2> QED
    BY <1>4, <2>1
<1>12. Trace(f, rmWriter, rmWire', rmReader', rmSent, rmReceived')
  BY <1>3, <1>4, <1>8, <1>9, <1>10, <1>11 DEF Trace
<1> QED
  BY <1>1, <1>12

\* Whatever the chunk is, the reader keeps its shape.
LEMMA ReadKeepsShape ==
    ASSUME MessagesInv, Messages!ReadChunk
    PROVE  /\ ReaderShape(rmReader') /\ rmWire' \in Seq(RTMPChunk)
           /\ rmWriter' = rmWriter /\ rmSent' = rmSent
<1> DEFINE c == Head(rmWire)
           r == rmReader.streams[c.cs]
           n == Messages!ReadHeader(r, c)
           body == r.recv \o c.body
           whole == Len(body) = n.len
           x == [n EXCEPT !.recv = IF whole THEN <<>> ELSE body]
           z == IF whole /\ n.type = "SetChunkSize" THEN NewChunkSize ELSE rmReader.chunkSize
<1>1. rmWire # <<>> /\ rmWire' = Tail(rmWire) /\ rmWriter' = rmWriter /\ rmSent' = rmSent
  BY DEF Messages!ReadChunk
<1>2. rmWire \in Seq(RTMPChunk) /\ ReaderShape(rmReader)
  BY DEF MessagesInv
<1>3. rmWire' \in Seq(RTMPChunk) /\ c \in RTMPChunk
  BY <1>1, <1>2
<1>4. c.cs \in ChunkStreams
  BY <1>3 DEF RTMPChunk
<1>5. z \in ChunkSizes
  BY <1>2 DEF ReaderShape, ChunkSizes
<1>6. \/ rmReader' = [rmReader EXCEPT !.err = TRUE]
      \/ rmReader' = [rmReader EXCEPT !.streams[c.cs] = x, !.chunkSize = z]
  BY DEF Messages!ReadChunk
<1> HIDE DEF c, x, z
<1>7. CASE rmReader' = [rmReader EXCEPT !.err = TRUE]
  <2>1. PICK a, b, h : rmReader = [chunkSize |-> a, err |-> b, streams |-> h]
    BY <1>2 DEF ReaderShape
  <2>2. /\ rmReader.streams = h /\ rmReader.chunkSize = a
        /\ h = [d \in ChunkStreams |-> h[d]] /\ a \in ChunkSizes
    BY <1>2, <2>1 DEF ReaderShape
  <2>3. rmReader' = [chunkSize |-> a, err |-> TRUE, streams |-> h]
    BY <1>7, <2>1
  <2> QED
    BY <1>1, <1>3, <2>2, <2>3 DEF ReaderShape
<1>8. CASE rmReader' = [rmReader EXCEPT !.streams[c.cs] = x, !.chunkSize = z]
  <2>1. IsUpdated(rmReader', rmReader, c.cs, x, z)
    BY <1>2, <1>4, <1>5, <1>8, ReaderUpdate
  <2> QED
    BY <1>1, <1>3, <2>1 DEF IsUpdated
<1> QED
  BY <1>6, <1>7, <1>8

LEMMA ReadChunkKeeps ==
    ASSUME MessagesInv, Messages!ReadChunk
    PROVE  MessagesInv'
<1>1. /\ ReaderShape(rmReader') /\ rmWire' \in Seq(RTMPChunk)
      /\ rmWriter' = rmWriter /\ rmSent' = rmSent
  BY ReadKeepsShape
<1>2. Messages!NeverStartsOver' = Messages!NeverStartsOver
  BY <1>1 DEF Messages!NeverStartsOver
<1>3. ASSUME Messages!NeverStartsOver
      PROVE  \E f : Trace(f, rmWriter', rmWire', rmReader', rmSent', rmReceived')
  <2>1. PICK g : Trace(g, rmWriter, rmWire, rmReader, rmSent, rmReceived)
    BY <1>3 DEF MessagesInv
  <2> QED
    BY <2>1, ReadFollowsTrace
<1>4. /\ rmWriter \in RTMPWriter /\ rmSent \in Seq(RTMPMessage)
      /\ \A c \in ChunkStreams : WriterKnows(rmWriter.streams[c], c, rmSent)
  BY DEF MessagesInv
<1> QED
  BY <1>1, <1>2, <1>3, <1>4 DEF MessagesInv

LEMMA WriteKeeps ==
    ASSUME MessagesInv, NEW m \in RTMPMessage, Messages!Write(m)
    PROVE  MessagesInv'
<1> DEFINE s == Messages!Chunks(rmWriter, m)
<1>1. /\ rmWire' = rmWire \o s /\ rmWriter' = Messages!AfterWrite(rmWriter, m)
      /\ rmSent' = Append(rmSent, m) /\ rmReader' = rmReader
  BY DEF Messages!Write
<1>2. /\ rmWriter \in RTMPWriter /\ rmWire \in Seq(RTMPChunk) /\ ReaderShape(rmReader)
      /\ rmSent \in Seq(RTMPMessage)
  BY DEF MessagesInv
<1>3. s \in Seq(RTMPChunk)
  BY <1>2, ChunksAre
<1>4. rmWriter' \in RTMPWriter
  BY <1>1, <1>2, AfterWriteIs
<1> HIDE DEF s
<1>5. rmWire' \in Seq(RTMPChunk) /\ rmSent' \in Seq(RTMPMessage) /\ ReaderShape(rmReader')
  BY <1>1, <1>2, <1>3
<1>6. \A c \in ChunkStreams : WriterKnows(rmWriter'.streams[c], c, rmSent')
  BY WriteKnows
<1>7. ASSUME Messages!NeverStartsOver'
      PROVE  \E f : Trace(f, rmWriter', rmWire', rmReader', rmSent', rmReceived')
  <2>1. Messages!NeverStartsOver /\ GoesOn(rmWriter.streams[m.cs], m)
    BY <1>7, WriteGoesOn
  <2>2. PICK g : Trace(g, rmWriter, rmWire, rmReader, rmSent, rmReceived)
    BY <2>1 DEF MessagesInv
  <2> QED
    BY <2>1, <2>2, WriteExtendsTrace
<1> QED
  BY <1>4, <1>5, <1>6, <1>7 DEF MessagesInv

LEMMA WriteMessageKeeps ==
    ASSUME MessagesInv, Messages!WriteMessage
    PROVE  MessagesInv'
<1> DEFINE start(cs) == IF rmWriter.streams[cs].time = {} THEN 0
                        ELSE CHOOSE t \in rmWriter.streams[cs].time : TRUE
           data(len) == [i \in 1..len |-> <<Len(rmSent) + 1, i>>]
           m(cs, id, step, len, type) ==
                [cs |-> cs, id |-> id, type |-> type, time |-> start(cs) + step, body |-> data(len)]
<1>1. PICK cs \in ChunkStreams, id \in MessageStreams, step \in Steps \cup {-1}, len \in BodyLens,
           type \in {"Audio", "DataAMF0", "SetChunkSize"} :
        Messages!Write(m(cs, id, step, len, type))
  BY DEF Messages!WriteMessage
<1>2. rmWriter.streams[cs] \in WriterStream /\ rmSent \in Seq(RTMPMessage)
  BY DEF MessagesInv, RTMPWriter
<1>3. rmWriter.streams[cs].time \subseteq Int
  BY <1>2 DEF WriterStream
<1>4. start(cs) \in Int
  <2> DEFINE T == rmWriter.streams[cs].time
  <2>1. T # {} => (CHOOSE t \in T : TRUE) \in T
    OBVIOUS
  <2> HIDE DEF T
  <2>2. (IF T = {} THEN 0 ELSE CHOOSE t \in T : TRUE) \in Int
    <3>1. CASE T = {}
      BY <3>1
    <3>2. CASE T # {}
      <4>1. (CHOOSE t \in T : TRUE) \in Int
        BY <1>3, <2>1, <3>2 DEF T
      <4> QED
        BY <3>2, <4>1
    <3> QED
      BY <3>1, <3>2
  <2> QED
    BY <2>2 DEF T
<1>5. step \in Int /\ len \in Nat
  BY MessagesAssumption
<1>6. data(len) \in Seq(Bytes)
  <2>1. Len(rmSent) + 1 \in Nat
    BY <1>2
  <2>2. \A i \in 1..len : <<Len(rmSent) + 1, i>> \in Bytes
    BY <1>5, <2>1 DEF Bytes
  <2> QED
    BY <1>5, <2>2
<1> DEFINE x == m(cs, id, step, len, type)
<1>7. x \in RTMPMessage
  <2> HIDE DEF start, data
  <2>1. start(cs) + step \in Int
    BY <1>4, <1>5
  <2> QED
    BY <1>6, <2>1 DEF RTMPMessage, MessageTypes
<1>8. Messages!Write(x)
  BY <1>1
<1> HIDE DEF x
<1> QED
  BY <1>7, <1>8, WriteKeeps

LEMMA MessagesNext ==
    ASSUME MessagesInv, Messages!Next \/ UNCHANGED rmVars
    PROVE  MessagesInv'
<1>1. CASE Messages!WriteMessage
  BY <1>1, WriteMessageKeeps
<1>2. CASE Messages!ReadChunk
  BY <1>2, ReadChunkKeeps
<1>3. CASE UNCHANGED rmVars
  <2>1. /\ rmWriter' = rmWriter /\ rmWire' = rmWire /\ rmReader' = rmReader
        /\ rmSent' = rmSent /\ rmReceived' = rmReceived
    BY <1>3 DEF rmVars
  <2>2. Messages!NeverStartsOver' = Messages!NeverStartsOver
    BY <2>1 DEF Messages!NeverStartsOver
  <2> QED
    BY <2>1, <2>2 DEF MessagesInv
<1> QED
  BY <1>1, <1>2, <1>3 DEF Messages!Next

\* The invariant holds in every behaviour that follows the messages.
LEMMA MessagesInductive == Spec => [](kind = "messages" => MessagesInv)
<1>1. Init => (kind = "messages" => MessagesInv)
  BY MessagesInit DEF Init
<1>2. (kind = "messages" => MessagesInv) /\ [Next]_vars => (kind = "messages" => MessagesInv)'
  <2> SUFFICES ASSUME kind = "messages" => MessagesInv, [Next]_vars, kind' = "messages"
               PROVE  MessagesInv'
    OBVIOUS
  <2>1. CASE Next
    <3>1. kind = "messages" /\ Messages!Next
      BY <2>1 DEF Next
    <3> QED
      BY <3>1, MessagesNext
  <2>2. CASE UNCHANGED vars
    <3>1. kind = "messages" /\ UNCHANGED rmVars
      BY <2>2 DEF vars
    <3> QED
      BY <3>1, MessagesNext
  <2> QED
    BY <2>1, <2>2
<1> QED
  BY <1>1, <1>2, PTL DEF Spec

LEMMA MessagesAreRight ==
    ASSUME MessagesInv
    PROVE  Messages!TypeOK /\ Messages!ReceivedAsSent
<1>1. Messages!TypeOK
  <2>1. /\ rmWriter \in RTMPWriter /\ ReaderShape(rmReader) /\ rmWire \in Seq(RTMPChunk)
    BY DEF MessagesInv
  <2>2. rmWriter.chunkSize \in ChunkSizes /\ rmReader.chunkSize \in ChunkSizes
    BY <2>1 DEF RTMPWriter, ReaderShape
  <2>3. \A i \in DOMAIN rmWire : rmWire[i] \in RTMPChunk
    BY <2>1
  <2>4. \A i \in DOMAIN rmWire : rmWire[i].type \in 0..3 /\ rmWire[i].time \in 0..(Word32 - 1)
    BY <2>3 DEF RTMPChunk
  <2> QED
    BY <2>2, <2>4 DEF Messages!TypeOK, ChunkSizes
<1>2. ASSUME Messages!NeverStartsOver
      PROVE  /\ ~rmReader.err
             /\ Messages!IsPrefix(rmReceived, [i \in DOMAIN rmSent |-> Seen(rmSent[i])])
             /\ rmWire = <<>> => Len(rmReceived) = Len(rmSent)
  <2>1. PICK g : Trace(g, rmWriter, rmWire, rmReader, rmSent, rmReceived)
    BY <1>2 DEF MessagesInv
  <2>2. /\ rmSent \in Seq(RTMPMessage) /\ Len(rmSent) \in Nat /\ DOMAIN rmSent = 1..Len(rmSent)
        /\ rmWire \in Seq(RTMPChunk) /\ Len(rmWire) \in Nat
    BY DEF MessagesInv
  <2>3. /\ g \in [1..(Len(rmWire) + 1) -> Place]
        /\ g[Len(rmWire) + 1] = [n |-> Len(rmSent) + 1, o |-> 0, w |-> rmWriter]
        /\ \A i \in 1..Len(rmWire) : g[i].n \in DOMAIN rmSent
        /\ ~rmReader.err
        /\ rmReceived \in Seq(RTMPMessage) /\ Len(rmReceived) = g[1].n - 1
        /\ \A i \in 1..Len(rmReceived) : rmReceived[i] = Seen(rmSent[i])
    BY <2>1 DEF Trace, ReaderAt
  <2>4. rmWire = <<>> => Len(rmReceived) = Len(rmSent)
    <3> SUFFICES ASSUME rmWire = <<>> PROVE Len(rmReceived) = Len(rmSent)
      OBVIOUS
    <3>1. Len(rmWire) = 0
      OBVIOUS
    <3>2. g[1].n = Len(rmSent) + 1
      BY <2>3, <3>1
    <3> QED
      BY <2>2, <2>3, <3>2
  <2>5. Len(rmReceived) <= Len(rmSent) /\ Len(rmReceived) \in Nat
    <3>1. CASE Len(rmWire) = 0
      BY <2>2, <2>3, <3>1
    <3>2. CASE Len(rmWire) # 0
      <4>1. 1 \in 1..Len(rmWire)
        BY <2>2, <3>2
      <4>2. g[1].n \in 1..Len(rmSent)
        BY <2>2, <2>3, <4>1
      <4> QED
        BY <2>2, <2>3, <4>2
    <3> QED
      BY <3>1, <3>2
  <2> DEFINE t == [i \in DOMAIN rmSent |-> Seen(rmSent[i])]
  <2>6. /\ t \in Seq(RTMPMessage) /\ Len(t) = Len(rmSent)
        /\ \A i \in 1..Len(rmSent) : t[i] = Seen(rmSent[i])
    <3>1. \A i \in 1..Len(rmSent) : Seen(rmSent[i]) \in RTMPMessage
      BY <2>2, SeenIsMessage
    <3> QED
      BY <2>2, <3>1
  <2> HIDE DEF t
  <2>7. Messages!IsPrefix(rmReceived, t)
    <3>1. /\ Len(SubSeq(t, 1, Len(rmReceived))) = Len(rmReceived)
          /\ SubSeq(t, 1, Len(rmReceived)) \in Seq(RTMPMessage)
          /\ \A i \in 1..Len(rmReceived) : SubSeq(t, 1, Len(rmReceived))[i] = t[i]
      BY <2>5, <2>6
    <3>2. \A i \in 1..Len(rmReceived) : rmReceived[i] = t[i]
      BY <2>2, <2>3, <2>5, <2>6
    <3>3. rmReceived = SubSeq(t, 1, Len(rmReceived))
      BY <2>3, <3>1, <3>2, SeqEqual
    <3> QED
      BY <2>5, <2>6, <3>3 DEF Messages!IsPrefix
  <2> QED
    BY <2>3, <2>4, <2>7 DEF t
<1> QED
  BY <1>1, <1>2 DEF Messages!ReceivedAsSent, Seen

\* What is read is what was written, message by message and up to the width of
\* a timestamp, whatever the chunk sizes, lengths and timestamps are, as long as
\* nothing makes the writer start over on a chunk stream (rawmessage.Writer and
\* rawmessage.Reader).
THEOREM ReceivedAsSentAlways == Spec => []ReceivedAsSent
<1>1. (kind = "messages" => MessagesInv) => ReceivedAsSent
  BY MessagesAreRight DEF ReceivedAsSent
<1> QED
  BY <1>1, MessagesInductive, PTL

-----------------------------------------------------------------------------
(* The types of all the services.                                           *)

LEMMA PlaybackTypes == Spec => [](kind = "playback" => Playback!TypeOK)
<1>1. Init => (kind = "playback" => Playback!TypeOK)
  BY DEF Init, Playback!Init, Playback!Pending, Playback!TypeOK
<1>2. (kind = "playback" => Playback!TypeOK) /\ [Next]_vars => (kind = "playback" => Playback!TypeOK)'
  <2> SUFFICES ASSUME kind = "playback" => Playback!TypeOK, [Next]_vars, kind' = "playback"
               PROVE  Playback!TypeOK'
    OBVIOUS
  <2>1. CASE Next
    <3>1. kind = "playback" /\ Playback!Next
      BY <2>1 DEF Next
    <3>2. CASE Playback!ListRequest
      BY <3>2 DEF Playback!ListRequest, Playback!TypeOK
    <3>3. CASE Playback!GetRequest
      BY <3>3 DEF Playback!GetRequest, Playback!TypeOK
    <3>4. CASE Playback!SeekRequest
      BY <3>4 DEF Playback!SeekRequest, Playback!TypeOK
    <3>5. CASE Playback!MuxRequest
      BY <3>5 DEF Playback!MuxRequest, Playback!TypeOK
    <3> QED
      BY <3>1, <3>2, <3>3, <3>4, <3>5 DEF Playback!Next
  <2>2. CASE UNCHANGED vars
    BY <2>2 DEF vars, pbVars, Playback!TypeOK
  <2> QED
    BY <2>1, <2>2
<1> QED
  BY <1>1, <1>2, PTL DEF Spec

\* The state of every service keeps its type: that of the resources, of a
\* reload, of the recorder, of the playback server, of the two sides of an RTMP
\* connection, of the static sources and of the external commands.
THEOREM ServicesTypeCorrect == Spec => []TypeOK
<1> DEFINE R == kind = "recorder" => Recorder!TypeOK
           P == kind = "playback" => Playback!TypeOK
           M == kind = "messages" => MessagesInv
<1>1. ServicesInv /\ R /\ P /\ M => TypeOK
  <2> SUFFICES ASSUME ServicesInv, R, P, M PROVE TypeOK
    OBVIOUS
  <2>1. kind = "resources" => Resources!TypeOK
    BY DEF ServicesInv, ResourcesInv
  <2>2. kind = "reload" => Reload!TypeOK
    BY DEF ServicesInv, ReloadInv
  <2>3. kind = "messages" => Messages!TypeOK
    BY MessagesAreRight
  <2>4. kind = "sources" => Sources!TypeOK
    BY SourcesInvImplies DEF ServicesInv
  <2>5. kind = "commands" => Commands!TypeOK
    BY DEF ServicesInv, CommandsInv
  <2> QED
    BY <2>1, <2>2, <2>3, <2>4, <2>5 DEF TypeOK
<1> QED
  BY <1>1, ServicesInductive, RecorderTypeCorrect, PlaybackTypes, MessagesInductive, PTL
=============================================================================
