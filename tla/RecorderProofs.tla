---------------------------- MODULE RecorderProofs ----------------------------
(***************************************************************************)
(* The recording of a stream, for every number of samples, of changes of   *)
(* parameters and of failing file operations, every size of the queue and  *)
(* all durations of parts and segments: what is on the disk is in order and *)
(* can be played, and its files are closed.  Lemmas about the files, about  *)
(* the two formats and about the goroutines of the recorder, in this order. *)
(***************************************************************************)
EXTENDS MCServices, Sequences, SequenceTheorems, TLAPS

\* A segment, the state of a format, a file, and what the operations work on.
RecSegment ==
    [some: BOOLEAN, start: 0..MaxDTS, file: Nat, flushed: 0..MaxDTS,
     cut: BOOLEAN]
RecFormat ==
    [hasVideo: BOOLEAN, firstReceived: BOOLEAN, params: 0..MaxParams,
     next: [BOOLEAN -> Recorder!Sample], segment: RecSegment,
     pending: Seq(Recorder!Sample)]
RecFile ==
    [start: 0..MaxDTS, cut: BOOLEAN, samples: Seq(Recorder!Sample), open: BOOLEAN,
     complete: BOOLEAN]
RecSource ==
    [dts: [BOOLEAN -> 0..MaxDTS], units: 0..MaxSamples, params: 0..MaxParams,
     failures: 0..MaxFailures]
RecSetup == [format: {"fmp4", "mpegts"}, video: VideoCodecs, audio: AudioCodecs]
Recording == [rec: RecFormat, disk: Seq(RecFile), err: BOOLEAN]

Members(s) == {s[k] : k \in DOMAIN s}
Written(d) == UNION {Members(d[i].samples) : i \in DOMAIN d}

\* The order within a track.
InOrder(a, b) == a.video = b.video => a.dts < b.dts
SamplesInOrder(s) == \A k, l \in DOMAIN s : k < l => InOrder(s[k], s[l])
AllBefore(S, b) == \A a \in S : InOrder(a, b)

HasVideo(s) == \E k \in DOMAIN s : s[k].video

\* What is in the file of segment g.
Content(d, g) == IF g.file = 0 THEN <<>> ELSE d[g.file].samples

\* A segment writes to the last file.
FileIsLast(d, g) ==
    g.file # 0 => /\ g.file = Len(d)
                  /\ g.some
                  /\ d[g.file].cut = g.cut

FilesAreRight(d) ==
    /\ \A i, j \in DOMAIN d : i < j =>
        \A b \in Members(d[j].samples) : AllBefore(Members(d[i].samples), b)
    /\ \A i \in DOMAIN d :
        /\ SamplesInOrder(d[i].samples)
        /\ d[i].cut => Recorder!FirstVideoIsKey(d[i].samples)
        /\ ~d[i].open /\ d[i].samples # <<>> => d[i].complete

AllClosed(d) == \A i \in DOMAIN d : ~d[i].open

DiskSound(d, g) ==
    /\ FileIsLast(d, g)
    /\ FilesAreRight(d)
    /\ \A i \in DOMAIN d : d[i].open => g.file = i

\* What is not written yet comes after what is written.
PendingSound(d, g, p) ==
    /\ SamplesInOrder(p)
    /\ \A b \in Members(p) : AllBefore(Written(d), b)
    /\ g.cut => HasVideo(Content(d, g)) \/ Recorder!FirstVideoIsKey(p)

LEMMA EmptySamples ==
    /\ Members(<<>>) = {}
    /\ SamplesInOrder(<<>>)
    /\ Recorder!FirstVideoIsKey(<<>>)
    /\ ~HasVideo(<<>>)
  BY DEF Members, SamplesInOrder, Recorder!FirstVideoIsKey, HasVideo

\* os.Create() for a segment, or the file that a failed writeInit() leaves.
LEMMA CreatedFile ==
    ASSUME NEW d \in Seq(RecFile), NEW g \in RecSegment, NEW p \in Seq(Recorder!Sample),
           DiskSound(d, g), PendingSound(d, g, p), g.file = 0, g.some,
           NEW e \in Seq(RecFile), Len(e) = Len(d) + 1,
           \A i \in DOMAIN d : e[i] = d[i],
           e[Len(e)].samples = <<>>, e[Len(e)].cut = g.cut,
           NEW h \in RecSegment, h.file = IF e[Len(e)].open THEN Len(e) ELSE 0,
           h.some = g.some, h.cut = g.cut
    PROVE  /\ DiskSound(e, h) /\ PendingSound(e, h, p)
           /\ Written(e) = Written(d)
           /\ Content(e, h) = <<>> /\ Content(d, g) = <<>>
<1>1. /\ DOMAIN e = 1..Len(e) /\ DOMAIN d = 1..Len(d) /\ Len(d) \in Nat
      /\ Len(e) \in DOMAIN e
  OBVIOUS
<1>0. e[Len(e)].samples = <<>> /\ Members(e[Len(e)].samples) = {}
  BY EmptySamples
<1>2. \A i \in DOMAIN e : i \in DOMAIN d \/ i = Len(e)
  BY <1>1
<1>3. Written(e) = Written(d)
  <2>1. \A i \in DOMAIN d : Members(e[i].samples) = Members(d[i].samples)
    BY <1>1
  <2>2. Members(e[Len(e)].samples) = {}
    BY <1>0
  <2>3. DOMAIN d \subseteq DOMAIN e
    BY <1>1
  <2> QED
    BY <1>2, <2>1, <2>2, <2>3 DEF Written
<1>4. Content(e, h) = <<>> /\ Content(d, g) = <<>>
  BY <1>1 DEF Content, RecSegment
<1>5. FilesAreRight(e)
  <2>1. ASSUME NEW i \in DOMAIN e, NEW j \in DOMAIN e, i < j,
               NEW b \in Members(e[j].samples)
        PROVE  AllBefore(Members(e[i].samples), b)
    <3>1. j \in DOMAIN d /\ i \in DOMAIN d
      <4>1. j # Len(e)
        BY <1>0, <2>1
      <4> QED
        BY <1>1, <1>2, <2>1, <4>1
    <3> QED
      BY <1>1, <2>1, <3>1 DEF DiskSound, FilesAreRight
  <2>2. ASSUME NEW i \in DOMAIN e
        PROVE  /\ SamplesInOrder(e[i].samples)
               /\ e[i].cut => Recorder!FirstVideoIsKey(e[i].samples)
               /\ ~e[i].open /\ e[i].samples # <<>> => e[i].complete
    <3>1. CASE i \in DOMAIN d
      BY <1>1, <3>1 DEF DiskSound, FilesAreRight
    <3>2. CASE i = Len(e)
      BY <1>1, <3>2, EmptySamples
    <3> QED
      BY <1>2, <3>1, <3>2
  <2> QED
    BY <2>1, <2>2 DEF FilesAreRight
<1>6. DiskSound(e, h)
  <2>1. FileIsLast(e, h)
    BY <1>1 DEF FileIsLast, RecSegment
  <2>2. ASSUME NEW i \in DOMAIN e, e[i].open PROVE h.file = i
    BY <1>1, <1>2, <2>2 DEF DiskSound, RecSegment
  <2> QED
    BY <1>5, <2>1, <2>2 DEF DiskSound
<1>7. h.cut = g.cut
  BY DEF RecSegment
<1> QED
  BY <1>3, <1>4, <1>6, <1>7 DEF PendingSound

\* Two sequences of samples, one after the other.
LEMMA Concatenated ==
    ASSUME NEW s \in Seq(Recorder!Sample), NEW p \in Seq(Recorder!Sample),
           NEW q, q = s \o p
    PROVE  /\ Members(q) = Members(s) \cup Members(p)
           /\ SamplesInOrder(s) /\ SamplesInOrder(p)
              /\ (\A b \in Members(p) : AllBefore(Members(s), b)) => SamplesInOrder(q)
           /\ Recorder!FirstVideoIsKey(s) /\ (HasVideo(s) \/ Recorder!FirstVideoIsKey(p))
                => Recorder!FirstVideoIsKey(q)
           /\ HasVideo(s) \/ HasVideo(p) => HasVideo(q)
<1>1. /\ DOMAIN s = 1..Len(s) /\ DOMAIN p = 1..Len(p) /\ Len(s) \in Nat /\ Len(p) \in Nat
      /\ DOMAIN q = 1..(Len(s) + Len(p))
      /\ \A k \in 1..Len(s) : q[k] = s[k]
      /\ \A k \in (Len(s) + 1)..(Len(s) + Len(p)) : q[k] = p[k - Len(s)]
  OBVIOUS
<1> DEFINE m == Len(s)
           n == Len(p)
<1>2. /\ m \in Nat /\ n \in Nat
      /\ DOMAIN s = 1..m /\ DOMAIN p = 1..n /\ DOMAIN q = 1..(m + n)
      /\ \A k \in 1..m : k \in DOMAIN q /\ q[k] = s[k]
      /\ \A k \in 1..n : m + k \in DOMAIN q /\ q[m + k] = p[k]
      /\ \A k \in DOMAIN q : k \notin 1..m => k - m \in 1..n /\ q[k] = p[k - m]
  <2>1. \A k \in 1..n : m + k \in (m + 1)..(m + n) /\ (m + k) - m = k
    BY <1>1
  <2>2. \A k \in DOMAIN q : k \notin 1..m => k \in (m + 1)..(m + n) /\ k - m \in 1..n
    BY <1>1
  <2> QED
    BY <1>1, <2>1, <2>2
<1> HIDE DEF m, n
<1>3. Members(q) = Members(s) \cup Members(p)
  <2>1. \A k \in DOMAIN s : s[k] \in Members(q)
    BY <1>2 DEF Members
  <2>2. \A k \in DOMAIN p : p[k] \in Members(q)
    BY <1>2 DEF Members
  <2>3. \A k \in DOMAIN q : q[k] \in Members(s) \cup Members(p)
    BY <1>2 DEF Members
  <2>4. Members(s) \subseteq Members(q)
    BY <2>1 DEF Members
  <2>5. Members(p) \subseteq Members(q)
    BY <2>2 DEF Members
  <2>6. Members(q) \subseteq Members(s) \cup Members(p)
    BY <2>3 DEF Members
  <2> QED
    BY <2>4, <2>5, <2>6
<1>4. ASSUME SamplesInOrder(s), SamplesInOrder(p),
             \A b \in Members(p) : AllBefore(Members(s), b)
      PROVE  SamplesInOrder(q)
  <2> SUFFICES ASSUME NEW k \in DOMAIN q, NEW l \in DOMAIN q, k < l
               PROVE  InOrder(q[k], q[l])
    BY DEF SamplesInOrder
  <2>1. CASE l \in DOMAIN s
    <3>1. k \in DOMAIN s
      BY <1>2, <2>1
    <3> QED
      BY <1>2, <1>4, <2>1, <3>1 DEF SamplesInOrder
  <2>2. CASE l \notin DOMAIN s /\ k \in DOMAIN s
    <3>1. q[k] \in Members(s)
      BY <1>2, <2>2 DEF Members
    <3>2. q[l] \in Members(p)
      BY <1>2, <2>2 DEF Members
    <3> QED
      BY <1>4, <3>1, <3>2 DEF AllBefore
  <2>3. CASE l \notin DOMAIN s /\ k \notin DOMAIN s
    <3>1. k - m < l - m /\ k - m \in DOMAIN p /\ l - m \in DOMAIN p
      BY <1>2, <2>3
    <3>2. InOrder(p[k - m], p[l - m])
      BY <1>4, <3>1 DEF SamplesInOrder
    <3> QED
      BY <1>2, <2>3, <3>2
  <2> QED
    BY <2>1, <2>2, <2>3
<1>5. ASSUME Recorder!FirstVideoIsKey(s), HasVideo(s) \/ Recorder!FirstVideoIsKey(p)
      PROVE  Recorder!FirstVideoIsKey(q)
  <2> SUFFICES ASSUME NEW k \in DOMAIN q, q[k].video, \A l \in 1..(k - 1) : ~q[l].video
               PROVE  q[k].key
    BY DEF Recorder!FirstVideoIsKey
  <2>1. CASE k \in DOMAIN s
    <3>1. \A l \in 1..(k - 1) : l \in DOMAIN s /\ ~s[l].video
      BY <1>2, <2>1
    <3> QED
      BY <1>2, <1>5, <2>1, <3>1 DEF Recorder!FirstVideoIsKey
  <2>2. CASE k \notin DOMAIN s
    <3>1. \A l \in DOMAIN s : l \in 1..(k - 1)
      BY <1>2, <2>2
    <3>2. ~HasVideo(s)
      BY <1>2, <3>1 DEF HasVideo
    <3>3. \A l \in 1..((k - m) - 1) : l \in 1..n /\ m + l \in 1..(k - 1)
      BY <1>2, <2>2
    <3>4. \A l \in 1..((k - m) - 1) : ~p[l].video
      BY <1>2, <3>3
    <3>5. k - m \in DOMAIN p /\ q[k] = p[k - m]
      BY <1>2, <2>2
    <3> QED
      BY <1>5, <3>2, <3>4, <3>5 DEF Recorder!FirstVideoIsKey
  <2> QED
    BY <2>1, <2>2
<1>6. HasVideo(s) \/ HasVideo(p) => HasVideo(q)
  BY <1>2 DEF HasVideo
<1> QED
  BY <1>3, <1>4, <1>5, <1>6

\* A write moves what is pending to the end of the last file.
LEMMA WrittenPending ==
    ASSUME NEW d \in Seq(RecFile), NEW g \in RecSegment, NEW p \in Seq(Recorder!Sample),
           DiskSound(d, g), PendingSound(d, g, p), g.file # 0,
           NEW e \in Seq(RecFile), Len(e) = Len(d),
           \A i \in DOMAIN d : i # g.file => e[i] = d[i],
           e[g.file].samples = d[g.file].samples \o p, e[g.file].cut = d[g.file].cut,
           e[g.file].open
    PROVE  /\ DiskSound(e, g) /\ PendingSound(e, g, <<>>)
           /\ Written(e) = Written(d) \cup Members(p)
           /\ HasVideo(Content(d, g)) \/ HasVideo(p) => HasVideo(Content(e, g))
<1> DEFINE f == g.file
           s == d[f].samples
           q == e[f].samples
<1>1. /\ DOMAIN d = 1..Len(d) /\ Len(d) \in Nat
      /\ f \in DOMAIN d /\ f = Len(d) /\ DOMAIN e = DOMAIN d
      /\ d[f].cut = g.cut
  <2>1. g.file \in Nat
    BY DEF RecSegment
  <2> QED
    BY <2>1 DEF DiskSound, FileIsLast
<1>2. s \in Seq(Recorder!Sample)
  <2>1. d[f] \in RecFile
    BY <1>1
  <2> QED
    BY <2>1 DEF RecFile
<1>3. /\ Members(q) = Members(s) \cup Members(p)
      /\ SamplesInOrder(s) /\ SamplesInOrder(p)
         /\ (\A b \in Members(p) : AllBefore(Members(s), b)) => SamplesInOrder(q)
      /\ Recorder!FirstVideoIsKey(s) /\ (HasVideo(s) \/ Recorder!FirstVideoIsKey(p))
           => Recorder!FirstVideoIsKey(q)
      /\ HasVideo(s) \/ HasVideo(p) => HasVideo(q)
  BY <1>2, Concatenated, ZenonT(40)
<1>4. Content(e, g) = q /\ Content(d, g) = s
  BY DEF Content
<1>5. /\ \A i \in DOMAIN d : i # f => e[i] = d[i]
      /\ e[f].samples = q /\ e[f].cut = d[f].cut /\ e[f].open
  OBVIOUS
<1>6. Members(s) \subseteq Written(d)
  BY <1>1 DEF Written
<1>7. SamplesInOrder(q)
  BY <1>1, <1>3, <1>6 DEF DiskSound, FilesAreRight, PendingSound, AllBefore
<1>8. d[f].cut => Recorder!FirstVideoIsKey(q)
  BY <1>1, <1>3, <1>4 DEF DiskSound, FilesAreRight, PendingSound
<1>9. \A b \in Members(p) : AllBefore(Written(d), b)
  BY DEF PendingSound
<1>10. FilesAreRight(d) /\ \A i \in DOMAIN d : d[i].open => f = i
  BY DEF DiskSound
<1> HIDE DEF f, s, q
<1>11. Written(e) = Written(d) \cup Members(p)
  <2>1. \A i \in DOMAIN d : i # f => Members(e[i].samples) = Members(d[i].samples)
    BY <1>5
  <2>2. Members(e[f].samples) = Members(d[f].samples) \cup Members(p)
    BY <1>3, <1>5 DEF s
  <2> QED
    BY <1>1, <2>1, <2>2, ZenonT(40) DEF Written
<1>12. FilesAreRight(e)
  <2>1. ASSUME NEW i \in DOMAIN e, NEW j \in DOMAIN e, i < j,
               NEW b \in Members(e[j].samples)
        PROVE  AllBefore(Members(e[i].samples), b)
    <3>1. i \in DOMAIN d /\ j \in DOMAIN d /\ i # f /\ e[i] = d[i]
      BY <1>1, <1>5, <2>1
    <3>2. CASE b \in Members(d[j].samples)
      BY <1>10, <2>1, <3>1, <3>2 DEF FilesAreRight
    <3>3. CASE b \notin Members(d[j].samples)
      <4>1. b \in Members(p)
        BY <1>3, <1>5, <3>1, <3>3, <2>1 DEF s
      <4>2. Members(d[i].samples) \subseteq Written(d)
        BY <3>1 DEF Written
      <4> QED
        BY <1>9, <3>1, <4>1, <4>2 DEF AllBefore
    <3> QED
      BY <3>2, <3>3
  <2>2. ASSUME NEW i \in DOMAIN e
        PROVE  /\ SamplesInOrder(e[i].samples)
               /\ e[i].cut => Recorder!FirstVideoIsKey(e[i].samples)
               /\ ~e[i].open /\ e[i].samples # <<>> => e[i].complete
    <3>1. CASE i # f
      BY <1>1, <1>5, <1>10, <3>1 DEF FilesAreRight
    <3>2. CASE i = f
      BY <1>5, <1>7, <1>8, <3>2
    <3> QED
      BY <3>1, <3>2
  <2> QED
    BY <2>1, <2>2 DEF FilesAreRight
<1>13. DiskSound(e, g)
  BY <1>1, <1>5, <1>10, <1>12 DEF DiskSound, FileIsLast, f
<1> QED
  BY <1>3, <1>4, <1>11, <1>13, EmptySamples DEF PendingSound

\* Close() of the file of a segment.
LEMMA ClosedFile ==
    ASSUME NEW d \in Seq(RecFile), NEW g \in RecSegment, DiskSound(d, g),
           NEW e \in Seq(RecFile), Len(e) = Len(d),
           \A i \in DOMAIN d :
                /\ e[i].samples = d[i].samples /\ e[i].cut = d[i].cut
                /\ IF i = g.file /\ d[i].open THEN ~e[i].open /\ e[i].complete
                   ELSE e[i].open = d[i].open /\ e[i].complete = d[i].complete
    PROVE  /\ DiskSound(e, g) /\ AllClosed(e)
           /\ Written(e) = Written(d)
           /\ Content(e, g) = Content(d, g)
<1>1. /\ DOMAIN d = 1..Len(d) /\ Len(d) \in Nat /\ DOMAIN e = DOMAIN d
      /\ g.file # 0 => g.file \in DOMAIN d
  <2>1. g.file \in Nat
    BY DEF RecSegment
  <2> QED
    BY <2>1 DEF DiskSound, FileIsLast
<1>2. Content(e, g) = Content(d, g)
  BY <1>1 DEF Content
<1>3. Written(e) = Written(d)
  BY <1>1 DEF Written
<1>4. AllClosed(e)
  BY <1>1 DEF AllClosed, DiskSound
<1>5. FilesAreRight(e)
  <2>1. ASSUME NEW i \in DOMAIN e, NEW j \in DOMAIN e, i < j,
               NEW b \in Members(e[j].samples)
        PROVE  AllBefore(Members(e[i].samples), b)
    BY <1>1, <2>1 DEF DiskSound, FilesAreRight
  <2>2. ASSUME NEW i \in DOMAIN e
        PROVE  /\ SamplesInOrder(e[i].samples)
               /\ e[i].cut => Recorder!FirstVideoIsKey(e[i].samples)
               /\ ~e[i].open /\ e[i].samples # <<>> => e[i].complete
    BY <1>1 DEF DiskSound, FilesAreRight
  <2> QED
    BY <2>1, <2>2 DEF FilesAreRight
<1>6. DiskSound(e, g)
  BY <1>1, <1>4, <1>5 DEF DiskSound, FileIsLast, AllClosed
<1> QED
  BY <1>2, <1>3, <1>4, <1>6

\* A segment that has not written anything.
LEMMA FreshSegment ==
    ASSUME NEW d, NEW g, FilesAreRight(d), AllClosed(d), g.file = 0
    PROVE  DiskSound(d, g) /\ PendingSound(d, g, <<>>)
  BY EmptySamples DEF DiskSound, FileIsLast, PendingSound, AllClosed

-----------------------------------------------------------------------------

\* The sample of a track that waits for the next one comes after those that did
\* not have to; the MPEG-TS format has none.
NextSound(d, r) ==
    /\ \A v \in BOOLEAN : r.next[v] # Recorder!NoSample =>
        /\ r.next[v].video = v
        /\ AllBefore(Written(d) \cup Members(r.pending), r.next[v])
    /\ rcSetup.format = "mpegts" => \A v \in BOOLEAN : r.next[v] = Recorder!NoSample
    /\ ~r.hasVideo => r.next[TRUE] = Recorder!NoSample
    /\ r.hasVideo = r.firstReceived

\* A segment that the video has cut has its first video sample, or the next one
\* is a key frame.
KeyFrameFollows(d, r) ==
    r.segment.cut =>
        /\ r.hasVideo
        /\ \/ HasVideo(Content(d, r.segment)) \/ HasVideo(r.pending)
           \/ /\ r.next[TRUE] # Recorder!NoSample
              /\ r.next[TRUE].key
              /\ r.segment.start <= r.next[TRUE].dts

Sound(x) ==
    /\ x \in Recording
    /\ DiskSound(x.disk, x.rec.segment)
    /\ PendingSound(x.disk, x.rec.segment, x.rec.pending)
    /\ NextSound(x.disk, x.rec)

\* Everything comes from samples up to the time t of their track.
UpTo(d, r, t) ==
    /\ \A s \in Written(d) \cup Members(r.pending) : s.dts <= t[s.video]
    /\ \A v \in BOOLEAN : r.next[v].dts <= t[v]

\* A sample that comes after those of its track.
IsNewer(d, r, s) ==
    /\ AllBefore(Written(d) \cup Members(r.pending), s)
    /\ r.next[s.video].dts < s.dts

\* A write changes nothing of the format but the file of its segment, if it has
\* none yet.
KeepsFormat(r, q) ==
    /\ r.segment.file # 0 => q.segment.file = r.segment.file
    /\ q.hasVideo = r.hasVideo /\ q.firstReceived = r.firstReceived
    /\ q.params = r.params /\ q.next = r.next /\ q.pending = r.pending
    /\ q.segment.some = r.segment.some /\ q.segment.start = r.segment.start
    /\ q.segment.flushed = r.segment.flushed /\ q.segment.cut = r.segment.cut

LEMMA RecordingParts ==
    ASSUME NEW x \in Recording
    PROVE  /\ x.rec \in RecFormat /\ x.disk \in Seq(RecFile) /\ x.err \in BOOLEAN
           /\ x.rec.segment \in RecSegment /\ x.rec.pending \in Seq(Recorder!Sample)
           /\ x.rec.next \in [BOOLEAN -> Recorder!Sample]
           /\ x.rec.hasVideo \in BOOLEAN /\ x.rec.firstReceived \in BOOLEAN
           /\ x.rec.params \in 0..MaxParams
  BY DEF Recording, RecFormat

LEMMA FileReplaced ==
    ASSUME NEW d \in Seq(RecFile), NEW j \in DOMAIN d, NEW n \in RecFile,
           NEW e, e = [d EXCEPT ![j] = n]
    PROVE  /\ e \in Seq(RecFile) /\ Len(e) = Len(d) /\ DOMAIN e = DOMAIN d
           /\ e[j] = n
           /\ \A i \in DOMAIN d : i # j => e[i] = d[i]
<1>1. j \in 1..Len(d) /\ DOMAIN d = 1..Len(d)
  OBVIOUS
<1>2. /\ e \in Seq(RecFile) /\ Len(e) = Len(d)
      /\ \A i \in 1..Len(d) : e[i] = IF i = j THEN n ELSE d[i]
  BY <1>1, ExceptSeq
<1> QED
  BY <1>1, <1>2

LEMMA FileAppended ==
    ASSUME NEW d \in Seq(RecFile), NEW f \in RecFile, NEW c, c = Append(d, f)
    PROVE  /\ c \in Seq(RecFile) /\ Len(c) = Len(d) + 1
           /\ \A i \in DOMAIN d : c[i] = d[i] /\ i # Len(c) /\ i \in DOMAIN c
           /\ Len(c) \in DOMAIN c /\ c[Len(c)] = f
  OBVIOUS

\* WritePending(): an error writes nothing; without one all that was pending is
\* in the file.
LEMMA WriteOutcome ==
    ASSUME NEW x, Sound(x), ~x.err, x.rec.segment.some, NEW fail,
           NEW w, w = Recorder!WritePending(x, fail)
    PROVE  /\ w \in Recording
           /\ KeepsFormat(x.rec, w.rec)
           /\ DiskSound(w.disk, w.rec.segment)
           /\ w.err => /\ PendingSound(w.disk, w.rec.segment, w.rec.pending)
                       /\ Written(w.disk) = Written(x.disk)
           /\ ~w.err =>
                /\ PendingSound(w.disk, w.rec.segment, <<>>)
                /\ Written(w.disk) = Written(x.disk) \cup Members(x.rec.pending)
                /\ HasVideo(Content(x.disk, x.rec.segment)) \/ HasVideo(x.rec.pending)
                     => HasVideo(Content(w.disk, w.rec.segment))
<1> DEFINE d == x.disk
           g == x.rec.segment
           p == x.rec.pending
           created == Append(d, Recorder!File(g.start, g.cut))
           empty == [created EXCEPT ![Len(created)].open = FALSE]
           file == IF g.file = 0 THEN Len(created) ELSE g.file
           before == IF g.file = 0 THEN created ELSE d
           h == [g EXCEPT !.file = file]
           written == [before EXCEPT ![file].samples = @ \o p]
<1>1. /\ x \in Recording /\ d \in Seq(RecFile) /\ g \in RecSegment
      /\ p \in Seq(Recorder!Sample) /\ DiskSound(d, g) /\ PendingSound(d, g, p)
  BY RecordingParts DEF Sound
<1>2. g.start \in 0..MaxDTS /\ g.cut \in BOOLEAN /\ g.file \in Nat /\ g.some
  BY <1>1 DEF RecSegment
<1>3. /\ created \in Seq(RecFile) /\ Len(created) = Len(d) + 1
      /\ \A i \in DOMAIN d : created[i] = d[i]
      /\ created[Len(created)].samples = <<>> /\ created[Len(created)].cut = g.cut
      /\ created[Len(created)].open = TRUE
      /\ empty \in Seq(RecFile) /\ Len(empty) = Len(d) + 1
      /\ \A i \in DOMAIN d : empty[i] = d[i]
      /\ empty[Len(empty)].samples = <<>> /\ empty[Len(empty)].cut = g.cut
      /\ empty[Len(empty)].open = FALSE
  <2> DEFINE f == Recorder!File(g.start, g.cut)
  <2>0. f \in RecFile /\ f.samples = <<>> /\ f.cut = g.cut /\ f.open = TRUE
    BY <1>2 DEF Recorder!File, RecFile
  <2> HIDE DEF f
  <2>1. /\ created \in Seq(RecFile) /\ Len(created) = Len(d) + 1
        /\ \A i \in DOMAIN d : created[i] = d[i] /\ i # Len(created) /\ i \in DOMAIN created
        /\ Len(created) \in DOMAIN created /\ created[Len(created)] = f
    <3>1. created = Append(d, f)
      BY DEF f
    <3> HIDE DEF created, d
    <3> QED
      BY <1>1, <2>0, <3>1, FileAppended
  <2> HIDE DEF created
  <2> DEFINE n == [created[Len(created)] EXCEPT !.open = FALSE]
  <2>2. n \in RecFile /\ n.samples = <<>> /\ n.cut = g.cut /\ n.open = FALSE
    BY <2>0, <2>1 DEF RecFile
  <2>3. empty = [created EXCEPT ![Len(created)] = n]
    OBVIOUS
  <2> HIDE DEF n, empty
  <2>4. /\ empty \in Seq(RecFile) /\ Len(empty) = Len(created)
        /\ empty[Len(created)] = n
        /\ \A i \in DOMAIN created : i # Len(created) => empty[i] = created[i]
    BY <2>1, <2>2, <2>3, FileReplaced
  <2> QED
    BY <2>0, <2>1, <2>2, <2>4
<1> HIDE DEF created, empty
<1>4. file \in Nat
  BY <1>1, <1>2, <1>3
<1>5. /\ h \in RecSegment /\ h.file = file /\ h.some = g.some /\ h.cut = g.cut
      /\ h.start = g.start /\ h.flushed = g.flushed
  <2> HIDE DEF g, file
  <2> QED
    BY <1>1, <1>4 DEF RecSegment
<1>6. /\ before \in Seq(RecFile) /\ DiskSound(before, h) /\ PendingSound(before, h, p)
      /\ Written(before) = Written(d) /\ Content(before, h) = Content(d, g)
  <2>1. CASE g.file = 0
    <3>1. h.file = Len(created)
      BY <1>3, <1>5, <2>1
    <3>2. before = created
      BY <2>1
    <3> HIDE DEF d, g, p, h, before
    <3>3. /\ DiskSound(created, h) /\ PendingSound(created, h, p)
          /\ Written(created) = Written(d)
          /\ Content(created, h) = <<>> /\ Content(d, g) = <<>>
      BY <1>1, <1>2, <1>3, <1>5, <2>1, <3>1, CreatedFile
    <3> QED
      BY <1>3, <3>2, <3>3
  <2>2. CASE g.file # 0
    <3>1. h = g
      BY <1>1, <2>2 DEF RecSegment
    <3> QED
      BY <1>1, <2>2, <3>1
  <2> QED
    BY <2>1, <2>2
<1>7. file # 0 /\ file \in DOMAIN before
  <2>1. file # 0
    BY <1>2, <1>3, <1>1
  <2>2. file = Len(before)
    BY <1>5, <1>6, <2>1 DEF DiskSound, FileIsLast
  <2> HIDE DEF before, file
  <2> QED
    BY <1>6, <2>1, <2>2, <1>4
<1>8. /\ written \in Seq(RecFile) /\ Len(written) = Len(before)
      /\ \A i \in DOMAIN before : i # file => written[i] = before[i]
      /\ written[file].samples = before[file].samples \o p
      /\ written[file].cut = before[file].cut
      /\ written[file].open = before[file].open
  <2> DEFINE f == before[file]
             n == [f EXCEPT !.samples = f.samples \o p]
  <2>1. f \in RecFile
    BY <1>6, <1>7
  <2>2. n \in RecFile /\ n.samples = f.samples \o p /\ n.cut = f.cut /\ n.open = f.open
    <3>1. f.samples \o p \in Seq(Recorder!Sample)
      BY <1>1, <2>1 DEF RecFile
    <3> HIDE DEF f
    <3> QED
      BY <2>1, <3>1 DEF RecFile
  <2>3. written = [before EXCEPT ![file] = n]
    OBVIOUS
  <2> HIDE DEF n, before, file, written
  <2> HIDE DEF f
  <2>4. /\ written \in Seq(RecFile) /\ Len(written) = Len(before) /\ written[file] = n
        /\ \A i \in DOMAIN before : i # file => written[i] = before[i]
    BY <1>6, <1>7, <2>2, <2>3, FileReplaced
  <2> QED
    BY <2>2, <2>4 DEF f
<1>9. w = CASE g.file = 0 /\ fail = "create" -> [x EXCEPT !.err = TRUE]
          [] g.file = 0 /\ fail = "init" /\ rcSetup.format = "fmp4" ->
                [x EXCEPT !.err = TRUE, !.disk = empty]
          [] fail = "write" \/ ~before[file].open ->
                [x EXCEPT !.err = TRUE, !.disk = before, !.rec.segment.file = file]
          [] OTHER -> [x EXCEPT !.rec.segment.file = file, !.disk = written]
  BY DEF Recorder!WritePending, created, empty
<1>10. /\ g.file = 0 => before[file].open
       /\ g.file # 0 => h.file = g.file
  BY <1>3, <1>5
<1> HIDE DEF before, file, written, h
<1>11. CASE g.file = 0 /\ fail = "create"
  <2>1. w = [x EXCEPT !.err = TRUE]
    BY <1>9, <1>10, <1>11
  <2>2. w \in Recording /\ w.rec = x.rec /\ w.disk = x.disk /\ w.err
    BY <1>1, <2>1 DEF Recording
  <2> QED
    BY <1>1, <2>2 DEF KeepsFormat
<1>12. CASE g.file = 0 /\ fail = "init" /\ rcSetup.format = "fmp4"
  <2>1. w = [x EXCEPT !.err = TRUE, !.disk = empty]
    BY <1>9, <1>10, <1>12
  <2>2. w \in Recording /\ w.rec = x.rec /\ w.disk = empty /\ w.err
    BY <1>1, <1>3, <2>1 DEF Recording
  <2>3. /\ DiskSound(empty, g) /\ PendingSound(empty, g, p)
        /\ Written(empty) = Written(d)
    <3> HIDE DEF d, g, p
    <3> QED
      BY <1>1, <1>2, <1>3, <1>12, CreatedFile
  <2> QED
    BY <2>2, <2>3 DEF KeepsFormat
<1> DEFINE r == [x.rec EXCEPT !.segment = h]
<1>13. /\ r \in RecFormat /\ KeepsFormat(x.rec, r) /\ r.segment = h /\ r.pending = p
       /\ [x EXCEPT !.rec.segment.file = file].rec = r
  <2>1. r \in RecFormat /\ r.segment = h /\ r.pending = p /\ KeepsFormat(x.rec, r)
    BY <1>1, <1>5, <1>10, RecordingParts DEF RecFormat, KeepsFormat
  <2>2. [x EXCEPT !.rec.segment.file = file].rec = r
    BY <1>1 DEF h, Recording
  <2> QED
    BY <2>1, <2>2
<1>14. CASE ~(g.file = 0 /\ fail = "create")
            /\ ~(g.file = 0 /\ fail = "init" /\ rcSetup.format = "fmp4")
            /\ (fail = "write" \/ ~before[file].open)
  <2>1. w = [x EXCEPT !.err = TRUE, !.disk = before, !.rec.segment.file = file]
    BY <1>9, <1>14
  <2>2. w \in Recording /\ w.rec = r /\ w.disk = before /\ w.err
    <3>1. w = [x EXCEPT !.err = TRUE, !.disk = before, !.rec = r]
      BY <2>1 DEF h
    <3> HIDE DEF r
    <3> QED
      BY <1>1, <1>6, <1>13, <3>1 DEF Recording
  <2> HIDE DEF r
  <2> QED
    BY <1>6, <1>13, <2>2
<1>15. CASE ~(g.file = 0 /\ fail = "create")
            /\ ~(g.file = 0 /\ fail = "init" /\ rcSetup.format = "fmp4")
            /\ ~(fail = "write" \/ ~before[file].open)
  <2>1. w = [x EXCEPT !.rec.segment.file = file, !.disk = written]
    BY <1>9, <1>15
  <2>2. w \in Recording /\ w.rec = r /\ w.disk = written /\ ~w.err
    <3>1. w = [x EXCEPT !.rec = r, !.disk = written]
      BY <2>1 DEF h
    <3> HIDE DEF r
    <3> QED
      BY <1>1, <1>8, <1>13, <3>1 DEF Recording
  <2>3. /\ DiskSound(written, h) /\ PendingSound(written, h, <<>>)
        /\ Written(written) = Written(before) \cup Members(p)
        /\ HasVideo(Content(before, h)) \/ HasVideo(p) => HasVideo(Content(written, h))
    <3> HIDE DEF p
    <3> QED
      BY <1>1, <1>5, <1>6, <1>7, <1>8, <1>15, WrittenPending
  <2> HIDE DEF r
  <2> QED
    BY <1>6, <1>13, <2>2, <2>3
<1> QED
  BY <1>11, <1>12, <1>14, <1>15

\* CloseSegment(): no file is open afterwards, and after an error what was
\* pending still is.
LEMMA CloseOutcome ==
    ASSUME NEW x, Sound(x), ~x.err, x.rec.segment.some, NEW fail,
           NEW c, c = Recorder!CloseSegment(x, fail)
    PROVE  /\ c \in Recording
           /\ KeepsFormat(x.rec, c.rec)
           /\ DiskSound(c.disk, c.rec.segment) /\ AllClosed(c.disk)
           /\ Written(c.disk) \subseteq Written(x.disk) \cup Members(x.rec.pending)
           /\ c.err => /\ PendingSound(c.disk, c.rec.segment, c.rec.pending)
                       /\ Written(c.disk) = Written(x.disk)
<1> DEFINE w == IF x.rec.pending = <<>> THEN x ELSE Recorder!WritePending(x, fail)
           g == w.rec.segment
           file == g.file
           d == w.disk
           e == [d EXCEPT ![file].open = FALSE, ![file].complete = TRUE]
<1>1. /\ w \in Recording /\ KeepsFormat(x.rec, w.rec)
      /\ DiskSound(d, g)
      /\ Written(d) \subseteq Written(x.disk) \cup Members(x.rec.pending)
      /\ w.err => /\ PendingSound(d, g, w.rec.pending)
                  /\ Written(d) = Written(x.disk)
  <2>1. CASE x.rec.pending = <<>>
    BY <2>1 DEF Sound, KeepsFormat
  <2>2. CASE x.rec.pending # <<>>
    <3>1. w = Recorder!WritePending(x, fail)
      BY <2>2
    <3> HIDE DEF w
    <3> QED
      BY <3>1, WriteOutcome
  <2> QED
    BY <2>1, <2>2
<1>2. c = IF file = 0 \/ ~d[file].open THEN w
          ELSE [w EXCEPT !.disk[file].open = FALSE, !.disk[file].complete = TRUE]
  BY DEF Recorder!CloseSegment
<1> HIDE DEF w
<1>3. /\ d \in Seq(RecFile) /\ g \in RecSegment /\ file \in Nat
      /\ file # 0 => file \in DOMAIN d
  <2>1. d \in Seq(RecFile) /\ g \in RecSegment
    BY <1>1, RecordingParts
  <2>2. file \in Nat
    BY <2>1 DEF RecSegment
  <2>3. file # 0 => file = Len(d)
    BY <1>1 DEF DiskSound, FileIsLast
  <2> HIDE DEF d, file
  <2> QED
    BY <2>1, <2>2, <2>3
<1>4. CASE file = 0 \/ ~d[file].open
  <2>1. c = w
    BY <1>2, <1>4
  <2>2. AllClosed(d)
    BY <1>1, <1>3, <1>4 DEF DiskSound, AllClosed
  <2> QED
    BY <1>1, <2>1, <2>2
<1>5. CASE ~(file = 0 \/ ~d[file].open)
  <2>1. c = [w EXCEPT !.disk = e]
    BY <1>2, <1>5
  <2> DEFINE f == d[file]
             n == [f EXCEPT !.open = FALSE, !.complete = TRUE]
  <2>2. f \in RecFile
    BY <1>3, <1>5
  <2>3. /\ n \in RecFile /\ n.samples = f.samples /\ n.cut = f.cut
        /\ ~n.open /\ n.complete
    <3> HIDE DEF f
    <3> QED
      BY <2>2 DEF RecFile
  <2>4. e = [d EXCEPT ![file] = n]
    BY <1>3, <1>5
  <2> HIDE DEF n, f, d, file, e
  <2>5. /\ e \in Seq(RecFile) /\ Len(e) = Len(d) /\ e[file] = n
        /\ \A i \in DOMAIN d : i # file => e[i] = d[i]
    BY <1>3, <1>5, <2>3, <2>4, FileReplaced
  <2>6. \A i \in DOMAIN d :
            /\ e[i].samples = d[i].samples /\ e[i].cut = d[i].cut
            /\ IF i = file /\ d[i].open THEN ~e[i].open /\ e[i].complete
               ELSE e[i].open = d[i].open /\ e[i].complete = d[i].complete
    BY <1>5, <2>3, <2>5 DEF f
  <2>7. /\ DiskSound(e, g) /\ AllClosed(e) /\ Written(e) = Written(d)
        /\ Content(e, g) = Content(d, g)
    <3> HIDE DEF g
    <3>1. DiskSound(d, g)
      BY <1>1 DEF d
    <3> QED
      BY <1>3, <2>5, <2>6, <3>1, ClosedFile DEF file
  <2>8. c \in Recording /\ c.rec = w.rec /\ c.disk = e /\ c.err = w.err
    BY <1>1, <2>1, <2>5 DEF Recording
  <2> QED
    BY <1>1, <2>7, <2>8 DEF PendingSound, d
<1> QED
  BY <1>4, <1>5

LEMMA NextStays ==
    ASSUME NEW d, NEW r, NEW e, NEW q, NextSound(d, r), q.next = r.next,
           q.hasVideo = r.hasVideo, q.firstReceived = r.firstReceived,
           Written(e) \cup Members(q.pending) \subseteq Written(d) \cup Members(r.pending)
    PROVE  NextSound(e, q)
  BY DEF NextSound, AllBefore

\* One more sample is pending.
LEMMA SampleAdded ==
    ASSUME NEW p \in Seq(Recorder!Sample), NEW s \in Recorder!Sample, NEW d, NEW g,
           NEW q, q = Append(p, s), PendingSound(d, g, p),
           AllBefore(Written(d) \cup Members(p), s),
           g.cut => \/ HasVideo(Content(d, g)) \/ HasVideo(p)
                    \/ s.video => s.key
    PROVE  /\ q \in Seq(Recorder!Sample) /\ PendingSound(d, g, q)
           /\ Members(q) = Members(p) \cup {s}
           /\ HasVideo(p) \/ s.video => HasVideo(q)
<1> DEFINE o == <<s>>
<1>1. q = p \o o /\ o \in Seq(Recorder!Sample) /\ q \in Seq(Recorder!Sample)
  BY AppendIsConcat
<1>2. DOMAIN o = {1} /\ o[1] = s
  OBVIOUS
<1> HIDE DEF o
<1>3. Members(o) = {s} /\ SamplesInOrder(o)
  BY <1>2 DEF Members, SamplesInOrder
<1>4. (s.video => s.key) => Recorder!FirstVideoIsKey(o)
  BY <1>2 DEF Recorder!FirstVideoIsKey
<1>5. s.video => HasVideo(o)
  BY <1>2 DEF HasVideo
<1>6. /\ Members(q) = Members(p) \cup Members(o)
      /\ SamplesInOrder(p) /\ SamplesInOrder(o)
         /\ (\A b \in Members(o) : AllBefore(Members(p), b)) => SamplesInOrder(q)
      /\ Recorder!FirstVideoIsKey(p) /\ (HasVideo(p) \/ Recorder!FirstVideoIsKey(o))
           => Recorder!FirstVideoIsKey(q)
      /\ HasVideo(p) \/ HasVideo(o) => HasVideo(q)
  BY <1>1, Concatenated
<1>7. SamplesInOrder(q)
  BY <1>3, <1>6 DEF PendingSound, AllBefore
<1>8. \A b \in Members(q) : AllBefore(Written(d), b)
  BY <1>3, <1>6 DEF PendingSound, AllBefore
<1>9. g.cut => HasVideo(Content(d, g)) \/ Recorder!FirstVideoIsKey(q)
  BY <1>4, <1>6 DEF PendingSound
<1> QED
  BY <1>1, <1>3, <1>5, <1>6, <1>7, <1>8, <1>9 DEF PendingSound

\* The samples and the tracks of a recording, which a step of one sample extends.
KeepsTracks(r, q) ==
    /\ q.hasVideo = r.hasVideo /\ q.firstReceived = r.firstReceived
    /\ q.params = r.params /\ q.next = r.next
    /\ q.segment.some = r.segment.some /\ q.segment.start = r.segment.start
    /\ q.segment.cut = r.segment.cut

Samples(x) == Written(x.disk) \cup Members(x.rec.pending)
VideoHasBegun(d, r) == HasVideo(Content(d, r.segment)) \/ HasVideo(r.pending)

\* What the format takes from sample s.
Extends(x, s, t) ==
    /\ \A a \in Samples(t) : \/ a \in Samples(x) \/ a = s
                             \/ \E v \in BOOLEAN : a = x.rec.next[v]
    /\ \A v \in BOOLEAN : \/ t.rec.next[v] = x.rec.next[v]
                          \/ v = s.video /\ t.rec.next[v] = s

\* Nothing changes but what is pending.
Pends(x, y, p) ==
    /\ y \in Recording /\ y.disk = x.disk /\ y.err = x.err
    /\ y.rec.pending = p /\ y.rec.segment = x.rec.segment /\ y.rec.next = x.rec.next
    /\ y.rec.hasVideo = x.rec.hasVideo /\ y.rec.firstReceived = x.rec.firstReceived
    /\ y.rec.params = x.rec.params

LEMMA PendingChange ==
    ASSUME NEW x \in Recording, NEW p \in Seq(Recorder!Sample),
           NEW q, q = [x.rec EXCEPT !.pending = p], NEW y, y = [x EXCEPT !.rec = q]
    PROVE  Pends(x, y, p)
<1>1. /\ q \in RecFormat /\ q.pending = p /\ q.segment = x.rec.segment
      /\ q.next = x.rec.next /\ q.hasVideo = x.rec.hasVideo
      /\ q.firstReceived = x.rec.firstReceived /\ q.params = x.rec.params
  <2>1. x.rec \in RecFormat
    BY RecordingParts
  <2> QED
    BY <2>1 DEF RecFormat
<1>2. y \in Recording /\ y.rec = q /\ y.disk = x.disk /\ y.err = x.err
  BY <1>1 DEF Recording
<1> QED
  BY <1>1, <1>2 DEF Pends

\* What is pending is written, or lost with the error.
LEMMA WriteClears ==
    ASSUME NEW x, Sound(x), ~x.err, x.rec.segment.some, NEW fail,
           NEW w, w = Recorder!WritePending(x, fail),
           NEW y, Pends(w, y, <<>>)
    PROVE  /\ Sound(y) /\ KeepsTracks(x.rec, y.rec)
           /\ y.rec.pending = <<>> /\ y.err = w.err
           /\ Samples(y) \subseteq Samples(x)
           /\ ~y.err /\ VideoHasBegun(x.disk, x.rec) => VideoHasBegun(y.disk, y.rec)
<1>1. /\ w \in Recording /\ KeepsFormat(x.rec, w.rec) /\ DiskSound(w.disk, w.rec.segment)
      /\ w.err => Written(w.disk) = Written(x.disk)
      /\ ~w.err =>
            /\ Written(w.disk) = Written(x.disk) \cup Members(x.rec.pending)
            /\ HasVideo(Content(x.disk, x.rec.segment)) \/ HasVideo(x.rec.pending)
                 => HasVideo(Content(w.disk, w.rec.segment))
  BY WriteOutcome
<1>5. KeepsTracks(x.rec, y.rec)
  BY <1>1 DEF KeepsTracks, KeepsFormat, Pends
<1>6. Samples(y) \subseteq Samples(x)
  BY <1>1, EmptySamples DEF Samples, Pends
<1>7. NextSound(y.disk, y.rec)
  BY <1>5, <1>6, NextStays DEF Sound, Samples, KeepsTracks
<1>8. PendingSound(y.disk, y.rec.segment, y.rec.pending)
  BY EmptySamples DEF PendingSound, Pends
<1>9. Sound(y)
  BY <1>1, <1>7, <1>8 DEF Sound, Pends
<1> QED
  BY <1>1, <1>5, <1>6, <1>9 DEF VideoHasBegun, Pends

\* A sample becomes pending.
LEMMA SampleRecorded ==
    ASSUME NEW x, Sound(x), NEW s \in Recorder!Sample, AllBefore(Samples(x), s),
           \A v \in BOOLEAN : x.rec.next[v] # Recorder!NoSample =>
                InOrder(s, x.rec.next[v]),
           x.rec.segment.cut => VideoHasBegun(x.disk, x.rec) \/ (s.video => s.key),
           NEW y, Pends(x, y, Append(x.rec.pending, s))
    PROVE  /\ Sound(y) /\ KeepsTracks(x.rec, y.rec) /\ y.err = x.err
           /\ Samples(y) \subseteq Samples(x) \cup {s}
           /\ VideoHasBegun(x.disk, x.rec) \/ s.video => VideoHasBegun(y.disk, y.rec)
<1> DEFINE p == Append(x.rec.pending, s)
<1>1. /\ x \in Recording /\ x.rec \in RecFormat /\ x.rec.pending \in Seq(Recorder!Sample)
      /\ DiskSound(x.disk, x.rec.segment) /\ NextSound(x.disk, x.rec)
      /\ PendingSound(x.disk, x.rec.segment, x.rec.pending)
  BY RecordingParts DEF Sound
<1>2. /\ p \in Seq(Recorder!Sample) /\ PendingSound(x.disk, x.rec.segment, p)
      /\ Members(p) = Members(x.rec.pending) \cup {s}
      /\ HasVideo(x.rec.pending) \/ s.video => HasVideo(p)
  <2>1. AllBefore(Written(x.disk) \cup Members(x.rec.pending), s)
    BY DEF Samples
  <2>2. x.rec.segment.cut =>
            \/ HasVideo(Content(x.disk, x.rec.segment)) \/ HasVideo(x.rec.pending)
            \/ s.video => s.key
    BY DEF VideoHasBegun
  <2> DEFINE d == x.disk
             g == x.rec.segment
             o == x.rec.pending
  <2>3. p = Append(o, s) /\ o \in Seq(Recorder!Sample) /\ PendingSound(d, g, o)
    BY <1>1
  <2>4. AllBefore(Written(d) \cup Members(o), s)
    BY <2>1
  <2>5. g.cut => \/ HasVideo(Content(d, g)) \/ HasVideo(o)
                 \/ s.video => s.key
    BY <2>2
  <2>6. /\ p \in Seq(Recorder!Sample) /\ PendingSound(d, g, p)
        /\ Members(p) = Members(o) \cup {s}
        /\ HasVideo(o) \/ s.video => HasVideo(p)
    <3> HIDE DEF p, d, g, o
    <3> QED
      BY <2>3, <2>4, <2>5, SampleAdded
  <2> QED
    BY <2>6
<1> HIDE DEF p
<1>3. Pends(x, y, p)
  BY DEF p
<1>6. NextSound(y.disk, y.rec)
  BY <1>1, <1>2, <1>3 DEF NextSound, AllBefore, Pends
<1>7. Sound(y)
  BY <1>1, <1>2, <1>3, <1>6 DEF Sound, Pends
<1> QED
  BY <1>2, <1>3, <1>7 DEF KeepsTracks, Samples, VideoHasBegun, Pends

\* formatFMP4Segment.record().
LEMMA RecordInPartSound ==
    ASSUME NEW x, Sound(x), ~x.err, x.rec.segment.some, NEW fail,
           NEW s \in Recorder!Sample, AllBefore(Samples(x), s),
           \A v \in BOOLEAN : x.rec.next[v] # Recorder!NoSample =>
                InOrder(s, x.rec.next[v]),
           x.rec.segment.cut => VideoHasBegun(x.disk, x.rec) \/ (s.video => s.key),
           NEW y, y = Recorder!RecordInPart(x, s, fail)
    PROVE  /\ Sound(y) /\ KeepsTracks(x.rec, y.rec)
           /\ Samples(y) \subseteq Samples(x) \cup {s}
           /\ ~y.err /\ (VideoHasBegun(x.disk, x.rec) \/ s.video)
                => VideoHasBegun(y.disk, y.rec)
<1> DEFINE full == x.rec.pending # <<>>
                    /\ Recorder!Last(x.rec.pending).dts - x.rec.pending[1].dts >= PartDuration
           w == Recorder!WritePending(x, fail)
           z == [w EXCEPT !.rec.pending = <<>>]
           r == IF full THEN z ELSE x
<1>1. y = IF r.err THEN r ELSE [r EXCEPT !.rec.pending = Append(@, s)]
  BY DEF Recorder!RecordInPart
<1> HIDE DEF full
<1>2. /\ Sound(r) /\ KeepsTracks(x.rec, r.rec) /\ Samples(r) \subseteq Samples(x)
      /\ ~r.err /\ VideoHasBegun(x.disk, x.rec) => VideoHasBegun(r.disk, r.rec)
  <2>1. CASE full
    <3>1. r = [w EXCEPT !.rec.pending = <<>>]
      BY <2>1
    <3>2. w = Recorder!WritePending(x, fail)
      OBVIOUS
    <3>3. w \in Recording
      BY WriteOutcome
    <3> DEFINE q == [w.rec EXCEPT !.pending = <<>>]
    <3>5. r = [w EXCEPT !.rec = q] /\ q = [w.rec EXCEPT !.pending = <<>>]
      BY <2>1
    <3> HIDE DEF r, w, q
    <3>4. Pends(w, r, <<>>)
      <4>1. <<>> \in Seq(Recorder!Sample)
        OBVIOUS
      <4> QED
        BY <3>3, <3>5, <4>1, PendingChange
    <3> QED
      BY <3>2, <3>4, WriteClears
  <2>2. CASE ~full
    BY <2>2 DEF KeepsTracks
  <2> QED
    BY <2>1, <2>2
<1> HIDE DEF r
<1>3. CASE r.err
  BY <1>1, <1>2, <1>3
<1>4. CASE ~r.err
  <2>1. y = [r EXCEPT !.rec.pending = Append(@, s)]
    BY <1>1, <1>4
  <2>6. Pends(r, y, Append(r.rec.pending, s))
    <3> DEFINE p == Append(r.rec.pending, s)
               q == [r.rec EXCEPT !.pending = p]
    <3>1. y = [r EXCEPT !.rec = q] /\ q = [r.rec EXCEPT !.pending = p]
      BY <2>1
    <3>2. r \in Recording /\ p \in Seq(Recorder!Sample)
      BY <1>2, RecordingParts DEF Sound
    <3> HIDE DEF p, q
    <3>3. Pends(r, y, p)
      BY <3>1, <3>2, PendingChange
    <3> QED
      BY <3>3 DEF p
  <2>2. AllBefore(Samples(r), s)
    BY <1>2 DEF AllBefore
  <2>3. \A v \in BOOLEAN : r.rec.next[v] # Recorder!NoSample => InOrder(s, r.rec.next[v])
    BY <1>2 DEF KeepsTracks
  <2>4. r.rec.segment.cut => VideoHasBegun(r.disk, r.rec) \/ (s.video => s.key)
    BY <1>2, <1>4 DEF KeepsTracks
  <2>5. /\ Sound(y) /\ KeepsTracks(r.rec, y.rec) /\ Samples(y) \subseteq Samples(r) \cup {s}
        /\ VideoHasBegun(r.disk, r.rec) \/ s.video => VideoHasBegun(y.disk, y.rec)
    BY <1>2, <2>2, <2>3, <2>4, <2>6, SampleRecorded
  <2> QED
    BY <1>2, <1>4, <2>5 DEF KeepsTracks
<1> QED
  BY <1>3, <1>4

LEMMA FormatReplaced ==
    ASSUME NEW x \in Recording, NEW q \in RecFormat, NEW y, y = [x EXCEPT !.rec = q]
    PROVE  y \in Recording /\ y.rec = q /\ y.disk = x.disk /\ y.err = x.err
  BY DEF Recording

LEMMA NoSegmentType ==
    /\ Recorder!NoSegment \in RecSegment
    /\ Recorder!NoSegment.file = 0 /\ Recorder!NoSegment.start = 0
    /\ ~Recorder!NoSegment.cut /\ ~Recorder!NoSegment.some
  BY RecorderAssumption DEF Recorder!NoSegment, RecSegment

LEMMA NewSegmentType ==
    ASSUME NEW t \in 0..MaxDTS, NEW c \in BOOLEAN
    PROVE  /\ Recorder!NewSegment(t, c) \in RecSegment
           /\ Recorder!NewSegment(t, c).some
           /\ Recorder!NewSegment(t, c).file = 0
           /\ Recorder!NewSegment(t, c).start = t
           /\ Recorder!NewSegment(t, c).cut = c
  BY RecorderAssumption DEF Recorder!NewSegment, Recorder!NoSegment, RecSegment

LEMMA NoFileIsOpen ==
    ASSUME NEW x, Sound(x), x.rec.segment.file = 0
    PROVE  AllClosed(x.disk)
<1>1. x.disk \in Seq(RecFile)
  BY RecordingParts DEF Sound
<1>2. \A i \in DOMAIN x.disk : i # 0
  BY <1>1
<1> QED
  BY <1>2 DEF Sound, DiskSound, AllClosed

\* The end of a segment, for what comes next: no file is open, and either the
\* error leaves what was pending or the samples are those of before.
LEMMA ClosedIsSound ==
    ASSUME NEW x, Sound(x), ~x.err, x.rec.segment.some, NEW fail,
           NEW c, c = Recorder!CloseSegment(x, fail)
    PROVE  /\ c \in Recording /\ KeepsTracks(x.rec, c.rec)
           /\ FilesAreRight(c.disk) /\ AllClosed(c.disk)
           /\ Samples(c) \subseteq Samples(x)
           /\ NextSound(c.disk, c.rec)
           /\ DiskSound(c.disk, c.rec.segment)
           /\ c.err => Sound(c)
<1>1. /\ c \in Recording /\ KeepsFormat(x.rec, c.rec)
      /\ DiskSound(c.disk, c.rec.segment) /\ AllClosed(c.disk)
      /\ Written(c.disk) \subseteq Written(x.disk) \cup Members(x.rec.pending)
      /\ c.err => PendingSound(c.disk, c.rec.segment, c.rec.pending)
  BY CloseOutcome
<1>2. Samples(c) \subseteq Samples(x)
  BY <1>1 DEF Samples, KeepsFormat
<1>3. NextSound(c.disk, c.rec)
  BY <1>1, <1>2, NextStays DEF Samples, KeepsFormat, Sound
<1> QED
  BY <1>1, <1>2, <1>3 DEF Sound, KeepsFormat, KeepsTracks, DiskSound

\* A segment that has written nothing follows.
LEMMA FreshIsSound ==
    ASSUME NEW c \in Recording, FilesAreRight(c.disk), AllClosed(c.disk),
           NextSound(c.disk, c.rec),
           NEW y \in Recording, y.disk = c.disk, y.rec.pending = <<>>,
           y.rec.segment.file = 0, y.rec.next = c.rec.next,
           y.rec.hasVideo = c.rec.hasVideo, y.rec.firstReceived = c.rec.firstReceived
    PROVE  Sound(y) /\ Samples(y) \subseteq Samples(c)
<1>1. Samples(y) \subseteq Samples(c)
  BY EmptySamples DEF Samples
<1>2. NextSound(y.disk, y.rec)
  BY <1>1, NextStays DEF Samples
<1> QED
  BY <1>1, <1>2, FreshSegment DEF Sound

-----------------------------------------------------------------------------

\* updateCodecs(): the segment goes on, or it is closed and none follows yet.
LEMMA UpdateCodecsSound ==
    ASSUME NEW x, Sound(x), ~x.err, NEW s \in Recorder!Sample, NEW fail,
           NEW y, y = Recorder!UpdateCodecs(x, s, fail)
    PROVE  /\ Sound(y) /\ ~y.err /\ y.rec.next = x.rec.next
           /\ y.rec.hasVideo = x.rec.hasVideo
           /\ y.rec.firstReceived = x.rec.firstReceived
           /\ Samples(y) \subseteq Samples(x)
           /\ \/ /\ y.disk = x.disk /\ y.rec.segment = x.rec.segment
                 /\ y.rec.pending = x.rec.pending
              \/ y.rec.segment = Recorder!NoSegment
<1> DEFINE r == x.rec
           q == [r EXCEPT !.params = s.params]
           n == [x EXCEPT !.rec.params = s.params]
           c == Recorder!CloseSegment(n, fail)
           z == [c EXCEPT !.rec.segment = Recorder!NoSegment, !.rec.pending = <<>>,
                          !.err = FALSE]
<1>1. x \in Recording /\ r \in RecFormat /\ s.params \in 0..MaxParams
  BY RecordingParts DEF Sound, Recorder!Sample
<1>2. /\ q \in RecFormat /\ q.segment = r.segment /\ q.pending = r.pending
      /\ q.next = r.next /\ q.hasVideo = r.hasVideo /\ q.firstReceived = r.firstReceived
  <2> HIDE DEF r
  <2> QED
    BY <1>1 DEF RecFormat
<1>3. n = [x EXCEPT !.rec = q]
  OBVIOUS
<1>4. n \in Recording /\ n.rec = q /\ n.disk = x.disk /\ n.err = x.err
  <2> HIDE DEF q, n
  <2> QED
    BY <1>1, <1>2, <1>3, FormatReplaced
<1>5. y = IF ~s.video \/ s.params = x.rec.params THEN x
          ELSE IF ~x.rec.segment.some \/ x.rec.segment.file = 0 THEN n ELSE z
  BY DEF Recorder!UpdateCodecs
<1> HIDE DEF n, q
<1>6. Samples(n) = Samples(x) /\ NextSound(n.disk, n.rec)
  BY <1>2, <1>4 DEF Samples, NextSound, Sound
<1>7. Sound(n)
  BY <1>2, <1>4, <1>6 DEF Sound
<1>8. CASE ~s.video \/ s.params = x.rec.params
  BY <1>5, <1>8
<1>9. CASE ~(~s.video \/ s.params = x.rec.params)
           /\ (~x.rec.segment.some \/ x.rec.segment.file = 0)
  <2>1. y = n
    BY <1>5, <1>9
  <2> QED
    BY <2>1, <1>2, <1>4, <1>6, <1>7
<1>10. CASE ~(~s.video \/ s.params = x.rec.params)
            /\ ~(~x.rec.segment.some \/ x.rec.segment.file = 0)
  <2>1. y = z
    BY <1>5, <1>10
  <2>2. ~n.err /\ n.rec.segment.some
    BY <1>2, <1>4, <1>10
  <2>3. c = Recorder!CloseSegment(n, fail)
    OBVIOUS
  <2> HIDE DEF c
  <2>4. /\ c \in Recording /\ KeepsTracks(n.rec, c.rec)
        /\ FilesAreRight(c.disk) /\ AllClosed(c.disk)
        /\ Samples(c) \subseteq Samples(n) /\ NextSound(c.disk, c.rec)
    BY <1>7, <2>2, <2>3, ClosedIsSound
  <2> DEFINE k == c.rec
             l == [k EXCEPT !.segment = Recorder!NoSegment, !.pending = <<>>]
  <2>5. z = [c EXCEPT !.rec = l, !.err = FALSE]
    OBVIOUS
  <2>6. k \in RecFormat /\ Recorder!NoSegment \in RecSegment /\ Recorder!NoSegment.file = 0
        /\ <<>> \in Seq(Recorder!Sample)
    BY <2>4, RecordingParts, NoSegmentType
  <2>7. /\ l \in RecFormat /\ l.segment = Recorder!NoSegment /\ l.pending = <<>>
        /\ l.next = k.next /\ l.hasVideo = k.hasVideo
        /\ l.firstReceived = k.firstReceived
    <3> HIDE DEF k
    <3> QED
      BY <2>6 DEF RecFormat
  <2> HIDE DEF z, l
  <2>8. z \in Recording /\ z.rec = l /\ z.disk = c.disk /\ z.err = FALSE
    BY <2>4, <2>5, <2>7 DEF Recording
  <2>9. Sound(z) /\ Samples(z) \subseteq Samples(c)
    BY <2>4, <2>6, <2>7, <2>8, FreshIsSound
  <2> QED
    BY <1>2, <1>4, <1>6, <2>1, <2>4, <2>7, <2>8, <2>9 DEF KeepsTracks
<1> QED
  BY <1>8, <1>9, <1>10

LEMMA SamplesAre ==
    ASSUME NEW x \in Recording
    PROVE  Samples(x) \subseteq Recorder!Sample
<1>1. x.disk \in Seq(RecFile) /\ x.rec.pending \in Seq(Recorder!Sample)
  BY RecordingParts
<1>2. \A i \in DOMAIN x.disk : x.disk[i].samples \in Seq(Recorder!Sample)
  <2>1. \A i \in DOMAIN x.disk : x.disk[i] \in RecFile
    BY <1>1
  <2> QED
    BY <2>1 DEF RecFile
<1>3. \A p \in Seq(Recorder!Sample) : Members(p) \subseteq Recorder!Sample
  BY DEF Members
<1> QED
  BY <1>1, <1>2, <1>3 DEF Samples, Written

\* What follows sample s is newer than what the format has taken from it, and
\* its track has come as far as s.
LEMMA NextWaits ==
    ASSUME NEW x, Sound(x), NEW v \in BOOLEAN
    PROVE  /\ x.rec.next[v] \in Recorder!Sample /\ x.rec.next[v].dts \in Nat
           /\ x.rec.next[v].video = v \/ x.rec.next[v].dts = 0
<1>1. x.rec.next \in [BOOLEAN -> Recorder!Sample]
  BY RecordingParts DEF Sound
<1>2. x.rec.next[v] \in Recorder!Sample /\ x.rec.next[v].dts \in Nat
  BY <1>1 DEF Recorder!Sample
<1> QED
  BY <1>2 DEF Sound, NextSound, Recorder!NoSample

LEMMA ExtendedUpTo ==
    ASSUME NEW x, Sound(x), NEW s \in Recorder!Sample, NEW y, Extends(x, s, y),
           NEW t \in [BOOLEAN -> Nat], UpTo(x.disk, x.rec, t), s.dts <= t[s.video]
    PROVE  UpTo(y.disk, y.rec, t)
<1>1. \A v \in BOOLEAN :
        /\ x.rec.next[v] \in Recorder!Sample /\ x.rec.next[v].dts \in Nat
        /\ x.rec.next[v].video = v \/ x.rec.next[v].dts = 0
  BY NextWaits
<1>2. ASSUME NEW v \in BOOLEAN PROVE x.rec.next[v].dts <= t[x.rec.next[v].video]
  <2>1. x.rec.next[v].video \in BOOLEAN
    BY <1>1 DEF Recorder!Sample
  <2>2. t[x.rec.next[v].video] \in Nat
    BY <2>1
  <2> QED
    BY <1>1, <2>2 DEF UpTo
<1>3. \A a \in Samples(y) : a.dts <= t[a.video]
  BY <1>2 DEF UpTo, Extends, Samples
<1>4. \A v \in BOOLEAN : y.rec.next[v].dts <= t[v]
  BY DEF UpTo, Extends
<1> QED
  BY <1>3, <1>4 DEF UpTo, Samples

LEMMA ExtendedNewer ==
    ASSUME NEW x, Sound(x), NEW s \in Recorder!Sample, NEW y, Extends(x, s, y),
           NEW b \in Recorder!Sample, IsNewer(x.disk, x.rec, b), InOrder(s, b)
    PROVE  IsNewer(y.disk, y.rec, b)
<1>1. \A v \in BOOLEAN :
        /\ x.rec.next[v].dts \in Nat
        /\ x.rec.next[v].video = v \/ x.rec.next[v].dts = 0
  BY NextWaits
<1>2. b.video \in BOOLEAN /\ b.dts \in Nat /\ x.rec.next[b.video].dts < b.dts
  BY DEF IsNewer, Recorder!Sample
<1>3. ASSUME NEW v \in BOOLEAN PROVE InOrder(x.rec.next[v], b)
  BY <1>1, <1>2 DEF InOrder
<1>4. AllBefore(Samples(y), b)
  BY <1>3 DEF AllBefore, IsNewer, Extends, Samples
<1>5. y.rec.next[b.video].dts < b.dts
  BY <1>2 DEF Extends, InOrder
<1> QED
  BY <1>4, <1>5 DEF IsNewer, Samples

\* Fewer samples, or those of before.
LEMMA NewerStays ==
    ASSUME NEW x, NEW y, Samples(y) \subseteq Samples(x), y.rec.next = x.rec.next,
           NEW s, IsNewer(x.disk, x.rec, s)
    PROVE  IsNewer(y.disk, y.rec, s)
  BY DEF IsNewer, Samples, AllBefore

\* What the format keeps from sample to sample.
Ready(x) == Sound(x) /\ (~x.err => KeyFrameFollows(x.disk, x.rec))

\* formatFMP4Track.record(), with firstReceived set before it.
LEMMA TrackRecordSound ==
    ASSUME NEW u, Ready(u), ~u.err, rcSetup.format = "fmp4", NEW fail,
           NEW s \in Recorder!Sample, IsNewer(u.disk, u.rec, s),
           NEW x \in Recording, x.disk = u.disk, ~x.err,
           x.rec.segment = u.rec.segment, x.rec.pending = u.rec.pending,
           x.rec.next = u.rec.next, x.rec.hasVideo = u.rec.hasVideo,
           x.rec.firstReceived = (u.rec.firstReceived \/ s.video),
           NEW t, t = Recorder!TrackRecord(x, s, fail)
    PROVE  Ready(t) /\ Extends(u, s, t)
<1> DEFINE prev == x.rec.next[s.video]
           y == [x EXCEPT !.rec.hasVideo = @ \/ s.video,
                          !.rec.next = [@ EXCEPT ![s.video] = s]]
           z == IF y.rec.segment.some THEN y
                ELSE [y EXCEPT !.rec.segment = Recorder!NewSegment(prev.dts, FALSE)]
           r == Recorder!RecordInPart(z, prev, fail)
           c == Recorder!CloseSegment(r, fail)
           n == [c EXCEPT !.rec.segment = Recorder!NewSegment(s.dts, s.video),
                          !.rec.pending = <<>>]
<1>1. t = IF prev = Recorder!NoSample THEN y
          ELSE IF prev.dts < z.rec.segment.start THEN z
          ELSE IF r.err \/ ~Recorder!StartsSegment(r.rec, s) THEN r
          ELSE IF c.err THEN c
          ELSE n
  BY DEF Recorder!TrackRecord
<1>2. /\ u \in Recording /\ u.rec \in RecFormat /\ u.rec.next \in [BOOLEAN -> Recorder!Sample]
      /\ u.rec.hasVideo = u.rec.firstReceived /\ u.rec.hasVideo \in BOOLEAN
      /\ u.rec.segment \in RecSegment /\ u.rec.segment.start \in Nat
      /\ u.rec.segment.file \in Nat
      /\ DiskSound(u.disk, u.rec.segment)
      /\ PendingSound(u.disk, u.rec.segment, u.rec.pending) /\ NextSound(u.disk, u.rec)
  <2>1. /\ u \in Recording /\ DiskSound(u.disk, u.rec.segment)
        /\ PendingSound(u.disk, u.rec.segment, u.rec.pending) /\ NextSound(u.disk, u.rec)
    BY DEF Ready, Sound
  <2>2. u.rec.hasVideo = u.rec.firstReceived
    BY <2>1 DEF NextSound
  <2>3. /\ u.rec \in RecFormat /\ u.rec.next \in [BOOLEAN -> Recorder!Sample]
        /\ u.rec.segment \in RecSegment /\ u.rec.hasVideo \in BOOLEAN
    BY <2>1, RecordingParts
  <2>4. u.rec.segment.start \in Nat /\ u.rec.segment.file \in Nat
    BY <2>3 DEF RecSegment
  <2> QED
    BY <2>1, <2>2, <2>3, <2>4
<1>3. s.video \in BOOLEAN /\ s.dts \in Nat /\ s.dts \in 0..MaxDTS /\ s.key \in BOOLEAN
  BY DEF Recorder!Sample
<1>4. /\ AllBefore(Samples(u), s) /\ Samples(u) \subseteq Recorder!Sample
      /\ u.rec.next[s.video].dts < s.dts
  BY <1>2, SamplesAre DEF IsNewer, Samples
<1>5. /\ y \in Recording /\ y.disk = u.disk /\ ~y.err
      /\ y.rec.segment = u.rec.segment /\ y.rec.pending = u.rec.pending
      /\ y.rec.hasVideo = (u.rec.hasVideo \/ s.video)
      /\ y.rec.firstReceived = (u.rec.hasVideo \/ s.video)
      /\ y.rec.next = [u.rec.next EXCEPT ![s.video] = s]
      /\ prev = u.rec.next[s.video] /\ prev \in Recorder!Sample
  <2> DEFINE o == x.rec
             m == [o EXCEPT !.hasVideo = @ \/ s.video, !.next = [@ EXCEPT ![s.video] = s]]
  <2>1. y = [x EXCEPT !.rec = m]
    OBVIOUS
  <2>2. /\ m \in RecFormat /\ m.segment = o.segment /\ m.pending = o.pending
        /\ m.next = [o.next EXCEPT ![s.video] = s]
        /\ m.hasVideo = (o.hasVideo \/ s.video) /\ m.firstReceived = o.firstReceived
    <3>1. o \in RecFormat
      BY RecordingParts
    <3> HIDE DEF o
    <3> QED
      BY <1>3, <3>1 DEF RecFormat
  <2>3. y \in Recording /\ y.rec = m /\ y.disk = x.disk /\ y.err = x.err
    <3>1. m \in RecFormat
      BY <2>2
    <3> HIDE DEF m, y
    <3> QED
      BY <2>1, <3>1, FormatReplaced
  <2> HIDE DEF m, y
  <2> QED
    BY <1>2, <1>3, <2>2, <2>3
<1> HIDE DEF y, prev
<1>6. /\ \A v \in BOOLEAN : y.rec.next[v] = IF v = s.video THEN s ELSE u.rec.next[v]
      /\ y.rec.next \in [BOOLEAN -> Recorder!Sample]
  BY <1>2, <1>3, <1>5
<1>7. /\ prev.dts \in 0..MaxDTS /\ prev.dts < s.dts
      /\ prev # Recorder!NoSample =>
            prev.video = s.video /\ AllBefore(Samples(u), prev)
  BY <1>2, <1>3, <1>4, <1>5 DEF NextSound, Samples, Recorder!Sample
<1>8. NextSound(y.disk, y.rec) /\ Samples(y) = Samples(u)
  <2>1. Samples(y) = Samples(u)
    BY <1>5 DEF Samples
  <2>2. ASSUME NEW v \in BOOLEAN, y.rec.next[v] # Recorder!NoSample
        PROVE  y.rec.next[v].video = v /\ AllBefore(Samples(y), y.rec.next[v])
    BY <1>2, <1>4, <1>6, <2>1, <2>2 DEF NextSound, Samples
  <2>3. ~y.rec.hasVideo => y.rec.next[TRUE] = Recorder!NoSample
    BY <1>2, <1>3, <1>5, <1>6 DEF NextSound
  <2> QED
    BY <1>5, <2>1, <2>2, <2>3 DEF NextSound, Samples
<1>9. Sound(y)
  BY <1>2, <1>5, <1>8 DEF Sound
<1>10. KeyFrameFollows(u.disk, u.rec)
  BY DEF Ready
\* The first sample of the track waits.
<1>11. CASE prev = Recorder!NoSample
  <2>1. t = y
    BY <1>1, <1>11
  <2>2. KeyFrameFollows(y.disk, y.rec)
    <3> SUFFICES ASSUME y.rec.segment.cut
                 PROVE  /\ y.rec.hasVideo
                        /\ \/ VideoHasBegun(y.disk, y.rec)
                           \/ /\ y.rec.next[TRUE] # Recorder!NoSample
                              /\ y.rec.next[TRUE].key
                              /\ y.rec.segment.start <= y.rec.next[TRUE].dts
      BY DEF KeyFrameFollows, VideoHasBegun
    <3>1. /\ u.rec.hasVideo
          /\ \/ VideoHasBegun(u.disk, u.rec)
             \/ /\ u.rec.next[TRUE] # Recorder!NoSample /\ u.rec.next[TRUE].key
                /\ u.rec.segment.start <= u.rec.next[TRUE].dts
      BY <1>5, <1>10 DEF KeyFrameFollows, VideoHasBegun
    <3>2. CASE VideoHasBegun(u.disk, u.rec)
      BY <1>5, <3>1, <3>2 DEF VideoHasBegun
    <3>3. CASE ~VideoHasBegun(u.disk, u.rec)
      <4>1. s.video # TRUE
        BY <1>5, <1>11, <3>1, <3>3
      <4> QED
        BY <1>5, <1>6, <3>1, <3>3, <4>1
    <3> QED
      BY <3>2, <3>3
  <2>3. Extends(u, s, y)
    BY <1>6, <1>8 DEF Extends
  <2> QED
    BY <1>9, <2>1, <2>2, <2>3 DEF Ready
<1>12. /\ z \in Recording /\ z.disk = u.disk /\ ~z.err
       /\ z.rec.pending = u.rec.pending /\ z.rec.segment.some
       /\ z.rec.hasVideo = y.rec.hasVideo /\ z.rec.firstReceived = y.rec.firstReceived
       /\ z.rec.next = y.rec.next
       /\ z.rec.segment.cut => z.rec.segment = u.rec.segment
       /\ z.rec.segment = u.rec.segment \/ z.rec.segment.start = prev.dts
       /\ Sound(z) /\ Samples(z) = Samples(u)
  <2>1. CASE y.rec.segment.some
    BY <1>5, <1>8, <1>9, <2>1
  <2>2. CASE ~y.rec.segment.some
    <3> DEFINE g == Recorder!NewSegment(prev.dts, FALSE)
               k == y.rec
               l == [k EXCEPT !.segment = g]
    <3>1. g \in RecSegment /\ g.some /\ g.file = 0 /\ g.start = prev.dts /\ ~g.cut
      BY <1>7, NewSegmentType
    <3> HIDE DEF g
    <3>2. /\ l \in RecFormat /\ l.segment = g /\ l.pending = k.pending /\ l.next = k.next
          /\ l.hasVideo = k.hasVideo /\ l.firstReceived = k.firstReceived
      <4>1. k \in RecFormat
        BY <1>5, RecordingParts
      <4> HIDE DEF k
      <4> QED
        BY <3>1, <4>1 DEF RecFormat
    <3>3. z = [y EXCEPT !.rec = l]
      BY <2>2 DEF g
    <3> HIDE DEF z, l
    <3>4. z \in Recording /\ z.rec = l /\ z.disk = y.disk /\ z.err = y.err
      BY <1>5, <3>2, <3>3, FormatReplaced
    <3>5. u.rec.segment.file = 0
      BY <1>2, <1>5, <2>2 DEF DiskSound, FileIsLast
    <3>6. AllClosed(u.disk)
      BY <3>5, NoFileIsOpen DEF Ready
    <3>7. DiskSound(z.disk, z.rec.segment)
      BY <1>2, <1>5, <3>1, <3>2, <3>4, <3>6 DEF DiskSound, FileIsLast, AllClosed
    <3>8. PendingSound(z.disk, z.rec.segment, z.rec.pending)
      BY <1>2, <1>5, <3>1, <3>2, <3>4 DEF PendingSound
    <3>9. NextSound(z.disk, z.rec)
      BY <1>8, <3>2, <3>4, NextStays
    <3>10. Samples(z) = Samples(u)
      BY <1>8, <3>2, <3>4 DEF Samples
    <3> QED
      BY <1>5, <3>1, <3>2, <3>4, <3>7, <3>8, <3>9, <3>10 DEF Sound
  <2> QED
    BY <2>1, <2>2
<1> HIDE DEF z
\* The sample is older than the segment.
<1>14. CASE prev # Recorder!NoSample /\ prev.dts < z.rec.segment.start
  <2>1. t = z
    BY <1>1, <1>14
  <2>2. KeyFrameFollows(z.disk, z.rec)
    <3> SUFFICES ASSUME z.rec.segment.cut
                 PROVE  /\ z.rec.hasVideo
                        /\ \/ VideoHasBegun(z.disk, z.rec)
                           \/ /\ z.rec.next[TRUE] # Recorder!NoSample
                              /\ z.rec.next[TRUE].key
                              /\ z.rec.segment.start <= z.rec.next[TRUE].dts
      BY DEF KeyFrameFollows, VideoHasBegun
    <3>1. /\ u.rec.hasVideo
          /\ \/ VideoHasBegun(u.disk, u.rec)
             \/ /\ u.rec.next[TRUE] # Recorder!NoSample /\ u.rec.next[TRUE].key
                /\ u.rec.segment.start <= u.rec.next[TRUE].dts
      BY <1>10, <1>12 DEF KeyFrameFollows, VideoHasBegun
    <3>2. CASE VideoHasBegun(u.disk, u.rec)
      BY <1>5, <1>12, <3>1, <3>2 DEF VideoHasBegun
    <3>3. CASE ~VideoHasBegun(u.disk, u.rec)
      <4>1. prev.dts \in Nat /\ u.rec.segment.start \in Nat
        BY <1>2, <1>7
      <4>2. ~(u.rec.segment.start <= prev.dts)
        BY <1>12, <1>14, <4>1
      <4>3. s.video # TRUE
        BY <1>5, <3>1, <3>3, <4>2
      <4> QED
        BY <1>5, <1>6, <1>12, <3>1, <3>3, <4>3
    <3> QED
      BY <3>2, <3>3
  <2>3. Extends(u, s, z)
    BY <1>6, <1>12 DEF Extends
  <2> QED
    BY <1>12, <2>1, <2>2, <2>3 DEF Ready
<1>15. CASE prev # Recorder!NoSample /\ ~(prev.dts < z.rec.segment.start)
  <2>1. AllBefore(Samples(z), prev)
    BY <1>7, <1>12, <1>15
  <2>2. ASSUME NEW v \in BOOLEAN, z.rec.next[v] # Recorder!NoSample
        PROVE  InOrder(prev, z.rec.next[v])
    <3>1. CASE v = s.video
      BY <1>6, <1>7, <1>12, <3>1 DEF InOrder
    <3>2. CASE v # s.video
      BY <1>2, <1>6, <1>7, <1>12, <1>15, <2>2, <3>2 DEF InOrder, NextSound
    <3> QED
      BY <3>1, <3>2
  <2>3. z.rec.segment.cut => VideoHasBegun(z.disk, z.rec) \/ (prev.video => prev.key)
    <3> SUFFICES ASSUME z.rec.segment.cut, prev.video, ~VideoHasBegun(z.disk, z.rec)
                 PROVE  prev.key
      OBVIOUS
    <3>1. s.video = TRUE /\ prev = u.rec.next[TRUE]
      BY <1>3, <1>5, <1>7, <1>15
    <3> QED
      BY <1>10, <1>12, <3>1 DEF KeyFrameFollows, VideoHasBegun
  <2>4. r = Recorder!RecordInPart(z, prev, fail)
    OBVIOUS
  <2> HIDE DEF r
  <2>5. /\ Sound(r) /\ KeepsTracks(z.rec, r.rec)
        /\ Samples(r) \subseteq Samples(z) \cup {prev}
        /\ ~r.err /\ (VideoHasBegun(z.disk, z.rec) \/ prev.video)
             => VideoHasBegun(r.disk, r.rec)
    <3>1. prev \in Recorder!Sample
      BY <1>5
    <3>2. Sound(z) /\ ~z.err /\ z.rec.segment.some
      BY <1>12
    <3> QED
      BY <2>1, <2>2, <2>3, <2>4, <3>1, <3>2, RecordInPartSound
  <2>6. \A a \in Samples(r) : a \in Samples(u) \/ \E v \in BOOLEAN : a = u.rec.next[v]
    BY <1>3, <1>5, <1>12, <2>5
  <2>7. \A v \in BOOLEAN : \/ r.rec.next[v] = u.rec.next[v]
                           \/ v = s.video /\ r.rec.next[v] = s
    BY <1>6, <1>12, <2>5 DEF KeepsTracks
  <2>8. r \in Recording
    BY <2>5 DEF Sound
  <2>9. CASE r.err \/ ~Recorder!StartsSegment(r.rec, s)
    <3>1. t = r
      BY <1>1, <1>15, <2>9
    <3>2. Extends(u, s, r)
      BY <2>6, <2>7 DEF Extends
    <3>3. ASSUME ~r.err PROVE KeyFrameFollows(r.disk, r.rec)
      <4> SUFFICES ASSUME r.rec.segment.cut
                   PROVE  /\ r.rec.hasVideo
                          /\ \/ VideoHasBegun(r.disk, r.rec)
                             \/ /\ r.rec.next[TRUE] # Recorder!NoSample
                                /\ r.rec.next[TRUE].key
                                /\ r.rec.segment.start <= r.rec.next[TRUE].dts
        BY DEF KeyFrameFollows, VideoHasBegun
      <4>1. z.rec.segment = u.rec.segment /\ z.rec.segment.cut
        BY <1>12, <2>5 DEF KeepsTracks
      <4>2. /\ u.rec.hasVideo
            /\ \/ VideoHasBegun(z.disk, z.rec)
               \/ /\ u.rec.next[TRUE] # Recorder!NoSample /\ u.rec.next[TRUE].key
                  /\ u.rec.segment.start <= u.rec.next[TRUE].dts
        BY <1>10, <1>12, <4>1 DEF KeyFrameFollows, VideoHasBegun
      <4>3. r.rec.hasVideo
        BY <1>5, <1>12, <2>5, <4>2 DEF KeepsTracks
      <4>4. CASE VideoHasBegun(z.disk, z.rec) \/ prev.video
        BY <2>5, <3>3, <4>3, <4>4
      <4>5. CASE ~VideoHasBegun(z.disk, z.rec) /\ ~prev.video
        <5>1. s.video # TRUE
          BY <1>7, <1>15, <4>5
        <5> QED
          BY <1>6, <1>12, <2>5, <4>1, <4>2, <4>3, <4>5, <5>1 DEF KeepsTracks
      <4> QED
        BY <4>4, <4>5
    <3> QED
      BY <2>5, <3>1, <3>2, <3>3 DEF Ready
  <2>10. CASE ~(r.err \/ ~Recorder!StartsSegment(r.rec, s))
    <3>1. r.rec.segment.some
      BY <1>12, <2>5 DEF KeepsTracks
    <3>2. c = Recorder!CloseSegment(r, fail)
      OBVIOUS
    <3> HIDE DEF c
    <3>3. /\ c \in Recording /\ KeepsTracks(r.rec, c.rec)
          /\ FilesAreRight(c.disk) /\ AllClosed(c.disk)
          /\ Samples(c) \subseteq Samples(r) /\ NextSound(c.disk, c.rec)
          /\ c.err => Sound(c)
      BY <2>5, <2>10, <3>1, <3>2, ClosedIsSound
    <3>4. \A a \in Samples(c) : a \in Samples(u) \/ \E v \in BOOLEAN : a = u.rec.next[v]
      BY <2>6, <3>3
    <3>5. CASE c.err
      <4>1. t = c
        BY <1>1, <1>15, <2>10, <3>5
      <4>4. Extends(u, s, c)
        BY <2>7, <3>3, <3>4 DEF Extends, KeepsTracks
      <4> QED
        BY <3>3, <3>5, <4>1, <4>4 DEF Ready
    <3>6. CASE ~c.err
      <4>1. t = n
        BY <1>1, <1>15, <2>10, <3>6
      <4> DEFINE g == Recorder!NewSegment(s.dts, s.video)
                 k == c.rec
                 l == [k EXCEPT !.segment = g, !.pending = <<>>]
      <4>2. g \in RecSegment /\ g.some /\ g.file = 0 /\ g.start = s.dts /\ g.cut = s.video
        BY <1>3, NewSegmentType
      <4> HIDE DEF g
      <4>3. /\ l \in RecFormat /\ l.segment = g /\ l.pending = <<>> /\ l.next = k.next
            /\ l.hasVideo = k.hasVideo /\ l.firstReceived = k.firstReceived
        <5>1. k \in RecFormat /\ <<>> \in Seq(Recorder!Sample)
          BY <3>3, RecordingParts
        <5> HIDE DEF k
        <5> QED
          BY <4>2, <5>1 DEF RecFormat
      <4>4. n = [c EXCEPT !.rec = l]
        BY DEF g
      <4> HIDE DEF n, l
      <4>5. n \in Recording /\ n.rec = l /\ n.disk = c.disk /\ n.err = c.err
        BY <3>3, <4>3, <4>4, FormatReplaced
      <4>6. Sound(n) /\ Samples(n) \subseteq Samples(c)
        BY <3>3, <4>2, <4>3, <4>5, FreshIsSound
      <4>8. Extends(u, s, n)
        BY <2>7, <3>3, <3>4, <4>3, <4>5, <4>6 DEF Extends, KeepsTracks
      <4>9. KeyFrameFollows(n.disk, n.rec)
        <5>1. s.key
          BY <2>10 DEF Recorder!StartsSegment
        <5>2. n.rec.hasVideo = y.rec.hasVideo /\ n.rec.next = z.rec.next
              /\ n.rec.segment.cut = s.video
          BY <1>12, <2>5, <3>3, <4>2, <4>3, <4>5 DEF KeepsTracks
        <5>3. CASE ~s.video
          BY <5>2, <5>3 DEF KeyFrameFollows
        <5>4. CASE s.video
          <6>1. n.rec.next[TRUE] = s /\ s # Recorder!NoSample
            <7>1. TRUE = s.video
              BY <1>3, <5>4
            <7>2. n.rec.next = y.rec.next
              BY <1>12, <5>2
            <7>3. s # Recorder!NoSample
              BY <5>4 DEF Recorder!NoSample
            <7> QED
              BY <1>6, <7>1, <7>2, <7>3
          <6>2. n.rec.segment.start <= s.dts
            BY <1>3, <4>2, <4>3, <4>5
          <6>3. n.rec.hasVideo
            BY <1>5, <5>2, <5>4
          <6> QED
            BY <5>1, <6>1, <6>2, <6>3 DEF KeyFrameFollows
        <5> QED
          BY <5>3, <5>4
      <4> QED
        BY <4>1, <4>6, <4>8, <4>9 DEF Ready
    <3> QED
      BY <3>5, <3>6
  <2> QED
    BY <2>9, <2>10
<1> QED
  BY <1>11, <1>14, <1>15

\* The fMP4 format records a sample.
LEMMA RecordFMP4Sound ==
    ASSUME NEW x, Ready(x), ~x.err, rcSetup.format = "fmp4", NEW fail,
           NEW s \in Recorder!Sample, IsNewer(x.disk, x.rec, s),
           NEW t, t = Recorder!RecordFMP4(x, s, fail)
    PROVE  Ready(t) /\ Extends(x, s, t)
<1> DEFINE y == Recorder!UpdateCodecs(x, s, fail)
           e == [y EXCEPT !.err = TRUE]
           n == [y EXCEPT !.rec.firstReceived = @ \/ s.video]
<1>1. t = IF s.video /\ ~x.rec.firstReceived /\ ~s.key THEN y
          ELSE IF Recorder!OutOfOrder(x, s, fail) THEN e
          ELSE Recorder!TrackRecord(n, s, fail)
  BY DEF Recorder!RecordFMP4
<1>2. y = Recorder!UpdateCodecs(x, s, fail)
  OBVIOUS
<1>3. n = [y EXCEPT !.rec.firstReceived = @ \/ s.video]
  OBVIOUS
<1> HIDE DEF y
<1>4. /\ Sound(y) /\ ~y.err /\ y.rec.next = x.rec.next
      /\ y.rec.hasVideo = x.rec.hasVideo
      /\ y.rec.firstReceived = x.rec.firstReceived
      /\ Samples(y) \subseteq Samples(x)
      /\ \/ /\ y.disk = x.disk /\ y.rec.segment = x.rec.segment
            /\ y.rec.pending = x.rec.pending
         \/ y.rec.segment = Recorder!NoSegment
  BY <1>2, UpdateCodecsSound DEF Ready
<1>5. KeyFrameFollows(y.disk, y.rec)
  BY <1>4, NoSegmentType DEF KeyFrameFollows, Ready
<1>6. Ready(y) /\ y \in Recording
  BY <1>4, <1>5 DEF Ready, Sound
<1>7. s.dts \in Nat /\ s.video \in BOOLEAN
  BY DEF Recorder!Sample
<1>8. IsNewer(y.disk, y.rec, s)
  BY <1>4, NewerStays
<1>11. Extends(x, s, y)
  BY <1>4 DEF Extends
<1>9. CASE s.video /\ ~x.rec.firstReceived /\ ~s.key
  BY <1>1, <1>6, <1>9, <1>11
<1>12. CASE /\ ~(s.video /\ ~x.rec.firstReceived /\ ~s.key)
            /\ Recorder!OutOfOrder(x, s, fail)
  <2>1. t = e
    BY <1>1, <1>12
  <2>2. e \in Recording /\ e.rec = y.rec /\ e.disk = y.disk /\ e.err
    BY <1>6 DEF Recording
  <2> HIDE DEF e
  <2>3. Sound(e) /\ Extends(x, s, e)
    BY <1>4, <1>11, <2>2 DEF Sound, Extends, Samples
  <2> QED
    BY <2>1, <2>2, <2>3 DEF Ready
<1>10. CASE /\ ~(s.video /\ ~x.rec.firstReceived /\ ~s.key)
            /\ ~Recorder!OutOfOrder(x, s, fail)
  <2>1. t = Recorder!TrackRecord(n, s, fail)
    BY <1>1, <1>10
  <2> DEFINE o == y.rec
             m == [o EXCEPT !.firstReceived = @ \/ s.video]
  <2>2. n = [y EXCEPT !.rec = m]
    OBVIOUS
  <2>3. /\ m \in RecFormat /\ m.segment = o.segment /\ m.pending = o.pending
        /\ m.next = o.next /\ m.hasVideo = o.hasVideo
        /\ m.firstReceived = (o.firstReceived \/ s.video)
    <3>1. o \in RecFormat
      BY <1>6, RecordingParts
    <3> HIDE DEF o
    <3> QED
      BY <1>7, <3>1 DEF RecFormat
  <2> HIDE DEF m, n
  <2>4. n \in Recording /\ n.rec = m /\ n.disk = y.disk /\ n.err = y.err
    BY <1>6, <2>2, <2>3, FormatReplaced
  <2>5. Ready(t) /\ Extends(y, s, t)
    BY <1>4, <1>6, <1>8, <2>1, <2>3, <2>4, TrackRecordSound
  <2> QED
    BY <1>4, <2>5 DEF Extends
<1> QED
  BY <1>9, <1>10, <1>12

-----------------------------------------------------------------------------

\* bufio.Writer.Flush().
LEMMA FlushSound ==
    ASSUME NEW x, Sound(x), ~x.err, x.rec.segment.some, NEW fail,
           NEW f, f = Recorder!Flush(x, fail)
    PROVE  /\ Sound(f) /\ KeepsTracks(x.rec, f.rec)
           /\ Samples(f) \subseteq Samples(x)
           /\ ~f.err /\ VideoHasBegun(x.disk, x.rec) => VideoHasBegun(f.disk, f.rec)
<1>1. CASE x.rec.pending = <<>>
  <2>1. f = x
    BY <1>1 DEF Recorder!Flush
  <2> QED
    BY <2>1 DEF KeepsTracks
<1>2. CASE x.rec.pending # <<>>
  <2> DEFINE w == Recorder!WritePending(x, fail)
             k == w.rec
             q == [k EXCEPT !.pending = <<>>]
  <2>1. f = [w EXCEPT !.rec = q]
    BY <1>2 DEF Recorder!Flush, Recorder!Cleared
  <2>2. w = Recorder!WritePending(x, fail) /\ q = [w.rec EXCEPT !.pending = <<>>]
    OBVIOUS
  <2>3. w \in Recording
    BY WriteOutcome
  <2> HIDE DEF w, q
  <2>4. <<>> \in Seq(Recorder!Sample)
    OBVIOUS
  <2>5. Pends(w, f, <<>>)
    BY <2>1, <2>2, <2>3, <2>4, PendingChange
  <2> QED
    BY <2>2, <2>5, WriteClears
<1> QED
  BY <1>1, <1>2

\* Whether it is sound does not depend on when the segment was flushed.
LEMMA SegmentTouched ==
    ASSUME NEW x, Sound(x), NEW y \in Recording, y.disk = x.disk,
           KeepsTracks(x.rec, y.rec), y.rec.pending = x.rec.pending,
           y.rec.segment.file = x.rec.segment.file
    PROVE  /\ Sound(y) /\ Samples(y) = Samples(x)
           /\ VideoHasBegun(x.disk, x.rec) => VideoHasBegun(y.disk, y.rec)
<1>1. /\ FileIsLast(y.disk, y.rec.segment)
      /\ Content(y.disk, y.rec.segment) = Content(x.disk, x.rec.segment)
  BY DEF FileIsLast, Content, KeepsTracks, Sound, DiskSound
<1>2. DiskSound(y.disk, y.rec.segment)
  BY <1>1 DEF DiskSound, Sound
<1>3. PendingSound(y.disk, y.rec.segment, y.rec.pending)
  BY <1>1 DEF PendingSound, Sound, KeepsTracks
<1>4. NextSound(y.disk, y.rec)
  BY NextStays DEF Sound, KeepsTracks
<1> QED
  BY <1>1, <1>2, <1>3, <1>4 DEF Sound, Samples, VideoHasBegun

LEMMA SetupSegmentSound ==
    ASSUME NEW x, Sound(x), ~x.err, NEW fail, NEW s \in Recorder!Sample,
           NEW y, y = Recorder!SetupSegment(x, s, fail)
    PROVE  /\ Sound(y) /\ Samples(y) \subseteq Samples(x)
           /\ y.rec.next = x.rec.next /\ y.rec.hasVideo = x.rec.hasVideo
           /\ y.rec.firstReceived = x.rec.firstReceived
           /\ ~y.err /\ y.rec.segment.cut =>
                \/ s.key /\ s.video
                \/ /\ x.rec.segment.cut
                   /\ VideoHasBegun(x.disk, x.rec) => VideoHasBegun(y.disk, y.rec)
<1> DEFINE g == x.rec.segment
           e == Recorder!CloseSegment(x, fail)
           c == Recorder!Cleared(e)
           f == Recorder!Flush(x, fail)
           first == [x EXCEPT !.rec.segment = Recorder!NewSegment(s.dts, FALSE)]
           next == [c EXCEPT !.rec.segment = Recorder!NewSegment(s.dts, s.video)]
           touched == [f EXCEPT !.rec.segment.flushed = s.dts]
<1>1. y = IF ~g.some THEN first
          ELSE IF Recorder!StartsSegment(x.rec, s) THEN IF c.err THEN c ELSE next
          ELSE IF s.dts - g.flushed >= PartDuration /\ ~f.err THEN touched
          ELSE IF s.dts - g.flushed >= PartDuration THEN f ELSE x
  BY DEF Recorder!SetupSegment
<1>2. x \in Recording /\ g \in RecSegment /\ g.file \in Nat /\ s.dts \in 0..MaxDTS
      /\ s.dts \in Nat /\ s.video \in BOOLEAN
  <2>1. x \in Recording /\ g \in RecSegment
    BY RecordingParts DEF Sound
  <2> QED
    BY <2>1 DEF RecSegment, Recorder!Sample
<1>3. CASE ~g.some
  <2>1. y = first
    BY <1>1, <1>3
  <2> DEFINE h == Recorder!NewSegment(s.dts, FALSE)
             k == x.rec
             l == [k EXCEPT !.segment = h]
  <2>2. h \in RecSegment /\ h.some /\ h.file = 0 /\ h.start = s.dts /\ ~h.cut
    BY <1>2, NewSegmentType
  <2> HIDE DEF h
  <2>3. /\ l \in RecFormat /\ l.segment = h /\ l.pending = k.pending /\ l.next = k.next
        /\ l.hasVideo = k.hasVideo /\ l.firstReceived = k.firstReceived
    <3>1. k \in RecFormat
      BY <1>2, RecordingParts
    <3> HIDE DEF k
    <3> QED
      BY <2>2, <3>1 DEF RecFormat
  <2>4. first = [x EXCEPT !.rec = l]
    BY DEF h
  <2> HIDE DEF first, l
  <2>5. first \in Recording /\ first.rec = l /\ first.disk = x.disk /\ first.err = x.err
    BY <1>2, <2>3, <2>4, FormatReplaced
  <2>6. AllClosed(x.disk)
    <3>1. g.file = 0
      BY <1>2, <1>3 DEF Sound, DiskSound, FileIsLast
    <3> QED
      BY <3>1, NoFileIsOpen
  <2>7. DiskSound(first.disk, first.rec.segment)
    BY <2>2, <2>3, <2>5, <2>6 DEF DiskSound, FileIsLast, AllClosed, Sound
  <2>8. PendingSound(first.disk, first.rec.segment, first.rec.pending)
    BY <2>2, <2>3, <2>5 DEF PendingSound, Sound
  <2>9. NextSound(first.disk, first.rec) /\ Samples(first) = Samples(x)
    BY <2>3, <2>5, NextStays DEF Sound, Samples
  <2> QED
    BY <1>2, <2>1, <2>2, <2>3, <2>5, <2>7, <2>8, <2>9 DEF Sound
<1>4. CASE g.some /\ Recorder!StartsSegment(x.rec, s)
  <2>1. y = IF c.err THEN c ELSE next
    BY <1>1, <1>4
  <2> DEFINE k == e.rec
             q == [k EXCEPT !.pending = <<>>]
  <2>2. c = [e EXCEPT !.rec = q] /\ e = Recorder!CloseSegment(x, fail)
        /\ q = [e.rec EXCEPT !.pending = <<>>]
    BY DEF Recorder!Cleared
  <2> HIDE DEF e, c, q
  <2>3. /\ e \in Recording /\ KeepsTracks(x.rec, e.rec)
        /\ FilesAreRight(e.disk) /\ AllClosed(e.disk)
        /\ Samples(e) \subseteq Samples(x)
        /\ NextSound(e.disk, e.rec) /\ DiskSound(e.disk, e.rec.segment)
    BY <1>4, <2>2, ClosedIsSound
  <2>4. Pends(e, c, <<>>)
    <3>1. <<>> \in Seq(Recorder!Sample)
      OBVIOUS
    <3> QED
      BY <2>2, <2>3, <3>1, PendingChange
  <2>5. Samples(c) \subseteq Samples(e)
    BY <2>4, EmptySamples DEF Samples, Pends
  <2>6. NextSound(c.disk, c.rec)
    BY <2>3, <2>4, <2>5, NextStays DEF Samples, Pends
  <2>7. CASE c.err
    <3>1. y = c
      BY <2>1, <2>7
    <3>2. PendingSound(c.disk, c.rec.segment, c.rec.pending)
      BY <2>4, EmptySamples DEF PendingSound, Pends
    <3>3. Sound(c)
      BY <2>3, <2>4, <2>6, <3>2 DEF Sound, Pends
    <3> QED
      BY <2>3, <2>4, <2>5, <2>7, <3>1, <3>3 DEF Pends, KeepsTracks
  <2>8. CASE ~c.err
    <3>1. y = next
      BY <2>1, <2>8
    <3> DEFINE h == Recorder!NewSegment(s.dts, s.video)
               o == c.rec
               l == [o EXCEPT !.segment = h]
    <3>2. h \in RecSegment /\ h.some /\ h.file = 0 /\ h.start = s.dts /\ h.cut = s.video
      BY <1>2, NewSegmentType
    <3> HIDE DEF h
    <3>3. /\ l \in RecFormat /\ l.segment = h /\ l.pending = o.pending /\ l.next = o.next
          /\ l.hasVideo = o.hasVideo /\ l.firstReceived = o.firstReceived
      <4>1. o \in RecFormat
        BY <2>4, RecordingParts DEF Pends
      <4> HIDE DEF o
      <4> QED
        BY <3>2, <4>1 DEF RecFormat
    <3>4. next = [c EXCEPT !.rec = l]
      BY DEF h
    <3> HIDE DEF next, l
    <3>5. c \in Recording
      BY <2>4 DEF Pends
    <3>6. next \in Recording /\ next.rec = l /\ next.disk = c.disk /\ next.err = c.err
      BY <3>3, <3>4, <3>5, FormatReplaced
    <3>7. FilesAreRight(c.disk) /\ AllClosed(c.disk) /\ c.rec.pending = <<>>
      BY <2>3, <2>4 DEF Pends
    <3>8. Sound(next) /\ Samples(next) \subseteq Samples(c)
      BY <2>6, <3>2, <3>3, <3>5, <3>6, <3>7, FreshIsSound
    <3>9. s.key /\ next.rec.segment.cut = s.video
      BY <1>4, <3>2, <3>3, <3>6 DEF Recorder!StartsSegment
    <3>10. Samples(next) \subseteq Samples(x)
      BY <2>3, <2>5, <3>8
    <3>11. /\ next.rec.next = x.rec.next /\ next.rec.hasVideo = x.rec.hasVideo
           /\ next.rec.firstReceived = x.rec.firstReceived
      BY <1>2, <2>3, <2>4, <3>2, <3>3, <3>6 DEF Pends, KeepsTracks
    <3> QED
      BY <3>1, <3>8, <3>9, <3>10, <3>11
  <2> QED
    BY <2>7, <2>8
<1>5. CASE g.some /\ ~Recorder!StartsSegment(x.rec, s)
           /\ s.dts - g.flushed >= PartDuration
  <2>1. y = IF f.err THEN f ELSE touched
    BY <1>1, <1>5
  <2>2. f = Recorder!Flush(x, fail)
    OBVIOUS
  <2> HIDE DEF f
  <2>3. /\ Sound(f) /\ KeepsTracks(x.rec, f.rec) /\ Samples(f) \subseteq Samples(x)
        /\ ~f.err /\ VideoHasBegun(x.disk, x.rec) => VideoHasBegun(f.disk, f.rec)
    BY <1>5, <2>2, FlushSound
  <2>4. CASE f.err
    <3>1. y = f
      BY <2>1, <2>4
    <3> QED
      BY <2>3, <2>4, <3>1 DEF KeepsTracks
  <2>5. CASE ~f.err
    <3>1. y = touched
      BY <2>1, <2>5
    <3> DEFINE b == f.rec.segment
               h == [b EXCEPT !.flushed = s.dts]
               o == f.rec
               l == [o EXCEPT !.segment = h]
    <3>2. o \in RecFormat /\ b \in RecSegment /\ f \in Recording
      BY <2>3, RecordingParts DEF Sound
    <3>3. touched = [f EXCEPT !.rec = l]
      OBVIOUS
    <3>4. /\ h \in RecSegment /\ h.some = b.some /\ h.start = b.start /\ h.file = b.file
          /\ h.cut = b.cut
      <4> HIDE DEF b
      <4> QED
        BY <1>2, <3>2 DEF RecSegment
    <3> HIDE DEF h
    <3>5. /\ l \in RecFormat /\ l.segment = h /\ l.pending = o.pending /\ l.next = o.next
          /\ l.hasVideo = o.hasVideo /\ l.firstReceived = o.firstReceived
          /\ l.params = o.params
      <4> HIDE DEF o
      <4> QED
        BY <3>2, <3>4 DEF RecFormat
    <3> HIDE DEF touched, l
    <3>6. /\ touched \in Recording /\ touched.rec = l /\ touched.disk = f.disk
          /\ touched.err = f.err
      BY <3>2, <3>3, <3>5, FormatReplaced
    <3>7. KeepsTracks(f.rec, touched.rec) /\ touched.rec.segment.file = f.rec.segment.file
          /\ touched.rec.pending = f.rec.pending
      BY <3>4, <3>5, <3>6 DEF KeepsTracks
    <3>8. /\ Sound(touched) /\ Samples(touched) = Samples(f)
          /\ VideoHasBegun(f.disk, f.rec) => VideoHasBegun(touched.disk, touched.rec)
      BY <2>3, <3>6, <3>7, SegmentTouched
    <3> QED
      BY <2>3, <2>5, <3>1, <3>7, <3>8 DEF KeepsTracks
  <2> QED
    BY <2>4, <2>5
<1>6. CASE g.some /\ ~Recorder!StartsSegment(x.rec, s)
           /\ ~(s.dts - g.flushed >= PartDuration)
  <2>1. y = x
    BY <1>1, <1>6
  <2> QED
    BY <2>1
<1> QED
  BY <1>3, <1>4, <1>5, <1>6

\* The MPEG-TS format records a sample.
LEMMA RecordMPEGTSSound ==
    ASSUME NEW x, Ready(x), ~x.err, rcSetup.format = "mpegts", NEW fail,
           NEW s \in Recorder!Sample, IsNewer(x.disk, x.rec, s),
           NEW t, t = Recorder!RecordMPEGTS(x, s, fail)
    PROVE  Ready(t) /\ Extends(x, s, t)
<1> DEFINE v == [x EXCEPT !.rec.hasVideo = @ \/ s.video, !.rec.firstReceived = @ \/ s.video]
           y == IF ~s.video /\ rcSetup.audio = "AC3" THEN v
                ELSE Recorder!SetupSegment(v, s, fail)
           n == [y EXCEPT !.rec.pending = Append(@, s)]
           awaited == /\ rcSetup.video = "H264" /\ s.video
                      /\ ~x.rec.firstReceived /\ ~s.key
           e == [x EXCEPT !.err = TRUE]
<1>1. t = IF awaited THEN x
          ELSE IF Recorder!OutOfOrder(x, s, fail) THEN e
          ELSE IF y.err THEN y ELSE n
  BY DEF Recorder!RecordMPEGTS
<1> HIDE DEF awaited
<1>2. x \in Recording /\ s.dts \in Nat /\ s.video \in BOOLEAN
  BY DEF Ready, Sound, Recorder!Sample
<1>3. CASE awaited
  <2>1. t = x
    BY <1>1, <1>3
  <2> QED
    BY <2>1 DEF Extends
<1>5. CASE ~awaited /\ Recorder!OutOfOrder(x, s, fail)
  <2>1. t = e
    BY <1>1, <1>5
  <2>2. e \in Recording /\ e.rec = x.rec /\ e.disk = x.disk /\ e.err
    BY <1>2 DEF Recording
  <2> HIDE DEF e
  <2>3. Sound(e) /\ Extends(x, s, e)
    BY <2>2 DEF Ready, Sound, Extends, Samples
  <2> QED
    BY <2>1, <2>2, <2>3 DEF Ready
<1>4. CASE ~awaited /\ ~Recorder!OutOfOrder(x, s, fail)
  <2>1. t = IF y.err THEN y ELSE n
    BY <1>1, <1>4
  <2> DEFINE k == x.rec
             l == [k EXCEPT !.hasVideo = @ \/ s.video, !.firstReceived = @ \/ s.video]
  <2>2. v = [x EXCEPT !.rec = l]
    OBVIOUS
  <2>3. /\ l \in RecFormat /\ l.segment = k.segment /\ l.pending = k.pending
        /\ l.next = k.next
        /\ l.hasVideo = (k.hasVideo \/ s.video)
        /\ l.firstReceived = (k.firstReceived \/ s.video)
    <3>1. k \in RecFormat
      BY <1>2, RecordingParts
    <3> HIDE DEF k
    <3> QED
      BY <1>2, <3>1 DEF RecFormat
  <2> HIDE DEF v, l
  <2>4. v \in Recording /\ v.rec = l /\ v.disk = x.disk /\ v.err = x.err
    BY <1>2, <2>2, <2>3, FormatReplaced
  <2>5. NextSound(v.disk, v.rec)
    BY <2>3, <2>4 DEF NextSound, Ready, Sound
  <2>6. Sound(v) /\ Samples(v) = Samples(x)
    BY <2>3, <2>4, <2>5 DEF Ready, Sound, Samples
  <2>7. VideoHasBegun(x.disk, x.rec) => VideoHasBegun(v.disk, v.rec)
    BY <2>3, <2>4 DEF VideoHasBegun
  <2>8. /\ Sound(y) /\ Samples(y) \subseteq Samples(x)
        /\ y.rec.next = x.rec.next /\ y.rec.hasVideo = v.rec.hasVideo
        /\ ~y.err /\ y.rec.segment.cut =>
             \/ s.key /\ s.video
             \/ /\ x.rec.segment.cut
                /\ VideoHasBegun(x.disk, x.rec) => VideoHasBegun(y.disk, y.rec)
    <3>1. CASE ~s.video /\ rcSetup.audio = "AC3"
      <4>1. y = v
        BY <3>1
      <4> QED
        BY <1>2, <2>3, <2>4, <2>6, <2>7, <4>1
    <3>2. CASE ~(~s.video /\ rcSetup.audio = "AC3")
      <4>1. y = Recorder!SetupSegment(v, s, fail)
        BY <3>2
      <4>2. ~v.err
        BY <1>2, <2>3, <2>4
      <4> HIDE DEF y
      <4>3. /\ Sound(y) /\ Samples(y) \subseteq Samples(v)
            /\ y.rec.next = v.rec.next /\ y.rec.hasVideo = v.rec.hasVideo
            /\ ~y.err /\ y.rec.segment.cut =>
                 \/ s.key /\ s.video
                 \/ /\ v.rec.segment.cut
                    /\ VideoHasBegun(v.disk, v.rec) => VideoHasBegun(y.disk, y.rec)
        BY <2>6, <4>1, <4>2, SetupSegmentSound
      <4> QED
        BY <2>3, <2>4, <2>6, <2>7, <4>3
    <3> QED
      BY <3>1, <3>2
  <2> HIDE DEF y
  <2>9. y \in Recording
    BY <2>8 DEF Sound
  <2>10. CASE y.err
    <3>1. t = y
      BY <2>1, <2>10
    <3>2. Extends(x, s, y)
      BY <2>8 DEF Extends
    <3> QED
      BY <2>8, <2>10, <3>1, <3>2 DEF Ready
  <2>11. CASE ~y.err
    <3>1. t = n
      BY <2>1, <2>11
    <3> DEFINE o == y.rec
               m == [o EXCEPT !.pending = Append(@, s)]
               p == Append(y.rec.pending, s)
    <3>2. n = [y EXCEPT !.rec = m] /\ m = [y.rec EXCEPT !.pending = p]
      OBVIOUS
    <3>3. p \in Seq(Recorder!Sample)
      BY <2>9, RecordingParts
    <3>4. p = Append(y.rec.pending, s)
      OBVIOUS
    <3> HIDE DEF n, m, p
    <3>5. Pends(y, n, p)
      BY <2>9, <3>2, <3>3, PendingChange
    <3>6. AllBefore(Samples(y), s)
      <4>1. AllBefore(Samples(x), s)
        BY DEF IsNewer, Samples
      <4> QED
        BY <2>8, <4>1 DEF AllBefore
    <3>7. \A b \in BOOLEAN : y.rec.next[b] = Recorder!NoSample
      BY <2>8 DEF Sound, NextSound
    <3>8. x.rec.segment.cut => VideoHasBegun(x.disk, x.rec) /\ x.rec.hasVideo
      BY DEF Ready, Sound, NextSound, KeyFrameFollows, VideoHasBegun
    <3>9. y.rec.segment.cut => VideoHasBegun(y.disk, y.rec) \/ (s.video => s.key)
      BY <2>8, <2>11, <3>8
    <3>10. /\ Sound(n) /\ KeepsTracks(y.rec, n.rec) /\ n.err = y.err
           /\ Samples(n) \subseteq Samples(y) \cup {s}
           /\ VideoHasBegun(y.disk, y.rec) \/ s.video => VideoHasBegun(n.disk, n.rec)
      BY <2>8, <3>4, <3>5, <3>6, <3>7, <3>9, SampleRecorded
    <3>11. n.rec.segment.cut => VideoHasBegun(n.disk, n.rec) /\ n.rec.hasVideo
      <4>1. n.rec.segment.cut = y.rec.segment.cut /\ n.rec.hasVideo = y.rec.hasVideo
        BY <3>10 DEF KeepsTracks
      <4>2. v.rec.hasVideo = (x.rec.hasVideo \/ s.video)
        BY <2>3, <2>4
      <4> QED
        BY <2>8, <2>11, <3>8, <3>10, <4>1, <4>2
    <3>12. Extends(x, s, n)
      <4>1. \A a \in Samples(n) : a \in Samples(x) \/ a = s
        BY <2>8, <3>10
      <4>2. n.rec.next = x.rec.next
        BY <2>8, <3>10 DEF KeepsTracks
      <4> QED
        BY <4>1, <4>2 DEF Extends
    <3> QED
      BY <3>1, <3>10, <3>11, <3>12 DEF Ready, KeyFrameFollows, VideoHasBegun
  <2> QED
    BY <2>10, <2>11
<1> QED
  BY <1>3, <1>4, <1>5

\* A format records a sample.
LEMMA RecordSound ==
    ASSUME NEW x, Ready(x), ~x.err, rcSetup.format \in {"fmp4", "mpegts"}, NEW fail,
           NEW s \in Recorder!Sample, IsNewer(x.disk, x.rec, s),
           NEW t, t = Recorder!Record(x, s, fail)
    PROVE  Ready(t) /\ Extends(x, s, t)
<1>1. CASE rcSetup.format = "fmp4"
  BY <1>1, RecordFMP4Sound DEF Recorder!Record
<1>2. CASE rcSetup.format = "mpegts"
  BY <1>2, RecordMPEGTSSound DEF Recorder!Record
<1> QED
  BY <1>1, <1>2

-----------------------------------------------------------------------------
(* The goroutines of the recorder.                                          *)

\* What record() finds.
Found == [rec |-> rcRec, disk |-> rcDisk, err |-> FALSE]

RecorderTypes ==
    /\ rcSetup \in RecSetup
    /\ rcSource \in RecSource
    /\ rcAgent \in [pc: {"select", "pause", "closing", "ended"}, terminate: BOOLEAN]
    /\ rcInstance \in [pc: {"select", "stop", "close", "done"}, terminate: BOOLEAN,
                       reader: BOOLEAN]
    /\ rcWriter \in [pc: {"pull", "error", "ended", "panic"}, closed: BOOLEAN,
                     queue: Seq(Recorder!Sample)]
    /\ Len(rcWriter.queue) <= QueueSize
    /\ rcRec \in RecFormat /\ rcDisk \in Seq(RecFile)
    /\ rcRec.segment.file <= Len(rcDisk)

\* Who waits for whom when the agent, the instance and the writer end.
RecorderGoroutines ==
    /\ rcInstance.pc \in {"close", "done"} => rcWriter.pc = "ended" /\ ~rcInstance.reader
    /\ rcInstance.pc = "stop" => rcWriter.pc # "ended" /\ ~rcInstance.reader
    /\ rcInstance.pc = "select" => rcWriter.pc # "ended"
    /\ rcAgent.pc \in {"pause", "ended"} => rcInstance.pc = "done"

\* What waits in the queue is newer than everything that was recorded.
QueueIsNewer(q, d, r, t) ==
    /\ \A i \in DOMAIN q : q[i].dts <= t[q[i].video] /\ IsNewer(d, r, q[i])
    /\ \A i, j \in DOMAIN q : i < j => InOrder(q[i], q[j])

RecorderInv ==
    /\ RecorderTypes
    /\ RecorderGoroutines
    /\ UpTo(rcDisk, rcRec, rcSource.dts)
    /\ IF rcInstance.pc = "done" THEN FilesAreRight(rcDisk) /\ AllClosed(rcDisk)
       ELSE /\ Sound(Found)
            /\ rcWriter.pc = "pull" => KeyFrameFollows(rcDisk, rcRec)
            /\ QueueIsNewer(rcWriter.queue, rcDisk, rcRec, rcSource.dts)

\* A format that has recorded nothing, after what was recorded before it.
LEMMA NewFormatSound ==
    ASSUME NEW d \in Seq(RecFile), FilesAreRight(d), AllClosed(d),
           NEW t \in [BOOLEAN -> Nat], \A s \in Written(d) : s.dts <= t[s.video]
    PROVE  /\ Sound([rec |-> Recorder!NewFormat, disk |-> d, err |-> FALSE])
           /\ KeyFrameFollows(d, Recorder!NewFormat)
           /\ UpTo(d, Recorder!NewFormat, t)
           /\ Recorder!NewFormat \in RecFormat /\ Recorder!NewFormat.segment.file = 0
<1> DEFINE r == Recorder!NewFormat
           x == [rec |-> r, disk |-> d, err |-> FALSE]
<1>1. Recorder!NoSample \in Recorder!Sample /\ Recorder!NoSample.dts = 0
  BY RecorderAssumption DEF Recorder!NoSample, Recorder!Sample
<1>2. /\ r \in RecFormat /\ r.segment = Recorder!NoSegment /\ r.pending = <<>>
      /\ r.next = [v \in BOOLEAN |-> Recorder!NoSample]
      /\ ~r.hasVideo /\ ~r.firstReceived /\ r.hasVideo = r.firstReceived
  <2>1. [v \in BOOLEAN |-> Recorder!NoSample] \in [BOOLEAN -> Recorder!Sample]
    BY <1>1
  <2>2. <<>> \in Seq(Recorder!Sample) /\ 0 \in 0..MaxParams
    BY RecorderAssumption
  <2> QED
    BY <2>1, <2>2, NoSegmentType DEF Recorder!NewFormat, RecFormat
<1>3. \A v \in BOOLEAN : r.next[v] = Recorder!NoSample
  BY <1>2
<1> HIDE DEF r
<1>4. x \in Recording /\ x.rec = r /\ x.disk = d
  BY <1>2 DEF Recording
<1> HIDE DEF x
<1>5. Members(r.pending) = {}
  BY <1>2, EmptySamples
<1>6. NextSound(d, r)
  BY <1>2, <1>3 DEF NextSound
<1>7. Sound(x)
  BY <1>2, <1>4, <1>6, NoSegmentType, FreshIsSound
<1>8. KeyFrameFollows(d, r)
  BY <1>2, NoSegmentType DEF KeyFrameFollows
<1>9. UpTo(d, r, t)
  BY <1>1, <1>2, <1>3, <1>5, NoSegmentType DEF UpTo
<1> QED
  BY <1>2, <1>7, <1>8, <1>9, NoSegmentType DEF r, x

LEMMA NothingOnDisk ==
    <<>> \in Seq(RecFile) /\ FilesAreRight(<<>>) /\ AllClosed(<<>>) /\ Written(<<>>) = {}
  BY DEF FilesAreRight, AllClosed, Written

LEMMA RecorderInit == Recorder!Init => RecorderInv
<1> SUFFICES ASSUME Recorder!Init PROVE RecorderInv
  OBVIOUS
<1>1. /\ Sound(Found) /\ KeyFrameFollows(rcDisk, rcRec)
      /\ UpTo(rcDisk, rcRec, rcSource.dts)
      /\ rcRec \in RecFormat /\ rcRec.segment.file = 0 /\ rcDisk \in Seq(RecFile)
      /\ Len(rcDisk) = 0
  <2> DEFINE t == [v \in BOOLEAN |-> 0]
  <2>1. t \in [BOOLEAN -> Nat] /\ rcSource.dts = t
    BY DEF Recorder!Init
  <2> HIDE DEF t
  <2>2. \A d \in Seq(RecFile) : FilesAreRight(d) /\ AllClosed(d) /\ Written(d) = {} =>
          /\ Sound([rec |-> Recorder!NewFormat, disk |-> d, err |-> FALSE])
          /\ KeyFrameFollows(d, Recorder!NewFormat) /\ UpTo(d, Recorder!NewFormat, t)
          /\ Recorder!NewFormat \in RecFormat /\ Recorder!NewFormat.segment.file = 0
    BY <2>1, NewFormatSound
  <2> QED
    BY <2>1, <2>2, NothingOnDisk DEF Recorder!Init, Found
<1>2. /\ rcInstance.pc = "select" /\ rcWriter.queue = <<>>
      /\ rcAgent.pc = "select" /\ rcWriter.pc = "pull"
  BY DEF Recorder!Init
<1>3. RecorderTypes
  <2>1. rcSetup \in RecSetup
    BY RecorderAssumption DEF Recorder!Init, RecSetup
  <2>2. /\ rcSource \in RecSource
        /\ Len(rcWriter.queue) <= QueueSize
    BY RecorderAssumption DEF Recorder!Init, RecSource
  <2>3. /\ rcAgent \in [pc: {"select", "pause", "closing", "ended"}, terminate: BOOLEAN]
        /\ rcInstance \in [pc: {"select", "stop", "close", "done"}, terminate: BOOLEAN,
                           reader: BOOLEAN]
        /\ rcWriter \in [pc: {"pull", "error", "ended", "panic"}, closed: BOOLEAN,
                         queue: Seq(Recorder!Sample)]
    BY DEF Recorder!Init
  <2> QED
    BY <1>1, <2>1, <2>2, <2>3 DEF RecorderTypes
<1>4. RecorderGoroutines
  BY <1>2 DEF RecorderGoroutines
<1>5. QueueIsNewer(rcWriter.queue, rcDisk, rcRec, rcSource.dts)
  BY <1>2 DEF QueueIsNewer
<1> QED
  BY <1>1, <1>2, <1>3, <1>4, <1>5 DEF RecorderInv

\* The samples of the state, and their times, are what they are taken for.
LEMMA TimesAreNumbers ==
    ASSUME NEW r \in RecFormat, NEW d \in Seq(RecFile)
    PROVE  /\ r.next \in [BOOLEAN -> Recorder!Sample]
           /\ \A v \in BOOLEAN : r.next[v].dts \in Nat
           /\ \A s \in Written(d) \cup Members(r.pending) : s.video \in BOOLEAN /\ s.dts \in Nat
<1> DEFINE x == [rec |-> r, disk |-> d, err |-> FALSE]
<1>1. x \in Recording /\ x.rec = r /\ x.disk = d
  BY DEF Recording
<1> HIDE DEF x
<1>2. Samples(x) \subseteq Recorder!Sample /\ r.next \in [BOOLEAN -> Recorder!Sample]
  BY <1>1, SamplesAre, RecordingParts
<1>3. \A s \in Recorder!Sample : s.video \in BOOLEAN /\ s.dts \in Nat
  BY DEF Recorder!Sample
<1> QED
  BY <1>1, <1>2, <1>3 DEF Samples

\* What had come before a time of its track is still before it, and before s.
TrackGoesOn(t, s, u) ==
    \A a \in Recorder!Sample : a.dts <= t[a.video] => a.dts <= u[a.video] /\ InOrder(a, s)

\* A track has gone on; the next sample of it is newer than what it has given.
LEMMA UpToLater ==
    ASSUME NEW r \in RecFormat, NEW d \in Seq(RecFile), NEW t \in [BOOLEAN -> Nat],
           UpTo(d, r, t), NEW s \in Recorder!Sample, t[s.video] < s.dts,
           NEW u, u = [t EXCEPT ![s.video] = s.dts]
    PROVE  /\ UpTo(d, r, u) /\ IsNewer(d, r, s) /\ TrackGoesOn(t, s, u)
<1>1. s.video \in BOOLEAN /\ s.dts \in Nat
  BY DEF Recorder!Sample
<1>2. \A v \in BOOLEAN : t[v] \in Nat /\ u[v] \in Nat /\ t[v] <= u[v]
  BY <1>1
<1>3. /\ \A v \in BOOLEAN : r.next[v].dts \in Nat
      /\ \A a \in Written(d) \cup Members(r.pending) : a.video \in BOOLEAN /\ a.dts \in Nat
  BY TimesAreNumbers
<1>4. UpTo(d, r, u)
  BY <1>2, <1>3 DEF UpTo
<1>5. IsNewer(d, r, s)
  <2>1. ASSUME NEW a \in Written(d) \cup Members(r.pending) PROVE InOrder(a, s)
    <3>1. a.dts <= t[a.video]
      BY DEF UpTo
    <3> QED
      BY <1>1, <1>2, <1>3, <3>1 DEF InOrder
  <2>2. r.next[s.video].dts < s.dts
    BY <1>1, <1>2, <1>3 DEF UpTo
  <2> QED
    BY <2>1, <2>2 DEF IsNewer, AllBefore
<1>6. ASSUME NEW a \in Recorder!Sample, a.dts <= t[a.video]
      PROVE  a.dts <= u[a.video] /\ InOrder(a, s)
  <2>1. a.video \in BOOLEAN /\ a.dts \in Nat
    BY DEF Recorder!Sample
  <2> QED
    BY <1>1, <1>2, <1>6, <2>1 DEF InOrder
<1> QED
  BY <1>4, <1>5, <1>6 DEF TrackGoesOn

LEMMA UpToFewer ==
    ASSUME NEW x, NEW y, Samples(y) \subseteq Samples(x), y.rec.next = x.rec.next,
           NEW t, UpTo(x.disk, x.rec, t)
    PROVE  UpTo(y.disk, y.rec, t)
  BY DEF UpTo, Samples

\* A step of the writer leaves what it has recorded in the state.
LEMMA WriterRecords ==
    ASSUME NEW x, Sound(x), NEW r, NEW d, r = x.rec, d = x.disk
    PROVE  /\ Sound([rec |-> r, disk |-> d, err |-> FALSE])
           /\ r \in RecFormat /\ d \in Seq(RecFile) /\ r.segment.file <= Len(d)
<1> DEFINE y == [rec |-> r, disk |-> d, err |-> FALSE]
<1>1. x \in Recording /\ r \in RecFormat /\ d \in Seq(RecFile) /\ r.segment \in RecSegment
  BY RecordingParts DEF Sound
<1>2. y \in Recording /\ y.rec = r /\ y.disk = d
  BY <1>1 DEF Recording
<1> HIDE DEF y
<1>3. Sound(y)
  BY <1>2 DEF Sound
<1>4. r.segment.file <= Len(d)
  <2>1. r.segment.file \in Nat /\ Len(d) \in Nat
    BY <1>1 DEF RecSegment
  <2> QED
    BY <2>1 DEF Sound, DiskSound, FileIsLast
<1> QED
  BY <1>1, <1>3, <1>4 DEF y

\* Everything but the source, the writer, the format and the files.
LEMMA RecorderFound ==
    ASSUME RecorderInv, rcInstance.pc # "done"
    PROVE  /\ Sound(Found) /\ Found.rec = rcRec /\ Found.disk = rcDisk /\ ~Found.err
           /\ rcRec \in RecFormat /\ rcDisk \in Seq(RecFile)
           /\ rcWriter.pc = "pull" => Ready(Found)
           /\ QueueIsNewer(rcWriter.queue, rcDisk, rcRec, rcSource.dts)
           /\ rcWriter.queue \in Seq(Recorder!Sample)
<1>1. Found.rec = rcRec /\ Found.disk = rcDisk /\ ~Found.err
  BY DEF Found
<1>2. rcWriter.queue \in Seq(Recorder!Sample) /\ rcRec \in RecFormat /\ rcDisk \in Seq(RecFile)
  BY DEF RecorderInv, RecorderTypes
<1> QED
  BY <1>1, <1>2 DEF RecorderInv, Ready

\* The parts of the invariant after a step.
LEMMA RecorderStep ==
    ASSUME rcSetup' = rcSetup, RecorderTypes', RecorderGoroutines',
           UpTo(rcDisk', rcRec', rcSource'.dts),
           rcInstance'.pc = "done" => FilesAreRight(rcDisk') /\ AllClosed(rcDisk'),
           rcInstance'.pc # "done" =>
              /\ Sound([rec |-> rcRec', disk |-> rcDisk', err |-> FALSE])
              /\ rcWriter'.pc = "pull" => KeyFrameFollows(rcDisk', rcRec')
              /\ QueueIsNewer(rcWriter'.queue, rcDisk', rcRec', rcSource'.dts)
    PROVE  RecorderInv'
<1>1. ASSUME Sound([rec |-> rcRec', disk |-> rcDisk', err |-> FALSE]) PROVE Sound(Found)'
  BY <1>1 DEF Sound, NextSound, Found
<1> QED
  BY <1>1 DEF RecorderInv

LEMMA RecorderWriteUnit ==
    ASSUME RecorderInv, NEW video \in BOOLEAN, NEW dts \in 1..MaxDTS, NEW key \in BOOLEAN,
           NEW newParams \in BOOLEAN, Recorder!WriteUnit(video, dts, key, newParams)
    PROVE  RecorderInv'
<1> DEFINE params == rcSource.params + IF newParams THEN 1 ELSE 0
           s == [video |-> video, dts |-> dts, key |-> key,
                 params |-> IF video THEN params ELSE 0]
           u == [rcSource.dts EXCEPT ![video] = dts]
<1>1. /\ rcSource.units < MaxSamples /\ dts > rcSource.dts[video] /\ params <= MaxParams
      /\ rcSource' = [rcSource EXCEPT !.dts[video] = dts, !.units = @ + 1, !.params = params]
      /\ rcWriter' = IF rcInstance.reader /\ Len(rcWriter.queue) < QueueSize
                     THEN [rcWriter EXCEPT !.queue = Append(@, s)] ELSE rcWriter
      /\ UNCHANGED <<rcSetup, rcAgent, rcInstance, rcRec, rcDisk>>
  BY DEF Recorder!WriteUnit
<1>2. /\ rcSource.dts \in [BOOLEAN -> Nat] /\ rcSource.params \in Nat /\ params \in Nat
      /\ rcSource' \in RecSource /\ rcSource'.dts = u /\ dts \in Nat /\ dts \in 0..MaxDTS
  <2>1. rcSource \in RecSource /\ MaxSamples \in Nat /\ MaxParams \in Nat /\ MaxDTS \in Nat
    BY RecorderAssumption DEF RecorderInv, RecorderTypes
  <2>2. /\ rcSource.dts \in [BOOLEAN -> 0..MaxDTS] /\ rcSource.params \in 0..MaxParams
        /\ rcSource.units \in 0..MaxSamples
    BY <2>1 DEF RecSource
  <2>3. params \in Nat /\ rcSource.units + 1 \in 0..MaxSamples
    BY <1>1, <2>1, <2>2
  <2> HIDE DEF params
  <2>4. params \in 0..MaxParams /\ dts \in 0..MaxDTS
    BY <1>1, <2>1, <2>3
  <2>5. u \in [BOOLEAN -> 0..MaxDTS]
    BY <2>2, <2>4
  <2>6. rcSource' = [rcSource EXCEPT !.dts = u, !.units = @ + 1, !.params = params]
    BY <1>1
  <2> HIDE DEF u
  <2>7. rcSource' \in RecSource /\ rcSource'.dts = u
    BY <2>1, <2>3, <2>4, <2>5, <2>6 DEF RecSource
  <2> QED
    BY <2>1, <2>2, <2>3, <2>4, <2>7
<1>3. s \in Recorder!Sample /\ s.dts = dts /\ s.video = video
  <2>1. (IF video THEN params ELSE 0) \in 0..MaxParams
    BY <1>1, <1>2, RecorderAssumption
  <2> HIDE DEF params
  <2> QED
    BY <1>2, <2>1 DEF Recorder!Sample
<1> HIDE DEF s, params
<1>0. rcInstance.pc # "done" => Sound([rec |-> rcRec, disk |-> rcDisk, err |-> FALSE])
  BY DEF RecorderInv, Found
<1>4. /\ UpTo(rcDisk, rcRec, u) /\ IsNewer(rcDisk, rcRec, s)
      /\ TrackGoesOn(rcSource.dts, s, u)
  <2>1. rcRec \in RecFormat /\ rcDisk \in Seq(RecFile) /\ UpTo(rcDisk, rcRec, rcSource.dts)
    BY DEF RecorderInv, RecorderTypes
  <2>2. rcSource.dts[s.video] < s.dts
    BY <1>1, <1>2, <1>3
  <2>3. u = [rcSource.dts EXCEPT ![s.video] = s.dts]
    BY <1>3
  <2> HIDE DEF u
  <2> QED
    BY <1>2, <1>3, <2>1, <2>2, <2>3, UpToLater
<1> HIDE DEF u
<1> DEFINE q == rcWriter.queue
<1>5. q \in Seq(Recorder!Sample) /\ Len(q) <= QueueSize /\ Len(q) \in Nat
  BY DEF RecorderInv, RecorderTypes
<1>6. CASE ~(rcInstance.reader /\ Len(rcWriter.queue) < QueueSize)
  <2>1. rcWriter' = rcWriter
    BY <1>1, <1>6
  <2>3. rcInstance.pc # "done" => QueueIsNewer(q, rcDisk, rcRec, u)
    BY <1>4, <1>5 DEF RecorderInv, QueueIsNewer, TrackGoesOn
  <2>4. RecorderTypes'
    BY <1>1, <1>2, <2>1 DEF RecorderInv, RecorderTypes
  <2> QED
    BY <1>0, <1>1, <1>2, <1>4, <2>1, <2>3, <2>4, RecorderStep DEF RecorderInv,
       RecorderGoroutines
<1>7. CASE rcInstance.reader /\ Len(rcWriter.queue) < QueueSize
  <2> DEFINE b == Append(q, s)
  <2>1. /\ b \in Seq(Recorder!Sample) /\ Len(b) = Len(q) + 1
        /\ DOMAIN q = 1..Len(q) /\ DOMAIN b = 1..(Len(q) + 1)
        /\ \A i \in 1..Len(q) : b[i] = q[i]
        /\ b[Len(q) + 1] = s
    BY <1>3, <1>5
  <2>2. /\ rcWriter' \in [pc: {"pull", "error", "ended", "panic"}, closed: BOOLEAN,
                          queue: Seq(Recorder!Sample)]
        /\ rcWriter'.queue = b /\ rcWriter'.pc = rcWriter.pc
    <3>1. rcWriter \in [pc: {"pull", "error", "ended", "panic"}, closed: BOOLEAN,
                        queue: Seq(Recorder!Sample)]
      BY DEF RecorderInv, RecorderTypes
    <3>2. rcWriter' = [rcWriter EXCEPT !.queue = b]
      BY <1>1, <1>7
    <3> HIDE DEF b
    <3> QED
      BY <2>1, <3>1, <3>2
  <2> HIDE DEF b
  <2>3. RecorderTypes'
    <3>1. Len(rcWriter'.queue) <= QueueSize
      BY <1>5, <1>7, <2>1, <2>2, RecorderAssumption
    <3> QED
      BY <1>1, <1>2, <2>2, <3>1 DEF RecorderInv, RecorderTypes
  <2>4. rcInstance.pc # "done"
    BY <1>7 DEF RecorderInv, RecorderGoroutines
  <2>5. QueueIsNewer(q, rcDisk, rcRec, rcSource.dts) /\ UpTo(rcDisk, rcRec, rcSource.dts)
    BY <2>4 DEF RecorderInv
  <2>6. QueueIsNewer(b, rcDisk, rcRec, u)
    <3>1. \A i \in DOMAIN q : q[i] \in Recorder!Sample
      BY <1>5
    <3>2. \A i \in DOMAIN b : (i \in DOMAIN q /\ b[i] = q[i]) \/ i = Len(q) + 1
      BY <1>5, <2>1
    <3>3. ASSUME NEW i \in DOMAIN b
          PROVE  b[i].dts <= u[b[i].video] /\ IsNewer(rcDisk, rcRec, b[i])
      <4>1. CASE i = Len(q) + 1
        <5>1. u[s.video] = dts /\ b[i] = s
          BY <1>2, <1>3, <2>1, <4>1 DEF u
        <5> QED
          BY <1>2, <1>3, <1>4, <5>1
      <4>2. CASE i \in DOMAIN q /\ b[i] = q[i]
        BY <1>4, <2>5, <3>1, <4>2 DEF QueueIsNewer, TrackGoesOn
      <4> QED
        BY <3>2, <4>1, <4>2
    <3>4. ASSUME NEW i \in DOMAIN b, NEW j \in DOMAIN b, i < j
          PROVE  InOrder(b[i], b[j])
      <4>1. i \in DOMAIN q /\ b[i] = q[i] /\ i # Len(q) + 1
        BY <1>5, <2>1, <3>4
      <4>2. CASE j = Len(q) + 1
        <5>1. q[i].dts <= rcSource.dts[q[i].video]
          BY <2>5, <4>1 DEF QueueIsNewer
        <5> QED
          BY <1>4, <2>1, <3>1, <4>1, <4>2, <5>1 DEF TrackGoesOn
      <4>3. CASE j \in DOMAIN q /\ b[j] = q[j]
        BY <2>5, <3>4, <4>1, <4>3 DEF QueueIsNewer
      <4> QED
        BY <3>2, <4>2, <4>3
    <3> QED
      BY <3>3, <3>4 DEF QueueIsNewer
  <2> QED
    BY <1>0, <1>1, <1>2, <1>4, <2>2, <2>3, <2>6, RecorderStep DEF RecorderInv,
       RecorderGoroutines
<1> QED
  BY <1>6, <1>7

LEMMA FailureCounted ==
    ASSUME RecorderInv, NEW fail \in Recorder!Failures,
           rcSource' = [rcSource EXCEPT !.failures = @ + IF fail = "none" THEN 0 ELSE 1]
    PROVE  /\ rcSource' \in RecSource
           /\ rcSource'.dts = rcSource.dts
<1>1. /\ rcSource \in RecSource /\ MaxFailures \in Nat
      /\ rcSource.failures \in 0..MaxFailures
  BY RecorderAssumption DEF RecorderInv, RecorderTypes, RecSource
<1>2. fail # "none" => rcSource.failures < MaxFailures
  BY DEF Recorder!Failures
<1> DEFINE n == rcSource.failures + IF fail = "none" THEN 0 ELSE 1
<1>3. n \in 0..MaxFailures
  BY <1>1, <1>2
<1>4. rcSource' = [rcSource EXCEPT !.failures = n]
  OBVIOUS
<1> HIDE DEF n
<1> QED
  BY <1>1, <1>3, <1>4 DEF RecSource

LEMMA RecorderPulls ==
    ASSUME RecorderInv, NEW fail \in Recorder!Failures, Recorder!WriterPulls(fail)
    PROVE  RecorderInv'
<1> DEFINE q == rcWriter.queue
           s == Head(q)
           x == Recorder!Record(Found, s, fail)
<1>1. /\ rcWriter.pc = "pull" /\ q # <<>>
      /\ rcRec' = x.rec /\ rcDisk' = x.disk
      /\ rcWriter' = [rcWriter EXCEPT !.queue = Tail(@), !.pc = IF x.err THEN "error" ELSE "pull"]
      /\ rcSource' = [rcSource EXCEPT !.failures = @ + IF fail = "none" THEN 0 ELSE 1]
      /\ UNCHANGED <<rcSetup, rcAgent, rcInstance>>
  BY DEF Recorder!WriterPulls, Found
<1>2. rcInstance.pc # "done" /\ rcInstance.pc # "close"
  BY <1>1 DEF RecorderInv, RecorderGoroutines
<1>3. /\ Ready(Found) /\ Found.rec = rcRec /\ Found.disk = rcDisk /\ ~Found.err
      /\ QueueIsNewer(q, rcDisk, rcRec, rcSource.dts)
      /\ q \in Seq(Recorder!Sample)
  BY <1>1, <1>2, RecorderFound
<1>4. /\ rcSource' \in RecSource
      /\ rcSource'.dts = rcSource.dts
  BY <1>1, FailureCounted
<1>5. /\ rcSetup.format \in {"fmp4", "mpegts"} /\ rcSource.dts \in [BOOLEAN -> Nat]
      /\ Len(q) <= QueueSize
      /\ rcWriter \in [pc: {"pull", "error", "ended", "panic"}, closed: BOOLEAN,
                       queue: Seq(Recorder!Sample)]
  BY DEF RecorderInv, RecorderTypes, RecSetup, RecSource
<1>6. x = Recorder!Record(Found, s, fail)
  OBVIOUS
<1>7. s \in Recorder!Sample /\ s = q[1] /\ 1 \in DOMAIN q
  BY <1>1, <1>3
<1> HIDE DEF q, x, s
<1>8. s.dts <= rcSource.dts[s.video] /\ IsNewer(Found.disk, Found.rec, s)
  BY <1>3, <1>7 DEF QueueIsNewer
<1>9. Ready(x) /\ Extends(Found, s, x) /\ Sound(Found)
  <2> HIDE DEF Found
  <2> QED
    BY <1>3, <1>5, <1>6, <1>7, <1>8, RecordSound DEF Ready
<1>10. /\ Sound([rec |-> rcRec', disk |-> rcDisk', err |-> FALSE])
       /\ rcRec' \in RecFormat /\ rcDisk' \in Seq(RecFile)
       /\ rcRec'.segment.file <= Len(rcDisk')
  BY <1>1, <1>9, WriterRecords DEF Ready
<1>13. UpTo(rcDisk', rcRec', rcSource'.dts)
  <2>1. UpTo(Found.disk, Found.rec, rcSource.dts)
    BY <1>3 DEF RecorderInv
  <2>2. UpTo(x.disk, x.rec, rcSource.dts)
    <3> HIDE DEF Found
    <3> QED
      BY <1>5, <1>7, <1>8, <1>9, <2>1, ExtendedUpTo
  <2> QED
    BY <1>1, <1>4, <2>2
<1> DEFINE b == Tail(q)
<1>14. /\ b \in Seq(Recorder!Sample) /\ Len(b) <= QueueSize
       /\ \A i \in DOMAIN b : i + 1 \in DOMAIN q /\ b[i] = q[i + 1] /\ 1 < i + 1
  <2>1. Len(q) \in Nat /\ Len(q) # 0 /\ DOMAIN q = 1..Len(q) /\ QueueSize \in Nat
    BY <1>1, <1>3, RecorderAssumption
  <2>2. b \in Seq(Recorder!Sample) /\ Len(b) = Len(q) - 1 /\ DOMAIN b = 1..(Len(q) - 1)
        /\ \A i \in 1..(Len(q) - 1) : b[i] = q[i + 1]
    BY <1>1, <1>3
  <2> HIDE DEF b
  <2> QED
    BY <1>5, <2>1, <2>2
<1>15. /\ rcWriter' \in [pc: {"pull", "error", "ended", "panic"}, closed: BOOLEAN,
                         queue: Seq(Recorder!Sample)]
       /\ rcWriter'.queue = b /\ rcWriter'.pc \in {"pull", "error"}
       /\ rcWriter'.pc = "pull" => ~x.err
  <2>1. rcWriter' = [rcWriter EXCEPT !.queue = b, !.pc = IF x.err THEN "error" ELSE "pull"]
    BY <1>1 DEF q
  <2> HIDE DEF b
  <2> QED
    BY <1>5, <1>14, <2>1
<1> HIDE DEF b
<1>16. QueueIsNewer(b, rcDisk', rcRec', rcSource'.dts)
  <2>1. ASSUME NEW i \in DOMAIN b
        PROVE  b[i].dts <= rcSource.dts[b[i].video] /\ IsNewer(rcDisk', rcRec', b[i])
    <3>1. /\ b[i].dts <= rcSource.dts[b[i].video] /\ IsNewer(Found.disk, Found.rec, b[i])
          /\ b[i] \in Recorder!Sample /\ InOrder(s, b[i])
      BY <1>3, <1>7, <1>14, <2>1 DEF QueueIsNewer
    <3>2. IsNewer(x.disk, x.rec, b[i])
      <4> HIDE DEF Found
      <4> QED
        BY <1>7, <1>9, <3>1, ExtendedNewer
    <3> QED
      BY <1>1, <3>1, <3>2
  <2>2. ASSUME NEW i \in DOMAIN b, NEW j \in DOMAIN b, i < j PROVE InOrder(b[i], b[j])
    <3>1. i + 1 < j + 1
      BY <1>14, <2>2
    <3> QED
      BY <1>3, <1>14, <3>1 DEF QueueIsNewer
  <2> QED
    BY <1>4, <2>1, <2>2 DEF QueueIsNewer
<1>17. RecorderTypes'
  BY <1>1, <1>4, <1>10, <1>14, <1>15 DEF RecorderInv, RecorderTypes
<1>18. RecorderGoroutines'
  BY <1>1, <1>2, <1>15 DEF RecorderInv, RecorderGoroutines
<1>19. rcWriter'.pc = "pull" => KeyFrameFollows(rcDisk', rcRec')
  BY <1>1, <1>9, <1>15 DEF Ready
<1> QED
  BY <1>1, <1>2, <1>10, <1>13, <1>15, <1>16, <1>17, <1>18, <1>19, RecorderStep

LEMMA RecorderFlushes ==
    ASSUME RecorderInv, Recorder!BufferIsFull
    PROVE  RecorderInv'
<1> DEFINE x == Recorder!Flush(Found, "none")
           W == [pc: {"pull", "error", "ended", "panic"}, closed: BOOLEAN,
                 queue: Seq(Recorder!Sample)]
<1>1. /\ rcWriter.pc = "pull"
      /\ IF rcRec.segment.some
         THEN /\ rcRec' = x.rec /\ rcDisk' = x.disk
              /\ rcWriter' = [rcWriter EXCEPT !.pc = IF x.err THEN "error" ELSE @]
         ELSE UNCHANGED <<rcRec, rcDisk>> /\ rcWriter' = [rcWriter EXCEPT !.pc = "panic"]
      /\ UNCHANGED <<rcSetup, rcSource, rcAgent, rcInstance>>
  BY DEF Recorder!BufferIsFull, Found
<1>2. rcInstance.pc # "done" /\ rcInstance.pc # "close"
  BY <1>1 DEF RecorderInv, RecorderGoroutines
<1>3. /\ Ready(Found) /\ Sound(Found)
      /\ Found.rec = rcRec /\ Found.disk = rcDisk /\ ~Found.err
      /\ QueueIsNewer(rcWriter.queue, rcDisk, rcRec, rcSource.dts)
  BY <1>1, <1>2, RecorderFound DEF Ready
<1>4. rcWriter \in W
  BY DEF RecorderInv, RecorderTypes
<1>5. CASE ~rcRec.segment.some
  <2>1. rcWriter' \in W /\ rcWriter'.queue = rcWriter.queue /\ rcWriter'.pc = "panic"
    BY <1>1, <1>4, <1>5
  <2>2. RecorderTypes'
    BY <1>1, <1>5, <2>1 DEF RecorderInv, RecorderTypes
  <2>3. RecorderGoroutines'
    BY <1>1, <1>2, <2>1 DEF RecorderInv, RecorderGoroutines
  <2>4. Sound([rec |-> rcRec', disk |-> rcDisk', err |-> FALSE])
    BY <1>1, <1>3, <1>5 DEF Found
  <2> QED
    BY <1>1, <1>2, <1>3, <1>5, <2>1, <2>2, <2>3, <2>4, RecorderStep DEF RecorderInv
<1>6. CASE rcRec.segment.some
  <2>1. x = Recorder!Flush(Found, "none")
    OBVIOUS
  <2> HIDE DEF x
  <2>2. /\ Sound(x) /\ KeepsTracks(Found.rec, x.rec) /\ Samples(x) \subseteq Samples(Found)
        /\ ~x.err /\ VideoHasBegun(Found.disk, Found.rec) => VideoHasBegun(x.disk, x.rec)
    BY <1>3, <1>6, <2>1, FlushSound
  <2>3. /\ Sound([rec |-> rcRec', disk |-> rcDisk', err |-> FALSE])
        /\ rcRec' \in RecFormat /\ rcDisk' \in Seq(RecFile)
        /\ rcRec'.segment.file <= Len(rcDisk')
    BY <1>1, <1>6, <2>2, WriterRecords
  <2>4. ASSUME NEW t, UpTo(rcDisk, rcRec, t) PROVE UpTo(rcDisk', rcRec', t)
    <3>1. UpTo(x.disk, x.rec, t)
      BY <1>3, <2>2, <2>4, UpToFewer DEF KeepsTracks
    <3> QED
      BY <1>1, <1>6, <3>1
  <2>11. ASSUME NEW b, IsNewer(rcDisk, rcRec, b) PROVE IsNewer(rcDisk', rcRec', b)
    <3>1. IsNewer(x.disk, x.rec, b)
      BY <1>3, <2>2, <2>11, NewerStays DEF KeepsTracks
    <3> QED
      BY <1>1, <1>6, <3>1
  <2>5. /\ rcWriter' \in W /\ rcWriter'.queue = rcWriter.queue
        /\ rcWriter'.pc \in {"pull", "error"} /\ (rcWriter'.pc = "pull" => ~x.err)
    BY <1>1, <1>4, <1>6
  <2>6. rcWriter'.pc = "pull" => KeyFrameFollows(rcDisk', rcRec')
    <3>1. ~x.err => KeyFrameFollows(x.disk, x.rec)
      BY <1>3, <2>2 DEF Ready, KeyFrameFollows, VideoHasBegun, KeepsTracks
    <3> QED
      BY <1>1, <1>6, <2>5, <3>1
  <2>7. RecorderTypes'
    BY <1>1, <2>3, <2>5 DEF RecorderInv, RecorderTypes
  <2>8. RecorderGoroutines'
    BY <1>1, <1>2, <2>5 DEF RecorderInv, RecorderGoroutines
  <2>9. QueueIsNewer(rcWriter'.queue, rcDisk', rcRec', rcSource'.dts)
    BY <1>1, <1>3, <2>5, <2>11 DEF QueueIsNewer
  <2>10. UpTo(rcDisk', rcRec', rcSource'.dts)
    BY <1>1, <2>4 DEF RecorderInv
  <2> QED
    BY <1>1, <1>2, <2>3, <2>6, <2>7, <2>8, <2>9, <2>10, RecorderStep
<1> QED
  BY <1>5, <1>6

LEMMA RecorderCloses ==
    ASSUME RecorderInv, NEW fail \in Recorder!Failures, Recorder!FormatClose(fail)
    PROVE  RecorderInv'
<1> DEFINE x == Recorder!CloseSegment(Found, fail)
<1>1. /\ rcInstance.pc = "close"
      /\ rcDisk' = IF rcRec.segment.some THEN x.disk ELSE rcDisk
      /\ rcInstance' = [rcInstance EXCEPT !.pc = "done"]
      /\ rcSource' = [rcSource EXCEPT !.failures = @ + IF fail = "none" THEN 0 ELSE 1]
      /\ UNCHANGED <<rcSetup, rcAgent, rcWriter, rcRec>>
  BY DEF Recorder!FormatClose, Found
<1>2. /\ Sound(Found) /\ Found.rec = rcRec /\ Found.disk = rcDisk /\ ~Found.err
      /\ rcRec \in RecFormat /\ rcDisk \in Seq(RecFile)
  BY <1>1, RecorderFound
<1>3. /\ rcSource' \in RecSource
      /\ rcSource'.dts = rcSource.dts
  BY <1>1, FailureCounted
<1>4. /\ rcInstance' \in [pc: {"select", "stop", "close", "done"}, terminate: BOOLEAN,
                          reader: BOOLEAN]
      /\ rcInstance'.pc = "done" /\ rcInstance'.reader = rcInstance.reader
  BY <1>1 DEF RecorderInv, RecorderTypes
<1>5. rcRec.segment \in RecSegment /\ rcRec.segment.file \in Nat
  <2>1. rcRec.segment \in RecSegment
    BY <1>2 DEF RecFormat
  <2> QED
    BY <2>1 DEF RecSegment
<1>6. /\ rcDisk' \in Seq(RecFile) /\ FilesAreRight(rcDisk') /\ AllClosed(rcDisk')
      /\ Written(rcDisk') \subseteq Samples(Found)
      /\ rcRec.segment.file <= Len(rcDisk')
  <2>1. CASE ~rcRec.segment.some
    <3>1. rcDisk' = rcDisk
      BY <1>1, <2>1
    <3>2. rcRec.segment.file = 0
      BY <1>2, <2>1 DEF Sound, DiskSound, FileIsLast
    <3>3. AllClosed(rcDisk)
      BY <1>2, <3>2, NoFileIsOpen
    <3>4. FilesAreRight(rcDisk) /\ Written(rcDisk) \subseteq Samples(Found)
      BY <1>2 DEF Sound, DiskSound, Samples
    <3>5. rcRec.segment.file <= Len(rcDisk)
      BY <1>2, <3>2
    <3> QED
      BY <1>2, <3>1, <3>3, <3>4, <3>5
  <2>2. CASE rcRec.segment.some
    <3>1. rcDisk' = x.disk
      BY <1>1, <2>2
    <3>2. x = Recorder!CloseSegment(Found, fail)
      OBVIOUS
    <3> HIDE DEF x
    <3>3. /\ x \in Recording /\ FilesAreRight(x.disk) /\ AllClosed(x.disk)
          /\ Samples(x) \subseteq Samples(Found) /\ DiskSound(x.disk, x.rec.segment)
      BY <1>2, <2>2, <3>2, ClosedIsSound
    <3>4. KeepsFormat(rcRec, x.rec)
      BY <1>2, <2>2, <3>2, CloseOutcome
    <3>5. x.disk \in Seq(RecFile)
      BY <3>3, RecordingParts
    <3>6. rcRec.segment.file <= Len(x.disk)
      <4>1. CASE rcRec.segment.file = 0
        BY <3>5, <4>1
      <4>2. CASE rcRec.segment.file # 0
        <5>1. rcRec.segment.file = Len(x.disk)
          BY <3>3, <3>4, <4>2 DEF KeepsFormat, DiskSound, FileIsLast
        <5> QED
          BY <1>5, <5>1
      <4> QED
        BY <4>1, <4>2
    <3> QED
      BY <3>1, <3>3, <3>5, <3>6 DEF Samples
  <2> QED
    BY <2>1, <2>2
<1>7. UpTo(rcDisk', rcRec', rcSource'.dts)
  <2>1. UpTo(rcDisk, rcRec, rcSource.dts)
    BY DEF RecorderInv
  <2>2. \A s \in Written(rcDisk') : s \in Written(rcDisk) \cup Members(rcRec.pending)
    BY <1>2, <1>6 DEF Samples
  <2> QED
    BY <1>1, <1>3, <2>1, <2>2 DEF UpTo
<1>8. RecorderTypes'
  BY <1>1, <1>3, <1>4, <1>6 DEF RecorderInv, RecorderTypes
<1>9. RecorderGoroutines'
  BY <1>1, <1>4 DEF RecorderInv, RecorderGoroutines
<1> QED
  BY <1>1, <1>4, <1>6, <1>7, <1>8, <1>9, RecorderStep

\* The steps that record nothing: the ends of the writer and of the instance, and
\* those of the agent.
LEMMA RecorderQuiet ==
    ASSUME RecorderInv,
           \/ Recorder!WriterTerminated \/ Recorder!InstanceFails
           \/ Recorder!InstanceTerminates \/ Recorder!WriterStopped
           \/ Recorder!AgentClose \/ Recorder!AgentSelects \/ Recorder!AgentEnds
    PROVE  RecorderInv'
<1> DEFINE A == [pc: {"select", "pause", "closing", "ended"}, terminate: BOOLEAN]
           I == [pc: {"select", "stop", "close", "done"}, terminate: BOOLEAN,
                 reader: BOOLEAN]
           W == [pc: {"pull", "error", "ended", "panic"}, closed: BOOLEAN,
                 queue: Seq(Recorder!Sample)]
<1>1. rcAgent \in A /\ rcInstance \in I /\ rcWriter \in W
  BY DEF RecorderInv, RecorderTypes
<1>2. UNCHANGED <<rcSetup, rcSource, rcRec, rcDisk>>
  BY DEF Recorder!WriterTerminated, Recorder!InstanceFails, Recorder!InstanceTerminates,
     Recorder!WriterStopped, Recorder!AgentClose, Recorder!AgentSelects, Recorder!AgentEnds
<1>3. /\ rcAgent' \in A /\ rcInstance' \in I /\ rcWriter' \in W
      /\ rcWriter'.queue = rcWriter.queue
      /\ rcWriter'.pc = "pull" => rcWriter.pc = "pull"
      /\ rcInstance'.pc = "done" <=> rcInstance.pc = "done"
      /\ RecorderGoroutines'
  <2>1. CASE Recorder!WriterTerminated
    BY <1>1, <2>1 DEF Recorder!WriterTerminated, RecorderInv, RecorderGoroutines
  <2>2. CASE Recorder!InstanceFails
    BY <1>1, <2>2 DEF Recorder!InstanceFails, RecorderInv, RecorderGoroutines
  <2>3. CASE Recorder!InstanceTerminates
    BY <1>1, <2>3 DEF Recorder!InstanceTerminates, RecorderInv, RecorderGoroutines
  <2>4. CASE Recorder!WriterStopped
    BY <1>1, <2>4 DEF Recorder!WriterStopped, RecorderInv, RecorderGoroutines
  <2>5. CASE Recorder!AgentClose
    BY <1>1, <2>5 DEF Recorder!AgentClose, RecorderInv, RecorderGoroutines
  <2>6. CASE Recorder!AgentSelects
    BY <1>1, <2>6 DEF Recorder!AgentSelects, RecorderInv, RecorderGoroutines
  <2>7. CASE Recorder!AgentEnds
    BY <1>1, <2>7 DEF Recorder!AgentEnds, RecorderInv, RecorderGoroutines
  <2> QED
    BY <2>1, <2>2, <2>3, <2>4, <2>5, <2>6, <2>7
<1>4. RecorderTypes'
  BY <1>2, <1>3 DEF RecorderInv, RecorderTypes
<1> QED
  BY <1>2, <1>3, <1>4, RecorderStep DEF RecorderInv, Found

LEMMA RecorderRestarts ==
    ASSUME RecorderInv, Recorder!AgentRestarts
    PROVE  RecorderInv'
<1>1. /\ rcAgent.pc = "pause"
      /\ rcAgent' = [rcAgent EXCEPT !.pc = "select"]
      /\ rcInstance' = [pc |-> "select", terminate |-> FALSE, reader |-> TRUE]
      /\ rcWriter' = [pc |-> "pull", closed |-> FALSE, queue |-> <<>>]
      /\ rcRec' = Recorder!NewFormat
      /\ UNCHANGED <<rcSetup, rcSource, rcDisk>>
  BY DEF Recorder!AgentRestarts
<1>2. rcInstance.pc = "done"
  BY <1>1 DEF RecorderInv, RecorderGoroutines
<1>3. /\ rcDisk \in Seq(RecFile) /\ FilesAreRight(rcDisk) /\ AllClosed(rcDisk)
      /\ rcSource.dts \in [BOOLEAN -> Nat]
      /\ \A s \in Written(rcDisk) : s.dts <= rcSource.dts[s.video]
  BY <1>2 DEF RecorderInv, RecorderTypes, RecSource, UpTo
<1>4. /\ Sound([rec |-> rcRec', disk |-> rcDisk, err |-> FALSE])
      /\ KeyFrameFollows(rcDisk, rcRec') /\ UpTo(rcDisk, rcRec', rcSource.dts)
      /\ rcRec' \in RecFormat /\ rcRec'.segment.file = 0
  BY <1>1, <1>3, NewFormatSound
<1>5. /\ rcAgent' \in [pc: {"select", "pause", "closing", "ended"}, terminate: BOOLEAN]
      /\ rcInstance' \in [pc: {"select", "stop", "close", "done"}, terminate: BOOLEAN,
                          reader: BOOLEAN]
      /\ rcWriter' \in [pc: {"pull", "error", "ended", "panic"}, closed: BOOLEAN,
                        queue: Seq(Recorder!Sample)]
      /\ rcWriter'.queue = <<>> /\ rcWriter'.pc = "pull" /\ rcInstance'.pc = "select"
      /\ rcAgent'.pc = "select"
  BY <1>1 DEF RecorderInv, RecorderTypes
<1>6. RecorderTypes'
  <2>1. Len(rcWriter'.queue) <= QueueSize /\ rcRec'.segment.file <= Len(rcDisk)
    BY <1>3, <1>4, <1>5, RecorderAssumption
  <2> QED
    BY <1>1, <1>4, <1>5, <2>1 DEF RecorderInv, RecorderTypes
<1>7. RecorderGoroutines'
  BY <1>5 DEF RecorderGoroutines
<1>8. QueueIsNewer(rcWriter'.queue, rcDisk', rcRec', rcSource'.dts)
  BY <1>5 DEF QueueIsNewer
<1> QED
  BY <1>1, <1>4, <1>5, <1>6, <1>7, <1>8, RecorderStep

LEMMA RecorderNext == RecorderInv /\ Recorder!Next => RecorderInv'
  BY RecorderWriteUnit, RecorderPulls, RecorderFlushes, RecorderCloses, RecorderQuiet,
     RecorderRestarts DEF Recorder!Next, Recorder!Internal

LEMMA RecorderInvImplies ==
    ASSUME RecorderInv
    PROVE  /\ Recorder!TypeOK
           /\ Recorder!RecordedOnceInOrder /\ Recorder!SegmentsStartWithKeyFrame
           /\ Recorder!FilesAreClosed /\ Recorder!NothingLeftRunning
<1>1. FilesAreRight(rcDisk)
  BY DEF RecorderInv, Sound, DiskSound, Found
<1>2. Recorder!RecordedOnceInOrder
  <2> SUFFICES ASSUME NEW i \in DOMAIN rcDisk, NEW j \in DOMAIN rcDisk,
                      NEW k \in DOMAIN rcDisk[i].samples, NEW l \in DOMAIN rcDisk[j].samples,
                      i < j \/ (i = j /\ k < l)
               PROVE  InOrder(rcDisk[i].samples[k], rcDisk[j].samples[l])
    BY DEF Recorder!RecordedOnceInOrder, InOrder
  <2>1. CASE i < j
    <3>1. /\ rcDisk[i].samples[k] \in Members(rcDisk[i].samples)
          /\ rcDisk[j].samples[l] \in Members(rcDisk[j].samples)
      BY DEF Members
    <3> QED
      BY <1>1, <2>1, <3>1 DEF FilesAreRight, AllBefore
  <2>2. CASE i = j /\ k < l
    BY <1>1, <2>2 DEF FilesAreRight, SamplesInOrder
  <2> QED
    BY <2>1, <2>2
<1>3. Recorder!SegmentsStartWithKeyFrame
  BY <1>1 DEF FilesAreRight, Recorder!SegmentsStartWithKeyFrame
<1>4. Recorder!FilesAreClosed
  BY <1>1 DEF RecorderInv, Sound, DiskSound, Found, FilesAreRight, AllClosed,
     Recorder!FilesAreClosed
<1>5. Recorder!NothingLeftRunning
  BY DEF RecorderInv, RecorderGoroutines, Recorder!NothingLeftRunning
<1>6. Recorder!TypeOK
  BY DEF RecorderInv, RecorderTypes, RecFormat, RecSegment, RecSetup,
     RecSource, Recorder!TypeOK, Recorder!ToSet
<1> QED
  BY <1>2, <1>3, <1>4, <1>5, <1>6

RecorderIsSound == kind = "recorder" => RecorderInv

LEMMA RecorderInductive == Spec => []RecorderIsSound
<1>1. Init => RecorderIsSound
  BY RecorderInit DEF Init, RecorderIsSound
<1>2. RecorderIsSound /\ [Next]_vars => RecorderIsSound'
  <2> SUFFICES ASSUME RecorderIsSound, [Next]_vars, kind = "recorder" PROVE RecorderInv'
    BY DEF Next, vars, RecorderIsSound
  <2>1. RecorderInv
    BY DEF RecorderIsSound
  <2>2. CASE Recorder!Next
    BY <2>1, <2>2, RecorderNext
  <2>3. CASE UNCHANGED rcVars
    <3>1. /\ UNCHANGED <<rcSetup, rcSource, rcAgent, rcInstance, rcWriter, rcRec, rcDisk>>
          /\ RecorderTypes' /\ RecorderGoroutines'
      BY <2>1, <2>3 DEF rcVars, RecorderInv, RecorderTypes, RecorderGoroutines
    <3> QED
      BY <2>1, <3>1, RecorderStep DEF RecorderInv, Found
  <2> QED
    BY <2>2, <2>3 DEF Next, vars
<1> QED
  BY <1>1, <1>2, PTL DEF Spec

\* Whatever operation fails, however far a track lags behind the other, whenever
\* the queue overflows, the parameters change or the agent restarts: each track is recorded in order and
\* nothing twice, over all the segments, a segment that the video has cut can be
\* played by itself, at most the file of the current segment is open, one with samples that
\* was closed was reported complete, and an agent that has ended has no reader,
\* no writer and no instance left, in whatever order the three of them end.
THEOREM RecordingIsRightAlways == Spec => []RecordingIsRight
<1>1. RecorderIsSound => RecordingIsRight
  BY RecorderInvImplies DEF RecorderIsSound, RecordingIsRight
<1> QED
  BY <1>1, RecorderInductive, PTL

\* The state of the recorder has its type: the queue never has more samples than
\* WriteQueueSize, and a segment never names a file that is not there.
THEOREM RecorderTypeCorrect == Spec => [](kind = "recorder" => Recorder!TypeOK)
<1>1. RecorderIsSound => (kind = "recorder" => Recorder!TypeOK)
  BY RecorderInvImplies DEF RecorderIsSound
<1> QED
  BY <1>1, RecorderInductive, PTL
=============================================================================
