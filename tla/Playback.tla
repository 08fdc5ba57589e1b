------------------------------- MODULE Playback -------------------------------
(***************************************************************************)
(* The playback of recordings (internal/playback), as functions that a      *)
(* request evaluates: which segments a request needs (segment.go), how they *)
(* are listed and served one after the other (server.go), and how a part of *)
(* a segment is cut out of its file (fmp4.go).  A state is a request and,    *)
(* once it is served, its answer.                                            *)
(***************************************************************************)
EXTENDS Integers, Sequences, SequencesExt, FiniteSetsExt

CONSTANTS
    MaxTime,        \* times are 0..MaxTime (a bound)
    MaxSegments,    \* segments of a path (a bound)
    MaxParts,       \* parts of a file (a bound)
    Tolerance,      \* concatenationTolerance
    Word            \* 2^64, the modulus of the times of fMP4

VARIABLES
    request,    \* what is asked, and the recordings there are
    answer      \* what was answered, or Pending

vars == <<request, answer>>

Pending == [ok |-> FALSE, served |-> FALSE]

-----------------------------------------------------------------------------
(* segment.go.  A segment is its start and its duration.                     *)

\* sort.Slice().
ByStart(segments) ==
    LET n == Cardinality(segments)
    IN  CHOOSE q \in [1..n -> segments] : \A i, j \in 1..n : i < j => q[i].start < q[j].start

\* findSegments(): the segment that may contain the start and those after it
\* that begin before the end; none when the recording starts later.
FindSegments(segments, start, duration) ==
    LET found == ByStart({s \in segments : s.start <= start + duration})
        first == {i \in 1..(Len(found) - 1) :
                    found[i].start <= start /\ start < found[i + 1].start}
    IN  IF found = <<>> THEN <<>>
        ELSE IF first # {} THEN SubSeq(found, Min(first), Len(found))
        ELSE IF Last(found).start > start THEN <<>>
        ELSE <<Last(found)>>

CanBeConcatenated(a, b) ==
    LET end == a.start + a.duration IN b.start >= end - Tolerance /\ b.start <= end + Tolerance

Merge(out, s) ==
    IF out # <<>> /\ CanBeConcatenated(Last(out), s)
    THEN [out EXCEPT ![Len(out)].duration = s.start + s.duration - Last(out).start]
    ELSE Append(out, s)

\* The loop over the segments: out[n] is what the first n make.
MergeConcatenatedSegments(in) ==
    LET out[n \in 0..Len(in)] == IF n = 0 THEN <<>> ELSE Merge(out[n - 1], in[n])
    IN  out[Len(in)]

-----------------------------------------------------------------------------
(* server.go.                                                                *)

\* What fmp4SeekAndMux() and fmp4Mux() say they have served, for a segment that
\* is recorded without gaps.
Elapsed(segment, from, duration) == Min({segment.start + segment.duration - from, duration})

\* Mutant of ServeNext: gaps between the segments are not noticed.
ServeNextThroughGaps(z, s) ==
    LET elapsed == Elapsed(s, s.start, z.left)
    IN  [z EXCEPT !.start = s.start + elapsed, !.left = @ - elapsed, !.served = Append(@, s)]

\* onGet(): the segments are served until there is a gap between two of them.
ServeNext(z, s) ==
    IF z.stopped \/ s.start < z.start - Tolerance \/ s.start > z.start + Tolerance
    THEN [z EXCEPT !.stopped = TRUE]
    ELSE LET elapsed == Elapsed(s, s.start, z.left)
         IN  [z EXCEPT !.start = s.start + elapsed, !.left = @ - elapsed,
                       !.served = Append(@, s)]

OnGet(segments, start, duration) ==
    LET found == FindSegments(segments, start, duration)
        elapsed == Elapsed(found[1], start, duration)
        z[n \in 1..Len(found)] ==
            IF n = 1 THEN [start |-> start + elapsed, left |-> duration - elapsed,
                           served |-> <<found[1]>>, stopped |-> FALSE]
            ELSE ServeNext(z[n - 1], found[n])
    IN  IF found = <<>> \/ elapsed <= 0 THEN <<>> ELSE z[Len(found)].served

OnList(segments) == MergeConcatenatedSegments(ByStart(segments))

-----------------------------------------------------------------------------
(* fmp4.go.  A file is a sequence of parts, a part a sequence of the tracks it *)
(* has samples of, each with its base time; all samples last one unit.        *)

Tracks == {"video", "audio"}

\* fmp4SeekAndMuxParts(), the "trun" box: samples before min are kept since the
\* last key frame and put in front of the first one that is played.
SeekSample(z, x) ==
    LET t == x.track
        gop == IF x.sync THEN <<x>> ELSE Append(z.gop[t], x)
        first == t \notin z.written
        lead == IF x.sync THEN <<>> ELSE Front(gop)
    IN  IF x.time >= z.max THEN z
        ELSE IF x.time < z.min
        THEN [z EXCEPT !.gop[t] = IF first THEN gop ELSE @, !.elapsed = x.time + 1]
        ELSE [z EXCEPT !.gop[t] = <<>>, !.written = @ \cup {t}, !.elapsed = x.time + 1,
                       !.track.base = x.time - z.min,
                       !.track.samples = (IF first THEN @ \o lead ELSE @) \o <<x>>]

\* The "tfdt" box ends the walk when a track starts after the end, and the
\* tracks of its part that were read before it are not written.
SeekTrack(z, traf) ==
    IF z.terminated \/ traf.base >= z.max THEN [z EXCEPT !.terminated = TRUE]
    ELSE LET n == FoldLeft(SeekSample,
                    [z EXCEPT !.elapsed = traf.base,
                              !.track = [track |-> traf.track, base |-> 0, samples |-> <<>>]],
                    traf.samples)
         IN  IF n.track.samples = <<>> THEN n ELSE [n EXCEPT !.part = Append(@, n.track)]

\* The "moof" and "mdat" boxes.
SeekPart(z, part) ==
    LET n == FoldLeft(SeekTrack, [z EXCEPT !.part = <<>>], part)
    IN  IF n.terminated \/ n.part = <<>> THEN n ELSE [n EXCEPT !.out = Append(@, n.part)]

FMP4SeekAndMux(file, min, max) ==
    LET z == FoldLeft(SeekPart,
                [min |-> min, max |-> max, elapsed |-> 0, terminated |-> FALSE,
                 written |-> {}, gop |-> [t \in Tracks |-> <<>>], part |-> <<>>,
                 track |-> [track |-> "video", base |-> 0, samples |-> <<>>], out |-> <<>>],
                file)
    IN  [found |-> z.out # <<>>, out |-> z.out, elapsed |-> (z.elapsed - min) % Word]

\* fmp4MuxParts(): a later segment is played from its start, after what was
\* played before it.
MuxTrack(z, traf) ==
    IF z.terminated \/ traf.base >= z.max THEN [z EXCEPT !.terminated = TRUE]
    ELSE LET played == SelectSeq(traf.samples, LAMBDA x : x.time < z.max)
         IN  [z EXCEPT !.elapsed = traf.base + Len(played),
                       !.part = Append(@, [track |-> traf.track, base |-> traf.base + z.start,
                                           samples |-> played])]

MuxPart(z, part) ==
    LET n == FoldLeft(MuxTrack, [z EXCEPT !.part = <<>>], part)
    IN  IF n.terminated \/ n.part = <<>> THEN n ELSE [n EXCEPT !.out = Append(@, n.part)]

FMP4Mux(file, start, max) ==
    LET z == FoldLeft(MuxPart, [start |-> start, max |-> max, elapsed |-> 0,
                                terminated |-> FALSE, part |-> <<>>, out |-> <<>>], file)
    IN  [found |-> TRUE, out |-> z.out, elapsed |-> z.elapsed]

\* fmp4Duration(): the end of the longest track of the last part.
FMP4Duration(file) ==
    LET part == Last(file) IN Max({part[i].base + Len(part[i].samples) : i \in DOMAIN part})

-----------------------------------------------------------------------------

Segment == [start: 0..MaxTime, duration: 1..MaxTime]

\* The recordings of a path: no two segments start at the same time.
Recordings ==
    {s \in UNION {kSubset(n, Segment) : n \in 0..MaxSegments} :
        \A a, b \in s : a.start = b.start => a = b}

\* A part as the recorder writes it: its tracks in any order, the audio made of
\* key frames only.  Times are given by Timed.
Shape(n) ==
    [track: {"video"}, syncs: [1..n -> BOOLEAN]] \cup [track: {"audio"}, syncs: {[i \in 1..n |-> TRUE]}]
Shapes == Shape(1) \cup Shape(2)
PartShapes ==
    {<<a>> : a \in Shapes} \cup {p \in Shapes \X Shapes : p[1].track # p[2].track}

\* The samples of each track follow each other, the audio since offset.
Timed(shapes, offset) ==
    LET Track(z, s) ==
            LET n == Len(s.syncs)
                base == z.clock[s.track]
            IN  [clock |-> [z.clock EXCEPT ![s.track] = @ + n],
                 part |-> Append(z.part,
                    [track |-> s.track, base |-> base,
                     samples |-> [i \in 1..n |->
                        [track |-> s.track, time |-> base + i - 1, sync |-> s.syncs[i]]]])]
        Part(z, p) ==
            LET n == FoldLeft(Track, [clock |-> z.clock, part |-> <<>>], p)
            IN  [clock |-> n.clock, file |-> Append(z.file, n.part)]
        init == [clock |-> [t \in Tracks |-> IF t = "audio" THEN offset ELSE 0], file |-> <<>>]
    IN  FoldLeft(Part, init, shapes).file

\* The files are a part of the next state relation so that TLC does not build
\* them all at once.
Init ==
    /\ request = [op |-> "none"]
    /\ answer = Pending

ListRequest ==
    /\ request.op = "none"
    /\ \E s \in Recordings :
        /\ request' = [op |-> "list", segments |-> s]
        /\ answer' = [ok |-> TRUE, served |-> OnList(s)]

GetRequest ==
    /\ request.op = "none"
    /\ \E s \in Recordings, start \in 0..MaxTime, duration \in 1..MaxTime :
        /\ request' = [op |-> "get", segments |-> s, start |-> start, duration |-> duration]
        /\ answer' = [ok |-> TRUE, served |-> OnGet(s, start, duration)]

SeekRequest ==
    /\ request.op = "none"
    /\ \E n \in 1..MaxParts, offset \in {0, 2} :
       \E shapes \in [1..n -> PartShapes], min \in 0..MaxTime, max \in 1..MaxTime :
        /\ min < max
        /\ request' = [op |-> "seek", file |-> Timed(shapes, offset), min |-> min, max |-> max]
        /\ answer' = [ok |-> TRUE, served |-> FMP4SeekAndMux(Timed(shapes, offset), min, max),
                      duration |-> FMP4Duration(Timed(shapes, offset))]

MuxRequest ==
    /\ request.op = "none"
    /\ \E n \in 1..MaxParts, offset \in {0, 2} :
       \E shapes \in [1..n -> PartShapes], max \in 0..MaxTime :
        /\ request' = [op |-> "mux", file |-> Timed(shapes, offset), min |-> 0, max |-> max]
        /\ answer' = [ok |-> TRUE, served |-> FMP4Mux(Timed(shapes, offset), MaxTime, max),
                      duration |-> FMP4Duration(Timed(shapes, offset))]

Next == ListRequest \/ GetRequest \/ SeekRequest \/ MuxRequest

Spec == Init /\ [][Next]_vars

-----------------------------------------------------------------------------
(* Properties.                                                              *)

TypeOK == answer.ok \in BOOLEAN /\ request.op \in {"none", "list", "get", "seek", "mux"}

\* The list has an entry for every moment that was recorded, up to the
\* tolerance, and two entries are separated by more than that.
ListIsRight ==
    request.op = "list" =>
        LET out == answer.served
        IN  /\ \A s \in request.segments : \E i \in DOMAIN out :
                /\ out[i].start <= s.start
                /\ s.start + s.duration <= out[i].start + out[i].duration + Tolerance
            /\ \A i \in 1..(Len(out) - 1) : ~CanBeConcatenated(out[i], out[i + 1])

\* A request is served from the last segment that starts before it, if it
\* still goes on then, and through every segment that follows the one before
\* without a gap, in their order and leaving none out, until the requested time
\* is served.  What is served of overlapping segments counts twice.
Follows(s, e) == e - Tolerance <= s.start /\ s.start <= e + Tolerance
EndOf(s) == s.start + s.duration
TimeServed(served, start) ==
    LET time[n \in 1..Len(served)] ==
            IF n = 1 THEN EndOf(served[1]) - start ELSE time[n - 1] + served[n].duration
    IN  time
GetIsRight ==
    request.op = "get" =>
        LET served == answer.served
            time == TimeServed(served, request.start)
            before == {s \in request.segments : s.start <= request.start}
            IsNext(s, i) ==
                /\ s.start <= request.start + request.duration
                /\ served[i].start < s.start
                /\ \A q \in request.segments : served[i].start < q.start => s.start <= q.start
        IN  /\ served # <<>> <=>
                \E s \in before : EndOf(s) > request.start /\ \A q \in before : q.start <= s.start
            /\ served # <<>> => served[1] \in before /\ \A q \in before : q.start <= served[1].start
            /\ \A i \in 1..(Len(served) - 1) :
                served[i + 1] \in request.segments /\ IsNext(served[i + 1], i)
            /\ \A i \in DOMAIN served, s \in request.segments :
                IsNext(s, i) /\ time[i] <= request.duration =>
                    (Follows(s, EndOf(served[i])) <=> i < Len(served))

AllSamples(track) ==
    LET Of(traf) == IF traf.track = track THEN traf.samples ELSE <<>>
        OfPart(part) == FlattenSeq([i \in DOMAIN part |-> Of(part[i])])
    IN  FlattenSeq([i \in DOMAIN request.file |-> OfPart(request.file[i])])

Played(track) ==
    LET Of(traf) == IF traf.track = track THEN traf.samples ELSE <<>>
        OfPart(part) == FlattenSeq([i \in DOMAIN part |-> Of(part[i])])
    IN  FlattenSeq([i \in DOMAIN answer.served.out |-> OfPart(answer.served.out[i])])

\* What should be played of a track: the samples of [min, max), after those
\* that the first of them needs to be decoded.
Expected(track) ==
    LET all == AllSamples(track)
        in == {i \in DOMAIN all : all[i].time >= request.min /\ all[i].time < request.max}
        keys == {i \in DOMAIN all : all[i].sync /\ i <= Min(in)}
    IN  IF in = {} THEN <<>>
        ELSE SubSeq(all, IF keys = {} THEN 1 ELSE Max(keys), Max(in))

End(track) == IF AllSamples(track) = <<>> THEN 0 ELSE Last(AllSamples(track)).time + 1

\* What is played of each track of a file, from the middle or from its start, is
\* what was asked, without a hole and with the key frame that it starts from,
\* up to the part where another track ends it; nothing is missing when no part
\* starts after the end.  The time that onGet() goes on from is that of the end
\* of the file or of the request, if the file has one track; and the duration
\* of a file is its own if its last part has samples of all of its tracks.
FilesAreServedRight ==
    request.op \in {"seek", "mux"} =>
        /\ \A t \in Tracks :
            /\ IsPrefix(Played(t), Expected(t))
            /\ (\A i \in DOMAIN request.file : \A j \in DOMAIN request.file[i] :
                    request.file[i][j].base < request.max)
                => Played(t) = Expected(t)
        /\ \A t \in Tracks :
            (\A q \in Tracks \ {t} : End(q) = 0) /\ Played(t) # <<>>
                => request.min + answer.served.elapsed = Min({End(t), request.max})
        /\ (\A t \in Tracks : End(t) # 0 => \E i \in DOMAIN Last(request.file) :
                                                 Last(request.file)[i].track = t)
            => answer.duration = Max({End(t) : t \in Tracks})

\* A sample of the first segment is played at its time.
SamplesKeepTheirTime ==
    request.op = "seek" =>
        \A i \in DOMAIN answer.served.out : \A j \in DOMAIN answer.served.out[i] :
            LET track == answer.served.out[i][j]
                timed == SelectSeq(track.samples, LAMBDA s : s.time >= request.min)
            IN  track.base = timed[1].time - request.min
=============================================================================
