------------------------------- MODULE Recorder -------------------------------
(***************************************************************************)
(* The recording of a stream (internal/record): the agent, which restarts  *)
(* its instance after an error; the instance, which reads the stream        *)
(* through a queue (internal/asyncwriter, internal/stream); and the two     *)
(* formats, which split what they read into parts and segments.  A sample   *)
(* is its track, its time, whether it is a key frame and the version of the *)
(* codec parameters it was encoded with.                                    *)
(***************************************************************************)
EXTENDS Integers, Sequences, SequencesExt

CONSTANTS
    Formats,            \* the values of recordFormat: "fmp4", "mpegts"
    VideoCodecs,        \* codecs of the video track: "H264", "MPEG4Video"
    AudioCodecs,        \* codecs of the audio track
    MaxSamples,         \* units that the source writes (a bound)
    MaxDTS,             \* the last time of a unit (a bound)
    MaxParams,          \* changes of the codec parameters (a bound)
    MaxFailures,        \* operations that fail (a bound)
    QueueSize,          \* WriteQueueSize
    PartDuration, SegmentDuration

VARIABLES
    setup,      \* [format, video, audio], fixed
    source,     \* [dts, units, params, failures]: the writer of the stream
    agent,      \* Agent.run()
    instance,   \* agentInstance.run(), its terminate channel, and the stream
    writer,     \* asyncwriter.Writer: its goroutine and its queue
    rec,        \* the state of the format
    disk        \* the files, in the order of their creation

vars == <<setup, source, agent, instance, writer, rec, disk>>

Sample ==
    [video: BOOLEAN, dts: 0..MaxDTS, key: BOOLEAN, params: 0..MaxParams]
NoSample == [video |-> FALSE, dts |-> 0, key |-> FALSE, params |-> 0]

\* A segment: the file that it has opened (0 for none), and for fMP4 the part
\* that is not written yet.  cut: the video has cut it from the one before.
NoSegment == [some |-> FALSE, start |-> 0, file |-> 0, flushed |-> 0, cut |-> FALSE]
NewSegment(start, cut) ==
    [NoSegment EXCEPT !.some = TRUE, !.start = start, !.flushed = start, !.cut = cut]

\* next is nextSample of each track; pending are the samples of the current
\* part (fMP4) or of the buffered writer (MPEG-TS).
NewFormat ==
    [hasVideo |-> FALSE, firstReceived |-> FALSE, params |-> 0,
     next |-> [v \in BOOLEAN |-> NoSample], segment |-> NoSegment,
     pending |-> <<>>]

\* MPEG-4 video (which stands for MPEG-1 too) and AC-3 differ from the other
\* codecs in MPEG-TS only.
Init ==
    /\ setup \in {s \in [format: Formats, video: VideoCodecs, audio: AudioCodecs] :
                    s.format = "fmp4" => s.video = "H264" /\ s.audio # "AC3"}
    /\ source = [dts |-> [v \in BOOLEAN |-> 0], units |-> 0, params |-> 0, failures |-> 0]
    /\ agent = [pc |-> "select", terminate |-> FALSE]
    /\ instance = [pc |-> "select", terminate |-> FALSE, reader |-> TRUE]
    /\ writer = [pc |-> "pull", closed |-> FALSE, queue |-> <<>>]
    /\ rec = NewFormat
    /\ disk = <<>>

-----------------------------------------------------------------------------
(* The files.  An operation takes and returns a record [rec, disk, err], and   *)
(* fail says which of the calls to the file system goes wrong, if any.        *)

File(start, cut) ==
    [start |-> start, cut |-> cut, samples |-> <<>>, open |-> TRUE, complete |-> FALSE]

\* formatFMP4Part.close() and formatMPEGTSSegment.Write(): the first write of a
\* segment creates its file.  When writeInit() fails the file is left empty.
WritePending(x, fail) ==
    LET s == x.rec.segment
        created == Append(x.disk, File(s.start, s.cut))
        file == IF s.file = 0 THEN Len(created) ELSE s.file
        before == IF s.file = 0 THEN created ELSE x.disk
    IN  CASE s.file = 0 /\ fail = "create" -> [x EXCEPT !.err = TRUE]
          [] s.file = 0 /\ fail = "init" /\ setup.format = "fmp4" ->
                [x EXCEPT !.err = TRUE,
                          !.disk = [created EXCEPT ![Len(created)].open = FALSE]]
          [] fail = "write" \/ ~before[file].open ->
                [x EXCEPT !.err = TRUE, !.disk = before, !.rec.segment.file = file]
          [] OTHER ->
                [x EXCEPT !.rec.segment.file = file,
                          !.disk = [before EXCEPT ![file].samples = @ \o x.rec.pending]]

\* After an error the buffered writer writes nothing any more.
Cleared(x) == [x EXCEPT !.rec.pending = <<>>]

\* close() of a segment writes what is pending, then closes the file and calls
\* OnSegmentComplete(), unless it was closed before.
CloseSegment(x, fail) ==
    LET w == IF x.rec.pending = <<>> THEN x ELSE WritePending(x, fail)
        file == w.rec.segment.file
    IN  IF file = 0 \/ ~w.disk[file].open THEN w
        ELSE [w EXCEPT !.disk[file].open = FALSE, !.disk[file].complete = TRUE]

-----------------------------------------------------------------------------
(* formatFMP4.                                                               *)

\* The DTS extractor, or the check that there are no B-frames, refuses the unit.
OutOfOrder(x, s, fail) ==
    fail = "order" /\ s.video /\ (x.rec.firstReceived \/ setup.video = "H264")

\* updateCodecs(): the parameters that the file has are not valid any more.
UpdateCodecs(x, s, fail) ==
    IF ~s.video \/ s.params = x.rec.params THEN x
    ELSE LET n == [x EXCEPT !.rec.params = s.params]
         IN  IF ~x.rec.segment.some \/ x.rec.segment.file = 0 THEN n
             ELSE [CloseSegment(n, fail) EXCEPT
                    !.rec.segment = NoSegment, !.rec.pending = <<>>, !.err = FALSE]

\* formatFMP4Segment.record(): a part that is long enough is written first.
RecordInPart(x, s, fail) ==
    LET p == x.rec.pending
        full == p # <<>> /\ Last(p).dts - p[1].dts >= PartDuration
        w == IF full THEN WritePending(x, fail) ELSE x
        r == IF full THEN [w EXCEPT !.rec.pending = <<>>] ELSE w
    IN  IF r.err THEN r ELSE [r EXCEPT !.rec.pending = Append(@, s)]

\* Mutant of StartsSegment: a segment may start with any frame.
StartsSegmentAnywhere(r, s) ==
    (~r.hasVideo \/ s.video) /\ s.dts - r.segment.start >= SegmentDuration

\* The next segment starts with a key frame of the video, if there is one.
StartsSegment(r, s) ==
    /\ ~r.hasVideo \/ s.video
    /\ s.key
    /\ s.dts - r.segment.start >= SegmentDuration

\* formatFMP4Track.record(): a sample is recorded when the next one is known;
\* one that is older than the segment is rejected.
TrackRecord(x, s, fail) ==
    LET prev == x.rec.next[s.video]
        y == [x EXCEPT !.rec.hasVideo = @ \/ s.video,
                       !.rec.next = [@ EXCEPT ![s.video] = s]]
        z == IF y.rec.segment.some THEN y
             ELSE [y EXCEPT !.rec.segment = NewSegment(prev.dts, FALSE)]
        r == RecordInPart(z, prev, fail)
        c == CloseSegment(r, fail)
    IN  IF prev = NoSample THEN y
        ELSE IF prev.dts < z.rec.segment.start THEN z
        ELSE IF r.err \/ ~StartsSegment(r.rec, s) THEN r
        ELSE IF c.err THEN c
        ELSE [c EXCEPT !.rec.segment = NewSegment(s.dts, s.video), !.rec.pending = <<>>]

\* Nothing is recorded before the first key frame of the video.
RecordFMP4(x, s, fail) ==
    LET y == UpdateCodecs(x, s, fail)
    IN  IF s.video /\ ~x.rec.firstReceived /\ ~s.key THEN y
        ELSE IF OutOfOrder(x, s, fail) THEN [y EXCEPT !.err = TRUE]
        ELSE TrackRecord([y EXCEPT !.rec.firstReceived = @ \/ s.video], s, fail)

-----------------------------------------------------------------------------
(* formatMPEGTS.                                                             *)

\* bufio.Writer.Flush() writes to the current segment.
Flush(x, fail) == IF x.rec.pending = <<>> THEN x ELSE Cleared(WritePending(x, fail))

SetupSegment(x, s, fail) ==
    LET g == x.rec.segment
        c == Cleared(CloseSegment(x, fail))
        f == Flush(x, fail)
    IN  IF ~g.some THEN [x EXCEPT !.rec.segment = NewSegment(s.dts, FALSE)]
        ELSE IF StartsSegment(x.rec, s)
             THEN IF c.err THEN c ELSE [c EXCEPT !.rec.segment = NewSegment(s.dts, s.video)]
        ELSE IF s.dts - g.flushed >= PartDuration /\ ~f.err
             THEN [f EXCEPT !.rec.segment.flushed = s.dts]
        ELSE IF s.dts - g.flushed >= PartDuration THEN f ELSE x

\* AC-3 is written without setupSegment(); MPEG-4 video does not wait for a key
\* frame.
RecordMPEGTS(x, s, fail) ==
    LET v == [x EXCEPT !.rec.hasVideo = @ \/ s.video, !.rec.firstReceived = @ \/ s.video]
        y == IF ~s.video /\ setup.audio = "AC3" THEN v ELSE SetupSegment(v, s, fail)
        awaited == setup.video = "H264" /\ s.video /\ ~x.rec.firstReceived /\ ~s.key
    IN  IF awaited THEN x
        ELSE IF OutOfOrder(x, s, fail) THEN [x EXCEPT !.err = TRUE]
        ELSE IF y.err THEN y ELSE [y EXCEPT !.rec.pending = Append(@, s)]

Record(x, s, fail) ==
    IF setup.format = "fmp4" THEN RecordFMP4(x, s, fail) ELSE RecordMPEGTS(x, s, fail)

-----------------------------------------------------------------------------
(* The source, the stream and the queue.                                     *)

\* Stream.WriteUnit(): the unit is queued for the reader, or dropped when the
\* queue is full.  The units of a track come in the order of their times, and a
\* track may lag behind the other.  New parameters come with a key frame.
WriteUnit(video, dts, key, newParams) ==
    LET params == source.params + IF newParams THEN 1 ELSE 0
        s == [video |-> video, dts |-> dts, key |-> key,
              params |-> IF video THEN params ELSE 0]
    IN  /\ source.units < MaxSamples /\ dts > source.dts[video] /\ params <= MaxParams
        /\ (~video => key) /\ (newParams => video /\ key /\ setup.format = "fmp4")
        /\ source' = [source EXCEPT !.dts[video] = dts, !.units = @ + 1, !.params = params]
        /\ writer' = IF instance.reader /\ Len(writer.queue) < QueueSize
                     THEN [writer EXCEPT !.queue = Append(@, s)] ELSE writer
        /\ UNCHANGED <<setup, agent, instance, rec, disk>>

\* Writer.runInner(): an error of the callback ends the goroutine, once
\* somebody takes it from the channel.
WriterPulls(fail) ==
    LET x == Record([rec |-> rec, disk |-> disk, err |-> FALSE], Head(writer.queue), fail)
    IN  /\ writer.pc = "pull" /\ writer.queue # <<>>
        /\ fail = "order" => Head(writer.queue).video
        /\ rec' = x.rec /\ disk' = x.disk
        /\ writer' = [writer EXCEPT !.queue = Tail(@), !.pc = IF x.err THEN "error" ELSE "pull"]
        /\ source' = [source EXCEPT !.failures = @ + IF fail = "none" THEN 0 ELSE 1]
        /\ UNCHANGED <<setup, agent, instance>>

\* The buffer of the MPEG-TS writer is full: it is flushed, and there is no
\* segment to write to when the stream has nothing but AC-3.
BufferIsFull ==
    LET x == Flush([rec |-> rec, disk |-> disk, err |-> FALSE], "none")
    IN  /\ writer.pc = "pull" /\ setup.format = "mpegts" /\ rec.pending # <<>>
        /\ IF rec.segment.some
           THEN rec' = x.rec /\ disk' = x.disk
                /\ writer' = [writer EXCEPT !.pc = IF x.err THEN "error" ELSE @]
           ELSE UNCHANGED <<rec, disk>> /\ writer' = [writer EXCEPT !.pc = "panic"]
        /\ UNCHANGED <<setup, source, agent, instance>>

\* The queue was closed: Pull() returns nothing.
WriterTerminated ==
    /\ writer.pc = "pull" /\ writer.closed
    /\ writer' = [writer EXCEPT !.pc = "error"]
    /\ UNCHANGED <<setup, source, agent, instance, rec, disk>>

-----------------------------------------------------------------------------
(* agentInstance.run() and Agent.run().                                      *)

\* The error of the writer; or terminate, and Stop() of the writer.
InstanceFails ==
    /\ instance.pc = "select" /\ writer.pc = "error"
    /\ instance' = [instance EXCEPT !.pc = "close", !.reader = FALSE]
    /\ writer' = [writer EXCEPT !.pc = "ended"]
    /\ UNCHANGED <<setup, source, agent, rec, disk>>

InstanceTerminates ==
    /\ instance.pc = "select" /\ instance.terminate
    /\ instance' = [instance EXCEPT !.pc = "stop", !.reader = FALSE]
    /\ writer' = [writer EXCEPT !.closed = TRUE]
    /\ UNCHANGED <<setup, source, agent, rec, disk>>

WriterStopped ==
    /\ instance.pc = "stop" /\ writer.pc = "error"
    /\ instance' = [instance EXCEPT !.pc = "close"]
    /\ writer' = [writer EXCEPT !.pc = "ended"]
    /\ UNCHANGED <<setup, source, agent, rec, disk>>

\* format.close().
FormatClose(fail) ==
    LET x == CloseSegment([rec |-> rec, disk |-> disk, err |-> FALSE], fail)
    IN  /\ instance.pc = "close" /\ fail # "order"
        /\ disk' = IF rec.segment.some THEN x.disk ELSE disk
        /\ instance' = [instance EXCEPT !.pc = "done"]
        /\ source' = [source EXCEPT !.failures = @ + IF fail = "none" THEN 0 ELSE 1]
        /\ UNCHANGED <<setup, agent, writer, rec>>

AgentClose ==
    /\ ~agent.terminate
    /\ agent' = [agent EXCEPT !.terminate = TRUE]
    /\ UNCHANGED <<setup, source, instance, writer, rec, disk>>

\* Mutant of AgentSelects: close() of the instance does not tell it to terminate.
AgentSelectsOnly ==
    /\ agent.pc = "select"
    /\ \/ instance.pc = "done" /\ agent' = [agent EXCEPT !.pc = "pause"]
       \/ agent.terminate /\ agent' = [agent EXCEPT !.pc = "closing"]
    /\ UNCHANGED <<setup, source, instance, writer, rec, disk>>

\* The instance has ended by itself, or is closed.
AgentSelects ==
    /\ agent.pc = "select"
    /\ \/ instance.pc = "done" /\ agent' = [agent EXCEPT !.pc = "pause"]
       \/ agent.terminate /\ agent' = [agent EXCEPT !.pc = "closing"]
    /\ instance' = [instance EXCEPT !.terminate = TRUE]
    /\ UNCHANGED <<setup, source, writer, rec, disk>>

AgentEnds ==
    /\ \/ agent.pc = "closing" /\ instance.pc = "done"
       \/ agent.pc = "pause" /\ agent.terminate
    /\ agent' = [agent EXCEPT !.pc = "ended"]
    /\ UNCHANGED <<setup, source, instance, writer, rec, disk>>

\* restartPause has passed: a new instance, with a queue and a format of its own.
AgentRestarts ==
    /\ agent.pc = "pause"
    /\ agent' = [agent EXCEPT !.pc = "select"]
    /\ instance' = [pc |-> "select", terminate |-> FALSE, reader |-> TRUE]
    /\ writer' = [pc |-> "pull", closed |-> FALSE, queue |-> <<>>]
    /\ rec' = NewFormat
    /\ UNCHANGED <<setup, source, disk>>

-----------------------------------------------------------------------------

\* What goes wrong: a call to the file system, or the order of the video.
Failures == {"none"} \cup
    IF source.failures < MaxFailures THEN {"create", "init", "write", "order"} ELSE {}

Internal ==
    \/ \E fail \in Failures : WriterPulls(fail) \/ FormatClose(fail)
    \/ WriterTerminated \/ InstanceFails \/ InstanceTerminates \/ WriterStopped
    \/ AgentSelects \/ AgentEnds \/ AgentRestarts

Next ==
    \/ \E video, key, newParams \in BOOLEAN, dts \in 1..MaxDTS :
           WriteUnit(video, dts, key, newParams)
    \/ BufferIsFull \/ AgentClose \/ Internal

Spec == Init /\ [][Next]_vars

-----------------------------------------------------------------------------
(* Properties.                                                              *)

TypeOK ==
    /\ setup \in [format: {"fmp4", "mpegts"}, video: VideoCodecs, audio: AudioCodecs]
    /\ source \in [dts: [BOOLEAN -> 0..MaxDTS], units: 0..MaxSamples, params: 0..MaxParams,
                   failures: 0..MaxFailures]
    /\ agent \in [pc: {"select", "pause", "closing", "ended"}, terminate: BOOLEAN]
    /\ instance \in [pc: {"select", "stop", "close", "done"}, terminate: BOOLEAN,
                     reader: BOOLEAN]
    /\ writer.pc \in {"pull", "error", "ended", "panic"} /\ writer.closed \in BOOLEAN
    /\ ToSet(writer.queue) \cup ToSet(rec.pending) \subseteq Sample
    /\ Len(writer.queue) <= QueueSize /\ rec.segment.file \in 0..Len(disk)

\* Nothing is recorded twice and each track is recorded in order, over all the
\* segments: also when a write fails half way and the segment is closed again,
\* and when the agent restarts.
RecordedOnceInOrder ==
    \A i, j \in DOMAIN disk :
        \A k \in DOMAIN disk[i].samples, l \in DOMAIN disk[j].samples :
            LET a == disk[i].samples[k]
                b == disk[j].samples[l]
            IN  (i < j \/ (i = j /\ k < l)) /\ a.video = b.video => a.dts < b.dts

\* What a decoder can start with.
FirstVideoIsKey(samples) ==
    \A k \in DOMAIN samples :
        samples[k].video /\ (\A l \in 1..(k - 1) : ~samples[l].video) => samples[k].key

\* A segment that the video has cut from the one before can be played by
\* itself: its first video sample is a key frame, whatever audio comes late or
\* early.  Others may not be.  In fMP4 a segment that audio has started, the
\* first one or one that it has cut before the stream had video, rejects a key
\* frame that is older; one after a change of the codec parameters starts with
\* the sample that waited; and MPEG-4 video in MPEG-TS starts with any frame.
SegmentsStartWithKeyFrame ==
    \A i \in DOMAIN disk : disk[i].cut => FirstVideoIsKey(disk[i].samples)

\* One file is open at most, the one of the current segment, and none once the
\* instance has ended; a file that was written to without an error was
\* completed (OnSegmentComplete) when it was closed.
FilesAreClosed ==
    /\ \A i \in DOMAIN disk : disk[i].open => instance.pc # "done" /\ rec.segment.file = i
    /\ \A i \in DOMAIN disk : ~disk[i].open /\ disk[i].samples # <<>> => disk[i].complete

\* Once Close() of the agent has returned, nothing reads the stream and no
\* goroutine is left.
NothingLeftRunning ==
    agent.pc = "ended" => ~instance.reader /\ writer.pc = "ended" /\ instance.pc = "done"

\* Close() of the agent returns, whatever the instance and the writer are doing.
RecorderStops ==
    agent.terminate => ENABLED Internal \/ agent.pc = "ended" \/ writer.pc = "panic"
=============================================================================
