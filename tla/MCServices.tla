------------------------------ MODULE MCServices ------------------------------
(***************************************************************************)
(* What surrounds paths and servers, for TLC: the reload of the              *)
(* configuration (ConfReload), the resources that Core builds from it        *)
(* (Resources), the recorder, the playback of recordings, the messages of    *)
(* RTMP, the static sources and the commands of the hooks.  A behaviour      *)
(* follows one of them (kind) while the others stay in their initial states, *)
(* so that their states add up.                                              *)
(***************************************************************************)
EXTENDS Integers

CONSTANTS
    Toggled,
    Handlers, GlobalHandlers, MaxWrites, MaxAPIs,
    Formats, VideoCodecs, AudioCodecs, MaxSamples, MaxDTS, MaxParams, MaxFailures,
    QueueSize, PartDuration, SegmentDuration,
    MaxTime, MaxSegments, MaxParts, Tolerance, Word64,
    ChunkStreams, ControlChunkStream, MessageStreams, Steps, BodyLens,
    InitialChunkSize, NewChunkSize, Word32, Extended, MaxMessages,
    Ids

VARIABLES
    kind,
    rsConf, rsAlive, rsRefs, rsStale, rsOutdated, rsCore, rsAnswer,
    crFile, crWatcher, crCore, crApi, crHandler, crFlying,
    rcSetup, rcSource, rcAgent, rcInstance, rcWriter, rcRec, rcDisk,
    pbRequest, pbAnswer,
    rmWriter, rmWire, rmReader, rmSent, rmReceived,
    ssSource, ssMain, ssReader, ssTracks, ssStream, ssParent, ssDone, ssReload,
    ecHook, ecCmd, ecPool

Resources == INSTANCE Resources WITH
    conf <- rsConf, alive <- rsAlive, refs <- rsRefs, stale <- rsStale,
    outdated <- rsOutdated, core <- rsCore, answer <- rsAnswer

Reload == INSTANCE ConfReload WITH
    file <- crFile, watcher <- crWatcher, core <- crCore, api <- crApi,
    handler <- crHandler, flying <- crFlying

Recorder == INSTANCE Recorder WITH
    setup <- rcSetup, source <- rcSource, agent <- rcAgent, instance <- rcInstance,
    writer <- rcWriter, rec <- rcRec, disk <- rcDisk

Playback == INSTANCE Playback WITH
    request <- pbRequest, answer <- pbAnswer, Word <- Word64

Messages == INSTANCE RTMPMessages WITH
    writer <- rmWriter, wire <- rmWire, reader <- rmReader, sent <- rmSent,
    received <- rmReceived, Word <- Word32

Sources == INSTANCE StaticSources WITH
    source <- ssSource, main <- ssMain, reader <- ssReader, tracks <- ssTracks,
    stream <- ssStream, parent <- ssParent, done <- ssDone, reload <- ssReload

Commands == INSTANCE ExternalCmds WITH hook <- ecHook, cmd <- ecCmd, pool <- ecPool

\* What a reload flips is a switch.
ASSUME ResourcesAssumption == Toggled \subseteq Resources!Switches

\* The file is written and the API replaced a number of times; the mark that a
\* mutex has no owner names no request.
ASSUME ReloadAssumption ==
    MaxWrites \in Nat /\ MaxAPIs \in Nat \ {0} /\ "none" \notin Handlers

\* The marks of a hook that is off or has no command name no command.
ASSUME CommandsAssumption == Ids \cap {"none", "off"} = {}

\* The formats are those that agentInstance knows, and the bounds are numbers.
ASSUME RecorderAssumption ==
    /\ Formats \subseteq {"fmp4", "mpegts"}
    /\ {MaxSamples, MaxDTS, MaxParams, MaxFailures, QueueSize} \subseteq Nat

\* A chunk has at least one byte, and timestamps have a width.
ASSUME MessagesAssumption ==
    /\ {InitialChunkSize, NewChunkSize, Word32} \subseteq Nat \ {0}
    /\ Extended \in Nat /\ Steps \subseteq Int /\ BodyLens \subseteq Nat

\* Times are numbers.
ASSUME PlaybackAssumption == {MaxTime, MaxSegments, Tolerance} \subseteq Nat

rsVars == <<rsConf, rsAlive, rsRefs, rsStale, rsOutdated, rsCore, rsAnswer>>
crVars == <<crFile, crWatcher, crCore, crApi, crHandler, crFlying>>
rcVars == <<rcSetup, rcSource, rcAgent, rcInstance, rcWriter, rcRec, rcDisk>>
pbVars == <<pbRequest, pbAnswer>>
rmVars == <<rmWriter, rmWire, rmReader, rmSent, rmReceived>>
ssVars == <<ssSource, ssMain, ssReader, ssTracks, ssStream, ssParent, ssDone, ssReload>>
ecVars == <<ecHook, ecCmd, ecPool>>
vars == <<kind, rsVars, crVars, rcVars, pbVars, rmVars, ssVars, ecVars>>

\* The initial states of the services that a behaviour does not follow do not
\* matter: one of each is enough.
Init ==
    /\ kind \in {"resources", "reload", "recorder", "playback", "messages", "sources",
                 "commands"}
    /\ Resources!Init /\ (kind # "resources" => rsConf = Resources!Switches)
    /\ Reload!Init
    /\ Recorder!Init
    /\ kind # "recorder" =>
        rcSetup = [format |-> "fmp4", video |-> "H264", audio |-> "MPEG4Audio"]
    /\ Playback!Init
    /\ Messages!Init
    /\ Sources!Init /\ (kind # "sources" => ssSource = "rtsp")
    /\ Commands!Init

Next ==
    /\ UNCHANGED kind
    /\ \/ /\ kind = "resources" /\ Resources!Next
          /\ UNCHANGED <<crVars, rcVars, pbVars, rmVars, ssVars, ecVars>>
       \/ /\ kind = "reload" /\ Reload!Next
          /\ UNCHANGED <<rsVars, rcVars, pbVars, rmVars, ssVars, ecVars>>
       \/ /\ kind = "recorder" /\ Recorder!Next
          /\ UNCHANGED <<rsVars, crVars, pbVars, rmVars, ssVars, ecVars>>
       \/ /\ kind = "playback" /\ Playback!Next
          /\ UNCHANGED <<rsVars, crVars, rcVars, rmVars, ssVars, ecVars>>
       \/ /\ kind = "messages" /\ Messages!Next
          /\ UNCHANGED <<rsVars, crVars, rcVars, pbVars, ssVars, ecVars>>
       \/ /\ kind = "sources" /\ Sources!Next
          /\ UNCHANGED <<rsVars, crVars, rcVars, pbVars, rmVars, ecVars>>
       \/ /\ kind = "commands" /\ Commands!Next
          /\ UNCHANGED <<rsVars, crVars, rcVars, pbVars, rmVars, ssVars>>

Spec == Init /\ [][Next]_vars

\* The goroutines of the core, of the watcher and of the handlers of the API run.
ReloadFairness ==
    /\ WF_crVars(Reload!Load \/ Reload!APIReloadConf) /\ WF_crVars(Reload!FileChanged)
    /\ WF_crVars(Reload!WatcherEvent) /\ WF_crVars(Reload!GiveUp)
    /\ \A h \in Handlers :
        WF_crVars(Reload!PathEditArrives(h)) /\ WF_crVars(Reload!PathEdit(h))

\* The reload alone, with the fairness of its goroutines.
ReloadSpec == Init /\ kind = "reload" /\ [][Next]_vars /\ ReloadFairness

\* The playback alone.
PlaybackSpec == Init /\ kind = "playback" /\ [][Next]_vars

-----------------------------------------------------------------------------
(* Properties: those of the modules, each for the behaviours that follow its *)
(* module.                                                                   *)

\* The state of each service has its type.
TypeOK ==
    /\ kind = "resources" => Resources!TypeOK
    /\ kind = "reload" => Reload!TypeOK
    /\ kind = "recorder" => Recorder!TypeOK
    /\ kind = "playback" => Playback!TypeOK
    /\ kind = "messages" => Messages!TypeOK
    /\ kind = "sources" => Sources!TypeOK
    /\ kind = "commands" => Commands!TypeOK

\* Between two reloads, the resources that run are those that the configuration
\* asks for, built from its current values (createResources, closeResources);
\* they point to resources that run, and a path manager is told of the servers
\* that were created after it.  The RTMPS server in the API is the exception.
ResourcesMatchConf ==
    kind = "resources" => Resources!RunningMatchesConf /\ Resources!PointersAreCurrent

\* Core, the watcher of the file and the requests to the API wait for each
\* other on channels and on the mutex of the API, and none of them is left
\* waiting when the others have ended, but for the mutual wait of
\* ReloadIsFinished.  Run() of a static source returns, has told its handler and
\* leaves no goroutine, but for those that read the tracks of WebRTC; a command
\* of a hook ends with its event, and the end of the program waits for no other
\* than those that nobody can stop.
NobodyLeftWaiting ==
    /\ kind = "reload" => Reload!NobodyLeftWaiting
    /\ kind = "sources" => Sources!NobodyLeftWaiting /\ Sources!ReturnsClean
    /\ kind = "commands" => Commands!NobodyLeftWaiting /\ Commands!EveryRestartIsOwned

\* When nothing is under way, the API shows the configuration that Core runs.
APIShowsWhatRuns == kind = "reload" => Reload!APIShowsWhatRuns

\* A write of the file is never lost: it is loaded, or an event that will load
\* it waits, or it came too soon after the one before.
WritesAreSeen == kind = "reload" => Reload!WritesAreSeen

\* No sample is recorded twice or out of order, a segment that the video has cut
\* from the one before starts with a key frame, files are closed, and reported complete,
\* when their segment ends, and an agent that has ended leaves no goroutine and
\* no reader behind.
RecordingIsRight ==
    kind = "recorder" =>
        /\ Recorder!RecordedOnceInOrder
        /\ Recorder!SegmentsStartWithKeyFrame
        /\ Recorder!FilesAreClosed
        /\ Recorder!NothingLeftRunning

\* Close() of the recorder returns.
RecorderStops == kind = "recorder" => Recorder!RecorderStops

\* The list of the recordings has what was recorded, a request is served from
\* the right segments, and what is cut out of a file is what was asked.
PlaybackIsRight ==
    kind = "playback" =>
        Playback!ListIsRight /\ Playback!GetIsRight /\ Playback!FilesAreServedRight

\* Messages of RTMP are read as they were written.
ReceivedAsSent == kind = "messages" => Messages!ReceivedAsSent

\* A change of the configuration that Core has taken is applied in the end.
ReloadIsFinished == Reload!ReloadIsFinished

\* A sample of the first segment is played at its time.
SamplesKeepTheirTime == Playback!SamplesKeepTheirTime
=============================================================================
