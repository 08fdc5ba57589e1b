# MediaMTX in TLA+

A verification project for [MediaMTX](../src/README.md), a media server written
in Go: publishers send live streams to *paths*, readers receive them over RTSP,
RTMP, HLS, WebRTC and SRT, and paths can also pull their stream from a *static
source* (a camera, another server), possibly only on demand.

The modules are checked with TLC on small instances (`*.cfg`); what matters most
is proved with TLAPS for every instance.

    tlc -config MCPath.cfg MCPath        # a run
    tlapm PathProofs.tla                 # the proofs of a module

## 1. The system

MediaMTX is a set of goroutines, each of which owns its state and serves
requests from unbuffered channels in a `select`. A request carries a channel for
its response; caller and callee also watch contexts, so that nobody waits for a
goroutine that has ended. The hard behaviours come from this style: which
requests may arrive in which state, which goroutine waits for which, and what
happens when one of them ends in the middle.

| component | state | operations | interacts with |
|---|---|---|---|
| path (`core/path.go`) | source, stream, readers, requests on hold, two on-demand state machines with two timers each, hooks, recorder | describe, add/remove reader, add/start/stop/remove publisher, source ready / not ready, timers, reload, teardown | path manager (ready, not ready, close), handler (start, stop), sessions (Close) |
| static source handler (`core/static_source_handler.go`) | context, retry timer, configuration, instance | start, stop, SetReady, SetNotReady, reloadConf, retry | path, source instance |
| static sources (`staticsources/*`) | a connection | Run | handler |
| path manager (`core/path_manager.go`) | map of paths, map by entry, path entries | reload, describe, add reader / publisher, close path, path ready / not ready | paths, HLS server, servers, API, Core |
| Core (`core/core.go`) | all servers and resources | create, close and reload resources | everything |
| HLS server (`servers/hls`) | muxers, requests per muxer | path ready / not ready, requests, close of idle muxers | path manager, paths |
| RTSP, RTMP, SRT, WebRTC servers | connections, sessions | accept, publish, read, kick, close | path manager, paths, streams |
| stream, async writer | readers of each format, a ring buffer per session | AddReader, RemoveReader, WriteUnit; Push, Start, Stop | sources, sessions, recorder |
| recorder, cleaner, playback | segments on disk | write, rotate, restart, delete old ones, serve a time range | stream, file system |
| configuration, watcher, API | the configuration | load, validate, patch | Core |
| external commands, hooks | processes | start, restart, close | paths, sessions |
| protocol libraries of the project (RTMP chunks, MPEG-TS, WebRTC) | parser state | read, write | servers, sources |

What makes each correct:

* **path** – a stream exists exactly while somebody sends it; nobody is left
  attached to a stream that is gone; nobody waits for ever; what was started on
  demand is stopped when nobody needs it, not before and not twice; `maxReaders`
  holds; a destroyed path leaves nothing behind.
* **handler** – at most one run of the source exists; the path sees SetReady and
  SetNotReady in alternation and never after stop(); stop() always returns.
* **path manager** – both maps describe the living paths; two paths never serve
  the same name; a reload and a shutdown finish; reloads are applied.
* **HLS server** – one live muxer per path, no automatic one without a stream, and
  never a request that is not answered.
* **RTSP, RTMP, SRT, WebRTC** – however a session ends, it leaves the path, its hook
  and the map of its server; a client is answered once; nobody waits for ever.
* **Core** – after a reload the resources that run are those of the configuration
  and point to each other; nobody keeps a pointer to a closed one.
* **watcher, API** – no change of the file is lost; the API shows what runs.
* **static sources, commands** – Run() ends with the goroutine that reads, has closed
  what it reads from and has told the handler; a command ends with the event it was
  started for.
* **stream / async writer** – no unit is delivered after RemoveReader; a slow
  reader loses units, never their order.
* **recorder / playback** – no sample is recorded twice or out of order, segments
  start with a key frame, files are closed; what was recorded is found again.
* **RTMP chunks** – the reader returns the messages that were written.

The hazards, each at its line, are in `PROJECT.json`.

## 2. Modules

| module | what it is |
|---|---|
| `Path` | `core/path.go`: one action per case of the `select` of `runInner()` (split where the handler takes different ways), and the teardown |
| `PathContract` | what a path promises to readers, whatever its source is |
| `StaticSourceHandler` | `core/static_source_handler.go` with the path and the instance as separate goroutines |
| `SourceContract` | the alternation of start, ready, not ready and stop between a path and its source |
| `StaticSources` | `Run()` of the seven static sources |
| `PathManager` | `core/path_manager.go` with paths, clients and reloading goroutines |
| `HLSServer`, `RTMPServer`, `SRTServer`, `RTSPServer`, `WebRTCServer` | the servers, their sessions and their clients |
| `Codecs` | the choice of a codec that several servers make |
| `Resources` | `core/core.go`: which resources a configuration needs and which a reload closes and creates |
| `ConfReload` | the file watcher, the API and the loop of Core |
| `Recorder` | the recording of a stream, with its queue |
| `Playback` | the choice of segments and the cutting of files, as functions |
| `RTMPMessages` | RTMP messages as chunks |
| `ExternalCmds` | the commands of the hooks and their pool |
| `PathProofs` | `Path` keeps its types and never panics; its stream, its sessions and its on-demand state agree; `maxReaders` holds; it implements `PathContract`; its requests on hold |
| `StaticSourceHandlerProofs` | the invariants of the handler; it implements `SourceContract` |
| `PathManagerProofs` | the maps of the path manager describe the living paths, one per name |
| `SessionServersProofs` | the sessions of RTMP, SRT, RTSP and WebRTC (lemmas) |
| `ServersProofs` | the muxers of HLS, and the theorems about the five servers |
| `ServicesProofs` | `Resources`, `ConfReload`, `StaticSources`, `ExternalCmds`, and the requests of `Playback` |
| `RecorderProofs` | what the recorder leaves on the disk |
| `MessagesProofs` | RTMP messages are read as they were written; the types of all services |
| `MC*` | instances for TLC |

### Path

A handler of a path runs to its end before the next request is taken, and its
callers block meanwhile, so a handler is one step, including the `shouldClose()`
that follows it in `runInner()`. The end of a path is two steps because sessions
act in between: `Terminate` (or `shouldClose()`) leaves `runInner()`, `Teardown`
is the rest of `run()`.

The fields of `struct path` are grouped into records (`stream`, `clients`,
`held`, `static`, `demand`). Beside them the model keeps what the path causes
elsewhere: `clients.attached` are the sessions that were given a stream and have
not called RemoveReader yet, `clients.stale` those of them whose stream is no
longer `pa.stream`, `clients.told` and `told` the sessions on which `Close()` was
called, `static.running` and `static.setReady` the handler, and the `panic`
fields record the calls that the code answers with a panic: `start()` on a
running handler, `stop()` on a stopped one, `onNotReadyHook` or `onUnDemandHook`
when nil or already called.

Of the configuration, the settings that `path.go` branches on are kept, with the
exclusions of `validate()`. Timers are armed or not, and may fire whenever they
are armed. `setReady()` may fail (`stream.New()`). A static source is free to
report ready and not ready in alternation while it runs; the SRT source never
reports not ready (it has no such call), and has a value of its own.

Left out: what a description contains, fallback URLs, queries, the environment of
commands, `doAPIPathsGet` (reads only).

### StaticSourceHandler

Three goroutines (path, handler, instance) and two kinds of short ones (a pending
`reloadConf()`, a reload forwarded to the instance). A rendezvous on an
unbuffered channel is one step of both sides. Configurations are version
numbers, contexts have a generation, because `start()` replaces `s.ctx`.

### PathManager

The manager's goroutine, paths as goroutines that announce themselves, close
because nobody uses them or because they are told to, clients that look up a path
first and call it afterwards, and the goroutines that carry a reload to a path.
`doReloadConf()` is split where it blocks in `path.wait()`. Settings are a pair:
what can be updated in place (`pathConfCanBeUpdated`) and what cannot. Which of
several matching regular expressions applies is any of them: the code iterates
over a Go map. For the same reason the paths that a reload creates are numbered in
any order (`NumberingsOf`); a number is the identity of a path in the model.

Authentication and the API requests (which only read) are left out; the HLS server
that the manager notifies is the subject of `HLSServer`.

### The servers

In all five, a *session* is a record of the program counters of its goroutines, of
what its context says (`cancelled`; a session's context is a child of the
server's, `Done`), and of what it holds elsewhere: `attached` (the path has it as
a reader or publisher), `reading` (the hook of a reader was started and not
undone), and its entry in the map of the server. A rendezvous on an unbuffered
channel is one step of both sides, with the alternative of the context as a second
disjunct wherever the code has one in its `select`, and without where it has not.
Handlers that defer their cleanup return in one step that includes it. The path
is seen through its answers: it may keep a reader on hold (`adding`), refuse it
(`pause`, the delay after a failed authentication, or an error) and close a
session at any time (`PathCloses`). An identity is used again once nothing of the
session is left. Streams are the codecs they carry: which of them a session can
forward decides whether it starts.

* `HLSServer` follows one path name. A muxer has `run()` (`ctl`) and `runInner()`
  (`inner`) with their two channels, the queue of requests that wait for it, the
  timer that recreates an automatic muxer, and the announcements of the path
  manager, which are two calls that may be under way at once (`path.calls`).
  `HasRoom`, the bound on muxers, keeps one for an announcement that is under way.
* `RTMPServer` has the loop, the listener and `run()` / `runReader()` of a
  connection, `SRTServer` also the listener that decides one connection request
  at a time: it waits for the answer of the connection (`answered`) and then hands
  over the socket (`exchange`), if `Accept()` of the library gives one. It may give
  none, or fail, after the request was granted (`NoSocket`); an error ends the
  listener and, through `acceptError()`, the loop.
* `RTSPServer`: gortsplib, which is external, runs the sessions, admits a request
  only in the states that allow it, and calls the handlers. `Request` is that
  admission, the `On…` actions the handlers; `KickFinds` and `KickCloses` are
  `APISessionsKick()`, which runs in the goroutine of the API.
* `WebRTCServer` has the POST request that creates a session and waits for its
  answer, PATCH requests with candidates and the goroutine that reads them, DELETE,
  and the peer connection: start, gathering of candidates, the answer, the
  connection, the tracks of a publisher (`count` announced, `tracks` arrived) and the
  timeouts. A lost peer connection does not come back.

### Resources and ConfReload

`Resources` keeps, of each resource of Core, whether it runs (`alive`), which
others it points to and whether those still run (`refs`, `stale`), and which
parameters have changed since it was built (`outdated`). `BuiltFrom` and
`PointsTo` are read off the literals in `createResources()`, `Compared` and
`ClosedWith` off the conditions of `closeResources()`: the invariant compares the
two lists, which the code keeps by hand. Resources are closed and created one at a
time, in the order of the code; the creation may fail, which ends the program.

`ConfReload` has the file, the watcher with the interval in which it drops events and
the error that ends it and closes its signal (`WatcherFails`, `SignalClosed`),
the handlers of the API, its mutex and its copy of the configuration, the
goroutines that carry a patch of the global settings to Core, and Core. A
configuration is the version of the file and the set of edits in it. A reload that
changes the global part replaces the API (`ReplaceAPI`), which is how
`closeResources()` and `createResources()` appear here.

### Recorder, Playback, RTMPMessages

`Recorder`: the agent restarts its instance after an error; the instance reads the
stream through the queue of `asyncwriter`, whose goroutine calls the format. A
sample has a track, a time, a key-frame flag and the version of its codec
parameters. The units of a track come in the order of their times, as one encoder
makes them; between the tracks there is no order, so that one may lag behind the other
(as in `TestAgentFMP4NegativeDTS`). A file operation may fail at any of its call
sites, and the unit of a video track may be refused because its time does not follow
(`fail` says which). In MPEG-TS, H264 and H265 wait for a first key frame and MPEG-4 and
MPEG-1 video do not (`VideoCodecs`). fMP4 keeps a sample until the next one gives its duration, collects samples
in a part and parts in a segment; MPEG-TS buffers and flushes, and after an error the
buffer writes nothing any more, as `bufio.Writer` does (`Cleared`). AC-3 in MPEG-TS is
written without setting up a segment, as in the code.

`Playback` has functions: `FindSegments`; `MergeConcatenatedSegments` and the loop of
`onGet()` as recursive functions over the segments; `FMP4SeekAndMux` and `FMP4Mux` as
folds over the parts of a file. A state is a request with the recordings there are,
and then its answer. Segments last up to `MaxTime`, so that they may overlap or lie
inside each other, as they do after a change of the clock. `onGet()` takes the
duration of each segment off what it has to serve, so that what overlapping segments
have in common counts twice; `GetIsRight` says so by adding up the time served.
Times of fMP4 are modulo `Word`.

`RTMPMessages` has the writer, which leaves out of a chunk header what the chunk
stream has said before, and the reader. Bytes of bodies have an identity, so that a
wrong chunk size or a wrong length shows. Timestamps have a small width and a small
limit above which they are moved behind the header.

### StaticSources and ExternalCmds

The sources share one shape, `Run()` and a goroutine that reads, and differ in who
calls SetReady and SetNotReady, who notices what, and whether a configuration is
received; these differences are tables at the head of `StaticSources`. WebRTC has one
goroutine per track instead of a reader, which Run() does not wait for (`unjoined`);
`tracks` says whether some run, with the client of the present Run() or with one that is
closed.

`ExternalCmds` has the five kinds of hooks, each with the command that it started or
none, the commands with their goroutine and their process, and the pool that Core
waits for at the end.

### How they fit together

`Path` assumes of its static source the alternation that `SourceContract` states;
`StaticSourceHandler` is shown to implement `SourceContract` from what the path
sees, and `StaticSources` is shown to give the handler the alternation it takes
from an instance. `Path` is shown to implement `PathContract`, the view readers
have. `PathManager` uses a path only as a goroutine that serves, announces and
closes; the servers use path and manager through their answers, and `HLSServer`
through the announcements too.

`MCServers` and `MCServices` check several modules in one run. The modules in it
share no state, so a product would only multiply their states: a variable `kind`
picks the one that a behaviour follows, the others stay in an initial state, and
the states add up.

## 3. Runs

| run | shows | bounds |
|---|---|---|
| `path` | the safety invariants of `Path`; `StreamInv` is the inductive invariant of the proofs | 3 readers (symmetric), 2 publishers (symmetric), 1 describer, 9 configurations |
| `path_contract` | `Path` implements `PathContract`; requests on hold while something starts are answered; what is unused is stopped | 2 readers, 2 publishers, 1 describer, the 8 configurations without the SRT source, no symmetry |
| `path_hold` | **violation** of `HoldAnswered` | 1 on-demand configuration |
| `static_source_handler` | safety, `SourceContract`, stop() returns, calls are answered | 3 starts, 2 reloads |
| `static_source_handler_crash` | **violation** of `ReloadsDoNotCrash` | 1 start, 1 reload |
| `path_manager` | maps, living paths, one path per name; reload, shutdown and clients' calls finish | 1 name, 1 regular expression, all_others, 6 configurations, 1 reload, 3 paths, 1 client |
| `path_manager_reload` | **violation** of `ReloadIsApplied` | 1 name, 2 reloads, 2 configurations |
| `servers` | sessions of the five servers leave nothing behind, can be found, and leave nobody waiting | 2 muxers and 2 requests for HLS; 2 connections (RTMP, SRT); 2 sessions (RTSP, WebRTC; symmetric); 2 sets of codecs each, one that can be forwarded |
| `hls_close` | **violation** of `HLSCloseReturns` | 2 muxers, 1 request |
| `services` | `Resources`, `ConfReload`, `Playback`, `RTMPMessages`, `StaticSources`, `Recorder`, `ExternalCmds` | see below |
| `reload_deadlock` | **violation** of `ReloadIsFinished` | as `services` |
| `playback_time` | **violation** of `SamplesKeepTheirTime` | as `services` |

What each property says is in the comment above its definition.

Why the bounds are enough. In a path, what sessions do to each other shows with
two of a kind: a publisher overriding another, a reader leaving while another
stays; the third reader lets a queue of requests on hold be longer than the limit
of one reader. The configurations are one per combination that takes a different
way through the handlers. A handler needs two starts for a leftover of the first
to meet the second, and a third to come back from that; two reloads can overtake
each other. The manager needs a name that leaves an entry and comes back to it
while its path closes by itself, for which one reload and three paths of the name
suffice. `MaxPaths` keeps room for the paths that reloads create, so the bound
never stops a reload.

In a server, sessions meet only in its loop, its maps and, for SRT, its listener:
two are enough for one to be served while another waits. Identities are used
again, so that the number of sessions over time is not bounded. The second muxer is
the one that takes the place of one that is closing.

`services`: five switches may be flipped by reloads, among them the pair of RTMP
encryption and the API, in any sequence of reloads, and any parameter may change;
three API requests, one of them global, two writes of the file and two APIs, so
that an edit can be under way while Core reloads and while its API is replaced;
four units over parts and segments of one time unit, with times up to three in each of
two tracks, a queue of one, one change of parameters and one failure, in fMP4 and with
the four combinations of codecs in MPEG-TS, so that a segment ends by time, by a change
and by an error, that it is cut by audio and then meets a late key frame, and that units
are lost;
three segments that last up to four units and files of up to two
parts, so that gaps, overlaps, segments inside others and requests that begin and end
inside a part occur; three messages over two
chunk streams and two message streams, with timestamps modulo 8 and an
extended-timestamp limit of 4, so that wraps and both forms of header occur
together with a change of the chunk size; two commands at a time.

Deadlock checking is off: a closed path, a finished handler, a manager or a server
that has ended, and a served request really stop. Waiting that should not be is
stated by properties instead (`NobodyLeftWaiting`): whenever no goroutine of the
component can move by itself, nobody waits in it. This needs no fairness.

Fairness is stated with each specification. Timers that stay armed fire, and
goroutines that can go on do (weak fairness). A session that was told to close
calls RemoveReader or RemovePublisher, as the session goroutines of all servers
do on their way out. Go's `select` chooses at random among the ready cases, so a
goroutine that serves requests does not pass over a cancelled context, or over
one waiting caller, for ever (strong fairness, only for those cases). Nothing
forces a source or a publisher to become ready. `UnusedIsStopped` excepts
behaviours in which publishers come and go for ever: every start of a publisher
re-arms the close timer. `hls_close` and `reload_deadlock` assume that every
goroutine of the component that can move does: the violations are goroutines that
cannot.

## 4. What the checks found

With a run that shows it:

* **A reader on hold for ever** (`path_hold`). A `runOnDemand` command starts a
  publisher, the publisher leaves; the state machine stays `ready` or `closing`.
  A reader that arrives now goes on hold, but no timer is armed since the state is
  not `initial`, and the close timer stops the command without answering.
* **A reload kills the server** (`static_source_handler_crash`). A setting that can
  be updated in place changes for a path whose on-demand source was never
  started: `reloadConf()` calls `Done()` on a nil context.
* **Reloads overtake each other** (`path_manager_reload`): they travel in
  independent goroutines.
* **Close() of the HLS server hangs** (`hls_close`): `run()` of a muxer waits for
  `runInner()` on `innerErr`, and `runInner()` for `run()` on `innerReady`.
* **Core and the API wait for each other** (`reload_deadlock`): the handler of a path
  edit holds the mutex while it sends to Core; Core, which reloads the file, wants
  the mutex.
* **Playback moves the base time of a part** (`playback_time`) to its last sample:
  `baseTimeSet` is never set.

Met while modelling, in the models as the code has them and excepted by the
properties where noted:

* The SRT source does not report that it lost the connection
  (`staticsources/srt/source.go:93`); on demand, its second SetReady replaces the
  stream and schedules the close although readers are connected. `ReportsNotReady`
  and `ReturnsClean` except it.
* A reload of settings is lost while the on-demand source is stopped; the next start
  uses the old ones (`core/static_source_handler.go:229`).
* A path created from `all_others` keeps those settings when an entry of its own is
  added (`core/path_manager.go:202`).
* A kick of an RTSP session calls `onClose()` in the goroutine of the API
  (`servers/rtsp/server.go:418`); a handler that runs at the time may leave the
  session on the path. `EndedIsClean` excepts kicked sessions.
* A refused WebRTC candidate is answered twice and the second answer blocks its
  goroutine (`servers/webrtc/session.go:640`); later PATCH requests of the session
  wait for its end. `NobodyLeftWaiting` excepts them.
* An SRT request that the callback has granted may get no socket: `Accept()` returns
  none, or an error (`servers/srt/listener.go:40`). An encrypted request for a path
  without a passphrase, for one, passes `srtCheckPassphrase()`
  (`servers/srt/conn.go:31`) and is refused by the library afterwards. The connection
  waits for `setConn()` and stays on the path, as its publisher perhaps, until the API
  kicks it, the path closes it or the server ends. `NobodyLeftWaiting` excepts it;
  `EndedSessionsAreClean` and `LiveSessionsAreListed` hold for it.
* The goroutines of the tracks of a WebRTC source are not awaited by `Run()`
  (`staticsources/webrtc/source.go:79`): they may write to the stream after SetNotReady,
  when the path has closed it, until they notice that their client is closed.
  `ReturnsClean` excepts them and bounds them: none has an open client once Run() has
  returned, and they end by themselves.
* A segment of fMP4 that audio has started, the first one or one that it has cut before
  the stream had video, drops a first key frame that is older than it
  (`record/format_fmp4_track.go:34`), and its video starts with what follows; after a
  change of parameters a segment starts with the sample that waited; MPEG-4 and MPEG-1
  video in MPEG-TS start with any frame (`record/format_mpegts.go:137`).
  `SegmentsStartWithKeyFrame` speaks of the segments that the video has cut.
* An error of fsnotify (more events than it can hold, for instance) ends the watcher,
  which closes its signal; Core receives from a closed channel at once, again and again,
  and loads the file each time although nobody has written it
  (`confwatcher/confwatcher.go:108`). `WritesAreSeen` and `APIShowsWhatRuns` hold all the
  same; the trace of `reload_deadlock` may begin with such a load, or with a write.
* MPEG-1 audio in fMP4 is recorded at twice its time (`record/format_fmp4.go:707`); in
  the model it is a track that runs ahead.
* The SRT listener drops a socket without closing it when the connection has ended
  before the handover (`servers/srt/conn.go:375`).
* The API keeps a pointer to a closed RTMPS server when only that one is recreated
  (`core/core.go:803`). `PointersAreCurrent` excepts it.
* A patch of the global settings sends its configuration after it has released the
  mutex and may be overtaken (`api/api.go:291`). `APIShowsWhatRuns` and
  `WritesAreSeen` speak of behaviours without one.
* AC-3 audio in MPEG-TS is written without a segment being set up; a stream that has
  nothing else fills the buffer and writes to a nil segment
  (`record/format_mpegts.go:245`).
* With two tracks, the last one alone decides how much of a file was played, and the
  unsigned subtraction may wrap (`playback/fmp4.go:247`); the duration of a file is
  taken from its last part only.
* A writer of RTMP messages that starts over with a type 0 chunk keeps its last delta
  and may go on with a type 3 chunk, which the reader refuses
  (`protocols/rtmp/rawmessage/writer.go:135`). `ReceivedAsSent` excepts messages
  whose stream changes or whose time goes back.
* `Run()` of the camera does not notice that its reader has ended
  (`staticsources/rpicamera/source.go:129`).
* The command of the opposite event of a hook is never stopped, so that the wait of
  Core for its pool may not end; on unix the exit code of a command is discarded.
* A peer connection that is connected a second time would close a channel twice
  (`protocols/webrtc/peer_connection.go:107`). Not modelled.

## 5. Proofs

Each proof module extends the module it is about. The statements hold for every
value of the constants that satisfies the named assumptions next to their
declarations, which say no more than that bounds are numbers, that sets that the
code cannot have empty are not, and that the marks "none", "nil" and the like are
not names of anything. TLC evaluates them in the runs. Every inductive invariant
below was checked by TLC on the bounds of section 3 before it was proved, but for
`MessagesInv`, which says that a sequence of places exists and cannot be enumerated. A proof
has a lemma or a step per action; what a helper returns, or what it means that only
one record of a function changes, is a lemma of its own.

### Path

For any sets of readers, describers, publishers and valid configurations
(`ConfsAssumption`, `ClientsAssumption`: `Readers` is finite). In `PathProofs`:

* `TypeCorrect` – `Spec => []TypeOK`. The lemmas `StreamOps`, `ClientOps`,
  `StaticOps`, `DemandOps`, `HeldOps` and `FittingType` say once what each helper
  returns; `NextType` has one step per action.
* `PanicFreedom` – `Spec => []NoPanic`. `NoPanic` alone is not inductive: whether
  `stop()` panics depends on whether the handler runs, which the code infers from
  the on-demand state and the configuration. The inductive invariant `PanicInv`
  adds what the code silently relies on: the source and the state machines match
  the configuration (`SourceMatchesConf`), the not-ready hook is in place wherever
  it will be called (`HookInPlace`), each timer is armed exactly in its state
  (`TimersMatchState`), and a source or command runs exactly while its state is not
  initial (`DemandMatchesState`). It holds for the SRT source too.

Also in `PathProofs`:

* `StreamSafety` – `Spec => []StreamInv`, and from it `StreamFollowsSource`,
  `ReadersAreTold`, `PublishersAreTold`, `CloseIsScheduledOnlyWhenUnused` and
  `NothingLeftBehind`, which state `StreamMatchesSource`, `NoOrphanReader`,
  `NoOrphanPublisher`, `CloseOnlyWhenUnused` and `ClosedIsClean`. None of these is
  inductive alone. That nobody is orphaned when `setReady()` replaces the stream
  needs that there was no stream before, which is `StreamMatchesSource`; that
  every holder of a lost stream is told needs that `pa.readers` is exactly the set
  of sessions on the current stream (`ReadersHoldStream`); that a request on hold
  meets a starting source needs the on-demand state to follow the hook of the
  stream (`HookInPlace` of `PanicInv` with `ReadyEffectsMatchStream`). Two lemmas
  carry the argument: `NotReadyLoses` (after `setNotReady()` there is no stream
  and everybody on it has been told) and `ClosesWhenIdle` (a handler that checks
  `shouldClose()` leaves no idle dynamic path). The properties about streams are
  conditional on a source that reports when it stops (`ReportsNotReady`); an SRT
  source does not (section 4).

`TimersMatchState`, `DemandMatchesState`, `ReadersHoldStream`, `HeldOnlyWhileStarting`
and `NoIdleDynamicPath` are parts of `StreamInv`: the run `path` checks them with it
and `StreamSafety` proves them.

About the readers and the contract:

* `ReadersWithinLimit` – `Spec => []MaxReadersRespected`. `NextReaders` says that a
  step leaves the readers, removes some, lets one join below the limit, or admits
  those on hold that fit; `FittingWithinLimit` that the last respects it.
* `ReadyEffectsFollowStream` – `Spec => []ReadyEffectsMatchStream`, from `StreamInv`.
* `PathImplementsContract` – `Spec /\ ReportsNotReady => KeepsContract`: every step
  of a path maps to a step of `PathContract` or to none. `ReportsNotReady` is a
  condition on the configuration, and every configuration but the SRT source meets
  it. `ContractInv` is `StreamInv` with the limit.
* `FittingIsLoopAlways` – `Spec => []FittingIsLoop`: when setReady() answers the
  requests on hold, the set `Fitting` that `Path` admits in one step is what the loop
  of consumeOnHoldRequests() (`ConsumeOnHold`, a recursive function over the queue)
  admits request by request. It rests on two inductions. Over the behaviour: nobody
  is on hold twice (`HeldOnce`), because `AddReader` blocks its caller. Over the queue:
  after n rounds the loop has admitted those of the first n that fit, and either it
  has refused none of them or there is no room left (`NoneRefusedOrFull`); `LoopRound`
  is the step. The prover has no induction that takes a formula, so `Induction` states
  it for a set of numbers, from the least element of its complement.

### StaticSourceHandler

* `HandlerTypeCorrect`, `NoInstanceLeftBehindAlways`, `RequestsAreCurrentAlways` –
  `TypeOK`, `NoInstanceLeftBehind`, `RequestsAreCurrent`. The inductive invariant
  `HandlerInv` adds how the positions of the three goroutines go together: run() is in
  its select or in a call of the path while the source is started
  (`ContextMatchesRunning`), an instance exists from recreate() until its error was
  received (`InstanceMatchesHandler`), and a call of the instance is with the handler
  or with the path, never with both (`CallsMatch`).
* `HandlerImplementsContract` – `Spec => KeepsSourceContract`. With `ReportsNotReady`
  this is the assumption that `Path` makes of its static source, proved of the
  handler.

### PathManager

`ManagerTypeCorrect`, `PathsAreListedAlways`, `OnePathPerNameAlways` – `TypeOK`,
`PathsAreListed`, `OnePathPerName`, for any names, entries and settings
(`PathManagerAssumption`). The inductive invariant `ManagerInv` adds that the maps hold
the last path created for each name (`ListedAreCurrent`), that a path serves until the
manager has removed it (`ServingAreListed`), and what is true while doReloadConf() is
between two paths or waits for one (`RemovalsAreListed`, `AwaitedHaveEnded`).

### Servers

`ServersTypeCorrect`, `EndedSessionsAreCleanAlways`, `LiveSessionsAreListedAlways`,
`NoAutomaticMuxerWhenNotReadyAlways` – `TypeOK`, `EndedSessionsAreClean`,
`LiveSessionsAreListed`, `NoAutomaticMuxerWhenNotReady` of `MCServers`, for any number
of sessions, requests and muxers (`ServersAssumption`). In RTMP, SRT, RTSP and WebRTC
a session alone has an invariant (`GoodRTMPConn` and so on) that says, for each
position of its goroutines, what it holds on the path, in the map and of the hook, also
while it waits for a socket that does not come; SRT adds what the listener knows, WebRTC what requests wait for. In HLS the server
hears of the path late: `HLSInv` says that announcements under way alternate and that
the last one is what the path is (`CallsAlternate`), and that an automatic muxer in
the map belongs to a path that is ready or to an announcement still to come
(`AutomaticMuxerIsAnnounced`). `RequestsServedByStartedMuxer` is the part of the HLS
server's `NobodyLeftWaiting` that does not speak of what is enabled.

### Services

In `ServicesProofs`, under `ResourcesAssumption`, `ReloadAssumption` and
`CommandsAssumption`:

* `ResourcesMatchConfAlways` – `Spec => []ResourcesMatchConf`, for any set of switches
  that reloads flip. The tables are compared by lemmas: whatever decides that a
  resource is needed or how it is built is compared by closeResources()
  (`EnabledIsCompared`, `BuiltIsCompared`), every pointer is followed by the flags
  and leads back in the order of creation, or is one whose holder is told
  (`PointersGoBack`, `LoosePointer`), and four rounds close the flags under their
  dependencies (`CloseFlagsAreClosed`). The invariant `ResourcesInv` says what is
  true in the middle of a reload: what will be kept fits the next configuration and
  misses nothing that will be created without its being told (`Fits`).
* `APIShowsWhatRunsAlways`, `WritesAreSeenAlways` – `APIShowsWhatRuns`,
  `WritesAreSeen`, for any number of requests, writes and APIs. `ReloadInv`: who
  sends to Core holds the mutex and sends what the API shows (`SendersHoldMutex`);
  what travels outside the mutex has a global edit in it (`FlyingIsGlobal`); the last
  version of the file is signalled, being loaded, or in the first API.
* `SourcesReturnClean` – `ReturnsClean` of the seven static sources; `SourcesInv` says
  who has still to call SetNotReady (`ReadyIsOwned`) and which goroutines of tracks
  there are.
* `CommandsAreOwned` – `EveryRestartIsOwned`, and that no process outlives
  `Pool.Close()`. These two are parts of `NobodyLeftWaiting` of `MCServices`.

### Playback

Also in `ServicesProofs`, under `PlaybackAssumption` (times, and the tolerance, are
numbers), for any number of segments that start at different times, of any durations,
and any requests:

* `ListsAreRight` – `Playback!ListIsRight`: the list of the recordings has an entry for
  every moment that was recorded, up to the tolerance, and no two neighbouring entries
  that should have been one. A merge may make an entry shorter, when a segment ends
  inside the one before; the invariant of the loop (`Merged`) is that the last entry
  ends with the last segment and that every earlier segment in it ended, up to the
  tolerance, before the last one started.
* `GetsAreRight` – `Playback!GetIsRight`: a request is served from the segment it starts
  in, then from each that follows without a gap, leaving none out, until its time is
  served, and no further than the first gap. The invariant of the loop (`Serving`) says
  which segments are served, where onGet() is in time, and why it has stopped; after
  the time has been served, segments without a sample may still be opened.

Both rest on two facts. Segments can be sorted (`CanBeSorted`): the place of a segment
is the number of those that start before it, and this map is onto because a set of n
numbers has room for n. And a recursive function over a sequence exists
(`LoopExists`): that its equation has a solution is not for free, and it is proved, as
what the loops compute, with `Induction` over a set of numbers.

### Recorder

In `RecorderProofs`, under `RecorderAssumption`: `RecordingIsRightAlways` and
`RecorderTypeCorrect` (the recorder's part of `TypeOK`), for both formats, any number of samples, failures and changes of
parameters, any size of the queue and all durations. Order on the disk is not
inductive: `Sound` adds that what is not written yet (`PendingSound`) and what waits
for the next sample (`NextSound`) comes after what is written, that a segment writes
to the last file and only that one is open (`DiskSound`), and `KeyFrameFollows` that
the first video sample of a segment that the video has cut, if it is not there yet, is
the key frame that waits. The times of each track are followed on their own: what a
track has on the disk, in the part, waiting and in the queue comes in this order, and
nothing is said between tracks. The last holds only while there was no error: a failed write loses
the key frame, and what makes this harmless is that the goroutine ends, which the
invariant `RecorderInv` ties to the position of the writer. It also says that what
is queued is newer than everything recorded (`QueueIsNewer`) and who waits for whom
when the three goroutines end (`RecorderGoroutines`). The lemmas go from a file
(`CreatedFile`, `WrittenPending`, `ClosedFile`) over its operations (`WriteOutcome`,
`CloseOutcome`) to the formats (`RecordFMP4Sound`, `RecordMPEGTSSound`).

### RTMP messages

In `MessagesProofs`, under `MessagesAssumption` (chunk sizes and the width of a
timestamp are not zero), for any number of messages and chunk streams, all lengths, all
timestamps and every threshold of extended timestamps:

* `ReceivedAsSentAlways` – `Spec => []ReceivedAsSent`. What the reader has to know to
  understand a chunk is what the writer knew when it wrote it, which the state no
  longer shows: by the time a chunk is read the writer is ahead, on every chunk stream
  and with its chunk size. The inductive invariant `MessagesInv` says that there is a
  trace: a sequence of places, each a message, an offset in its body and the state of
  the writer before that message, such that the chunks on the connection are the ones
  at these places (`IsChunk`), each place leads to the next (`After`), the last is the
  state of the writer now, and the reader is at the first (`ReaderAt`): on every chunk
  stream it knows what the writer knew there (`Agree`) and has the bytes up to the
  offset. A write adds the places of its chunks at the end, a read removes the first
  (`IsRead`, `IsAfterChunk`). `Agree` compares a sum of differences that were each cut
  to 32 bits with a timestamp cut once. `WriterKnows` ties the writer to the last
  message of each chunk stream, so that `NeverStartsOver`, which is about messages,
  says that each of them goes on with its chunk stream (`GoesOn`).
* `ServicesTypeCorrect` – `Spec => []TypeOK`: the types of the seven services, from
  the invariants of `ServicesProofs`, `RecorderProofs` and the above. The types of both
  sides need `ReaderShape` and hold even where the writer starts over.

### Only model-checked

Out of the prover's reach and left to TLC: liveness under fairness
(`StartingHoldAnswered`, `UnusedIsStopped`, `StopAlwaysReturns`, `CallsAreAnswered`,
`ReloadFinishes`, `CloseFinishes`, `ClientsAreAnswered`); `NobodyLeftWaiting` and
`RecorderStops`, which speak of what is enabled; and `FilesAreServedRight`, the third
part of `PlaybackIsRight`: what is cut out of a file is computed by folds inside folds,
over parts, tracks and samples, and the folds of the library take an operator as a
parameter, which none of the provers can instantiate.

## 6. Not modelled, and the plan

Not modelled, and why:

* authentication: a comparison of credentials or a call of an external service; the
  servers take both answers;
* the record cleaner: it deletes files by age and shares only the file system;
* payload conversion (`formatprocessor`, the MPEG-TS and WebRTC packet code, the
  per-codec callbacks of fMP4, AMF and the contents of RTMP messages): functions on
  bytes without shared state; of a unit the models keep its codec, its time and
  whether it is a key frame;
* parsing and validation of the configuration, beyond the exclusions between the
  settings that a path branches on;
* the camera program in C, the WebSocket server (nothing uses it), logging, metrics
  and pprof, and the listings and pages of the HTTP servers, which only read;
* third-party libraries: gortsplib, gohlslib, gosrt and pion are seen through the
  calls that the code makes and the callbacks it gets.

What could be proved next: `FilesAreServedRight`, with the three folds of
`FMP4SeekAndMux` rewritten as recursive functions, along the lines of `GetsAreRight`.
