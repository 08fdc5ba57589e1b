------------------------------ MODULE HLSServer ------------------------------
(***************************************************************************)
(* The HLS server (internal/servers/hls): the loop of the server, one       *)
(* muxer per path with its run() and runInner() goroutines, the HTTP        *)
(* requests that ask for playlists and segments, and the calls with which   *)
(* the path manager announces that the path is ready or not.  The server    *)
(* keeps a map from path names to muxers and treats the names separately:   *)
(* the module follows one path name.                                        *)
(***************************************************************************)
EXTENDS Naturals, Sequences, Codecs

CONSTANTS
    Muxers,         \* muxers that may exist at a time (a bound)
    Requests,       \* HTTP requests that may be pending at a time (a bound)
    StreamFormats   \* the sets of codecs a stream may have

VARIABLES
    remux,      \* AlwaysRemux, and the source of the path is not on demand
    server,     \* [closed: ctx is done, loop, request: the one being forwarded]
    listed,     \* Server.muxers: the muxer of the path, or None
    muxer,      \* Muxers -> the state of a muxer
    request,    \* Requests -> [at, by]
    path        \* [state, calls: announcements that were not received yet]

vars == <<remux, server, listed, muxer, request, path>>

\* What the two goroutines of a muxer and its context keep.
MuxerState ==
    [ctl: {"unused", "select", "waitInner", "closing"}, auto: BOOLEAN,
     cancelled: BOOLEAN, isReady: BOOLEAN, isRecreating: BOOLEAN,
     inner: {None, "adding", "setup", "sendReady", "running", "returned"},
     innerCancelled: BOOLEAN, attached: BOOLEAN]

Unused ==
    [ctl |-> "unused", auto |-> FALSE, cancelled |-> FALSE, isReady |-> FALSE,
     isRecreating |-> FALSE, inner |-> None, innerCancelled |-> FALSE,
     attached |-> FALSE]

\* Where an HTTP request is: nowhere, in processRequest(), or in the queue of
\* a muxer.
RequestState == [at: {"idle", "forwarded", "queued"}, by: Muxers \cup {None}]

Idle == [at |-> "idle", by |-> None]

Init ==
    /\ remux \in BOOLEAN
    /\ server = [closed |-> FALSE, loop |-> "select", request |-> None]
    /\ listed = None
    /\ muxer = [m \in Muxers |-> Unused]
    /\ request = [r \in Requests |-> Idle]
    /\ path = [state |-> "notReady", calls |-> <<>>]

\* The context of a muxer is a child of the server's.
Done(m) == muxer[m].cancelled \/ server.closed

-----------------------------------------------------------------------------
(* The path and the path manager (core), as the HLS server sees them.       *)

IsPending(call) == \E i \in DOMAIN path.calls : path.calls[i] = call

\* The bound on the number of muxers: one is left for the announcement that the
\* path is ready (there is one at most, since the two announcements alternate).
HasRoom ==
    \E m \in Muxers :
        /\ muxer[m].ctl = "unused"
        /\ IsPending("ready") => \E n \in Muxers \ {m} : muxer[n].ctl = "unused"

\* The manager delivers one announcement at a time, and the path waits until
\* the manager has taken its own: one call is being delivered, one may wait.
PathIsFree == Len(path.calls) < 2

PathTurnsReady ==
    /\ path.state = "notReady" /\ PathIsFree /\ HasRoom
    /\ path' = [state |-> "ready", calls |-> Append(path.calls, "ready")]
    /\ UNCHANGED <<remux, server, listed, muxer, request>>

\* setNotReady() announces it, and then removes and closes the readers.
PathTurnsNotReady ==
    /\ path.state = "ready" /\ PathIsFree
    /\ path' = [state |-> "closing", calls |-> Append(path.calls, "notReady")]
    /\ UNCHANGED <<remux, server, listed, muxer, request>>

PathClosesReaders ==
    /\ path.state = "closing" /\ PathIsFree
    /\ path' = [path EXCEPT !.state = "notReady"]
    /\ muxer' = [m \in Muxers |->
                    IF muxer[m].attached
                    THEN [muxer[m] EXCEPT !.attached = FALSE, !.cancelled = TRUE]
                    ELSE muxer[m]]
    /\ UNCHANGED <<remux, server, listed, request>>

\* PathReady() and PathNotReady() give up when the server is closed.
AnnouncementDropped ==
    /\ server.closed /\ path.calls # <<>>
    /\ path' = [path EXCEPT !.calls = Tail(@)]
    /\ UNCHANGED <<remux, server, listed, muxer, request>>

-----------------------------------------------------------------------------
(* Server.run(): one action per case of the select.                         *)

CreateMuxer(auto) ==
    LET m == CHOOSE n \in Muxers : muxer[n].ctl = "unused" IN
        /\ HasRoom \/ auto
        /\ muxer' = [muxer EXCEPT ![m] =
                        [Unused EXCEPT !.ctl = "select", !.auto = auto,
                                       !.inner = "adding"]]
        /\ listed' = m

ReceivePathReady ==
    /\ server.loop = "select" /\ path.calls # <<>> /\ Head(path.calls) = "ready"
    /\ path' = [path EXCEPT !.calls = Tail(@)]
    /\ IF remux /\ listed = None
       THEN CreateMuxer(TRUE)
       ELSE UNCHANGED <<listed, muxer>>
    /\ UNCHANGED <<remux, server, request>>

\* Mutant of ReceivePathNotReady: a server that leaves the automatic muxer in the map.
ReceivePathNotReadyKeepsEntry ==
    /\ server.loop = "select" /\ path.calls # <<>> /\ Head(path.calls) = "notReady"
    /\ path' = [path EXCEPT !.calls = Tail(@)]
    /\ IF listed # None /\ muxer[listed].auto
       THEN muxer' = [muxer EXCEPT ![listed].cancelled = TRUE]
       ELSE UNCHANGED muxer
    /\ UNCHANGED <<remux, server, request, listed>>

ReceivePathNotReady ==
    /\ server.loop = "select" /\ path.calls # <<>> /\ Head(path.calls) = "notReady"
    /\ path' = [path EXCEPT !.calls = Tail(@)]
    /\ IF listed # None /\ muxer[listed].auto
       THEN /\ muxer' = [muxer EXCEPT ![listed].cancelled = TRUE]
            /\ listed' = None
       ELSE UNCHANGED <<listed, muxer>>
    /\ UNCHANGED <<remux, server, request>>

\* onRequest(): only a request for a playlist or a segment, of a path that the
\* user may read, reaches the server; the others are answered by themselves.
\* It goes to the muxer of the path, created now if there is none, and the loop
\* is in processRequest() until the muxer has taken it.
ReceiveRequest(r) ==
    /\ server.loop = "select" /\ request[r].at = "idle"
    /\ IF listed # None THEN UNCHANGED <<listed, muxer>>
                        ELSE CreateMuxer(FALSE)
    /\ server' = [server EXCEPT !.loop = "forward", !.request = r]
    /\ request' = [request EXCEPT ![r] = [at |-> "forwarded", by |-> listed']]
    /\ UNCHANGED <<remux, path>>

\* Mutant of CloseMuxer: a server that forgets whatever muxer the map holds.
CloseMuxerOfWhoever(m) ==
    /\ muxer[m].ctl = "closing"
    /\ \/ server.loop = "select" /\ listed' = None
       \/ server.closed /\ UNCHANGED listed
    /\ muxer' = [muxer EXCEPT ![m] = Unused]
    /\ UNCHANGED <<remux, server, request, path>>

\* closeMuxer(): the server forgets the muxer only if it is still the one of
\* the path; without a server the muxer just ends.
CloseMuxer(m) ==
    /\ muxer[m].ctl = "closing"
    /\ \/ server.loop = "select" /\ listed' = IF listed = m THEN None ELSE listed
       \/ server.closed /\ UNCHANGED listed
    /\ muxer' = [muxer EXCEPT ![m] = Unused]
    /\ UNCHANGED <<remux, server, request, path>>

\* Close() cancels the context and waits for the loop and the muxers.
Close ==
    /\ ~server.closed
    /\ server' = [server EXCEPT !.closed = TRUE]
    /\ UNCHANGED <<remux, listed, muxer, request, path>>

LoopEnds ==
    /\ server.closed /\ server.loop = "select"
    /\ server' = [server EXCEPT !.loop = "ended"]
    /\ UNCHANGED <<remux, listed, muxer, request, path>>

-----------------------------------------------------------------------------
(* muxer.run(): one action per case of the select.                          *)

Queued(m) == {r \in Requests : request[r] = [at |-> "queued", by |-> m]}

Answer(rs) == [r \in Requests |-> IF r \in rs THEN Idle ELSE request[r]]

\* chRequest: no muxer while it is being recreated, the muxer once it is
\* ready, otherwise the request waits in the queue.
TakeRequest(r) ==
    LET m == request[r].by IN
    /\ request[r].at = "forwarded" /\ muxer[m].ctl = "select"
    /\ request' = [request EXCEPT ![r] =
                      IF muxer[m].isRecreating \/ muxer[m].isReady THEN Idle
                      ELSE [at |-> "queued", by |-> m]]
    /\ server' = [server EXCEPT !.loop = "select", !.request = None]
    /\ UNCHANGED <<remux, listed, muxer, path>>

\* processRequest(): the muxer is closed, the request gets no muxer.
RefuseRequest(r) ==
    /\ request[r].at = "forwarded" /\ Done(request[r].by)
    /\ request' = [request EXCEPT ![r] = Idle]
    /\ server' = [server EXCEPT !.loop = "select", !.request = None]
    /\ UNCHANGED <<remux, listed, muxer, path>>

\* ctx.Done(): the inner goroutine is told to stop and waited for.
MuxerStops(m) ==
    /\ muxer[m].ctl = "select" /\ Done(m)
    /\ muxer' = [muxer EXCEPT ![m] =
                    IF @.isRecreating
                    THEN [@ EXCEPT !.ctl = "closing", !.cancelled = TRUE]
                    ELSE [@ EXCEPT !.ctl = "waitInner", !.innerCancelled = TRUE]]
    /\ request' = IF muxer[m].isRecreating THEN Answer(Queued(m)) ELSE request
    /\ UNCHANGED <<remux, server, listed, path>>

\* innerReady: the requests in the queue are answered with the muxer.
InnerReady(m) ==
    /\ muxer[m].ctl = "select" /\ muxer[m].inner = "sendReady"
    /\ muxer' = [muxer EXCEPT ![m].isReady = TRUE, ![m].inner = "running"]
    /\ request' = Answer(Queued(m))
    /\ UNCHANGED <<remux, server, listed, path>>

\* Mutant of InnerErr: a muxer that leaves its queue unanswered when it ends.
InnerErrKeepsQueue(m) ==
    /\ muxer[m].ctl \in {"select", "waitInner"} /\ muxer[m].inner = "returned"
    /\ muxer' = [muxer EXCEPT ![m] =
          IF muxer[m].auto /\ muxer[m].ctl = "select"
          THEN [@ EXCEPT !.inner = None, !.innerCancelled = FALSE, !.isReady = FALSE,
                         !.isRecreating = TRUE]
          ELSE [@ EXCEPT !.inner = None, !.ctl = "closing", !.cancelled = TRUE,
                         !.isReady = FALSE]]
    /\ UNCHANGED <<remux, server, listed, path, request>>

\* innerErr, in the select or after ctx.Done(): the queue is answered with
\* no muxer; an automatic muxer is recreated after a pause, another ends.
InnerErr(m) ==
    /\ muxer[m].ctl \in {"select", "waitInner"} /\ muxer[m].inner = "returned"
    /\ muxer' = [muxer EXCEPT ![m] =
          IF muxer[m].auto /\ muxer[m].ctl = "select"
          THEN [@ EXCEPT !.inner = None, !.innerCancelled = FALSE, !.isReady = FALSE,
                         !.isRecreating = TRUE]
          ELSE [@ EXCEPT !.inner = None, !.ctl = "closing", !.cancelled = TRUE,
                         !.isReady = FALSE]]
    /\ request' = Answer(Queued(m))
    /\ UNCHANGED <<remux, server, listed, path>>

\* recreateTimer.
RecreateTimerFires(m) ==
    /\ muxer[m].ctl = "select" /\ muxer[m].isRecreating
    /\ muxer' = [muxer EXCEPT ![m].isRecreating = FALSE, ![m].inner = "adding"]
    /\ UNCHANGED <<remux, server, listed, request, path>>

-----------------------------------------------------------------------------
(* muxer.runInner().                                                        *)

CreateVideoTrack(formats) == FirstIn(<<"AV1", "VP9", "H265", "H264">>, formats)

CreateAudioTrack(formats) == FirstIn(<<"Opus", "MPEG4Audio">>, formats)

\* AddReader(): the path must have a stream; a path that is being started on
\* demand keeps the call waiting, and may still refuse it.
InnerAddReader(m) ==
    /\ muxer[m].inner = "adding" /\ PathIsFree
    /\ \/ /\ path.state = "ready"
          /\ muxer' = [muxer EXCEPT ![m].inner = "setup", ![m].attached = TRUE]
       \/ /\ path.state = "notReady"
          /\ muxer' = [muxer EXCEPT ![m].inner = "returned"]
    /\ UNCHANGED <<remux, server, listed, request, path>>

Return(m) == muxer' = [muxer EXCEPT ![m].inner = "returned", ![m].attached = FALSE]

\* The tracks are created and the gohlslib muxer is started, which may fail.
InnerSetup(m) ==
    /\ muxer[m].inner = "setup"
    /\ \/ \E formats \in StreamFormats :
            IF CreateVideoTrack(formats) = None /\ CreateAudioTrack(formats) = None
            THEN Return(m)
            ELSE muxer' = [muxer EXCEPT ![m].inner = "sendReady"]
       \/ Return(m)
    /\ UNCHANGED <<remux, server, listed, request, path>>

\* The select of runInner(): no request for a while (closeCheckTicker, never
\* for an automatic muxer), an error of the writer, or innerCtx.Done().
InnerIdle(m) ==
    /\ muxer[m].inner = "running" /\ ~muxer[m].auto
    /\ Return(m)
    /\ UNCHANGED <<remux, server, listed, request, path>>

InnerWriterError(m) ==
    /\ muxer[m].inner = "running"
    /\ Return(m)
    /\ UNCHANGED <<remux, server, listed, request, path>>

InnerTerminated(m) ==
    /\ muxer[m].inner = "running" /\ muxer[m].innerCancelled
    /\ Return(m)
    /\ UNCHANGED <<remux, server, listed, request, path>>

-----------------------------------------------------------------------------

MuxerStep(m) ==
    \/ CloseMuxer(m) \/ MuxerStops(m) \/ InnerReady(m) \/ InnerErr(m)
    \/ RecreateTimerFires(m) \/ InnerAddReader(m) \/ InnerSetup(m)
    \/ InnerTerminated(m)

Announce == ReceivePathReady \/ ReceivePathNotReady \/ AnnouncementDropped

Forward(r) == TakeRequest(r) \/ RefuseRequest(r)

Next ==
    \/ PathTurnsReady \/ PathTurnsNotReady \/ PathClosesReaders
    \/ Announce \/ Close \/ LoopEnds
    \/ \E r \in Requests :
        ReceiveRequest(r) \/ Forward(r)
    \/ \E m \in Muxers : MuxerStep(m) \/ InnerIdle(m) \/ InnerWriterError(m)

Spec == Init /\ [][Next]_vars

-----------------------------------------------------------------------------
(* Properties.                                                              *)

TypeOK ==
    /\ remux \in BOOLEAN
    /\ server \in [closed: BOOLEAN, loop: {"select", "forward", "ended"},
                   request: Requests \cup {None}]
    /\ listed \in Muxers \cup {None}
    /\ muxer \in [Muxers -> MuxerState]
    /\ request \in [Requests -> RequestState]
    /\ path \in [state: {"notReady", "ready", "closing"}, calls: Seq({"ready", "notReady"})]

\* run() waits for runInner() to return, runInner() waits for run() to take
\* innerReady: neither moves again.
Stuck(m) == muxer[m].ctl = "waitInner" /\ muxer[m].inner = "sendReady"

\* createMuxer(), closeMuxer() and PathNotReady() together: a muxer that was
\* not told to stop is the one of the map, so that a path has one muxer and
\* the server can close it.
OneLiveMuxer ==
    \A m \in Muxers : muxer[m].ctl = "select" /\ ~Done(m) => listed = m

\* run() answers a request with the muxer only while runInner() keeps the
\* gohlslib muxer that will serve it, and never leaves a request in the queue
\* of a muxer that has ended.
ServedByStartedMuxer ==
    /\ \A m \in Muxers : muxer[m].isReady => muxer[m].inner \in {"running", "returned"}
    /\ \A r \in Requests :
        request[r].at = "queued" => muxer[request[r].by].ctl \in {"select", "waitInner"}

\* A muxer that ends leaves no reader on the path.
EndedMuxerIsDetached ==
    \A m \in Muxers : muxer[m].inner \in {None, "adding", "returned"} => ~muxer[m].attached

\* PathNotReady(): once the path manager has announced that the path is not
\* ready, the server keeps no automatic muxer of it.
NoAutomaticMuxerWhenNotReady ==
    path.state # "ready" /\ path.calls = <<>> /\ ~server.closed =>
        (listed = None \/ ~muxer[listed].auto)

\* The steps of the server and of its muxers, as opposed to what the path, the
\* clients and the operator do.
Internal ==
    \/ PathClosesReaders \/ Announce \/ LoopEnds
    \/ \E r \in Requests : Forward(r)
    \/ \E m \in Muxers : MuxerStep(m)

\* The server's loop, run() and runInner() wait for each other on unbuffered
\* channels.  When none of them can move, nobody is left waiting: no request
\* and no announcement is pending and no muxer is half-way, except for a muxer
\* whose two goroutines wait for each other.
NobodyLeftWaiting ==
    ENABLED Internal
    \/ /\ path.calls = <<>>
       /\ \A m \in Muxers : \/ muxer[m].ctl = "unused" \/ Stuck(m)
                            \/ muxer[m].inner = "running" /\ ~Done(m)
       /\ \A r \in Requests : request[r].at = "idle" \/ Stuck(request[r].by)

Closed == server.loop = "ended" /\ \A m \in Muxers : muxer[m].ctl = "unused"

\* Close() returns: the loop and every muxer end (s.wg.Wait()).
CloseReturns == server.closed ~> Closed
=============================================================================
