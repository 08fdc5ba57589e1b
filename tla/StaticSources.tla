----------------------------- MODULE StaticSources -----------------------------
(***************************************************************************)
(* Run() of the static sources (internal/staticsources): the goroutine of    *)
(* Run(), which waits for the end of the other, for a new configuration and  *)
(* for the end of its context, and the goroutine that reads from the network *)
(* or from the camera; WebRTC has goroutines of its tracks instead.          *)
(* SetReady() and SetNotReady() of the parent, the handler of                *)
(* StaticSourceHandler, are answered, at the latest when the handler stops.  *)
(***************************************************************************)
EXTENDS Codecs

VARIABLES
    source,   \* the kind of the source
    main,     \* the goroutine of Run()
    reader,   \* the goroutine that reads
    tracks,   \* the goroutines of tracks that run, by the state of their client
    stream,   \* SetReady() has given a stream to this Run()
    parent,   \* the parent believes that the source is ready
    done,     \* params.Context is done
    reload    \* a goroutine of the handler sends a configuration to Run()

vars == <<source, main, reader, tracks, stream, parent, done, reload>>

-----------------------------------------------------------------------------
(***************************************************************************)
(* The sources differ in the goroutine that calls SetReady() and in the one  *)
(* that calls SetNotReady(), in whether Run() receives from                  *)
(* params.ReloadConf, in whether it notices the end of its reader, in        *)
(* whether a refused SetReady() is tried again, and in whether the tracks    *)
(* are read by goroutines that Run() does not wait for.                      *)
(***************************************************************************)
RTSP == [ready |-> "reader", notReady |-> "reader", reloads |-> TRUE,
         notices |-> TRUE, retries |-> FALSE, unjoined |-> FALSE]

RTMP == [ready |-> "reader", notReady |-> "reader", reloads |-> TRUE,
         notices |-> TRUE, retries |-> FALSE, unjoined |-> FALSE]

\* OnTracks() runs in a goroutine of the client, SetNotReady() is deferred by
\* Run().
HLS == [ready |-> "reader", notReady |-> "main", reloads |-> TRUE,
        notices |-> TRUE, retries |-> FALSE, unjoined |-> FALSE]

UDP == [ready |-> "reader", notReady |-> "reader", reloads |-> FALSE,
        notices |-> TRUE, retries |-> FALSE, unjoined |-> FALSE]

\* SetNotReady() is never called.
SRT == [ready |-> "reader", notReady |-> None, reloads |-> TRUE,
        notices |-> TRUE, retries |-> FALSE, unjoined |-> FALSE]

\* One goroutine connects and waits for the end of the client, and one for each
\* track reads its packets and writes them to the stream.
WebRTC == [ready |-> "main", notReady |-> "main", reloads |-> FALSE,
           notices |-> TRUE, retries |-> FALSE, unjoined |-> TRUE]

\* onData() runs in the goroutine of the camera; Run() only waits for its
\* context.
RPICamera == [ready |-> "reader", notReady |-> "main", reloads |-> TRUE,
              notices |-> FALSE, retries |-> TRUE, unjoined |-> FALSE]

Sources == [rtsp |-> RTSP, rtmp |-> RTMP, hls |-> HLS, udp |-> UDP, srt |-> SRT,
            webrtc |-> WebRTC, rpicamera |-> RPICamera]

Of == Sources[source]

\* "join": the connection is closed, the end of the reader is awaited.
\* "close": Close() of the camera, deferred before SetNotReady().
\* "report": blocked on the channel that Run() receives from.
MainControl == {"connect", "select", "setReady", "read", "join", "undo",
                "setNotReady", "close", "returned"}
ReaderControl == {None, "open", "setReady", "read", "setNotReady", "report"}

\* The client whose tracks are read: that of the present Run(), or one that its
\* Run() has closed.
Clients == {"open", "closed"}

Init ==
    /\ source \in DOMAIN Sources
    /\ main = "connect" /\ reader = None /\ tracks = {}
    /\ stream = FALSE /\ parent = FALSE /\ done = FALSE /\ reload = FALSE

-----------------------------------------------------------------------------
(* The handler.                                                              *)

\* runCtxCancel() of a handler that stops; stop() of the path resets its own
\* view of the source.
Cancel ==
    /\ ~done /\ done' = TRUE /\ parent' = FALSE
    /\ UNCHANGED <<source, main, reader, tracks, stream, reload>>

\* run() of the handler starts Run() again after an error.
Recreate ==
    /\ main = "returned" /\ ~done
    /\ main' = "connect" /\ stream' = FALSE
    /\ UNCHANGED <<source, reader, tracks, parent, done, reload>>

ForwardReload ==
    /\ main # "returned" /\ ~done /\ ~reload
    /\ reload' = TRUE
    /\ UNCHANGED <<source, main, reader, tracks, stream, parent, done>>

\* The context of the run ends with the run.
DropReload ==
    /\ reload /\ (done \/ main = "returned")
    /\ reload' = FALSE
    /\ UNCHANGED <<source, main, reader, tracks, stream, parent, done>>

-----------------------------------------------------------------------------
(* Both goroutines.                                                          *)

\* SetReady() returns a stream or an error to the goroutine that called it.
SetReadyReturns(ok) ==
    /\ "setReady" \in {main, reader}
    /\ ok => ~done
    /\ parent' = (parent \/ ok) /\ stream' = ok
    /\ tracks' = IF ok /\ Of.unjoined THEN tracks \cup {"open"} ELSE tracks
    /\ IF reader = "setReady"
       THEN /\ reader' = IF ok THEN "read" ELSE IF Of.retries THEN "open" ELSE "report"
            /\ UNCHANGED main
       ELSE /\ main' = IF ok THEN "read" ELSE "close"
            /\ UNCHANGED reader
    /\ UNCHANGED <<source, done, reload>>

SetNotReadyReturns ==
    /\ "setNotReady" \in {main, reader}
    /\ parent' = FALSE
    /\ IF reader = "setNotReady"
       THEN reader' = "report" /\ UNCHANGED main
       ELSE main' = "close" /\ UNCHANGED reader
    /\ UNCHANGED <<source, tracks, stream, done, reload>>

-----------------------------------------------------------------------------
(* The goroutine of Run().                                                   *)

MainControls(from, to) ==
    /\ main = from /\ main' = to
    /\ UNCHANGED <<source, stream, parent, done, reload>>

MainStep(from, to) == MainControls(from, to) /\ UNCHANGED tracks

ConnectFails == MainStep("connect", "returned") /\ UNCHANGED reader

Connect ==
    IF Of.ready = "main"
    THEN MainStep("connect", "setReady") /\ UNCHANGED reader
    ELSE MainStep("connect", "select") /\ reader' = "open"

TakeReload ==
    /\ main = "select" /\ reload /\ Of.reloads
    /\ reload' = FALSE
    /\ UNCHANGED <<source, main, reader, tracks, stream, parent, done>>

\* The channel of the reader gives its error.
ReaderDone ==
    /\ Of.notices /\ reader = "report" /\ reader' = None
    /\ MainStep("select", "undo")

\* params.Context.Done(): the connection is closed.
ContextDone ==
    /\ done /\ MainStep("select", IF Of.notices THEN "join" ELSE "undo")
    /\ UNCHANGED reader

Join ==
    /\ reader = "report" /\ reader' = None
    /\ MainStep("join", "undo")

\* client.Wait(): the peer is gone or the context is done.
WaitReturns == MainStep("read", "undo") /\ UNCHANGED reader

\* The deferred calls: SetNotReady() if it is for this goroutine to call, then
\* the end of the client or of the camera.
Undo ==
    /\ MainStep("undo", IF Of.notReady = "main" /\ stream THEN "setNotReady" ELSE "close")
    /\ UNCHANGED reader

\* Close() of the camera waits for its goroutine; Close() of the WebRTC client
\* does not wait for those of the tracks.
Return ==
    /\ MainControls("close", "returned")
    /\ tracks' = IF tracks = {} THEN {} ELSE {"closed"}
    /\ IF Of.notices THEN UNCHANGED reader ELSE reader = "report" /\ reader' = None

-----------------------------------------------------------------------------
(* The goroutine that reads.                                                 *)

ReaderStep(from, to) ==
    /\ reader = from /\ reader' = to
    /\ UNCHANGED <<source, main, tracks, stream, parent, done, reload>>

\* The peer, the playlist or the first packet tells the tracks.
Tracks == ReaderStep("open", "setReady")

\* A timeout, the peer, or the end of the connection.
OpenFails == ReaderStep("open", "report")

ReadFails ==
    ReaderStep("read", IF Of.notReady = "reader" THEN "setNotReady" ELSE "report")

\* ReadRTP() returns an error: the peer has ended the track, or the client is
\* closed.  Until then a packet is written to the stream, also to one that the
\* path has closed meanwhile.
TrackEnds(client) ==
    /\ client \in tracks /\ tracks' = tracks \ {client}
    /\ UNCHANGED <<source, main, reader, stream, parent, done, reload>>

-----------------------------------------------------------------------------
\* What happens by itself once the connection is closed.
Ending ==
    \/ DropReload \/ SetNotReadyReturns \/ ReaderDone \/ ContextDone \/ Join \/ Undo \/ Return
    \/ \E ok \in BOOLEAN : SetReadyReturns(ok)
    \/ Connect \/ ConnectFails
    \/ reader = "open" /\ (Tracks \/ OpenFails)
    \/ done /\ (ReadFails \/ WaitReturns)
    \/ TrackEnds("closed")

Next ==
    \/ Cancel \/ Recreate \/ ForwardReload \/ TakeReload \/ DropReload
    \/ \E ok \in BOOLEAN : SetReadyReturns(ok)
    \/ SetNotReadyReturns
    \/ Connect \/ ConnectFails \/ ReaderDone \/ ContextDone \/ Join \/ WaitReturns
    \/ Undo \/ Return
    \/ Tracks \/ OpenFails \/ ReadFails
    \/ \E client \in Clients : TrackEnds(client)

Spec == Init /\ [][Next]_vars

-----------------------------------------------------------------------------
(* Properties.                                                               *)

TypeOK ==
    /\ source \in DOMAIN Sources
    /\ main \in MainControl /\ reader \in ReaderControl /\ tracks \subseteq Clients
    /\ {stream, parent, done, reload} \subseteq BOOLEAN

\* A Run() that has returned leaves no goroutine behind that reads or that
\* calls its parent, has told its parent that it is not ready any more, and has
\* closed what it read from; SetReady() is called only when the parent does not
\* believe that the source is ready.  There are two exceptions: the SRT source
\* never tells its parent, and goroutines of the tracks of a WebRTC source may
\* go on until they notice that their client is closed, also while the next
\* Run() connects and reads.
ReturnsClean ==
    /\ main = "returned" => reader = None /\ "open" \notin tracks
    /\ "open" \in tracks => main \in {"read", "undo", "setNotReady", "close"}
    /\ source # "webrtc" => tracks = {}
    /\ source # "srt" =>
        /\ main = "returned" => ~parent
        /\ "setReady" \in {main, reader} => ~parent

\* When nothing moves by itself, Run() has returned or reads, and no goroutine
\* of an earlier Run() is left: the goroutines never wait for each other, for the
\* parent, or for a context that is done.  The source of the camera does not
\* notice that its camera has died.
NobodyLeftWaiting ==
    \/ ENABLED Ending
    \/ main = "returned"
    \/ ~done /\ main = "read"
    \/ ~done /\ main = "select" /\ (reader = "read" \/ source = "rpicamera")
=============================================================================
