------------------------------ MODULE RTMPServer ------------------------------
(***************************************************************************)
(* The RTMP server (internal/servers/rtmp): the loop of the server, and the *)
(* two goroutines of each connection: run(), which waits for the context or *)
(* for the other one, and runReader(), which does the handshake and then    *)
(* reads from or publishes to a path.  The path is seen through its         *)
(* answers: it may keep a reader on hold, refuse it, and close a session.   *)
(***************************************************************************)
EXTENDS Naturals, Sequences, Codecs

CONSTANTS
    Conns,          \* connections that may exist at a time (a bound)
    StreamFormats   \* the sets of codecs of a stream

VARIABLES
    server,     \* [closed: ctx is done, loop]
    conns,      \* Server.conns
    conn        \* Conns -> the state of a connection

vars == <<server, conns, conn>>

\* run and reader are the program counters of the two goroutines.  attached:
\* the path has the connection among its readers or as its publisher.
\* reading: OnRead() was called and its undo was not.
ConnState ==
    [run: {"unused", "select", "waitReader", "closing"},
     reader: {None, "handshake", "adding", "pause", "setup", "active", "returned"},
     role: {None, "read", "publish"}, cancelled: BOOLEAN, attached: BOOLEAN,
     reading: BOOLEAN]

Unused ==
    [run |-> "unused", reader |-> None, role |-> None, cancelled |-> FALSE,
     attached |-> FALSE, reading |-> FALSE]

Init ==
    /\ server = [closed |-> FALSE, loop |-> "select"]
    /\ conns = {}
    /\ conn = [c \in Conns |-> Unused]

Done(c) == conn[c].cancelled \/ server.closed

Set(c, r) == conn' = [conn EXCEPT ![c] = r]

-----------------------------------------------------------------------------
(* Server.run().                                                            *)

\* chNewConn, from the listener; run() starts with OnConnect().
NewConn(c) ==
    /\ server.loop = "select" /\ conn[c].run = "unused"
    /\ Set(c, [Unused EXCEPT !.run = "select", !.reader = "handshake"])
    /\ conns' = conns \cup {c}
    /\ UNCHANGED server

\* chCloseConn, or no server any more; run() ends with the disconnect hook.
CloseConn(c) ==
    /\ conn[c].run = "closing"
    /\ \/ server.loop = "select" /\ conns' = conns \ {c}
       \/ server.closed /\ UNCHANGED conns
    /\ Set(c, Unused)
    /\ UNCHANGED server

\* chAPIConnsKick: the connection is forgotten and closed.
Kick(c) ==
    /\ server.loop = "select" /\ c \in conns
    /\ conns' = conns \ {c}
    /\ conn' = [conn EXCEPT ![c].cancelled = TRUE]
    /\ UNCHANGED server

\* chAcceptErr ends the server as if it had been closed.
AcceptError ==
    /\ server.loop = "select" /\ ~server.closed
    /\ server' = [closed |-> TRUE, loop |-> "ended"]
    /\ UNCHANGED <<conns, conn>>

Close ==
    /\ ~server.closed
    /\ server' = [server EXCEPT !.closed = TRUE]
    /\ UNCHANGED <<conns, conn>>

LoopEnds ==
    /\ server.closed /\ server.loop = "select"
    /\ server' = [server EXCEPT !.loop = "ended"]
    /\ UNCHANGED <<conns, conn>>

-----------------------------------------------------------------------------
(* conn.run() and runInner().                                               *)

RunStops(c) ==
    /\ conn[c].run = "select" /\ Done(c)
    /\ Set(c, [conn[c] EXCEPT !.run = "waitReader"])
    /\ UNCHANGED <<server, conns>>

\* readerErr, in the select or after ctx.Done(): the context is cancelled.
ReaderEnds(c) ==
    /\ conn[c].run \in {"select", "waitReader"} /\ conn[c].reader = "returned"
    /\ Set(c, [conn[c] EXCEPT !.run = "closing", !.reader = None, !.cancelled = TRUE])
    /\ UNCHANGED <<server, conns>>

-----------------------------------------------------------------------------
(* conn.runReader(): the handshake, then runRead() or runPublish().         *)

\* Mutant of Return: a connection that does not leave the path.
ReturnAttached(c) == Set(c, [conn[c] EXCEPT !.reader = "returned", !.reading = FALSE])

\* The deferred calls: onUnreadHook(), RemoveReader() or RemovePublisher().
Return(c) ==
    Set(c, [conn[c] EXCEPT !.reader = "returned", !.attached = FALSE, !.reading = FALSE])

\* NewServerConn() fails when run() closes the network connection, or by itself.
Handshake(c) ==
    /\ conn[c].reader = "handshake"
    /\ \/ Return(c)
       \/ /\ conn[c].run = "select"
          /\ \E s \in {"read", "publish"} :
                Set(c, [conn[c] EXCEPT !.reader = "adding", !.role = s])
    /\ UNCHANGED <<server, conns>>

\* The answer to AddReader() or AddPublisher(): refused, refused for the
\* credentials (after a pause), or admitted.
PathAnswers(c) ==
    /\ conn[c].reader = "adding"
    /\ \/ Return(c)
       \/ Set(c, [conn[c] EXCEPT !.reader = "pause"])
       \/ Set(c, [conn[c] EXCEPT !.reader = "setup", !.attached = TRUE])
    /\ UNCHANGED <<server, conns>>

PauseEnds(c) ==
    /\ conn[c].reader = "pause"
    /\ Return(c)
    /\ UNCHANGED <<server, conns>>

\* The path closes a session: it forgets it and calls Close().
PathCloses(c) ==
    /\ conn[c].attached
    /\ Set(c, [conn[c] EXCEPT !.attached = FALSE, !.cancelled = TRUE])
    /\ UNCHANGED <<server, conns>>

SetupVideo(formats) == FirstIn(<<"H264">>, formats)

SetupAudio(formats) == FirstIn(<<"MPEG4Audio", "MPEG1Audio">>, formats)

\* runRead(): a stream without a codec that RTMP has is refused; NewWriter()
\* may fail after OnRead() was called.
StartReading(c) ==
    /\ conn[c].reader = "setup" /\ conn[c].role = "read"
    /\ \E formats \in StreamFormats :
        IF SetupVideo(formats) = None /\ SetupAudio(formats) = None
        THEN Return(c)
        ELSE \/ Set(c, [conn[c] EXCEPT !.reader = "active", !.reading = TRUE])
             \/ Return(c)
    /\ UNCHANGED <<server, conns>>

\* The codecs that runPublish() forwards.
Publishable == {"AV1", "VP9", "H265", "H264", "MPEG4Audio", "MPEG1Audio", "G711", "LPCM"}

\* runPublish(): NewReader() may fail, a track with another codec is refused,
\* and StartPublisher() fails when the path has another publisher by now.
StartPublishing(c) ==
    /\ conn[c].reader = "setup" /\ conn[c].role = "publish"
    /\ \/ Return(c)
       \/ /\ conn[c].attached
          /\ \E formats \in StreamFormats :
                /\ formats \subseteq Publishable
                /\ Set(c, [conn[c] EXCEPT !.reader = "active"])
    /\ UNCHANGED <<server, conns>>

\* ctx.Done() for a reader; the closed network connection for a publisher.
SessionStops(c) ==
    /\ conn[c].reader = "active"
    /\ IF conn[c].role = "read" THEN Done(c) ELSE conn[c].run = "waitReader"
    /\ Return(c)
    /\ UNCHANGED <<server, conns>>

\* An error of the writer, of the network or of the peer.
SessionFails(c) ==
    /\ conn[c].reader = "active"
    /\ Return(c)
    /\ UNCHANGED <<server, conns>>

-----------------------------------------------------------------------------

ConnStep(c) ==
    \/ CloseConn(c) \/ RunStops(c) \/ ReaderEnds(c) \/ PathAnswers(c) \/ PauseEnds(c)
    \/ StartReading(c) \/ StartPublishing(c) \/ SessionStops(c)
    \/ conn[c].run = "waitReader" /\ Handshake(c)

Next ==
    \/ AcceptError \/ Close \/ LoopEnds
    \/ \E c \in Conns :
        \/ NewConn(c) \/ Kick(c) \/ PathCloses(c) \/ Handshake(c)
        \/ SessionFails(c) \/ ConnStep(c)

Spec == Init /\ [][Next]_vars

-----------------------------------------------------------------------------
(* Properties.                                                              *)

TypeOK ==
    /\ server \in [closed: BOOLEAN, loop: {"select", "ended"}]
    /\ conns \subseteq Conns
    /\ conn \in [Conns -> ConnState]

\* What a connection leaves when its goroutines end, however it ended (an
\* error, a kick, the path, the server): no session on the path, no command of
\* a hook that still runs, and no entry in the map of a server that runs.
EndedIsClean ==
    /\ \A c \in Conns :
        conn[c].run \in {"closing", "unused"} => ~conn[c].attached /\ ~conn[c].reading
    /\ ~server.closed => \A c \in conns : conn[c].run # "unused"

\* A connection that nobody closed is in the map: the server can kick it.
LiveConnsAreListed ==
    \A c \in Conns : conn[c].run = "select" /\ ~Done(c) => c \in conns

\* When no goroutine of the server can move by itself, every connection is
\* either a client that talks to the server or gone: nobody waits for a
\* goroutine that waits too.
NobodyLeftWaiting ==
    \/ ENABLED (LoopEnds \/ \E c \in Conns : ConnStep(c))
    \/ \A c \in Conns : \/ conn[c].run = "unused"
                        \/ conn[c].reader \in {"handshake", "active"} /\ ~Done(c)
=============================================================================
