------------------------------ MODULE SRTServer ------------------------------
(***************************************************************************)
(* The SRT server (internal/servers/srt).  A connection request is decided  *)
(* while the only listener waits: the listener asks the server's loop for a *)
(* connection object, hands the request to its goroutine, waits for the     *)
(* answer, and then passes the accepted socket to the same goroutine, if    *)
(* the library (gosrt) still accepts the connection.  All the channels are  *)
(* unbuffered.                                                              *)
(***************************************************************************)
EXTENDS Naturals, Sequences, Codecs

CONSTANTS
    Conns,          \* connections that may exist at a time (a bound)
    StreamFormats   \* the sets of codecs of a stream

VARIABLES
    server,     \* [closed: ctx is done, loop]
    listener,   \* [at, conn]: where the listener is, and with which connection
    conns,      \* Server.conns
    conn        \* Conns -> the state of a connection

vars == <<server, listener, conns, conn>>

\* run is the program counter of conn.run(), reader that of runPublishReader().
\* answered: req.res was written.  attached: the path knows the session.
\* reading: OnRead() was called and its undo was not.  noSocket: the request was
\* granted and Accept() gave no socket (known to nobody, for the properties).
ConnState ==
    [run: {"unused", "waitNew", "adding", "pause", "attached", "exchange", "active",
           "waitReader", "returned", "closing"},
     reader: {None, "setup", "started", "returned"}, role: {None, "read", "publish"},
     cancelled: BOOLEAN, answered: BOOLEAN, attached: BOOLEAN, reading: BOOLEAN,
     noSocket: BOOLEAN]

Unused ==
    [run |-> "unused", reader |-> None, role |-> None, cancelled |-> FALSE,
     answered |-> FALSE, attached |-> FALSE, reading |-> FALSE, noSocket |-> FALSE]

Init ==
    /\ server = [closed |-> FALSE, loop |-> "select"]
    /\ listener = [at |-> "accept", conn |-> None]
    /\ conns = {}
    /\ conn = [c \in Conns |-> Unused]

Done(c) == conn[c].cancelled \/ server.closed

Set(c, r) == conn' = [conn EXCEPT ![c] = r]

\* "error": Accept() has returned an error, and acceptError() passes it on.
Accepting == [at |-> "accept", conn |-> None]
Failing == [at |-> "error", conn |-> None]

-----------------------------------------------------------------------------
(* Server.run().                                                            *)

\* newConnRequest(): the loop creates the connection and the listener gets it.
NewConnRequest(c) ==
    /\ listener.at = "accept" /\ server.loop = "select" /\ conn[c].run = "unused"
    /\ Set(c, [Unused EXCEPT !.run = "waitNew"])
    /\ conns' = conns \cup {c}
    /\ listener' = [at |-> "new", conn |-> c]
    /\ UNCHANGED server

CloseConn(c) ==
    /\ conn[c].run = "closing"
    /\ \/ server.loop = "select" /\ conns' = conns \ {c}
       \/ server.closed /\ UNCHANGED conns
    /\ Set(c, [Unused EXCEPT !.cancelled = TRUE])
    /\ UNCHANGED <<server, listener>>

Kick(c) ==
    /\ server.loop = "select" /\ c \in conns
    /\ conns' = conns \ {c}
    /\ conn' = [conn EXCEPT ![c].cancelled = TRUE]
    /\ UNCHANGED <<server, listener>>

Close ==
    /\ ~server.closed
    /\ server' = [server EXCEPT !.closed = TRUE]
    /\ UNCHANGED <<listener, conns, conn>>

\* An error of Accept() ends the loop as ctx.Done() does; the loop then closes
\* the socket, which makes Accept() return an error to the listener.
LoopEnds ==
    /\ server.loop = "select" /\ (server.closed \/ listener.at \in {"accept", "error"})
    /\ server' = [closed |-> TRUE, loop |-> "ended"]
    /\ UNCHANGED <<listener, conns, conn>>

\* acceptError() returns: the loop has the error, or ctx is done.
ListenerEnds ==
    /\ \/ listener.at = "accept" /\ server.loop = "ended"
       \/ listener.at = "error" /\ server.closed
    /\ listener' = [listener EXCEPT !.at = "ended"]
    /\ UNCHANGED <<server, conns, conn>>

-----------------------------------------------------------------------------
(* The listener and conn.run().                                             *)

\* conn.new(): the request reaches the goroutine, or the context is done and
\* the request is rejected.
New(c) ==
    /\ listener = [at |-> "new", conn |-> c]
    /\ \/ /\ conn[c].run = "waitNew"
          /\ Set(c, [conn[c] EXCEPT !.run = "adding"])
          /\ listener' = [at |-> "answer", conn |-> c]
       \/ /\ Done(c)
          /\ listener' = Accepting
          /\ UNCHANGED conn
    /\ UNCHANGED <<server, conns>>

NewCancelled(c) ==
    /\ conn[c].run = "waitNew" /\ Done(c)
    /\ Set(c, [conn[c] EXCEPT !.run = "closing", !.cancelled = TRUE])
    /\ UNCHANGED <<server, listener, conns>>

\* The deferred calls of runRead() and runPublish().
Return(c) ==
    Set(c, [conn[c] EXCEPT !.run = "returned", !.reader = None, !.attached = FALSE,
                           !.reading = FALSE])

\* runInner2(): an invalid stream ID ends here; the path refuses, refuses for
\* the credentials (after a pause) or admits the session.
PathAnswers(c) ==
    /\ conn[c].run = "adding"
    /\ \/ Return(c)
       \/ Set(c, [conn[c] EXCEPT !.run = "pause"])
       \/ \E role \in {"read", "publish"} :
            Set(c, [conn[c] EXCEPT !.run = "attached", !.role = role, !.attached = TRUE])
    /\ UNCHANGED <<server, listener, conns>>

PauseEnds(c) ==
    /\ conn[c].run = "pause" /\ Return(c)
    /\ UNCHANGED <<server, listener, conns>>

\* srtCheckPassphrase(): without a passphrase the connection passes; otherwise
\* it must be encrypted, with that passphrase.
CheckPassphrase(passphrase, encrypted, right) ==
    passphrase => encrypted /\ right

\* exchangeRequestWithConn(): the request is answered, and the goroutine waits
\* for the socket.
Exchange(c) ==
    /\ conn[c].run = "attached"
    /\ \E passphrase, encrypted, right \in BOOLEAN :
        IF CheckPassphrase(passphrase, encrypted, right)
        THEN /\ listener = [at |-> "answer", conn |-> c]
             /\ listener' = [at |-> "setConn", conn |-> c]
             /\ Set(c, [conn[c] EXCEPT !.run = "exchange", !.answered = TRUE])
        ELSE Return(c) /\ UNCHANGED listener
    /\ UNCHANGED <<server, conns>>

\* Mutant of SetConn: the listener does not forget the connection.
SetConnKeepsIt(c) ==
    /\ listener = [at |-> "setConn", conn |-> c]
    /\ listener' = [listener EXCEPT !.at = "accept"]
    /\ \/ /\ conn[c].run = "exchange"
          /\ Set(c, [conn[c] EXCEPT !.run = "active",
                        !.reader = IF conn[c].role = "publish" THEN "setup" ELSE None])
       \/ Done(c) /\ UNCHANGED conn
    /\ UNCHANGED <<server, conns>>

\* setConn(): the socket reaches the goroutine, or the context is done.
SetConn(c) ==
    /\ listener = [at |-> "setConn", conn |-> c]
    /\ listener' = Accepting
    /\ \/ /\ conn[c].run = "exchange"
          /\ Set(c, [conn[c] EXCEPT !.run = "active",
                        !.reader = IF conn[c].role = "publish" THEN "setup" ELSE None])
       \/ Done(c) /\ UNCHANGED conn
    /\ UNCHANGED <<server, conns>>

\* Accept() refuses what the callback has granted, for instance an encrypted
\* connection to a path without a passphrase, or fails: setConn() is not called,
\* and the goroutine of the connection goes on waiting for it.
NoSocket(c) ==
    /\ listener = [at |-> "setConn", conn |-> c]
    /\ listener' \in {Accepting, Failing}
    /\ Set(c, [conn[c] EXCEPT !.noSocket = TRUE])
    /\ UNCHANGED <<server, conns>>

ExchangeCancelled(c) ==
    /\ conn[c].run = "exchange" /\ Done(c)
    /\ Return(c)
    /\ UNCHANGED <<server, listener, conns>>

\* runInner(): a request that was not answered yet is rejected now.
Reject(c) ==
    /\ conn[c].run = "returned"
    /\ IF conn[c].answered
       THEN UNCHANGED listener
       ELSE listener = [at |-> "answer", conn |-> c] /\ listener' = Accepting
    /\ Set(c, [conn[c] EXCEPT !.run = "closing", !.cancelled = TRUE])
    /\ UNCHANGED <<server, conns>>

-----------------------------------------------------------------------------
(* Sessions.                                                                *)

PathCloses(c) ==
    /\ conn[c].attached
    /\ Set(c, [conn[c] EXCEPT !.attached = FALSE, !.cancelled = TRUE])
    /\ UNCHANGED <<server, listener, conns>>

\* The codecs that mpegts.FromStream() writes.
Writable == {"H265", "H264", "MPEG4Video", "MPEG1Video", "Opus", "MPEG4Audio",
             "MPEG1Audio", "AC3"}

\* runRead(): FromStream() refuses a stream without a codec it can write.
StartReading(c) ==
    /\ conn[c].run = "active" /\ conn[c].role = "read" /\ ~conn[c].reading
    /\ \E formats \in StreamFormats :
        IF formats \cap Writable = {} THEN Return(c)
        ELSE Set(c, [conn[c] EXCEPT !.reading = TRUE])
    /\ UNCHANGED <<server, listener, conns>>

ReadingStops(c) ==
    /\ conn[c].run = "active" /\ conn[c].reading /\ Done(c)
    /\ Return(c)
    /\ UNCHANGED <<server, listener, conns>>

\* An error of the writer.
ReadingFails(c) ==
    /\ conn[c].run = "active" /\ conn[c].reading
    /\ Return(c)
    /\ UNCHANGED <<server, listener, conns>>

\* runPublishReader(): the tracks are probed and the publisher is started,
\* unless the path has another one by now; a closed socket ends it too.
StartPublishing(c) ==
    /\ conn[c].reader = "setup"
    /\ \/ conn[c].attached /\ Set(c, [conn[c] EXCEPT !.reader = "started"])
       \/ Set(c, [conn[c] EXCEPT !.reader = "returned"])
    /\ UNCHANGED <<server, listener, conns>>

PublishingFails(c) ==
    /\ conn[c].reader = "started"
    /\ Set(c, [conn[c] EXCEPT !.reader = "returned"])
    /\ UNCHANGED <<server, listener, conns>>

\* runPublish(): readerErr, in the select or after ctx.Done().
PublishingStops(c) ==
    /\ conn[c].run = "active" /\ conn[c].role = "publish" /\ Done(c)
    /\ Set(c, [conn[c] EXCEPT !.run = "waitReader"])
    /\ UNCHANGED <<server, listener, conns>>

ReaderEnds(c) ==
    /\ conn[c].run \in {"active", "waitReader"} /\ conn[c].reader = "returned"
    /\ Return(c)
    /\ UNCHANGED <<server, listener, conns>>

-----------------------------------------------------------------------------

ConnStep(c) ==
    \/ CloseConn(c) \/ New(c) \/ NewCancelled(c) \/ PathAnswers(c) \/ PauseEnds(c)
    \/ Exchange(c) \/ SetConn(c) \/ ExchangeCancelled(c) \/ Reject(c) \/ StartReading(c)
    \/ ReadingStops(c) \/ StartPublishing(c) \/ PublishingStops(c) \/ ReaderEnds(c)
    \/ conn[c].run = "waitReader" /\ PublishingFails(c)

Next ==
    \/ Close \/ LoopEnds \/ ListenerEnds
    \/ \E c \in Conns :
        \/ NewConnRequest(c) \/ NoSocket(c) \/ Kick(c) \/ PathCloses(c)
        \/ ReadingFails(c) \/ PublishingFails(c) \/ ConnStep(c)

Spec == Init /\ [][Next]_vars

-----------------------------------------------------------------------------
(* Properties.                                                              *)

TypeOK ==
    /\ server \in [closed: BOOLEAN, loop: {"select", "ended"}]
    /\ listener \in [at: {"accept", "new", "answer", "setConn", "error", "ended"},
                     conn: Conns \cup {None}]
    /\ listener.conn = None <=> listener.at \in {"accept", "error", "ended"}
    /\ conns \subseteq Conns
    /\ conn \in [Conns -> ConnState]

\* What a connection leaves when run() ends, however it ended: no session on
\* the path, no command of a hook, and no entry in the map of a running server.
EndedIsClean ==
    /\ \A c \in Conns :
        conn[c].run \in {"returned", "closing", "unused"} =>
            ~conn[c].attached /\ ~conn[c].reading /\ conn[c].reader = None
    /\ ~server.closed => \A c \in conns : conn[c].run # "unused"

\* A connection that nobody closed is in the map: the server can kick it.
LiveConnsAreListed ==
    \A c \in Conns :
        conn[c].run \notin {"unused", "returned", "closing"} /\ ~Done(c) => c \in conns

\* The listener, the server's loop and the connections never wait for each
\* other: when none of them can move, the listener is accepting (so that a
\* request is answered once, neither never nor twice) and every connection is
\* a session that is being used.  The exception is a session whose socket
\* Accept() has not given: it stays on its path, where it is the publisher or a
\* reader that sends and receives nothing, until the API kicks it, the path
\* closes it or the server ends.
NobodyLeftWaiting ==
    \/ ENABLED (\/ (server.closed \/ listener.at = "error") /\ LoopEnds
                \/ ListenerEnds
                \/ \E c \in Conns : ConnStep(c))
    \/ /\ listener.at \in {"accept", "ended"}
       /\ \A c \in Conns :
            \/ conn[c].run = "unused"
            \/ conn[c].run = "active" /\ ~Done(c)
            \/ conn[c].run = "exchange" /\ conn[c].noSocket /\ ~Done(c)
=============================================================================
