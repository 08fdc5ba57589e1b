----------------------------- MODULE WebRTCServer -----------------------------
(***************************************************************************)
(* The WebRTC server (internal/servers/webrtc).  A session is created by an *)
(* HTTP POST that waits for the answer to its offer, gets more ICE          *)
(* candidates with PATCH requests, which a goroutine of the session reads,  *)
(* and ends with a DELETE, a kick, the peer, the path or the server.  All   *)
(* the channels are unbuffered.                                             *)
(***************************************************************************)
EXTENDS Naturals, Sequences, Codecs

CONSTANTS
    Sessions,       \* sessions that may exist at a time (a bound)
    StreamFormats   \* the sets of codecs of a stream

VARIABLES
    server,     \* [closed: ctx is done, loop]
    sessions,   \* Server.sessions, and sessionsBySecret, which has the same
    session,    \* Sessions -> the state of a session
    post,       \* Sessions -> where the POST request of the session is
    patch       \* Sessions -> where a PATCH request of the session is

vars == <<server, sessions, session, post, patch>>

\* run is the program counter of session.run(), candidates that of
\* readRemoteCandidates().  answered: req.res was written.  attached: the path
\* knows the session.  reading: OnRead() was called and its undo was not.  pc is
\* the peer connection; count and tracks are the tracks that a publisher
\* announced and those that have arrived.
SessionState ==
    [run: {"unused", "waitNew", "adding", "pause", "setup", "gathering", "connecting",
           "tracks", "active", "returned", "closing"},
     candidates: {None, "select", "stuck"}, role: {None, "read", "publish"},
     cancelled: BOOLEAN, answered: BOOLEAN, attached: BOOLEAN, reading: BOOLEAN,
     pc: {None, "new", "connected", "disconnected", "closed"},
     count: 0..2, tracks: 0..1]

Unused ==
    [run |-> "unused", candidates |-> None, role |-> None, cancelled |-> FALSE,
     answered |-> FALSE, attached |-> FALSE, reading |-> FALSE, pc |-> None,
     count |-> 0, tracks |-> 0]

Init ==
    /\ server = [closed |-> FALSE, loop |-> "select"]
    /\ sessions = {}
    /\ session = [s \in Sessions |-> Unused]
    /\ post = [s \in Sessions |-> None]
    /\ patch = [s \in Sessions |-> None]

Done(s) == session[s].cancelled \/ server.closed

Set(s, r) == session' = [session EXCEPT ![s] = r]

-----------------------------------------------------------------------------
(* Server.run() and the HTTP requests.                                      *)

\* onWHIPPost() and chNewSession: the session is created and the request goes
\* on to it.  An identity is used again when nothing of the session is left.
NewSession(s) ==
    /\ server.loop = "select" /\ session[s].run = "unused"
    /\ post[s] = None /\ patch[s] = None /\ session[s].candidates = None
    /\ Set(s, [Unused EXCEPT !.run = "waitNew"])
    /\ sessions' = sessions \cup {s}
    /\ post' = [post EXCEPT ![s] = "new"]
    /\ UNCHANGED <<server, patch>>

\* chCloseSession, or no server any more.
CloseSession(s) ==
    /\ session[s].run = "closing"
    /\ \/ server.loop = "select" /\ sessions' = sessions \ {s}
       \/ server.closed /\ UNCHANGED sessions
    /\ Set(s, [session[s] EXCEPT !.run = "unused"])
    /\ UNCHANGED <<server, post, patch>>

\* onWHIPDelete() of a client that got the secret with the answer.
DeleteSession(s) ==
    /\ server.loop = "select" /\ s \in sessions /\ session[s].answered
    /\ sessions' = sessions \ {s}
    /\ session' = [session EXCEPT ![s].cancelled = TRUE]
    /\ UNCHANGED <<server, post, patch>>

\* chAPIConnsKick.
Kick(s) ==
    /\ server.loop = "select" /\ s \in sessions
    /\ sessions' = sessions \ {s}
    /\ session' = [session EXCEPT ![s].cancelled = TRUE]
    /\ UNCHANGED <<server, post, patch>>

\* onWHIPPatch() and chAddSessionCandidates: the session is found by its secret.
AddSessionCandidates(s) ==
    /\ server.loop = "select" /\ s \in sessions /\ session[s].answered /\ patch[s] = None
    /\ patch' = [patch EXCEPT ![s] = "calling"]
    /\ UNCHANGED <<server, sessions, session, post>>

Close ==
    /\ ~server.closed
    /\ server' = [server EXCEPT !.closed = TRUE]
    /\ UNCHANGED <<sessions, session, post, patch>>

\* The loop ends, and then waits for the sessions before it closes the
\* listeners.
LoopEnds ==
    /\ server.closed /\ server.loop = "select"
    /\ server' = [server EXCEPT !.loop = "waitSessions"]
    /\ UNCHANGED <<sessions, session, post, patch>>

ListenersClose ==
    /\ server.loop = "waitSessions" /\ \A s \in Sessions : session[s].run = "unused"
    /\ server' = [server EXCEPT !.loop = "ended"]
    /\ UNCHANGED <<sessions, session, post, patch>>

-----------------------------------------------------------------------------
(* session.run() and the answer to the POST request.                        *)

\* session.new().
New(s) ==
    /\ post[s] = "new"
    /\ \/ /\ session[s].run = "waitNew"
          /\ Set(s, [session[s] EXCEPT !.run = "adding"])
          /\ post' = [post EXCEPT ![s] = "answer"]
       \/ /\ Done(s)
          /\ post' = [post EXCEPT ![s] = None]
          /\ UNCHANGED session
    /\ UNCHANGED <<server, sessions, patch>>

NewCancelled(s) ==
    /\ session[s].run = "waitNew" /\ Done(s)
    /\ Set(s, [session[s] EXCEPT !.run = "closing", !.cancelled = TRUE])
    /\ UNCHANGED <<server, sessions, post, patch>>

\* The deferred calls of runPublish() and runRead(): the hook, Close() of the
\* peer connection, and the path.
Return(s) ==
    Set(s, [session[s] EXCEPT !.run = "returned", !.attached = FALSE, !.reading = FALSE,
                              !.pc = IF @ = None THEN None ELSE "closed",
                              !.count = 0, !.tracks = 0])

PathAnswers(s) ==
    /\ session[s].run = "adding"
    /\ \/ Return(s)
       \/ Set(s, [session[s] EXCEPT !.run = "pause"])
       \/ \E role \in {"read", "publish"} :
            Set(s, [session[s] EXCEPT !.run = "setup", !.role = role, !.attached = TRUE])
    /\ UNCHANGED <<server, sessions, post, patch>>

PauseEnds(s) ==
    /\ session[s].run = "pause" /\ Return(s)
    /\ UNCHANGED <<server, sessions, post, patch>>

FindVideoTrack(formats) == FirstIn(<<"AV1", "VP9", "VP8", "H264">>, formats)

FindAudioTrack(formats) == FirstIn(<<"Opus", "G722", "G711">>, formats)

\* The ICE servers or Start() of the peer connection may fail.
SetupFails(s) ==
    /\ session[s].run = "setup" /\ Return(s)
    /\ UNCHANGED <<server, sessions, post, patch>>

\* The tracks of an offer: at most a video and an audio track.
TrackCounts == 0..2

\* Start() of the peer connection, and CreateFullAnswer() up to the wait for
\* the candidates.  A reader needs a codec that WebRTC has.
StartPeer(s) ==
    /\ session[s].run = "setup"
    /\ session[s].role = "read" =>
        \E formats \in StreamFormats :
            FindVideoTrack(formats) # None \/ FindAudioTrack(formats) # None
    /\ \E count \in IF session[s].role = "read" THEN {0} ELSE TrackCounts :
        Set(s, [session[s] EXCEPT !.run = "gathering", !.pc = "new", !.count = count])
    /\ UNCHANGED <<server, sessions, post, patch>>

\* The offer is refused, or the session ends during WaitGatheringDone().
AnswerFails(s) ==
    /\ session[s].run = "gathering" /\ Return(s)
    /\ UNCHANGED <<server, sessions, post, patch>>

\* writeAnswer(), and the goroutine that reads the candidates is started.
WriteAnswer(s) ==
    /\ session[s].run = "gathering" /\ post[s] = "answer"
    /\ post' = [post EXCEPT ![s] = None]
    /\ Set(s, [session[s] EXCEPT !.run = "connecting", !.answered = TRUE,
                                 !.candidates = "select"])
    /\ UNCHANGED <<server, sessions, patch>>

\* OnConnectionStateChange(); a connection that was lost does not come back.
PeerChanges(s) ==
    /\ session[s].answered
    /\ \/ /\ session[s].pc = "new"
          /\ Set(s, [session[s] EXCEPT !.pc = "connected"])
       \/ /\ session[s].pc = "connected"
          /\ Set(s, [session[s] EXCEPT !.pc = "disconnected"])
    /\ UNCHANGED <<server, sessions, post, patch>>

\* co.connected is closed and stays so: a publisher gathers its tracks, a reader
\* attaches its own to the stream and calls OnRead().
WaitUntilConnected(s) ==
    /\ session[s].run = "connecting" /\ session[s].pc # "new"
    /\ IF session[s].role = "read"
       THEN Set(s, [session[s] EXCEPT !.run = "active", !.reading = TRUE])
       ELSE Set(s, [session[s] EXCEPT !.run = "tracks"])
    /\ UNCHANGED <<server, sessions, post, patch>>

\* WaitUntilConnected() times out or is cancelled, or a track of the reader
\* cannot be set up.
ConnectFails(s) ==
    /\ session[s].run = "connecting" /\ Return(s)
    /\ UNCHANGED <<server, sessions, post, patch>>

\* StartPublisher() fails when the path has another publisher by now.
StartPublisher(s) ==
    IF session[s].attached
    THEN Set(s, [session[s] EXCEPT !.run = "active", !.count = 0, !.tracks = 0])
    ELSE Return(s)

\* GatherIncomingTracks(): a track arrives; two are always enough.
IncomingTrack(s) ==
    /\ session[s].run = "tracks" /\ session[s].pc = "connected"
    /\ IF session[s].tracks + 1 \in {session[s].count, 2}
       THEN StartPublisher(s)
       ELSE Set(s, [session[s] EXCEPT !.tracks = @ + 1])
    /\ UNCHANGED <<server, sessions, post, patch>>

\* Its timer: an offer without tracks gets what has arrived.
GatherTimeout(s) ==
    /\ session[s].run = "tracks"
    /\ IF session[s].count = 0 THEN StartPublisher(s) ELSE Return(s)
    /\ UNCHANGED <<server, sessions, post, patch>>

GatherFails(s) ==
    /\ session[s].run = "tracks" /\ (session[s].pc = "disconnected" \/ Done(s))
    /\ Return(s)
    /\ UNCHANGED <<server, sessions, post, patch>>

\* writer.Error().
SessionFails(s) ==
    /\ session[s].run = "active" /\ session[s].role = "read" /\ Return(s)
    /\ UNCHANGED <<server, sessions, post, patch>>

\* pc.Disconnected().
PeerGone(s) ==
    /\ session[s].run = "active" /\ session[s].pc = "disconnected" /\ Return(s)
    /\ UNCHANGED <<server, sessions, post, patch>>

SessionStops(s) ==
    /\ session[s].run = "active" /\ Done(s) /\ Return(s)
    /\ UNCHANGED <<server, sessions, post, patch>>

\* runInner(): the POST request is answered with an error unless runInner2()
\* returned the status 0, which it does after writeAnswer().
Reject(s) ==
    /\ session[s].run = "returned"
    /\ IF session[s].answered
       THEN UNCHANGED post
       ELSE post[s] = "answer" /\ post' = [post EXCEPT ![s] = None]
    /\ Set(s, [session[s] EXCEPT !.run = "closing", !.cancelled = TRUE])
    /\ UNCHANGED <<server, sessions, patch>>

PathCloses(s) ==
    /\ session[s].attached
    /\ Set(s, [session[s] EXCEPT !.attached = FALSE, !.cancelled = TRUE])
    /\ UNCHANGED <<server, sessions, post, patch>>

-----------------------------------------------------------------------------
(* readRemoteCandidates() and addCandidates().                              *)

\* A candidate that AddRemoteCandidate() refuses is answered at once, and the
\* answer at the end of the loop has nobody to receive it.
TakeCandidates(s) ==
    /\ patch[s] = "calling" /\ session[s].candidates = "select"
    /\ \E c \in {"select", "stuck"} : Set(s, [session[s] EXCEPT !.candidates = c])
    /\ patch' = [patch EXCEPT ![s] = None]
    /\ UNCHANGED <<server, sessions, post>>

CandidatesEnd(s) ==
    /\ session[s].candidates = "select" /\ Done(s)
    /\ Set(s, [session[s] EXCEPT !.candidates = None])
    /\ UNCHANGED <<server, sessions, post, patch>>

PatchCancelled(s) ==
    /\ patch[s] = "calling" /\ Done(s)
    /\ patch' = [patch EXCEPT ![s] = None]
    /\ UNCHANGED <<server, sessions, session, post>>

-----------------------------------------------------------------------------

SessionStep(s) ==
    \/ CloseSession(s) \/ New(s) \/ NewCancelled(s) \/ PathAnswers(s) \/ PauseEnds(s)
    \/ SetupFails(s) \/ StartPeer(s) \/ AnswerFails(s) \/ WriteAnswer(s)
    \/ WaitUntilConnected(s) \/ ConnectFails(s) \/ GatherTimeout(s) \/ GatherFails(s)
    \/ PeerGone(s) \/ SessionStops(s) \/ Reject(s)
    \/ TakeCandidates(s) \/ CandidatesEnd(s) \/ PatchCancelled(s)

Next ==
    \/ Close \/ LoopEnds \/ ListenersClose
    \/ \E s \in Sessions :
        \/ NewSession(s) \/ DeleteSession(s) \/ Kick(s) \/ AddSessionCandidates(s)
        \/ PathCloses(s) \/ PeerChanges(s) \/ IncomingTrack(s) \/ SessionFails(s)
        \/ SessionStep(s)

Spec == Init /\ [][Next]_vars

-----------------------------------------------------------------------------
(* Properties.                                                              *)

TypeOK ==
    /\ server \in [closed: BOOLEAN, loop: {"select", "waitSessions", "ended"}]
    /\ sessions \subseteq Sessions
    /\ session \in [Sessions -> SessionState]
    /\ post \in [Sessions -> {None, "new", "answer"}]
    /\ patch \in [Sessions -> {None, "calling"}]

\* What a session leaves when run() ends, however it ended: no session on the
\* path, no command of a hook, no open peer connection, and no entry in the maps
\* of a running server.
EndedIsClean ==
    /\ \A s \in Sessions :
        session[s].run \in {"returned", "closing", "unused"} =>
            /\ ~session[s].attached /\ ~session[s].reading
            /\ session[s].pc \in {None, "closed"}
    /\ ~server.closed => \A s \in sessions : session[s].run # "unused"

\* A session that nobody closed is in the maps: it can be kicked and deleted.
LiveSessionsAreListed ==
    \A s \in Sessions :
        session[s].run \notin {"unused", "returned", "closing"} /\ ~Done(s) => s \in sessions

\* When neither the server nor a session can move by itself, no POST request
\* is waiting (each gets one answer, neither none nor two), a PATCH request
\* waits only behind one whose candidate was refused, and every session is one
\* whose peer is connected.
NobodyLeftWaiting ==
    \/ ENABLED (LoopEnds \/ ListenersClose \/ \E s \in Sessions : SessionStep(s))
    \/ \A s \in Sessions :
        /\ post[s] = None
        /\ patch[s] # None => session[s].candidates = "stuck"
        /\ \/ session[s].run = "unused"
           \/ session[s].run = "active" /\ session[s].pc = "connected" /\ ~Done(s)
=============================================================================
