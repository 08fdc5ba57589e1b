------------------------------ MODULE RTSPServer ------------------------------
(***************************************************************************)
(* The RTSP server (internal/servers/rtsp).  The library gortsplib runs a   *)
(* goroutine per session, checks that a request is legal in the state of    *)
(* the session, calls the handlers modelled here, and moves the session to  *)
(* its next state when they return no error.  A handler calls the path and  *)
(* waits; meanwhile the path may close the session, and the API may kick it *)
(* from a goroutine of its own.                                             *)
(***************************************************************************)
EXTENDS Naturals

CONSTANTS
    Sessions,           \* sessions that may exist at a time (a bound)
    MaxAuthFailures     \* refused credentials that a connection is forgiven

VARIABLES
    sessions,   \* Server.sessions
    session     \* Sessions -> the state of a session

vars == <<sessions, session>>

None == "none"

Methods == {"describe", "announce", "setup", "play", "record", "pause"}

\* state: that of gortsplib ("none": no session).  request: the one whose
\* handler is waiting for the path.  closed: rsession.Close() was called.
\* path: s.path is set.  attached: what the path knows the session as.
\* unread: onUnreadHook must still be called.  kick: how far APISessionsKick()
\* is.  crashed: a nil s.path was used, which ends the process.
SessionState ==
    [state: {None, "initial", "prePlay", "play", "preRecord", "record"},
     request: Methods \cup {None}, closed: BOOLEAN, path: BOOLEAN,
     attached: {None, "reader", "publisher"}, unread: BOOLEAN,
     authFailures: 0..(MaxAuthFailures + 1),
     kick: {None, "closing", "done"}, crashed: BOOLEAN]

NoSession ==
    [state |-> None, request |-> None, closed |-> FALSE, path |-> FALSE,
     attached |-> None, unread |-> FALSE, authFailures |-> 0, kick |-> None,
     crashed |-> FALSE]

Init ==
    /\ sessions = {}
    /\ session = [s \in Sessions |-> NoSession]

Set(s, r) == session' = [session EXCEPT ![s] = r]

-----------------------------------------------------------------------------
(* gortsplib: sessions open, requests arrive in the states it allows.       *)

\* Server.mutex: APISessionsKick() holds it for reading, the callbacks that
\* change the map need it for writing.
Unlocked == \A s \in Sessions : session[s].kick # "closing"

OnSessionOpen(s) ==
    /\ session[s].state = None /\ s \notin sessions
    /\ Unlocked /\ session[s].attached = None
    /\ Set(s, [NoSession EXCEPT !.state = "initial"])
    /\ sessions' = sessions \cup {s}

\* The states in which gortsplib calls the handler of a request.
Legal(request) ==
    CASE request = "describe" -> {"initial", "prePlay", "play", "preRecord", "record"}
      [] request = "announce" -> {"initial"}
      [] request = "setup" -> {"initial", "prePlay", "preRecord"}
      [] request = "play" -> {"prePlay", "play"}
      [] request = "record" -> {"preRecord"}
      [] request = "pause" -> {"prePlay", "play", "preRecord", "record"}

Request(s) ==
    /\ session[s].request = None /\ ~session[s].closed
    /\ \E r \in Methods :
        /\ session[s].state \in Legal(r)
        /\ Set(s, [session[s] EXCEPT !.request = r])
    /\ UNCHANGED sessions

Handled(s, r) == Set(s, [r EXCEPT !.request = None])

\* A handler that uses s.path after it was reset to nil.
UsesPath(s, r) == Handled(s, IF session[s].path THEN r ELSE [r EXCEPT !.crashed = TRUE])

-----------------------------------------------------------------------------
(* The handlers of session.go and conn.go, when the path has answered.      *)

\* handleAuthError(): up to MaxAuthFailures are answered with a challenge; the
\* next one waits and closes the connection.
AuthError(s) ==
    /\ session[s].request \in {"describe", "announce", "setup"}
    /\ LET n == session[s].authFailures + 1 IN
        Handled(s, [session[s] EXCEPT !.authFailures = n,
                                      !.closed = @ \/ n > MaxAuthFailures])
    /\ UNCHANGED sessions

\* The path, the transport or the name is refused, or nothing is to be done:
\* describe, a setup of a session that records, play while playing, pause of a
\* session that is not active.
NoChange(s) ==
    /\ \/ session[s].request \in {"describe", "announce", "setup"}
       \/ session[s].request = "play" /\ session[s].state = "play"
       \/ session[s].request = "pause" /\ session[s].state \in {"prePlay", "preRecord"}
    /\ Handled(s, session[s])
    /\ UNCHANGED sessions

OnAnnounce(s) ==
    /\ session[s].request = "announce"
    /\ Handled(s, [session[s] EXCEPT !.state = "preRecord", !.path = TRUE,
                                     !.attached = "publisher"])
    /\ UNCHANGED sessions

OnSetup(s) ==
    /\ session[s].request = "setup" /\ session[s].state \in {"initial", "prePlay"}
    /\ Handled(s, [session[s] EXCEPT !.state = "prePlay", !.path = TRUE,
                                     !.attached = "reader"])
    /\ UNCHANGED sessions

OnPlay(s) ==
    /\ session[s].request = "play" /\ session[s].state = "prePlay"
    /\ UsesPath(s, [session[s] EXCEPT !.state = "play", !.unread = TRUE])
    /\ UNCHANGED sessions

\* StartPublisher() fails when the path has another publisher by now.
OnRecord(s) ==
    /\ session[s].request = "record"
    /\ \/ /\ session[s].attached = "publisher" \/ ~session[s].path
          /\ UsesPath(s, [session[s] EXCEPT !.state = "record"])
       \/ UsesPath(s, session[s])
    /\ UNCHANGED sessions

OnPause(s) ==
    /\ session[s].request = "pause"
    /\ \/ /\ session[s].state = "play"
          /\ Handled(s, [session[s] EXCEPT !.state = "prePlay", !.unread = FALSE])
       \/ /\ session[s].state = "record"
          /\ UsesPath(s, [session[s] EXCEPT !.state = "preRecord"])
    /\ UNCHANGED sessions

-----------------------------------------------------------------------------
(* The ends of a session.                                                   *)

\* session.onClose(): what it undoes depends on the state of the session.
OnClose(r) ==
    [r EXCEPT !.unread = IF r.state = "play" THEN FALSE ELSE @,
              !.attached = IF r.state = "initial" THEN @ ELSE None,
              !.path = FALSE,
              !.crashed = @ \/ (r.state # "initial" /\ ~r.path)]

\* OnSessionClose(): between two requests, because of a TEARDOWN, a timeout,
\* an error, the connection, the server, or rsession.Close().  A session that
\* is not in the map any more was closed by APISessionsKick().
OnSessionClose(s) ==
    /\ session[s].state # None /\ session[s].request = None /\ Unlocked
    /\ LET r == IF s \in sessions THEN OnClose(session[s]) ELSE session[s]
       IN  Set(s, [r EXCEPT !.state = None, !.closed = FALSE])
    /\ sessions' = sessions \ {s}

\* The path closes the session: it forgets it and calls Close().
PathCloses(s) ==
    /\ session[s].attached # None /\ session[s].state # None
    /\ Set(s, [session[s] EXCEPT !.attached = None, !.closed = TRUE])
    /\ UNCHANGED sessions

\* APISessionsKick() finds the session and calls Close(), and then removes it
\* from the map and runs onClose(), all in the goroutine of the API.
KickFinds(s) ==
    /\ s \in sessions /\ session[s].kick = None
    /\ Set(s, [session[s] EXCEPT !.kick = "closing", !.closed = TRUE])
    /\ UNCHANGED sessions

KickCloses(s) ==
    /\ session[s].kick = "closing"
    /\ Set(s, [OnClose(session[s]) EXCEPT !.kick = "done"])
    /\ sessions' = sessions \ {s}

-----------------------------------------------------------------------------

Next ==
    \E s \in Sessions :
        \/ OnSessionOpen(s) \/ Request(s) \/ AuthError(s) \/ NoChange(s) \/ OnAnnounce(s)
        \/ OnSetup(s) \/ OnPlay(s) \/ OnRecord(s) \/ OnPause(s) \/ OnSessionClose(s)
        \/ PathCloses(s) \/ KickFinds(s) \/ KickCloses(s)

Spec == Init /\ [][Next]_vars

-----------------------------------------------------------------------------
(* Properties.                                                              *)

TypeOK == sessions \subseteq Sessions /\ session \in [Sessions -> SessionState]

\* Whatever the order of requests, of answers and of the path closing the
\* session: a session that nobody kicks never uses a nil path, calls
\* the hooks of a reader in pairs, and leaves nothing on the path.
EndedIsClean ==
    \A s \in Sessions : session[s].kick = None =>
        /\ ~session[s].crashed
        /\ session[s].unread <=> session[s].state = "play"
        /\ session[s].state = None => session[s].attached = None /\ s \notin sessions
=============================================================================
