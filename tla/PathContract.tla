---------------------------- MODULE PathContract ----------------------------
(***************************************************************************)
(* What a path promises to the sessions that read from it, whatever its    *)
(* source is.  The path is ready or not; a session reads only while it is  *)
(* ready and waits only while it is not; when the path becomes ready every *)
(* waiting session is answered, and all of them read if there is no limit; *)
(* when it stops being ready every reader is let go at once.               *)
(***************************************************************************)
EXTENDS Naturals, FiniteSets

CONSTANT Sessions

VARIABLES
    open,      \* the path serves requests
    ready,     \* there is a stream
    readers,   \* sessions reading the stream
    waiting,   \* sessions waiting for a stream
    limit      \* how many may read at once, 0 for no limit

vars == <<open, ready, readers, waiting, limit>>

Init ==
    /\ open = TRUE
    /\ ready = FALSE
    /\ readers = {}
    /\ waiting = {}
    /\ limit \in Nat

WithinLimit(S) == limit = 0 \/ Cardinality(S) <= limit

BecomeReady ==
    /\ open /\ ~ready
    /\ ready' = TRUE
    /\ readers' \subseteq waiting
    /\ WithinLimit(readers')
    /\ limit = 0 => readers' = waiting
    /\ waiting' = {}
    /\ UNCHANGED <<open, limit>>

BecomeNotReady ==
    /\ open /\ ready
    /\ ready' = FALSE
    /\ readers' = {}
    /\ UNCHANGED <<open, waiting, limit>>

Join(r) ==
    /\ open /\ ready
    /\ readers' = readers \cup {r}
    /\ WithinLimit(readers')
    /\ UNCHANGED <<open, ready, waiting, limit>>

Leave(r) ==
    /\ readers' = readers \ {r}
    /\ UNCHANGED <<open, ready, waiting, limit>>

Wait(r) ==
    /\ open /\ ~ready
    /\ waiting' = waiting \cup {r}
    /\ UNCHANGED <<open, ready, readers, limit>>

\* The start timeout: every waiting session gets an error.
GiveUp ==
    /\ open /\ ~ready
    /\ waiting' = {}
    /\ UNCHANGED <<open, ready, readers, limit>>

Close ==
    /\ open
    /\ open' = FALSE
    /\ ready' = FALSE
    /\ readers' = {}
    /\ waiting' = {}
    /\ UNCHANGED limit

Next ==
    \/ BecomeReady
    \/ BecomeNotReady
    \/ \E r \in Sessions : Join(r) \/ Leave(r) \/ Wait(r)
    \/ GiveUp
    \/ Close

Spec == Init /\ [][Next]_vars

\* Sessions read only a path that is ready and wait only for one that is not.
ReadOrWait ==
    /\ readers # {} => ready
    /\ waiting # {} => ~ready
=============================================================================
