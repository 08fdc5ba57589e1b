--------------------------- MODULE SourceContract ---------------------------
(***************************************************************************)
(* The protocol between a path and its static source, as both sides see    *)
(* it.  The path starts and stops the source; a source that runs reports   *)
(* ready and not ready in alternation, and reports nothing once stopped.   *)
(***************************************************************************)
VARIABLE phase

Phases == {"stopped", "starting", "ready"}

Init == phase \in {"stopped", "starting"}

Start    == phase = "stopped"  /\ phase' = "starting"
SetReady == phase = "starting" /\ phase' = "ready"
NotReady == phase = "ready"    /\ phase' = "starting"
Stop     == phase # "stopped"  /\ phase' = "stopped"

Next == Start \/ SetReady \/ NotReady \/ Stop

Spec == Init /\ [][Next]_phase
=============================================================================
