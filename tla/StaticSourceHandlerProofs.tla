---------------------- MODULE StaticSourceHandlerProofs ----------------------
(***************************************************************************)
(* Theorems about StaticSourceHandler, for any number of starts and        *)
(* reloads: at most one instance exists, the requests that reach the path  *)
(* are current, and the path sees the alternation of SourceContract.       *)
(***************************************************************************)
EXTENDS StaticSourceHandler, TLAPS

\* The context of the handler lives exactly while the path has it started, and
\* run() is in its select, or blocked in a call of the path, all that time.
ContextMatchesRunning ==
    /\ ctxLive <=> running
    /\ running => hpc \notin {"none", "drain"}
    /\ ppc \in {"stop", "gone"} => ~running
    /\ setReady => running

\* The goroutine of the instance exists exactly between recreate() and the
\* reception of runErr.
InstanceMatchesHandler ==
    /\ ipc = "none" <=> hpc = "none" \/ recreating
    /\ recreating => hpc = "select"

\* A call of the instance is with the handler or with the path, never with
\* both, and nobody serves a call that was not made.
CallsMatch ==
    /\ hpc = "sendReady" => ipc = "waitReady"
    /\ hpc = "sendNotReady" => ipc = "waitNotReady"
    /\ ipc = "waitReady" => hpc = "sendReady" \/ ppc = "setReady"
    /\ ipc = "waitNotReady" => hpc = "sendNotReady" \/ ppc = "setNotReady"
    /\ ppc \in {"setReady", "setNotReady"} => pathCtx /\ hpc = "select"

\* The inductive invariant.
HandlerInv ==
    /\ TypeOK
    /\ NoInstanceLeftBehind
    /\ ContextMatchesRunning
    /\ InstanceMatchesHandler
    /\ CallsMatch
    /\ RequestsAreCurrent

-----------------------------------------------------------------------------
\* A handler that was never started satisfies the invariant.
LEMMA InitHandlerInv == Init => HandlerInv
<1> SUFFICES ASSUME Init PROVE HandlerInv
  OBVIOUS
<1>1. TypeOK
  <2>1. ppc \in PathControl /\ hpc \in HandlerControl /\ ipc \in InstanceControl
    BY DEF Init, PathControl, HandlerControl, InstanceControl
  <2>2. 0 \in 0..MaxStarts /\ 0 \in 0..MaxReloads
    BY BoundsAssumption
  <2> QED
    BY <2>1, <2>2, Zenon DEF Init, TypeOK
<1>2. NoInstanceLeftBehind /\ ContextMatchesRunning /\ InstanceMatchesHandler
  BY DEF Init, NoInstanceLeftBehind, ContextMatchesRunning, InstanceMatchesHandler
<1>3. CallsMatch /\ RequestsAreCurrent
  BY DEF Init, CallsMatch, RequestsAreCurrent
<1> QED
  BY <1>1, <1>2, <1>3 DEF HandlerInv

\* Every step keeps what relates the path, the handler and the instance.
LEMMA NextControl ==
    HandlerInv /\ [Next]_vars =>
        /\ NoInstanceLeftBehind' /\ ContextMatchesRunning'
        /\ InstanceMatchesHandler' /\ CallsMatch' /\ RequestsAreCurrent'
<1> SUFFICES ASSUME HandlerInv, [Next]_vars
             PROVE  /\ NoInstanceLeftBehind' /\ ContextMatchesRunning'
                    /\ InstanceMatchesHandler' /\ CallsMatch' /\ RequestsAreCurrent'
  OBVIOUS
<1> USE DEF HandlerInv, TypeOK, NoInstanceLeftBehind, ContextMatchesRunning,
            InstanceMatchesHandler, CallsMatch, RequestsAreCurrent,
            pathVars, handlerVars, confVars,
            PathControl, HandlerControl, InstanceControl
<1>1. CASE Start
  BY <1>1 DEF Start
<1>2. CASE Stop
  BY <1>2 DEF Stop
<1>3. CASE StopReturns
  BY <1>3 DEF StopReturns
<1>4. CASE Terminate
  BY <1>4 DEF Terminate
<1>5. CASE Reload
  BY <1>5 DEF Reload
<1>6. CASE PathReceivesReady
  BY <1>6 DEF PathReceivesReady
<1>7. CASE \E ok \in BOOLEAN : PathAnswersReady(ok)
  BY <1>7 DEF PathAnswersReady
<1>8. CASE PathReceivesNotReady
  BY <1>8 DEF PathReceivesNotReady
<1>9. CASE PathAnswersNotReady
  BY <1>9 DEF PathAnswersNotReady
<1>10. CASE \E x \in reloads : EnterReloadConf(x)
  BY <1>10 DEF EnterReloadConf
<1>11. CASE \E x \in reloads : DropReload(x)
  BY <1>11 DEF DropReload
<1>12. CASE \E x \in reloads : HandlerReload(x)
  BY <1>12 DEF HandlerReload
<1>13. CASE \E x \in forwards : DeliverForward(x)
  BY <1>13 DEF DeliverForward
<1>14. CASE \E x \in forwards : DropForward(x)
  BY <1>14 DEF DropForward
<1>15. CASE InstanceStarts
  BY <1>15 DEF InstanceStarts
<1>16. CASE InstanceFails
  BY <1>16 DEF InstanceFails, InstanceStep
<1>17. CASE InstanceCallsReady
  BY <1>17 DEF InstanceCallsReady, InstanceStep
<1>18. CASE InstanceEnds
  BY <1>18 DEF InstanceEnds, InstanceStep
<1>19. CASE InstanceGivesUp
  BY <1>19 DEF InstanceGivesUp, InstanceStep
<1>20. CASE HandlerReceivesReady
  BY <1>20 DEF HandlerReceivesReady
<1>21. CASE HandlerReceivesNotReady
  BY <1>21 DEF HandlerReceivesNotReady
<1>22. CASE HandlerGivesUp
  BY <1>22 DEF HandlerGivesUp
<1>23. CASE HandlerRetries
  BY <1>23 DEF HandlerRetries
<1>24. CASE HandlerRecreates
  BY <1>24 DEF HandlerRecreates
<1>25. CASE HandlerStops
  BY <1>25 DEF HandlerStops
<1>26. CASE HandlerDrains
  BY <1>26 DEF HandlerDrains
<1>27. CASE UNCHANGED vars
  BY <1>27 DEF vars
<1> QED
  BY <1>1, <1>2, <1>3, <1>4, <1>5, <1>6, <1>7, <1>8, <1>9, <1>10, <1>11, <1>12, <1>13, <1>14, <1>15, <1>16, <1>17, <1>18, <1>19, <1>20, <1>21, <1>22, <1>23, <1>24, <1>25, <1>26, <1>27
     DEF Next, PathStep, ReloadStep, InstanceSteps, HandlerStep

\* The parts of the type invariant, with the two sets of goroutines apart from
\* the rest.
LEMMA NextScalarTypes ==
    HandlerInv /\ [Next]_vars =>
        /\ ppc' \in PathControl /\ hpc' \in HandlerControl /\ ipc' \in InstanceControl
        /\ pathCtx' \in BOOLEAN /\ running' \in BOOLEAN /\ setReady' \in BOOLEAN
        /\ ctxLive' \in BOOLEAN /\ recreating' \in BOOLEAN /\ runCtx' \in BOOLEAN
        /\ crashed' \in BOOLEAN
        /\ ctxGen' \in 0..MaxStarts /\ pathConf' \in 0..MaxReloads
        /\ handlerConf' \in 0..MaxReloads /\ instConf' \in 0..MaxReloads
<1> SUFFICES ASSUME HandlerInv, [Next]_vars
             PROVE
        /\ ppc' \in PathControl /\ hpc' \in HandlerControl /\ ipc' \in InstanceControl
        /\ pathCtx' \in BOOLEAN /\ running' \in BOOLEAN /\ setReady' \in BOOLEAN
        /\ ctxLive' \in BOOLEAN /\ recreating' \in BOOLEAN /\ runCtx' \in BOOLEAN
        /\ crashed' \in BOOLEAN
        /\ ctxGen' \in 0..MaxStarts /\ pathConf' \in 0..MaxReloads
        /\ handlerConf' \in 0..MaxReloads /\ instConf' \in 0..MaxReloads
  OBVIOUS
<1> USE BoundsAssumption
    DEF HandlerInv, TypeOK, pathVars, handlerVars, confVars,
        PathControl, HandlerControl, InstanceControl
<1>1. CASE PathStep
  <2>1. CASE Start
    <3>1. ctxGen' \in 0..MaxStarts
      BY <2>1 DEF Start
    <3>2. hpc' \in HandlerControl /\ ipc' \in InstanceControl
      BY <2>1 DEF Start
    <3> QED
      BY <2>1, <3>1, <3>2, Zenon DEF Start
  <2>2. CASE Reload
    BY <2>2 DEF Reload
  <2>3. CASE \E ok \in BOOLEAN : PathAnswersReady(ok)
    <3>1. PICK ok \in BOOLEAN : PathAnswersReady(ok)
      BY <2>3
    <3>2. setReady' \in BOOLEAN /\ ipc' \in InstanceControl /\ ppc' \in PathControl
      BY <3>1 DEF PathAnswersReady
    <3> QED
      BY <3>1, <3>2, Zenon DEF PathAnswersReady
  <2>4. CASE Stop \/ StopReturns \/ Terminate
    BY <2>4 DEF Stop, StopReturns, Terminate
  <2>5. CASE PathReceivesReady \/ PathReceivesNotReady \/ PathAnswersNotReady
    BY <2>5 DEF PathReceivesReady, PathReceivesNotReady, PathAnswersNotReady
  <2> QED
    BY <1>1, <2>1, <2>2, <2>3, <2>4, <2>5 DEF PathStep
<1>2. CASE ReloadStep
  <2>1. CASE \E x \in reloads : EnterReloadConf(x)
    BY <2>1, ZenonT(40) DEF EnterReloadConf
  <2>2. CASE \E x \in reloads : DropReload(x)
    BY <2>2 DEF DropReload
  <2>3. CASE \E x \in reloads : HandlerReload(x)
    BY <2>3 DEF HandlerReload
  <2>4. CASE \E x \in forwards : DeliverForward(x)
    BY <2>4 DEF DeliverForward
  <2>5. CASE \E x \in forwards : DropForward(x)
    BY <2>5 DEF DropForward
  <2> QED
    BY <1>2, <2>1, <2>2, <2>3, <2>4, <2>5 DEF ReloadStep
<1>3. CASE InstanceSteps
  BY <1>3 DEF InstanceSteps, InstanceStarts, InstanceFails, InstanceCallsReady, InstanceEnds,
              InstanceGivesUp, InstanceStep
<1>4. CASE HandlerStep
  BY <1>4, ZenonT(40) DEF HandlerStep, HandlerReceivesReady, HandlerReceivesNotReady, HandlerGivesUp,
              HandlerRetries, HandlerRecreates, HandlerStops, HandlerDrains
<1>5. CASE UNCHANGED vars
  BY <1>5 DEF vars
<1> QED
  BY <1>1, <1>2, <1>3, <1>4, <1>5 DEF Next

\* Cancelling a run only changes whether its context lives.
LEMMA CancelledType ==
    ASSUME NEW S \in SUBSET [conf : 1..MaxReloads, live : BOOLEAN]
    PROVE  Cancelled(S) \in SUBSET [conf : 1..MaxReloads, live : BOOLEAN]
BY DEF Cancelled

\* The goroutines of reloadConf() and of the forwarded reloads carry a version
\* that the path has had.
LEMMA NextGoroutineTypes ==
    HandlerInv /\ [Next]_vars =>
        /\ reloads' \subseteq [conf : 1..MaxReloads, gen : 0..MaxStarts]
        /\ forwards' \subseteq [conf : 1..MaxReloads, live : BOOLEAN]
<1> SUFFICES ASSUME HandlerInv, [Next]_vars
             PROVE  /\ reloads' \subseteq [conf : 1..MaxReloads, gen : 0..MaxStarts]
                    /\ forwards' \subseteq [conf : 1..MaxReloads, live : BOOLEAN]
  OBVIOUS
<1> USE BoundsAssumption DEF HandlerInv, TypeOK, pathVars, handlerVars, confVars
<1>1. CASE Reload
  BY <1>1 DEF Reload
<1>2. CASE \E x \in reloads : EnterReloadConf(x)
  BY <1>2 DEF EnterReloadConf
<1>3. CASE \E x \in reloads : DropReload(x)
  BY <1>3 DEF DropReload
<1>4. CASE \E x \in reloads : HandlerReload(x)
  <2>1. PICK x \in reloads : HandlerReload(x)
    BY <1>4
  <2>2. reloads' \subseteq reloads
    BY <2>1 DEF HandlerReload
  <2>3. [conf |-> x.conf, live |-> TRUE] \in [conf : 1..MaxReloads, live : BOOLEAN]
    OBVIOUS
  <2> QED
    BY <2>1, <2>2, <2>3 DEF HandlerReload
<1>5. CASE \E x \in forwards : DeliverForward(x) \/ DropForward(x)
  BY <1>5 DEF DeliverForward, DropForward
<1>6. CASE HandlerRetries \/ HandlerStops
  BY <1>6, CancelledType DEF HandlerRetries, HandlerStops
<1>7. CASE HandlerDrains
  BY <1>7 DEF HandlerDrains
<1>8. CASE PathStep /\ ~Reload
  BY <1>8 DEF PathStep, Start, Stop, StopReturns, Terminate, PathReceivesReady,
              PathAnswersReady, PathReceivesNotReady, PathAnswersNotReady
<1>9. CASE InstanceSteps
  BY <1>9 DEF InstanceSteps, InstanceStarts, InstanceFails, InstanceCallsReady, InstanceEnds,
              InstanceGivesUp, InstanceStep
<1>10. CASE HandlerReceivesReady \/ HandlerReceivesNotReady \/ HandlerGivesUp \/ HandlerRecreates
  BY <1>10 DEF HandlerReceivesReady, HandlerReceivesNotReady, HandlerGivesUp, HandlerRecreates
<1>11. CASE UNCHANGED vars
  BY <1>11 DEF vars
<1> QED
  BY <1>1, <1>2, <1>3, <1>4, <1>5, <1>6, <1>7, <1>8, <1>9, <1>10, <1>11
     DEF Next, ReloadStep, HandlerStep

\* The invariant is inductive: no step of any goroutine breaks it.
LEMMA NextHandlerInv == HandlerInv /\ [Next]_vars => HandlerInv'
<1> SUFFICES ASSUME HandlerInv, [Next]_vars PROVE HandlerInv'
  OBVIOUS
<1>1. TypeOK'
  BY NextScalarTypes, NextGoroutineTypes, Zenon DEF TypeOK
<1> QED
  BY <1>1, NextControl, Zenon DEF HandlerInv

\* The invariant holds in every reachable state.
LEMMA AlwaysHandlerInv == Spec => []HandlerInv
BY InitHandlerInv, NextHandlerInv, PTL DEF Spec

-----------------------------------------------------------------------------
\* Every reachable state of static_source_handler.go is well typed: its
\* counters stay in their bounds and its goroutines at the points listed.
THEOREM HandlerTypeCorrect == Spec => []TypeOK
<1>1. HandlerInv => TypeOK
  BY DEF HandlerInv
<1> QED
  BY <1>1, AlwaysHandlerInv, PTL

\* A run of the source exists only under a run() of the handler, and run() only
\* while the source is started or stop() waits for it, however many times the
\* source fails, is started and is stopped.
THEOREM NoInstanceLeftBehindAlways == Spec => []NoInstanceLeftBehind
<1>1. HandlerInv => NoInstanceLeftBehind
  BY DEF HandlerInv
<1> QED
  BY <1>1, AlwaysHandlerInv, PTL

\* What the path serves in doSourceStaticSetReady() and
\* doSourceStaticSetNotReady() comes from the instance that runs now, and the
\* path's belief about the source agrees with that instance.
THEOREM RequestsAreCurrentAlways == Spec => []RequestsAreCurrent
<1>1. HandlerInv => RequestsAreCurrent
  BY DEF HandlerInv
<1> QED
  BY <1>1, AlwaysHandlerInv, PTL

-----------------------------------------------------------------------------
(***************************************************************************)
(* The handler implements SourceContract.                                  *)
(***************************************************************************)
\* What the path sees of its source.
Phase == IF ~running THEN "stopped" ELSE IF setReady THEN "ready" ELSE "starting"

\* Only five steps of the path change what it sees of its source.
LEMMA NextPhase ==
    HandlerInv /\ [Next]_vars =>
        \/ Start \/ Stop \/ PathAnswersNotReady
        \/ \E ok \in BOOLEAN : PathAnswersReady(ok)
        \/ UNCHANGED <<running, setReady>>
<1> USE DEF pathVars, handlerVars, confVars
<1>1. PathStep =>
        \/ Start \/ Stop \/ PathAnswersNotReady
        \/ \E ok \in BOOLEAN : PathAnswersReady(ok)
        \/ UNCHANGED <<running, setReady>>
  BY DEF PathStep, StopReturns, Terminate, Reload, PathReceivesReady, PathReceivesNotReady
<1>2. ReloadStep => UNCHANGED <<running, setReady>>
  BY DEF ReloadStep, EnterReloadConf, DropReload, HandlerReload, DeliverForward, DropForward
<1>3. InstanceSteps => UNCHANGED <<running, setReady>>
  BY DEF InstanceSteps, InstanceStarts, InstanceFails, InstanceCallsReady, InstanceEnds,
         InstanceGivesUp, InstanceStep
<1>4. HandlerStep => UNCHANGED <<running, setReady>>
  BY DEF HandlerStep, HandlerReceivesReady, HandlerReceivesNotReady, HandlerGivesUp,
         HandlerRetries, HandlerRecreates, HandlerStops, HandlerDrains
<1>5. UNCHANGED vars => UNCHANGED <<running, setReady>>
  BY DEF vars
<1> QED
  BY <1>1, <1>2, <1>3, <1>4, <1>5 DEF Next

\* start() maps to Start and stop() to Stop; the path's answer to SetReady() and
\* SetNotReady() maps to the step of that name; an answer that reports an error
\* and every other step of a goroutine is invisible.
LEMMA StepContract == HandlerInv /\ [Next]_vars => [Contract!Next]_Phase
<1> SUFFICES ASSUME HandlerInv, [Next]_vars PROVE Contract!Next \/ Phase' = Phase
  BY DEF Contract!Next
<1> USE DEF HandlerInv, ContextMatchesRunning, RequestsAreCurrent, CallsMatch, Phase
<1>1. CASE Start
  BY <1>1 DEF Start, Contract!Next, Contract!Start
<1>2. CASE Stop
  BY <1>2 DEF Stop, Contract!Next, Contract!Stop
<1>3. CASE PathAnswersNotReady
  BY <1>3 DEF PathAnswersNotReady, Contract!Next, Contract!NotReady
<1>4. CASE \E ok \in BOOLEAN : PathAnswersReady(ok)
  BY <1>4 DEF PathAnswersReady, Contract!Next, Contract!SetReady
<1>5. CASE UNCHANGED <<running, setReady>>
  BY <1>5
<1> QED
  BY <1>1, <1>2, <1>3, <1>4, <1>5, NextPhase

\* The handler gives the path exactly what path.go relies on: after start() the
\* reports of a source alternate, beginning with ready, and after stop() there
\* are none, whatever point the instance and run() had reached.
THEOREM HandlerImplementsContract == Spec => KeepsSourceContract
<1>1. Init => Contract!Init
  BY DEF Init, Contract!Init
<1>2. HandlerInv /\ [Next]_vars => [Contract!Next]_Phase
  BY StepContract
<1> QED
  BY <1>1, <1>2, AlwaysHandlerInv, PTL DEF Spec, KeepsSourceContract, Contract!Spec, Phase
=============================================================================
