------------------------- MODULE StaticSourceHandler -------------------------
(***************************************************************************)
(* internal/core/static_source_handler.go at the granularity of its        *)
(* goroutines and unbuffered channels.                                     *)
(*                                                                         *)
(*   path      the goroutine of the path, which calls start() and stop()   *)
(*             and serves the handler's requests in its select;            *)
(*   handler   run();                                                      *)
(*   instance  the goroutine that run() starts for instance.Run(), with    *)
(*             the source in it (RTSP, RTMP, HLS, UDP, WebRTC, camera);    *)
(*   reloads   one goroutine per reloadConf() started by the path, and one *)
(*             per reload that run() forwards to the instance.             *)
(*                                                                         *)
(* A rendezvous on an unbuffered channel is one step of both sides.        *)
(***************************************************************************)
EXTENDS Naturals, FiniteSets

CONSTANTS
    MaxStarts,    \* bound on the calls of start()
    MaxReloads    \* bound on the configuration reloads of the path

ASSUME BoundsAssumption == MaxStarts \in Nat /\ MaxReloads \in Nat

VARIABLES
    ppc,         \* path goroutine
    pathCtx,     \* pa.ctx is not cancelled
    running,     \* s.running
    setReady,    \* the path's view: the source is ready
    ctxGen,      \* how many contexts start() has created; 0: s.ctx is nil
    ctxLive,     \* s.ctx is not cancelled
    hpc,         \* handler goroutine
    recreating,  \* the retry timer of run() is armed
    runCtx,      \* runCtx is not cancelled
    ipc,         \* instance goroutine
    pathConf,    \* version of pa.conf
    handlerConf, \* version of s.conf
    instConf,    \* version the instance works with
    reloads,     \* goroutines in reloadConf()
    forwards,    \* goroutines that forward a reload to the instance
    crashed      \* a nil pointer was dereferenced: the process has died; the
                 \* model goes on, which only adds behaviours

pathVars == <<ppc, pathCtx, running, setReady, ctxGen, ctxLive, pathConf>>
handlerVars == <<hpc, recreating, runCtx, handlerConf>>
confVars == <<pathConf, handlerConf, instConf, reloads, forwards>>
vars == <<pathVars, handlerVars, ipc, instConf, reloads, forwards, crashed>>

\* "setReady" and "setNotReady": in the handler of such a request; "stop": in
\* stop(), waiting for s.done; "gone": run() of the path has returned.
PathControl == {"select", "setReady", "setNotReady", "stop", "gone"}

\* "sendReady" and "sendNotReady": blocked in parent.staticSourceHandlerSet...;
\* "drain": waiting for runErr after s.ctx was cancelled.
HandlerControl == {"none", "select", "sendReady", "sendNotReady", "drain"}

\* "call...": blocked on the channel of the handler; "wait...": waiting for the
\* response; "return": blocked on runErr.
InstanceControl ==
    {"none", "spawned", "connect", "callReady", "waitReady", "ready",
     "callNotReady", "waitNotReady", "return"}

TypeOK ==
    /\ ppc \in PathControl /\ hpc \in HandlerControl /\ ipc \in InstanceControl
    /\ pathCtx \in BOOLEAN /\ running \in BOOLEAN /\ setReady \in BOOLEAN
    /\ ctxLive \in BOOLEAN /\ recreating \in BOOLEAN /\ runCtx \in BOOLEAN
    /\ crashed \in BOOLEAN
    /\ ctxGen \in 0..MaxStarts
    /\ pathConf \in 0..MaxReloads /\ handlerConf \in 0..MaxReloads
    /\ instConf \in 0..MaxReloads
    /\ reloads \subseteq [conf : 1..MaxReloads, gen : 0..MaxStarts]
    /\ forwards \subseteq [conf : 1..MaxReloads, live : BOOLEAN]

Init ==
    /\ ppc = "select" /\ pathCtx = TRUE
    /\ running = FALSE /\ setReady = FALSE
    /\ ctxGen = 0 /\ ctxLive = FALSE
    /\ hpc = "none" /\ recreating = FALSE /\ runCtx = FALSE
    /\ ipc = "none"
    /\ pathConf = 0 /\ handlerConf = 0 /\ instConf = 0
    /\ reloads = {} /\ forwards = {}
    /\ crashed = FALSE

-----------------------------------------------------------------------------
(***************************************************************************)
(* The path.                                                               *)
(***************************************************************************)
\* start(); run() begins with recreate().
Start ==
    /\ ppc = "select" /\ pathCtx /\ ~running
    /\ ctxGen < MaxStarts
    /\ running' = TRUE
    /\ ctxGen' = ctxGen + 1 /\ ctxLive' = TRUE
    /\ hpc' = "select" /\ recreating' = FALSE /\ runCtx' = TRUE
    /\ ipc' = "spawned"
    /\ UNCHANGED <<ppc, pathCtx, setReady, confVars, crashed>>

\* stop(), up to the wait for s.done.
Stop ==
    /\ ppc = "select" /\ running
    /\ running' = FALSE /\ setReady' = FALSE
    /\ ctxLive' = FALSE
    /\ ppc' = "stop"
    /\ UNCHANGED <<pathCtx, ctxGen, handlerVars, ipc, pathConf, instConf, reloads, forwards, crashed>>

\* Mutant of StopReturns: it does not wait for s.done.
StopReturnsEarly ==
    /\ ppc = "stop"
    /\ ppc' = IF pathCtx THEN "select" ELSE "gone"
    /\ UNCHANGED <<pathCtx, running, setReady, ctxGen, ctxLive, handlerVars, ipc,
                   pathConf, instConf, reloads, forwards, crashed>>

StopReturns ==
    /\ ppc = "stop" /\ hpc = "none"
    /\ ppc' = IF pathCtx THEN "select" ELSE "gone"
    /\ UNCHANGED <<pathCtx, running, setReady, ctxGen, ctxLive, handlerVars, ipc,
                   pathConf, instConf, reloads, forwards, crashed>>

\* The path receives what the handler sends in staticSourceHandlerSetReady().
PathReceivesReady ==
    /\ ppc = "select" /\ pathCtx /\ hpc = "sendReady"
    /\ ppc' = "setReady" /\ hpc' = "select"
    /\ UNCHANGED <<pathCtx, running, setReady, ctxGen, ctxLive, recreating, runCtx, ipc,
                   confVars, crashed>>

\* doSourceStaticSetReady() answers the instance, with an error when
\* stream.New() fails.
PathAnswersReady(ok) ==
    /\ ppc = "setReady" /\ ipc = "waitReady"
    /\ ppc' = "select"
    /\ setReady' = (setReady \/ ok)
    /\ ipc' = IF ok THEN "ready" ELSE "return"
    /\ UNCHANGED <<pathCtx, running, ctxGen, ctxLive, handlerVars, pathConf, instConf,
                   reloads, forwards, crashed>>

PathReceivesNotReady ==
    /\ ppc = "select" /\ pathCtx /\ hpc = "sendNotReady"
    /\ ppc' = "setNotReady" /\ hpc' = "select"
    /\ UNCHANGED <<pathCtx, running, setReady, ctxGen, ctxLive, recreating, runCtx, ipc,
                   confVars, crashed>>

\* doSourceStaticSetNotReady() answers before it may call stop().
PathAnswersNotReady ==
    /\ ppc = "setNotReady" /\ ipc = "waitNotReady"
    /\ ppc' = "select"
    /\ setReady' = FALSE
    /\ ipc' = "return"
    /\ UNCHANGED <<pathCtx, running, ctxGen, ctxLive, handlerVars, pathConf, instConf,
                   reloads, forwards, crashed>>

\* The tail of run(): the context is cancelled, then a source that was started
\* is closed.
Terminate ==
    /\ ppc = "select" /\ pathCtx
    /\ pathCtx' = FALSE
    /\ ppc' = IF running THEN "select" ELSE "gone"
    /\ UNCHANGED <<running, setReady, ctxGen, ctxLive, handlerVars, ipc, pathConf, instConf,
                   reloads, forwards, crashed>>

\* doReloadConf(): go reloadConf(newConf).
Reload ==
    /\ ppc = "select" /\ pathCtx
    /\ pathConf < MaxReloads
    /\ pathConf' = pathConf + 1
    /\ reloads' = reloads \cup {[conf |-> pathConf + 1, gen |-> 0]}
    /\ UNCHANGED <<ppc, pathCtx, running, setReady, ctxGen, ctxLive, handlerVars, ipc,
                   instConf, forwards, crashed>>

-----------------------------------------------------------------------------
(***************************************************************************)
(* The goroutines of reloadConf().                                         *)
(***************************************************************************)
\* The select evaluates s.ctx.Done(); s.ctx is nil before the first start().
EnterReloadConf(x) ==
    /\ x.gen = 0
    /\ IF ctxGen = 0
       THEN crashed' = TRUE /\ reloads' = reloads \ {x}
       ELSE /\ reloads' = (reloads \ {x}) \cup {[x EXCEPT !.gen = ctxGen]}
            /\ UNCHANGED crashed
    /\ UNCHANGED <<pathVars, handlerVars, ipc, instConf, forwards>>

\* s.ctx.Done(): the reload is dropped.
DropReload(x) ==
    /\ x.gen # 0 /\ (x.gen < ctxGen \/ ~ctxLive)
    /\ reloads' = reloads \ {x}
    /\ UNCHANGED <<pathVars, handlerVars, ipc, instConf, forwards, crashed>>

\* Mutant of HandlerReload: the previous configuration is forwarded.
HandlerReloadForwardsOld(x) ==
    /\ x.gen # 0 /\ hpc = "select"
    /\ reloads' = reloads \ {x}
    /\ handlerConf' = x.conf
    /\ forwards' = IF recreating THEN forwards
                   ELSE forwards \cup {[conf |-> handlerConf, live |-> TRUE]}
    /\ UNCHANGED <<pathVars, hpc, recreating, runCtx, ipc, instConf, crashed>>

\* run() receives it and forwards it to an instance that is running.
HandlerReload(x) ==
    /\ x.gen # 0 /\ hpc = "select"
    /\ reloads' = reloads \ {x}
    /\ handlerConf' = x.conf
    /\ forwards' = IF recreating THEN forwards
                   ELSE forwards \cup {[conf |-> x.conf, live |-> TRUE]}
    /\ UNCHANGED <<pathVars, hpc, recreating, runCtx, ipc, instConf, crashed>>

\* The instance receives it, or the context of its run is done.  Both runs of
\* a retry share the channel.
DeliverForward(x) ==
    /\ ipc \notin {"none", "spawned", "return"}
    /\ forwards' = forwards \ {x}
    /\ instConf' = x.conf
    /\ UNCHANGED <<pathVars, handlerVars, ipc, reloads, crashed>>

DropForward(x) ==
    /\ ~x.live
    /\ forwards' = forwards \ {x}
    /\ UNCHANGED <<pathVars, handlerVars, ipc, instConf, reloads, crashed>>

\* runCtxCancel().
Cancelled(S) == {[x EXCEPT !.live = FALSE] : x \in S}

-----------------------------------------------------------------------------
(***************************************************************************)
(* The instance.                                                           *)
(***************************************************************************)
InstanceStep(from, to) ==
    /\ ipc = from /\ ipc' = to
    /\ UNCHANGED <<pathVars, handlerVars, instConf, reloads, forwards, crashed>>

\* The goroutine of recreate() reads s.conf and enters instance.Run().
InstanceStarts ==
    /\ ipc = "spawned" /\ ipc' = "connect"
    /\ instConf' = handlerConf
    /\ UNCHANGED <<pathVars, handlerVars, reloads, forwards, crashed>>

InstanceFails == InstanceStep("connect", "return")

InstanceCallsReady == InstanceStep("connect", "callReady")

\* An error or the end of runCtx; SetNotReady is deferred.
InstanceEnds == InstanceStep("ready", "callNotReady")

\* Mutant of InstanceGivesUp: SetNotReady() waits for the handler for ever.
InstanceGivesUpOnlyReady == ~ctxLive /\ InstanceStep("callReady", "return")

\* SetReady() and SetNotReady() of the handler give up when s.ctx is done.
InstanceGivesUp ==
    /\ ~ctxLive
    /\ InstanceStep("callReady", "return") \/ InstanceStep("callNotReady", "return")

-----------------------------------------------------------------------------
(***************************************************************************)
(* The select of run().                                                    *)
(***************************************************************************)
HandlerReceivesReady ==
    /\ hpc = "select" /\ ipc = "callReady"
    /\ hpc' = "sendReady" /\ ipc' = "waitReady"
    /\ UNCHANGED <<pathVars, recreating, runCtx, handlerConf, instConf, reloads, forwards, crashed>>

HandlerReceivesNotReady ==
    /\ hpc = "select" /\ ipc = "callNotReady"
    /\ hpc' = "sendNotReady" /\ ipc' = "waitNotReady"
    /\ UNCHANGED <<pathVars, recreating, runCtx, handlerConf, instConf, reloads, forwards, crashed>>

\* Mutant of HandlerGivesUp: the end of s.ctx is not watched.
HandlerGivesUpOnlyForPath ==
    /\ hpc \in {"sendReady", "sendNotReady"}
    /\ ~pathCtx
    /\ hpc' = "select" /\ ipc' = "return"
    /\ UNCHANGED <<pathVars, recreating, runCtx, handlerConf, instConf, reloads, forwards, crashed>>

\* staticSourceHandlerSetReady() and ...SetNotReady() answer in place of a path
\* that has ended or that waits in stop().
HandlerGivesUp ==
    /\ hpc \in {"sendReady", "sendNotReady"}
    /\ ~pathCtx \/ ~ctxLive
    /\ hpc' = "select" /\ ipc' = "return"
    /\ UNCHANGED <<pathVars, recreating, runCtx, handlerConf, instConf, reloads, forwards, crashed>>

\* runErr: try again after a pause.
HandlerRetries ==
    /\ hpc = "select" /\ ~recreating /\ ipc = "return"
    /\ ipc' = "none"
    /\ runCtx' = FALSE
    /\ forwards' = Cancelled(forwards)
    /\ recreating' = TRUE
    /\ UNCHANGED <<pathVars, hpc, handlerConf, instConf, reloads, crashed>>

HandlerRecreates ==
    /\ hpc = "select" /\ recreating
    /\ recreating' = FALSE
    /\ runCtx' = TRUE
    /\ ipc' = "spawned"
    /\ UNCHANGED <<pathVars, hpc, handlerConf, instConf, reloads, forwards, crashed>>

\* Mutant of HandlerStops: it does not wait for the instance.
HandlerStopsAtOnce ==
    /\ hpc = "select" /\ ~ctxLive
    /\ hpc' = "none"
    /\ runCtx' = FALSE
    /\ forwards' = Cancelled(forwards)
    /\ recreating' = FALSE
    /\ UNCHANGED <<pathVars, handlerConf, ipc, instConf, reloads, crashed>>

\* s.ctx.Done(): end the instance and wait for it.
HandlerStops ==
    /\ hpc = "select" /\ ~ctxLive
    /\ hpc' = IF recreating THEN "none" ELSE "drain"
    /\ runCtx' = FALSE
    /\ forwards' = Cancelled(forwards)
    /\ recreating' = FALSE
    /\ UNCHANGED <<pathVars, handlerConf, ipc, instConf, reloads, crashed>>

\* Nobody receives from the channel of this run() any more.
HandlerDrains ==
    /\ hpc = "drain" /\ ipc = "return"
    /\ hpc' = "none" /\ ipc' = "none"
    /\ forwards' = {}
    /\ UNCHANGED <<pathVars, recreating, runCtx, handlerConf, instConf, reloads, crashed>>

-----------------------------------------------------------------------------
PathStep ==
    \/ Start \/ Stop \/ StopReturns \/ Terminate \/ Reload
    \/ PathReceivesReady
    \/ \E ok \in BOOLEAN : PathAnswersReady(ok)
    \/ PathReceivesNotReady
    \/ PathAnswersNotReady

ReloadStep ==
    \/ \E x \in reloads : EnterReloadConf(x) \/ DropReload(x) \/ HandlerReload(x)
    \/ \E x \in forwards : DeliverForward(x) \/ DropForward(x)

InstanceSteps ==
    InstanceStarts \/ InstanceFails \/ InstanceCallsReady \/ InstanceEnds \/ InstanceGivesUp

HandlerStep ==
    \/ HandlerReceivesReady \/ HandlerReceivesNotReady \/ HandlerGivesUp
    \/ HandlerRetries \/ HandlerRecreates \/ HandlerStops \/ HandlerDrains

Next == PathStep \/ ReloadStep \/ InstanceSteps \/ HandlerStep

Spec == Init /\ [][Next]_vars

(***************************************************************************)
(* Fairness.  Goroutines run; the path serves its select and answers what  *)
(* it serves; an instance whose context is cancelled ends, as every source *)
(* does when params.Context is done.  The select of run() picks at random  *)
(* among the cases that are ready, so it does not pass over s.ctx.Done()   *)
(* for ever: strong fairness.                                              *)
(***************************************************************************)
Fairness ==
    /\ WF_vars(StopReturns)
    /\ WF_vars(\E ok \in BOOLEAN : PathAnswersReady(ok))
    /\ WF_vars(PathAnswersNotReady)
    /\ WF_vars(PathReceivesReady \/ PathReceivesNotReady)
    /\ WF_vars(InstanceStarts)
    /\ WF_vars(InstanceGivesUp)
    /\ WF_vars(~runCtx /\ (InstanceFails \/ InstanceEnds))
    /\ WF_vars(HandlerReceivesReady \/ HandlerReceivesNotReady)
    /\ WF_vars(HandlerGivesUp)
    /\ WF_vars(HandlerDrains)
    /\ SF_vars(HandlerStops)

FairSpec == Spec /\ Fairness

-----------------------------------------------------------------------------
(***************************************************************************)
(* Properties.                                                             *)
(***************************************************************************)
\* At most one run of the source exists, and none once stop() has returned:
\* a path never has two connections to its source.
NoInstanceLeftBehind ==
    /\ ipc # "none" => hpc # "none"
    /\ hpc # "none" => running \/ ppc = "stop"

\* The path serves a request of the source only while the source is started
\* and the instance waits for the answer: no request arrives late, none is
\* answered twice.  While the source is started, the path believes that it is
\* ready exactly when the instance works or is about to report that it stopped.
RequestsAreCurrent ==
    /\ ppc = "setReady" => running /\ ctxLive /\ ipc = "waitReady"
    /\ ppc = "setNotReady" => running /\ ctxLive /\ setReady /\ ipc = "waitNotReady"
    /\ running /\ pathCtx => (setReady <=> ipc \in {"ready", "callNotReady", "waitNotReady"})

Contract == INSTANCE SourceContract WITH
    phase <- IF ~running THEN "stopped" ELSE IF setReady THEN "ready" ELSE "starting"

\* The handler delivers to the path the alternation of SetReady and
\* SetNotReady that path.go relies on.
KeepsSourceContract == Contract!Spec

\* stop() returns: path, handler and instance never wait for each other in a
\* circle, at whatever point of a request stop() is called.
StopAlwaysReturns == ppc = "stop" ~> ppc # "stop"

\* An instance that calls SetReady or SetNotReady is answered.
CallsAreAnswered ==
    ipc \in {"callReady", "waitReady", "callNotReady", "waitNotReady"} ~>
        ipc \in {"none", "ready", "return"}

\* README.md on hot reloading: "Changes are detected and applied without
\* disconnecting existing clients, whenever it's possible."  A reload does not
\* stop the server.
ReloadsDoNotCrash == ~crashed
=============================================================================
