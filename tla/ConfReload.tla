------------------------------ MODULE ConfReload ------------------------------
(***************************************************************************)
(* Where a new configuration comes from: the watcher of the file           *)
(* (internal/confwatcher), the configuration handlers of the API           *)
(* (internal/api) and the loop of the core that applies them               *)
(* (Core.run()).  The handlers of an API share a mutex and its copy of the *)
(* configuration; the API may be replaced by the reload that it asked for. *)
(* A configuration is the version of the file it comes from and the edits  *)
(* of the API that were made to it.                                        *)
(***************************************************************************)
EXTENDS Naturals, FiniteSets

CONSTANTS
    Handlers,       \* requests to the API; each makes one edit
    GlobalHandlers, \* those that patch the global parameters
    MaxWrites,      \* writes of the file (a bound)
    MaxAPIs         \* APIs that are created, one after the other (a bound)

None == "none"

VARIABLES
    file,       \* the version of the file
    watcher,    \* ConfWatcher: events that wait in fsnotify, lastCalled, position
    core,       \* Core: its configuration, its API and its position
    api,        \* the copy of the configuration and the mutex of each API
    handler,    \* the requests to the API
    flying      \* configurations carried by goroutines of onConfigGlobalPatch()

vars == <<file, watcher, core, api, handler, flying>>

APIs == 1..MaxAPIs
Conf == [base: 0..MaxWrites, edits: SUBSET Handlers]
FromFile(v) == [base |-> v, edits |-> {}]

Init ==
    /\ file = 0
    /\ watcher = [events |-> 0, recent |-> FALSE, dropped |-> FALSE, pc |-> "select"]
    /\ core = [conf |-> FromFile(0), next |-> FromFile(0), api |-> 1, pc |-> "select"]
    /\ api = [a \in APIs |-> [conf |-> FromFile(0), mutex |-> None]]
    /\ handler = [h \in Handlers |-> [pc |-> "idle", api |-> 1, conf |-> FromFile(0)]]
    /\ flying = {}

-----------------------------------------------------------------------------
(* ConfWatcher.run().  dropped remembers that an event was skipped.          *)

WriteFile ==
    /\ file < MaxWrites
    /\ file' = file + 1
    /\ watcher' = [watcher EXCEPT !.events = @ + 1]
    /\ UNCHANGED <<core, api, handler, flying>>

\* minInterval has passed since lastCalled.
IntervalPasses ==
    /\ watcher.recent
    /\ watcher' = [watcher EXCEPT !.recent = FALSE]
    /\ UNCHANGED <<file, core, api, handler, flying>>

\* Mutant of WatcherEvent: a watcher that does not wait for a core that is busy.
WatcherEventDoesNotWait ==
    /\ watcher.pc = "select" /\ watcher.events > 0
    /\ watcher' = IF watcher.recent
                  THEN [watcher EXCEPT !.events = @ - 1, !.dropped = TRUE]
                  ELSE [watcher EXCEPT !.events = @ - 1, !.recent = TRUE,
                            !.pc = IF core.pc = "select" THEN "signal" ELSE "select"]
    /\ UNCHANGED <<file, core, api, handler, flying>>

\* An event is skipped shortly after the last one that was not.
WatcherEvent ==
    /\ watcher.pc = "select" /\ watcher.events > 0
    /\ watcher' = IF watcher.recent
                  THEN [watcher EXCEPT !.events = @ - 1, !.dropped = TRUE]
                  ELSE [watcher EXCEPT !.events = @ - 1, !.recent = TRUE, !.pc = "signal"]
    /\ UNCHANGED <<file, core, api, handler, flying>>

\* An error of fsnotify, such as too many events that wait, ends the watcher,
\* which closes its signal.
WatcherFails ==
    /\ watcher.pc = "select"
    /\ watcher' = [watcher EXCEPT !.pc = "ended"]
    /\ UNCHANGED <<file, core, api, handler, flying>>

-----------------------------------------------------------------------------
(* Core.run().  What a reload does to the resources is in Resources.tla; here *)
(* it may replace the API, when global parameters change.                     *)

GlobalPart(c) == <<c.base, c.edits \cap GlobalHandlers>>

ReplaceAPI(c) ==
    /\ core.api < MaxAPIs
    /\ GlobalPart(c) # GlobalPart(core.conf)
    /\ api' = [api EXCEPT ![core.api + 1].conf = c]
    /\ core' = [core EXCEPT !.conf = c, !.api = @ + 1, !.pc = "select"]

\* confChanged, before conf.Load().
FileChanged ==
    /\ core.pc = "select" /\ watcher.pc = "signal"
    /\ watcher' = [watcher EXCEPT !.pc = "select"]
    /\ core' = [core EXCEPT !.pc = "load"]
    /\ UNCHANGED <<file, api, handler, flying>>

\* A channel that is closed can always be received from: the core takes it for
\* a change of the file, again and again.
SignalClosed ==
    /\ core.pc = "select" /\ watcher.pc = "ended"
    /\ core' = [core EXCEPT !.pc = "load"]
    /\ UNCHANGED <<file, watcher, api, handler, flying>>

\* conf.Load() and closeResources(): the API is closed, or told of the new
\* configuration once it has its mutex.  An invalid file ends the core.
Load ==
    /\ core.pc = "load"
    /\ \/ ReplaceAPI(FromFile(file))
       \/ /\ core' = [core EXCEPT !.next = FromFile(file), !.pc = "reloadAPI"]
          /\ UNCHANGED api
       \/ /\ core' = [core EXCEPT !.pc = "ended"]
          /\ UNCHANGED api
    /\ UNCHANGED <<file, watcher, handler, flying>>

\* API.ReloadConf().
APIReloadConf ==
    /\ core.pc = "reloadAPI" /\ api[core.api].mutex = None
    /\ api' = [api EXCEPT ![core.api].conf = core.next]
    /\ core' = [core EXCEPT !.conf = core.next, !.pc = "select"]
    /\ UNCHANGED <<file, watcher, handler, flying>>

\* chAPIConfigSet: the API is not told, since it has the configuration already.
ConfigSet(c) ==
    /\ core.pc = "select"
    /\ \/ ReplaceAPI(c)
       \/ core' = [core EXCEPT !.conf = c] /\ UNCHANGED api

Interrupt ==
    /\ core.pc = "select"
    /\ core' = [core EXCEPT !.pc = "ended"]
    /\ UNCHANGED <<file, watcher, api, handler, flying>>

-----------------------------------------------------------------------------
(* The handlers of the API.                                                  *)

\* A request reaches the API that runs, and waits for its mutex.
Request(h) ==
    /\ handler[h].pc = "idle" /\ core.pc # "ended"
    /\ handler' = [handler EXCEPT ![h].pc = "lock", ![h].api = core.api]
    /\ UNCHANGED <<file, watcher, core, api, flying>>

Edited(h) ==
    LET c == api[handler[h].api].conf IN [c EXCEPT !.edits = @ \cup {h}]

\* The clone does not validate: nothing is changed.
Refuse(h) ==
    /\ handler[h].pc = "lock" /\ api[handler[h].api].mutex = None
    /\ handler' = [handler EXCEPT ![h].pc = "returned"]
    /\ UNCHANGED <<file, watcher, core, api, flying>>

\* onConfigGlobalPatch(): a goroutine carries the configuration to the core.
GlobalPatch(h) ==
    /\ handler[h].pc = "lock" /\ h \in GlobalHandlers
    /\ api[handler[h].api].mutex = None
    /\ api' = [api EXCEPT ![handler[h].api].conf = Edited(h)]
    /\ flying' = flying \cup {Edited(h)}
    /\ handler' = [handler EXCEPT ![h].pc = "returned"]
    /\ UNCHANGED <<file, watcher, core>>

FlyingArrives(c) ==
    /\ c \in flying /\ flying' = flying \ {c}
    /\ ConfigSet(c)
    /\ UNCHANGED <<file, watcher, handler>>

\* Mutant of PathEdit: a handler that gives the mutex back before the core has the configuration.
PathEditUnlocked(h) ==
    /\ handler[h].pc = "lock" /\ h \notin GlobalHandlers
    /\ api[handler[h].api].mutex = None
    /\ api' = [api EXCEPT ![handler[h].api].conf = Edited(h)]
    /\ handler' = [handler EXCEPT ![h].pc = "send", ![h].conf = Edited(h)]
    /\ UNCHANGED <<file, watcher, core, flying>>

\* onConfigPathDefaultsPatch(), onConfigPathsAdd(), ...Patch(), ...Replace()
\* and ...Delete() keep the mutex until the core has the configuration.
PathEdit(h) ==
    /\ handler[h].pc = "lock" /\ h \notin GlobalHandlers
    /\ api[handler[h].api].mutex = None
    /\ api' = [api EXCEPT ![handler[h].api] = [conf |-> Edited(h), mutex |-> h]]
    /\ handler' = [handler EXCEPT ![h].pc = "send", ![h].conf = Edited(h)]
    /\ UNCHANGED <<file, watcher, core, flying>>

Unlock(h) == [api EXCEPT ![handler[h].api].mutex = None]

PathEditArrives(h) ==
    /\ handler[h].pc = "send" /\ core.pc = "select"
    /\ \/ /\ core.api < MaxAPIs /\ GlobalPart(handler[h].conf) # GlobalPart(core.conf)
          /\ api' = [Unlock(h) EXCEPT ![core.api + 1].conf = handler[h].conf]
          /\ core' = [core EXCEPT !.conf = handler[h].conf, !.api = @ + 1]
       \/ /\ api' = Unlock(h)
          /\ core' = [core EXCEPT !.conf = handler[h].conf]
    /\ handler' = [handler EXCEPT ![h].pc = "returned"]
    /\ UNCHANGED <<file, watcher, flying>>

\* Mutant of GiveUp: a core that ends without cancelling its context.
GiveUpNever == FALSE /\ UNCHANGED vars

\* APIConfigSet() returns when the context of the core is done.
GiveUp ==
    /\ core.pc = "ended"
    /\ \/ /\ flying # {} /\ flying' = {}
          /\ UNCHANGED <<api, handler>>
       \/ /\ UNCHANGED flying
          /\ \E h \in Handlers :
                /\ handler[h].pc = "send"
                /\ handler' = [handler EXCEPT ![h].pc = "returned"]
                /\ api' = Unlock(h)
    /\ UNCHANGED <<file, watcher, core>>

-----------------------------------------------------------------------------

Internal ==
    \/ WatcherEvent \/ FileChanged \/ Load \/ APIReloadConf \/ GiveUp
    \/ \E c \in flying : FlyingArrives(c)
    \/ \E h \in Handlers : Refuse(h) \/ GlobalPatch(h) \/ PathEdit(h) \/ PathEditArrives(h)

Next ==
    \/ Internal \/ WriteFile \/ IntervalPasses \/ WatcherFails \/ SignalClosed \/ Interrupt
    \/ \E h \in Handlers : Request(h)

Spec == Init /\ [][Next]_vars

-----------------------------------------------------------------------------
(* Properties.                                                              *)

TypeOK ==
    /\ file \in 0..MaxWrites
    /\ watcher \in [events: 0..MaxWrites, recent: BOOLEAN, dropped: BOOLEAN,
                    pc: {"select", "signal", "ended"}]
    /\ core \in [conf: Conf, next: Conf, api: APIs,
                 pc: {"select", "load", "reloadAPI", "ended"}]
    /\ api \in [APIs -> [conf: Conf, mutex: Handlers \cup {None}]]
    /\ handler \in [Handlers ->
            [pc: {"idle", "lock", "send", "returned"}, api: APIs, conf: Conf]]
    /\ flying \subseteq Conf

\* The core waits for a mutex whose owner waits for the core.
CrossWait ==
    /\ core.pc = "reloadAPI"
    /\ \E h \in Handlers : handler[h].pc = "send" /\ api[core.api].mutex = h

AtRest ==
    /\ core.pc = "select" /\ watcher.pc = "select" /\ watcher.events = 0 /\ flying = {}
    /\ \A h \in Handlers : handler[h].pc \in {"idle", "returned"}

\* When nobody can move, every request was answered, whatever the order of
\* edits, file changes, replacements of the API and the end of the core;
\* CrossWait is the exception (see ReloadIsFinished).
NobodyLeftWaiting ==
    \/ ENABLED Internal
    \/ CrossWait
    \/ flying = {} /\ \A h \in Handlers : handler[h].pc \in {"idle", "returned"}

\* No global patch was made and the API was not replaced: both carry a
\* configuration past the mutex of the API.
OnlyPathEdits ==
    /\ core.api = 1
    /\ \A h \in GlobalHandlers : h \notin api[1].conf.edits \cup core.conf.edits

\* Edits of paths, made by any number of clients and mixed with changes of the
\* file, are applied in the order in which the API accepted them: at rest the
\* core runs the configuration that the API shows.
APIShowsWhatRuns == AtRest /\ OnlyPathEdits => core.conf = api[1].conf

\* A write of the file that is not within minInterval of another one reaches
\* the core, however busy the core was, and no edit of the API undoes it: at
\* rest, with a watcher that has not failed, the core runs the last version.
WritesAreSeen == AtRest /\ OnlyPathEdits /\ ~watcher.dropped => core.conf.base = file

\* A reload that was started because the file has changed is finished.
ReloadIsFinished == core.pc = "reloadAPI" ~> core.pc # "reloadAPI"
=============================================================================
