---------------------------- MODULE ServicesProofs ----------------------------
(***************************************************************************)
(* The services around paths and servers, for every value of the constants: *)
(* the reload of the configuration, the static sources, the commands of the *)
(* hooks, the resources of Core and the requests to the playback server.    *)
(***************************************************************************)
EXTENDS MCServices, Sequences, FiniteSetTheorems, WellFoundedInduction, TLAPS

-----------------------------------------------------------------------------
(* ConfReload.                                                              *)

\* Each write has raised one event, and requests speak to an API that exists.
Counted ==
    /\ crWatcher.events <= crFile
    /\ \A h \in Handlers : crHandler[h].api <= crCore.api

\* A request that edits a path holds the mutex, and the API shows its
\* configuration, until the core has it.
SendersHoldMutex ==
    \A h \in Handlers : crHandler[h].pc = "send" =>
        /\ crApi[crHandler[h].api].mutex = h
        /\ crHandler[h].conf = crApi[crHandler[h].api].conf

\* What travels outside the mutex has a patch of the global parameters in it.
FlyingIsGlobal == \A c \in crFlying : c.edits \cap GlobalHandlers # {}

NoGlobalEdit(c) == c.edits \cap GlobalHandlers = {}

\* The core runs what the first API shows, or a request brings it.
FirstAPIIsAhead ==
    crCore.pc # "ended" /\ crCore.api = 1 /\ NoGlobalEdit(crCore.conf) =>
        \/ crCore.conf = crApi[1].conf
        \/ ~NoGlobalEdit(crApi[1].conf)
        \/ \E h \in Handlers : crHandler[h].pc = "send"

Signalled == crWatcher.events > 0 \/ crWatcher.pc = "signal"

\* The last version of the file is signalled, or it is the one that is loaded.
NextIsCurrent ==
    ~crWatcher.dropped /\ crCore.pc = "reloadAPI" =>
        Signalled \/ crCore.next.base = crFile

\* The last version of the file is on its way or in the first API.
FirstAPIIsCurrent ==
    ~crWatcher.dropped /\ crCore.api = 1 /\ crCore.pc = "select" =>
        Signalled \/ crApi[1].conf.base = crFile

ReloadInv ==
    /\ Reload!TypeOK
    /\ Counted
    /\ SendersHoldMutex
    /\ FlyingIsGlobal
    /\ FirstAPIIsAhead
    /\ NextIsCurrent
    /\ FirstAPIIsCurrent

LEMMA ReloadInit == Reload!Init => ReloadInv
<1> SUFFICES ASSUME Reload!Init PROVE ReloadInv
  OBVIOUS
<1>1. 0 \in 0..MaxWrites /\ 1 \in 1..MaxAPIs
  BY ReloadAssumption
<1>2. Reload!FromFile(0) \in Reload!Conf /\ Reload!FromFile(0).edits = {}
                                      /\ Reload!FromFile(0).base = 0
  BY <1>1 DEF Reload!FromFile, Reload!Conf
<1> HIDE DEF Reload!FromFile
<1>3. Reload!TypeOK
  BY <1>1, <1>2 DEF Reload!Init, Reload!TypeOK, Reload!APIs, Reload!None
<1>4. Counted /\ SendersHoldMutex /\ FlyingIsGlobal
  BY <1>1 DEF Reload!Init, Counted, SendersHoldMutex, FlyingIsGlobal
<1>5. FirstAPIIsAhead /\ NextIsCurrent /\ FirstAPIIsCurrent
  BY <1>1, <1>2 DEF Reload!Init, FirstAPIIsAhead, NextIsCurrent, FirstAPIIsCurrent, Reload!APIs
<1> QED
  BY <1>3, <1>4, <1>5 DEF ReloadInv

APIState == [conf: Reload!Conf, mutex: Handlers \cup {"none"}]
HandlerState ==
    [pc: {"idle", "lock", "send", "returned"}, api: Reload!APIs, conf: Reload!Conf]

LEMMA ConfChange ==
    ASSUME NEW f \in [Reload!APIs -> APIState], NEW a \in Reload!APIs, NEW c \in Reload!Conf
    PROVE  LET g == [f EXCEPT ![a].conf = c]
           IN  /\ g \in [Reload!APIs -> APIState]
               /\ g[a].conf = c /\ g[a].mutex = f[a].mutex
               /\ \A b \in Reload!APIs \ {a} : g[b] = f[b]
<1> DEFINE x == [f[a] EXCEPT !.conf = c]
<1>1. x \in APIState /\ x.conf = c /\ x.mutex = f[a].mutex
  BY DEF APIState
<1>2. [f EXCEPT ![a].conf = c] = [f EXCEPT ![a] = x]
  OBVIOUS
<1> HIDE DEF x
<1> QED
  BY <1>1, <1>2

LEMMA MutexChange ==
    ASSUME NEW f \in [Reload!APIs -> APIState], NEW a \in Reload!APIs
    PROVE  LET g == [f EXCEPT ![a].mutex = "none"]
           IN  /\ g \in [Reload!APIs -> APIState]
               /\ \A b \in Reload!APIs : g[b].conf = f[b].conf
               /\ \A b \in Reload!APIs \ {a} : g[b] = f[b]
<1> DEFINE x == [f[a] EXCEPT !.mutex = "none"]
<1>1. x \in APIState /\ x.conf = f[a].conf
  BY DEF APIState
<1>2. [f EXCEPT ![a].mutex = "none"] = [f EXCEPT ![a] = x]
  OBVIOUS
<1> HIDE DEF x
<1> QED
  BY <1>1, <1>2

LEMMA EditedType ==
    ASSUME Reload!TypeOK, NEW h \in Handlers
    PROVE  /\ Reload!Edited(h) \in Reload!Conf
           /\ Reload!Edited(h).base = crApi[crHandler[h].api].conf.base
           /\ h \in Reload!Edited(h).edits
<1>1. crApi[crHandler[h].api].conf \in Reload!Conf
  BY DEF Reload!TypeOK
<1> QED
  BY <1>1 DEF Reload!Edited, Reload!Conf

\* The parts of the type of the reload.
LEMMA ReloadTypes ==
    ASSUME Reload!TypeOK
    PROVE  /\ crApi \in [Reload!APIs -> APIState]
           /\ crHandler \in [Handlers -> HandlerState]
           /\ crFile \in 0..MaxWrites
           /\ crWatcher.events \in Nat
           /\ crCore.api \in Reload!APIs /\ crCore.conf \in Reload!Conf
           /\ crCore.next \in Reload!Conf
           /\ \A h \in Handlers :
                crHandler[h].api \in Reload!APIs /\ crHandler[h].conf \in Reload!Conf
BY ReloadAssumption DEF Reload!TypeOK, APIState, HandlerState, Reload!None

\* The configuration of an API that nobody holds, or that is not used yet, may
\* change.
LEMMA SendersStay ==
    ASSUME Reload!TypeOK, SendersHoldMutex, crHandler' = crHandler,
           NEW a \in Reload!APIs,
           \A b \in Reload!APIs \ {a} : crApi'[b] = crApi[b],
           \A h \in Handlers : crHandler[h].pc = "send" => crHandler[h].api # a
    PROVE  SendersHoldMutex'
BY ReloadTypes DEF SendersHoldMutex

LEMMA FreeAPIHasNoSender ==
    ASSUME SendersHoldMutex, NEW h \in Handlers, crHandler[h].pc = "send"
    PROVE  crApi[crHandler[h].api].mutex # "none"
BY ReloadAssumption DEF SendersHoldMutex

LEMMA ReloadWatcher ==
    ASSUME ReloadInv,
           \/ Reload!WriteFile \/ Reload!IntervalPasses \/ Reload!WatcherEvent
           \/ Reload!WatcherFails
    PROVE  ReloadInv'
<1> USE ReloadAssumption DEF Reload!APIs, Reload!None
<1> DEFINE W == [events: 0..MaxWrites, recent: BOOLEAN, dropped: BOOLEAN,
                 pc: {"select", "signal", "ended"}]
<1>0. crWatcher \in W /\ crFile \in 0..MaxWrites /\ crWatcher.events <= crFile
  BY DEF ReloadInv, Reload!TypeOK, Counted
<1>u. UNCHANGED <<crCore, crApi, crHandler, crFlying>>
  BY DEF Reload!WriteFile, Reload!IntervalPasses, Reload!WatcherEvent, Reload!WatcherFails
<1>t. SUFFICES /\ crFile' \in 0..MaxWrites /\ crWatcher' \in W
               /\ crWatcher.events' <= crFile'
               /\ ~crWatcher'.dropped => ~crWatcher.dropped
               /\ ~crWatcher'.dropped => Signalled' \/ (~Signalled /\ crFile' = crFile)
  BY <1>u DEF ReloadInv, Reload!TypeOK, Counted, SendersHoldMutex, FlyingIsGlobal,
     FirstAPIIsAhead, NextIsCurrent, FirstAPIIsCurrent, NoGlobalEdit
<1>1. CASE Reload!WriteFile
  <2>1. crFile' \in 0..MaxWrites /\ crFile' = crFile + 1
    BY <1>0, <1>1 DEF Reload!WriteFile
  <2>2. crWatcher.events + 1 \in 0..MaxWrites
    BY <1>0, <1>1, <2>1 DEF Reload!WriteFile
  <2>3. /\ crWatcher' \in W /\ crWatcher.events' = crWatcher.events + 1
        /\ crWatcher.dropped' = crWatcher.dropped
    BY <1>0, <1>1, <2>2 DEF Reload!WriteFile
  <2> QED
    BY <1>0, <2>1, <2>2, <2>3 DEF Signalled
<1>2. CASE Reload!IntervalPasses
  BY <1>0, <1>2 DEF Reload!IntervalPasses, Signalled
<1>3. CASE Reload!WatcherEvent
  <2>1. crWatcher.events - 1 \in 0..MaxWrites
    BY <1>0, <1>3 DEF Reload!WatcherEvent
  <2>2. CASE crWatcher.recent
    <3>1. /\ crWatcher' \in W /\ crWatcher.events' = crWatcher.events - 1
          /\ crWatcher.dropped'
      BY <1>0, <1>3, <2>1, <2>2 DEF Reload!WatcherEvent
    <3> QED
      BY <1>0, <1>3, <3>1 DEF Reload!WatcherEvent
  <2>3. CASE ~crWatcher.recent
    <3>1. /\ crWatcher' \in W /\ crWatcher.events' = crWatcher.events - 1
          /\ crWatcher.dropped' = crWatcher.dropped /\ crWatcher.pc' = "signal"
      BY <1>0, <1>3, <2>1, <2>3 DEF Reload!WatcherEvent
    <3> QED
      BY <1>0, <1>3, <3>1 DEF Reload!WatcherEvent, Signalled
  <2> QED
    BY <2>2, <2>3
<1>4. CASE Reload!WatcherFails
  BY <1>0, <1>4 DEF Reload!WatcherFails, Signalled
<1> QED
  BY <1>1, <1>2, <1>3, <1>4

\* ReplaceAPI() of any configuration: the new API starts with it, and the
\* requests that speak to the old ones are not disturbed.
LEMMA ReloadTakesOver ==
    ASSUME ReloadInv, NEW c \in Reload!Conf, Reload!ReplaceAPI(c),
           UNCHANGED <<crFile, crWatcher, crHandler>>, crFlying' \subseteq crFlying
    PROVE  ReloadInv'
<1> USE ReloadAssumption DEF Reload!APIs, Reload!None
<1>0. Reload!TypeOK
  BY DEF ReloadInv
<1>1. crCore.api + 1 \in Reload!APIs /\ crCore.api + 1 # 1 /\ crCore.api \in Nat
  BY <1>0, ReloadTypes DEF Reload!ReplaceAPI
<1>2. /\ crApi' \in [Reload!APIs -> APIState]
      /\ \A b \in Reload!APIs \ {crCore.api + 1} : crApi'[b] = crApi[b]
  BY <1>0, <1>1, ReloadTypes, ConfChange DEF Reload!ReplaceAPI
<1>3. /\ crCore' \in [conf: Reload!Conf, next: Reload!Conf, api: Reload!APIs,
                      pc: {"select", "load", "reloadAPI", "ended"}]
      /\ crCore'.api = crCore.api + 1 /\ crCore'.pc = "select"
  BY <1>0, <1>1 DEF Reload!ReplaceAPI, Reload!TypeOK
<1>4. Reload!TypeOK'
  BY <1>0, <1>2, <1>3 DEF Reload!TypeOK, APIState
<1>5. Counted'
  BY <1>0, <1>1, <1>3, ReloadTypes DEF ReloadInv, Counted
<1>6. \A h \in Handlers : crHandler[h].api # crCore.api + 1
  BY <1>0, <1>1, ReloadTypes DEF ReloadInv, Counted
<1>7. SendersHoldMutex'
  BY <1>0, <1>1, <1>2, <1>6, SendersStay DEF ReloadInv
<1>8. FlyingIsGlobal'
  BY DEF ReloadInv, FlyingIsGlobal
<1>9. FirstAPIIsAhead' /\ NextIsCurrent' /\ FirstAPIIsCurrent'
  BY <1>1, <1>3 DEF FirstAPIIsAhead, NextIsCurrent, FirstAPIIsCurrent
<1> QED
  BY <1>4, <1>5, <1>7, <1>8, <1>9 DEF ReloadInv

\* The other steps of the core.
LEMMA ReloadCore ==
    ASSUME ReloadInv,
           \/ Reload!FileChanged \/ Reload!SignalClosed \/ Reload!Load
           \/ Reload!APIReloadConf \/ Reload!Interrupt
    PROVE  ReloadInv'
<1> USE ReloadAssumption DEF Reload!APIs, Reload!None
<1> DEFINE C == [conf: Reload!Conf, next: Reload!Conf, api: Reload!APIs,
                 pc: {"select", "load", "reloadAPI", "ended"}]
<1>0. Reload!TypeOK /\ crCore \in C
  BY DEF ReloadInv, Reload!TypeOK
<1>1. CASE Reload!FileChanged
  <2>1. crWatcher' \in [events: 0..MaxWrites, recent: BOOLEAN, dropped: BOOLEAN,
                        pc: {"select", "signal", "ended"}]
        /\ crWatcher'.events = crWatcher.events
    BY <1>0, <1>1 DEF Reload!FileChanged, Reload!TypeOK
  <2>2. /\ crCore' \in C /\ crCore'.pc = "load" /\ crCore'.api = crCore.api
        /\ crCore'.conf = crCore.conf /\ crCore.pc = "select"
    BY <1>0, <1>1 DEF Reload!FileChanged
  <2>3. UNCHANGED <<crFile, crApi, crHandler, crFlying>>
    BY <1>1 DEF Reload!FileChanged
  <2> QED
    BY <1>0, <2>1, <2>2, <2>3 DEF ReloadInv, Reload!TypeOK, Counted, SendersHoldMutex,
       FlyingIsGlobal, FirstAPIIsAhead, NextIsCurrent, FirstAPIIsCurrent
<1>5. CASE Reload!SignalClosed
  <2>1. crCore' \in C /\ crCore'.pc = "load" /\ crCore'.api = crCore.api
        /\ crCore'.conf = crCore.conf /\ crCore.pc = "select"
    BY <1>0, <1>5 DEF Reload!SignalClosed
  <2>2. UNCHANGED <<crFile, crWatcher, crApi, crHandler, crFlying>>
    BY <1>5 DEF Reload!SignalClosed
  <2> QED
    BY <1>0, <2>1, <2>2 DEF ReloadInv, Reload!TypeOK, Counted, SendersHoldMutex,
       FlyingIsGlobal, FirstAPIIsAhead, NextIsCurrent, FirstAPIIsCurrent
<1>2. CASE Reload!Interrupt
  <2>1. crCore' \in C /\ crCore'.pc = "ended" /\ crCore'.api = crCore.api
    BY <1>0, <1>2 DEF Reload!Interrupt
  <2>2. UNCHANGED <<crFile, crWatcher, crApi, crHandler, crFlying>>
    BY <1>2 DEF Reload!Interrupt
  <2> QED
    BY <1>0, <2>1, <2>2 DEF ReloadInv, Reload!TypeOK, Counted, SendersHoldMutex,
       FlyingIsGlobal, FirstAPIIsAhead, NextIsCurrent, FirstAPIIsCurrent
<1>3. CASE Reload!Load
  <2> DEFINE c == Reload!FromFile(crFile)
  <2>1. c \in Reload!Conf /\ c.base = crFile
    BY <1>0 DEF Reload!TypeOK, Reload!FromFile, Reload!Conf
  <2> HIDE DEF c
  <2>u. UNCHANGED <<crFile, crWatcher, crHandler, crFlying>>
    BY <1>3 DEF Reload!Load
  <2>2. CASE Reload!ReplaceAPI(c)
    BY <2>1, <2>2, <2>u, ReloadTakesOver
  <2>3. CASE crCore' = [crCore EXCEPT !.next = c, !.pc = "reloadAPI"] /\ crApi' = crApi
    <3>1. /\ crCore' \in C /\ crCore'.pc = "reloadAPI" /\ crCore'.api = crCore.api
          /\ crCore'.conf = crCore.conf /\ crCore'.next = c /\ crCore.pc = "load"
      BY <1>0, <1>3, <2>1, <2>3 DEF Reload!Load
    <3> QED
      BY <1>0, <2>1, <2>3, <2>u, <3>1 DEF ReloadInv, Reload!TypeOK, Counted,
         SendersHoldMutex, FlyingIsGlobal, FirstAPIIsAhead, NextIsCurrent,
         FirstAPIIsCurrent
  <2>4. CASE crCore' = [crCore EXCEPT !.pc = "ended"] /\ crApi' = crApi
    <3>1. crCore' \in C /\ crCore'.pc = "ended" /\ crCore'.api = crCore.api
      BY <1>0, <2>4
    <3> QED
      BY <1>0, <2>4, <2>u, <3>1 DEF ReloadInv, Reload!TypeOK, Counted, SendersHoldMutex,
         FlyingIsGlobal, FirstAPIIsAhead, NextIsCurrent, FirstAPIIsCurrent
  <2> QED
    BY <1>3, <2>2, <2>3, <2>4 DEF Reload!Load, c
<1>4. CASE Reload!APIReloadConf
  <2>1. /\ crCore' \in C /\ crCore'.pc = "select" /\ crCore'.api = crCore.api
        /\ crCore'.conf = crCore.next /\ crCore.pc = "reloadAPI"
    BY <1>0, <1>4 DEF Reload!APIReloadConf
  <2>2. crCore.api \in Reload!APIs /\ crCore.next \in Reload!Conf
    BY <1>0, ReloadTypes
  <2>3. /\ crApi' \in [Reload!APIs -> APIState]
        /\ crApi'[crCore.api].conf = crCore.next
        /\ \A b \in Reload!APIs \ {crCore.api} : crApi'[b] = crApi[b]
    BY <1>0, <1>4, <2>2, ReloadTypes, ConfChange DEF Reload!APIReloadConf
  <2>u. UNCHANGED <<crFile, crWatcher, crHandler, crFlying>>
    BY <1>4 DEF Reload!APIReloadConf
  <2>4. \A h \in Handlers : crHandler[h].pc = "send" => crHandler[h].api # crCore.api
    BY <1>4, FreeAPIHasNoSender DEF ReloadInv, Reload!APIReloadConf
  <2>5. SendersHoldMutex'
    BY <1>0, <2>2, <2>3, <2>4, <2>u, SendersStay DEF ReloadInv
  <2>6. Reload!TypeOK'
    BY <1>0, <2>1, <2>3, <2>u DEF Reload!TypeOK, APIState
  <2>7. Counted' /\ FlyingIsGlobal'
    BY <2>1, <2>u DEF ReloadInv, Counted, FlyingIsGlobal
  <2>8. FirstAPIIsAhead' /\ NextIsCurrent' /\ FirstAPIIsCurrent'
    BY <2>1, <2>3, <2>u DEF ReloadInv, FirstAPIIsAhead, NextIsCurrent, FirstAPIIsCurrent,
       Signalled
  <2> QED
    BY <2>5, <2>6, <2>7, <2>8 DEF ReloadInv
<1> QED
  BY <1>1, <1>2, <1>3, <1>4, <1>5

\* A patch of the global parameters arrives.
LEMMA ReloadFlying ==
    ASSUME ReloadInv, NEW c \in crFlying, Reload!FlyingArrives(c)
    PROVE  ReloadInv'
<1> USE ReloadAssumption DEF Reload!APIs, Reload!None
<1>0. Reload!TypeOK
  BY DEF ReloadInv
<1>1. c \in Reload!Conf /\ ~NoGlobalEdit(c)
  BY <1>0 DEF Reload!TypeOK, ReloadInv, FlyingIsGlobal, NoGlobalEdit
<1>2. UNCHANGED <<crFile, crWatcher, crHandler>> /\ crFlying' \subseteq crFlying
  BY DEF Reload!FlyingArrives
<1>3. CASE Reload!ReplaceAPI(c)
  BY <1>1, <1>2, <1>3, ReloadTakesOver
<1>4. CASE crCore' = [crCore EXCEPT !.conf = c] /\ crApi' = crApi
  <2>1. /\ crCore' \in [conf: Reload!Conf, next: Reload!Conf, api: Reload!APIs,
                        pc: {"select", "load", "reloadAPI", "ended"}]
        /\ crCore'.conf = c /\ crCore'.api = crCore.api /\ crCore'.pc = crCore.pc
        /\ crCore'.next = crCore.next
    BY <1>0, <1>1, <1>4 DEF Reload!TypeOK
  <2> QED
    BY <1>0, <1>1, <1>2, <1>4, <2>1 DEF ReloadInv, Reload!TypeOK, Counted,
       SendersHoldMutex, FlyingIsGlobal, FirstAPIIsAhead, NextIsCurrent,
       FirstAPIIsCurrent, Signalled
<1> QED
  BY <1>3, <1>4 DEF Reload!FlyingArrives, Reload!ConfigSet

\* A request that moves, and another one that does not.
LEMMA HandlerMoves ==
    ASSUME Reload!TypeOK, NEW h \in Handlers, NEW x \in HandlerState,
           crHandler' = [crHandler EXCEPT ![h] = x]
    PROVE  /\ crHandler' \in [Handlers -> HandlerState]
           /\ crHandler'[h] = x
           /\ \A g \in Handlers \ {h} : crHandler'[g] = crHandler[g]
BY ReloadTypes

\* A request reaches the API that runs, or is refused.
LEMMA ReloadRequest ==
    ASSUME ReloadInv, NEW h \in Handlers, Reload!Request(h) \/ Reload!Refuse(h)
    PROVE  ReloadInv'
<1> USE ReloadAssumption DEF Reload!APIs, Reload!None
<1>0. Reload!TypeOK
  BY DEF ReloadInv
<1> DEFINE x == IF crHandler[h].pc = "idle"
                THEN [crHandler[h] EXCEPT !.pc = "lock", !.api = crCore.api]
                ELSE [crHandler[h] EXCEPT !.pc = "returned"]
<1>1. /\ x \in HandlerState /\ x.pc # "send"
      /\ x.api \in {crCore.api, crHandler[h].api}
  BY <1>0, ReloadTypes DEF HandlerState
<1>2. crHandler' = [crHandler EXCEPT ![h] = x] /\ crHandler[h].pc # "send"
  BY <1>0, ReloadTypes DEF Reload!Request, Reload!Refuse, HandlerState
<1> HIDE DEF x
<1>3. /\ crHandler' \in [Handlers -> HandlerState]
      /\ crHandler'[h] = x
      /\ \A g \in Handlers \ {h} : crHandler'[g] = crHandler[g]
  BY <1>0, <1>1, <1>2, HandlerMoves
<1>4. UNCHANGED <<crFile, crWatcher, crCore, crApi, crFlying>>
  BY DEF Reload!Request, Reload!Refuse
<1>5. Reload!TypeOK'
  BY <1>0, <1>3, <1>4 DEF Reload!TypeOK, HandlerState
<1>6. Counted'
  BY <1>0, <1>1, <1>3, <1>4, ReloadTypes DEF ReloadInv, Counted
<1>7. SendersHoldMutex'
  BY <1>1, <1>3, <1>4 DEF ReloadInv, SendersHoldMutex
<1>8. FlyingIsGlobal' /\ NextIsCurrent' /\ FirstAPIIsCurrent'
  BY <1>4 DEF ReloadInv, FlyingIsGlobal, NextIsCurrent, FirstAPIIsCurrent, Signalled
<1>9. FirstAPIIsAhead'
  BY <1>2, <1>3, <1>4 DEF ReloadInv, FirstAPIIsAhead, NoGlobalEdit
<1> QED
  BY <1>5, <1>6, <1>7, <1>8, <1>9 DEF ReloadInv

\* A request that has the mutex edits the configuration of its API.
LEMMA ReloadEdit ==
    ASSUME ReloadInv, NEW h \in Handlers, Reload!GlobalPatch(h) \/ Reload!PathEdit(h)
    PROVE  ReloadInv'
<1> USE ReloadAssumption DEF Reload!APIs, Reload!None
<1>0. Reload!TypeOK
  BY DEF ReloadInv
<1> DEFINE a == crHandler[h].api
           e == Reload!Edited(h)
<1>1. /\ a \in Reload!APIs /\ a <= crCore.api
      /\ crCore.api \in Reload!APIs
  BY <1>0, ReloadTypes DEF ReloadInv, Counted
<1>2. e \in Reload!Conf /\ e.base = crApi[a].conf.base /\ h \in e.edits
  BY <1>0, EditedType
<1> HIDE DEF e
<1>3. \A g \in Handlers : crHandler[g].pc = "send" => crHandler[g].api # a
  BY FreeAPIHasNoSender DEF ReloadInv, Reload!GlobalPatch, Reload!PathEdit
<1>4. UNCHANGED <<crFile, crWatcher, crCore>> /\ crHandler[h].pc = "lock"
  BY DEF Reload!GlobalPatch, Reload!PathEdit
<1>5. CASE Reload!GlobalPatch(h)
  <2>1. /\ crApi' \in [Reload!APIs -> APIState]
        /\ crApi'[a].conf = e
        /\ \A b \in Reload!APIs \ {a} : crApi'[b] = crApi[b]
    BY <1>0, <1>1, <1>2, <1>5, ReloadTypes, ConfChange, SMTT(30) DEF Reload!GlobalPatch, e
  <2> DEFINE x == [crHandler[h] EXCEPT !.pc = "returned"]
  <2>2. x \in HandlerState /\ x.pc = "returned" /\ x.api = a
    BY <1>0, ReloadTypes DEF HandlerState
  <2>3. crHandler' = [crHandler EXCEPT ![h] = x]
    BY <1>5 DEF Reload!GlobalPatch
  <2> HIDE DEF x
  <2>4. /\ crHandler' \in [Handlers -> HandlerState]
        /\ crHandler'[h] = x
        /\ \A g \in Handlers \ {h} : crHandler'[g] = crHandler[g]
    BY <1>0, <2>2, <2>3, HandlerMoves
  <2>5. crFlying' = crFlying \cup {e} /\ h \in GlobalHandlers
    BY <1>5 DEF Reload!GlobalPatch, e
  <2>6. Reload!TypeOK'
    BY <1>0, <1>2, <1>4, <2>1, <2>4, <2>5 DEF Reload!TypeOK, HandlerState, APIState
  <2>7. Counted'
    BY <1>1, <1>4, <2>2, <2>4 DEF ReloadInv, Counted
  <2>8. SendersHoldMutex'
    BY <1>0, <1>3, <2>1, <2>2, <2>4, ReloadTypes, SMTT(30) DEF ReloadInv, SendersHoldMutex
  <2>9. FlyingIsGlobal' /\ NextIsCurrent'
    BY <1>2, <1>4, <2>5 DEF ReloadInv, FlyingIsGlobal, NextIsCurrent, Signalled
  <2>10. 1 \in Reload!APIs /\ (crCore.api = 1 => a = 1)
    BY <1>1
  <2>11. FirstAPIIsCurrent'
    BY <1>2, <1>4, <2>1, <2>10 DEF ReloadInv, FirstAPIIsCurrent, Signalled
  <2>12. FirstAPIIsAhead'
    BY <1>2, <1>4, <2>1, <2>5, <2>10 DEF FirstAPIIsAhead, NoGlobalEdit
  <2> QED
    BY <2>6, <2>7, <2>8, <2>9, <2>11, <2>12 DEF ReloadInv
<1>6. CASE Reload!PathEdit(h)
  <2> DEFINE y == [conf |-> e, mutex |-> h]
             x == [crHandler[h] EXCEPT !.pc = "send", !.conf = e]
  <2>1. y \in APIState /\ y.conf = e /\ y.mutex = h
    BY <1>2 DEF APIState
  <2>2. crApi' = [crApi EXCEPT ![a] = y]
    BY <1>6 DEF Reload!PathEdit, e
  <2> HIDE DEF y
  <2>3. /\ crApi' \in [Reload!APIs -> APIState]
        /\ crApi'[a] = y
        /\ \A b \in Reload!APIs \ {a} : crApi'[b] = crApi[b]
    BY <1>0, <1>1, <2>1, <2>2, ReloadTypes
  <2>4. x \in HandlerState /\ x.pc = "send" /\ x.api = a /\ x.conf = e
    BY <1>0, <1>2, ReloadTypes DEF HandlerState
  <2>5. crHandler' = [crHandler EXCEPT ![h] = x]
    BY <1>6 DEF Reload!PathEdit, e
  <2> HIDE DEF x
  <2>6. /\ crHandler' \in [Handlers -> HandlerState]
        /\ crHandler'[h] = x
        /\ \A g \in Handlers \ {h} : crHandler'[g] = crHandler[g]
    BY <1>0, <2>4, <2>5, HandlerMoves
  <2>7. crFlying' = crFlying
    BY <1>6 DEF Reload!PathEdit
  <2>8. Reload!TypeOK'
    BY <1>0, <1>4, <2>3, <2>6, <2>7 DEF Reload!TypeOK, HandlerState, APIState
  <2>9. Counted'
    BY <1>1, <1>4, <2>4, <2>6 DEF ReloadInv, Counted
  <2>10. SendersHoldMutex'
    BY <1>0, <1>3, <2>1, <2>3, <2>4, <2>6, ReloadTypes DEF ReloadInv, SendersHoldMutex
  <2>11. FlyingIsGlobal' /\ NextIsCurrent'
    BY <1>4, <2>7 DEF ReloadInv, FlyingIsGlobal, NextIsCurrent, Signalled
  <2>12. 1 \in Reload!APIs /\ (crCore.api = 1 => a = 1)
    BY <1>1
  <2>13. FirstAPIIsCurrent'
    BY <1>2, <1>4, <2>1, <2>3, <2>12 DEF ReloadInv, FirstAPIIsCurrent, Signalled
  <2>14. FirstAPIIsAhead'
    BY <2>4, <2>6 DEF FirstAPIIsAhead
  <2> QED
    BY <2>8, <2>9, <2>10, <2>11, <2>13, <2>14 DEF ReloadInv
<1> QED
  BY <1>5, <1>6

\* The request gives the mutex back: Unlock(h), with the request answered.
LEMMA ReloadUnlocks ==
    ASSUME ReloadInv, NEW h \in Handlers, crHandler[h].pc = "send",
           crHandler' = [crHandler EXCEPT ![h].pc = "returned"]
    PROVE  LET u == Reload!Unlock(h)
               a == crHandler[h].api
           IN  /\ u \in [Reload!APIs -> APIState]
               /\ \A b \in Reload!APIs : u[b].conf = crApi[b].conf
               /\ crHandler' \in [Handlers -> HandlerState]
               /\ \A g \in Handlers : crHandler'[g].api = crHandler[g].api
               /\ \A g \in Handlers : crHandler'[g].pc = "send" =>
                    /\ crHandler[g].pc = "send" /\ crHandler'[g].conf = crHandler[g].conf
                    /\ u[crHandler[g].api] = crApi[crHandler[g].api]
<1> USE ReloadAssumption DEF Reload!APIs, Reload!None
<1>0. Reload!TypeOK
  BY DEF ReloadInv
<1> DEFINE u == Reload!Unlock(h)
           a == crHandler[h].api
           x == [crHandler[h] EXCEPT !.pc = "returned"]
<1>1. a \in Reload!APIs
  BY <1>0, ReloadTypes
<1>2. /\ u \in [Reload!APIs -> APIState]
      /\ \A b \in Reload!APIs : u[b].conf = crApi[b].conf
      /\ \A b \in Reload!APIs \ {a} : u[b] = crApi[b]
  BY <1>0, <1>1, ReloadTypes, MutexChange, SMTT(30) DEF Reload!Unlock
<1> HIDE DEF u
<1>3. x \in HandlerState /\ x.pc = "returned" /\ x.api = a
  BY <1>0, ReloadTypes DEF HandlerState
<1>4. crHandler' = [crHandler EXCEPT ![h] = x]
  OBVIOUS
<1> HIDE DEF x
<1>5. /\ crHandler' \in [Handlers -> HandlerState]
      /\ crHandler'[h] = x
      /\ \A g \in Handlers \ {h} : crHandler'[g] = crHandler[g]
  BY <1>0, <1>3, <1>4, HandlerMoves
<1>6. \A g \in Handlers \ {h} : crHandler[g].pc = "send" => crHandler[g].api # a
  BY <1>1 DEF ReloadInv, SendersHoldMutex
<1>7. \A g \in Handlers : crHandler[g].api \in Reload!APIs
  BY <1>0, ReloadTypes
<1> QED
  BY <1>2, <1>3, <1>5, <1>6, <1>7 DEF u

\* The core takes the configuration of a request, or ends without it.
LEMMA ReloadArrives ==
    ASSUME ReloadInv, NEW h \in Handlers, Reload!PathEditArrives(h)
    PROVE  ReloadInv'
<1> USE ReloadAssumption DEF Reload!APIs, Reload!None
<1>0. Reload!TypeOK
  BY DEF ReloadInv
<1> DEFINE u == Reload!Unlock(h)
           a == crHandler[h].api
           c == crHandler[h].conf
           C == [conf: Reload!Conf, next: Reload!Conf, api: Reload!APIs,
                 pc: {"select", "load", "reloadAPI", "ended"}]
<1>1. /\ crHandler[h].pc = "send" /\ crCore.pc = "select"
      /\ crHandler' = [crHandler EXCEPT ![h].pc = "returned"]
      /\ UNCHANGED <<crFile, crWatcher, crFlying>>
  BY DEF Reload!PathEditArrives
<1>2. /\ u \in [Reload!APIs -> APIState]
      /\ \A b \in Reload!APIs : u[b].conf = crApi[b].conf
      /\ crHandler' \in [Handlers -> HandlerState]
      /\ \A g \in Handlers : crHandler'[g].api = crHandler[g].api
      /\ \A g \in Handlers : crHandler'[g].pc = "send" =>
           /\ crHandler[g].pc = "send" /\ crHandler'[g].conf = crHandler[g].conf
           /\ u[crHandler[g].api] = crApi[crHandler[g].api]
  BY <1>1, ReloadUnlocks
<1> HIDE DEF u
<1>3. /\ a \in Reload!APIs /\ c \in Reload!Conf /\ c = crApi[a].conf
      /\ crCore.api \in Reload!APIs /\ a <= crCore.api /\ crCore \in C
      /\ \A g \in Handlers :
            crHandler[g].api \in Reload!APIs /\ crHandler[g].api <= crCore.api
  BY <1>0, <1>1, ReloadTypes DEF ReloadInv, Counted, SendersHoldMutex, Reload!TypeOK
<1>4. CASE /\ crCore.api < MaxAPIs
           /\ crApi' = [u EXCEPT ![crCore.api + 1].conf = c]
           /\ crCore' = [crCore EXCEPT !.conf = c, !.api = @ + 1]
  <2>1. crCore.api + 1 \in Reload!APIs /\ crCore.api + 1 # 1
    BY <1>3, <1>4
  <2>2. /\ crApi' \in [Reload!APIs -> APIState]
        /\ \A b \in Reload!APIs \ {crCore.api + 1} : crApi'[b] = u[b]
    <3> DEFINE k == crCore.api + 1
               g == [u EXCEPT ![k].conf = c]
    <3>1. k \in Reload!APIs /\ c \in Reload!Conf
      BY <1>3, <2>1
    <3>2. crApi' = g
      BY <1>4
    <3> HIDE DEF k, c
    <3>3. g \in [Reload!APIs -> APIState] /\ \A b \in Reload!APIs \ {k} : g[b] = u[b]
      BY <1>2, <3>1, ConfChange
    <3> QED
      BY <3>2, <3>3 DEF k
  <2>3. crCore' \in C /\ crCore'.api = crCore.api + 1 /\ crCore'.pc = "select"
    BY <1>1, <1>3, <1>4, <2>1
  <2>4. Reload!TypeOK'
    BY <1>0, <1>1, <1>2, <2>2, <2>3 DEF Reload!TypeOK, APIState, HandlerState
  <2>5. Counted' /\ FlyingIsGlobal'
    BY <1>1, <1>2, <1>3, <2>3 DEF ReloadInv, Counted, FlyingIsGlobal
  <2>6. \A g \in Handlers : crHandler[g].api # crCore.api + 1
    BY <1>3
  <2>7. SendersHoldMutex'
    BY <1>2, <1>3, <2>2, <2>6 DEF ReloadInv, SendersHoldMutex
  <2>8. FirstAPIIsAhead' /\ NextIsCurrent' /\ FirstAPIIsCurrent'
    BY <2>1, <2>3 DEF FirstAPIIsAhead, NextIsCurrent, FirstAPIIsCurrent
  <2> QED
    BY <2>4, <2>5, <2>7, <2>8 DEF ReloadInv
<1>5. CASE crApi' = u /\ crCore' = [crCore EXCEPT !.conf = c]
  <2>1. /\ crCore' \in C /\ crCore'.api = crCore.api /\ crCore'.pc = "select"
        /\ crCore'.conf = c
    BY <1>1, <1>3, <1>5
  <2>2. Reload!TypeOK'
    BY <1>0, <1>1, <1>2, <1>5, <2>1 DEF Reload!TypeOK, APIState, HandlerState
  <2>3. Counted' /\ FlyingIsGlobal'
    BY <1>1, <1>2, <1>3, <2>1 DEF ReloadInv, Counted, FlyingIsGlobal
  <2>4. SendersHoldMutex'
    BY <1>2, <1>3, <1>5 DEF ReloadInv, SendersHoldMutex
  <2>5. 1 \in Reload!APIs /\ (crCore.api = 1 => a = 1)
    BY <1>3
  <2>6. FirstAPIIsAhead' /\ NextIsCurrent' /\ FirstAPIIsCurrent'
    BY <1>1, <1>2, <1>3, <1>5, <2>1, <2>5 DEF ReloadInv, FirstAPIIsAhead, NextIsCurrent,
       FirstAPIIsCurrent, Signalled
  <2> QED
    BY <2>2, <2>3, <2>4, <2>6 DEF ReloadInv
<1> QED
  BY <1>4, <1>5 DEF Reload!PathEditArrives, u

LEMMA ReloadGivesUp ==
    ASSUME ReloadInv, Reload!GiveUp
    PROVE  ReloadInv'
<1> USE ReloadAssumption DEF Reload!APIs, Reload!None
<1>0. Reload!TypeOK /\ crCore.pc = "ended" /\ UNCHANGED <<crFile, crWatcher, crCore>>
  BY DEF ReloadInv, Reload!GiveUp
<1>1. FirstAPIIsAhead' /\ NextIsCurrent' /\ FirstAPIIsCurrent'
  BY <1>0 DEF FirstAPIIsAhead, NextIsCurrent, FirstAPIIsCurrent
<1>2. CASE crFlying' = {} /\ UNCHANGED <<crApi, crHandler>>
  BY <1>0, <1>1, <1>2 DEF ReloadInv, Reload!TypeOK, Counted, SendersHoldMutex, FlyingIsGlobal
<1>3. ASSUME NEW h \in Handlers, crHandler[h].pc = "send", crFlying' = crFlying,
             crHandler' = [crHandler EXCEPT ![h].pc = "returned"],
             crApi' = Reload!Unlock(h)
      PROVE  ReloadInv'
  <2>1. /\ crApi' \in [Reload!APIs -> APIState]
        /\ crHandler' \in [Handlers -> HandlerState]
        /\ \A g \in Handlers : crHandler'[g].api = crHandler[g].api
        /\ \A g \in Handlers : crHandler'[g].pc = "send" =>
             /\ crHandler[g].pc = "send" /\ crHandler'[g].conf = crHandler[g].conf
             /\ crApi'[crHandler[g].api] = crApi[crHandler[g].api]
    BY <1>3, ReloadUnlocks
  <2>2. Reload!TypeOK'
    BY <1>0, <1>3, <2>1 DEF Reload!TypeOK, APIState, HandlerState
  <2>3. Counted' /\ FlyingIsGlobal'
    BY <1>0, <1>3, <2>1 DEF ReloadInv, Counted, FlyingIsGlobal
  <2>4. SendersHoldMutex'
    BY <2>1 DEF ReloadInv, SendersHoldMutex
  <2> QED
    BY <1>1, <2>2, <2>3, <2>4 DEF ReloadInv
<1> QED
  BY <1>2, <1>3 DEF Reload!GiveUp

LEMMA ReloadNext == ReloadInv /\ Reload!Next => ReloadInv'
BY ReloadWatcher, ReloadCore, ReloadFlying, ReloadRequest, ReloadEdit, ReloadArrives,
   ReloadGivesUp DEF Reload!Next, Reload!Internal

LEMMA ReloadInvImplies == ReloadInv => Reload!APIShowsWhatRuns /\ Reload!WritesAreSeen
<1> SUFFICES ASSUME ReloadInv, Reload!AtRest, Reload!OnlyPathEdits
             PROVE  /\ crCore.conf = crApi[1].conf
                    /\ ~crWatcher.dropped => crCore.conf.base = crFile
  BY DEF Reload!APIShowsWhatRuns, Reload!WritesAreSeen
<1>1. NoGlobalEdit(crCore.conf) /\ NoGlobalEdit(crApi[1].conf) /\ crCore.api = 1
  BY DEF Reload!OnlyPathEdits, NoGlobalEdit
<1>2. \A h \in Handlers : crHandler[h].pc # "send"
  BY DEF Reload!AtRest
<1>3. crCore.conf = crApi[1].conf
  BY <1>1, <1>2 DEF ReloadInv, FirstAPIIsAhead, Reload!AtRest
<1> QED
  BY <1>1, <1>3 DEF ReloadInv, FirstAPIIsCurrent, Signalled, Reload!AtRest

-----------------------------------------------------------------------------
(* StaticSources.                                                           *)

\* The reader exists from the connection until it is awaited.
ReaderIsAwaited ==
    /\ ssMain \in {"connect", "returned"} => ssReader = "none"
    /\ ssSource = "webrtc" => ssReader = "none" /\ ssMain \notin {"select", "join"}
    /\ ssSource # "webrtc" => ssMain \notin {"setReady", "read"}
    /\ ssSource # "rpicamera" /\ ssMain \in {"undo", "setNotReady", "close"} =>
        ssReader = "none"

\* Only WebRTC has goroutines of tracks, and those of a client that is open
\* belong to the Run() that will close it.
TracksHaveClient ==
    /\ ssSource # "webrtc" => ssTracks = {}
    /\ "open" \in ssTracks => ssMain \in {"read", "undo", "setNotReady", "close"}

\* Whoever has to call SetNotReady() has not passed the place where it does.
ReadyIsOwned ==
    /\ ssDone => ~ssParent
    /\ ssMain = "join" => ssDone
    /\ ssSource = "rpicamera" /\ ssMain \in {"undo", "setNotReady", "close"} => ssDone
    /\ ssSource \in {"rtsp", "rtmp", "udp"} /\ ssParent => ssReader \in {"read", "setNotReady"}
    /\ ssSource \in {"hls", "webrtc", "rpicamera"} /\ ssParent =>
        /\ ssStream
        /\ ssMain \in {"select", "join", "read", "undo", "setNotReady"}
        /\ ssReader \in {"none", "read", "report"}

SourcesInv ==
    /\ ssSource \in DOMAIN Sources!Sources
    /\ ssMain \in Sources!MainControl /\ ssReader \in Sources!ReaderControl
    /\ ssTracks \subseteq Sources!Clients
    /\ ssStream \in BOOLEAN /\ ssParent \in BOOLEAN
    /\ ssDone \in BOOLEAN /\ ssReload \in BOOLEAN
    /\ ReaderIsAwaited
    /\ TracksHaveClient
    /\ ReadyIsOwned

\* The tables at the head of StaticSources.
LEMMA SourceTables ==
    ASSUME ssSource \in DOMAIN Sources!Sources
    PROVE  /\ ssSource \in {"rtsp", "rtmp", "hls", "udp", "srt", "webrtc", "rpicamera"}
           /\ Sources!Of.ready = "main" <=> ssSource = "webrtc"
           /\ Sources!Of.notReady = "main" <=> ssSource \in {"hls", "webrtc", "rpicamera"}
           /\ Sources!Of.notReady = "reader" <=> ssSource \in {"rtsp", "rtmp", "udp"}
           /\ Sources!Of.notices <=> ssSource # "rpicamera"
           /\ Sources!Of.retries <=> ssSource = "rpicamera"
           /\ Sources!Of.unjoined <=> ssSource = "webrtc"
BY DEF Sources!Sources, Sources!Of, Sources!RTSP, Sources!RTMP, Sources!HLS, Sources!UDP,
   Sources!SRT, Sources!WebRTC, Sources!RPICamera, Sources!None

LEMMA SourcesInit == Sources!Init => SourcesInv
BY DEF Sources!Init, SourcesInv, Sources!MainControl, Sources!ReaderControl, Sources!None,
   ReaderIsAwaited, ReadyIsOwned, TracksHaveClient

LEMMA SourcesNext == SourcesInv /\ Sources!Next => SourcesInv'
<1> SUFFICES ASSUME SourcesInv, Sources!Next PROVE SourcesInv'
  OBVIOUS
<1>0. /\ ssSource \in {"rtsp", "rtmp", "hls", "udp", "srt", "webrtc", "rpicamera"}
      /\ Sources!Of.ready = "main" <=> ssSource = "webrtc"
      /\ Sources!Of.notReady = "main" <=> ssSource \in {"hls", "webrtc", "rpicamera"}
      /\ Sources!Of.notReady = "reader" <=> ssSource \in {"rtsp", "rtmp", "udp"}
      /\ Sources!Of.notices <=> ssSource # "rpicamera"
      /\ Sources!Of.retries <=> ssSource = "rpicamera"
      /\ Sources!Of.unjoined <=> ssSource = "webrtc"
  BY SourceTables DEF SourcesInv
<1> USE DEF SourcesInv, ReaderIsAwaited, TracksHaveClient, ReadyIsOwned,
            Sources!MainControl, Sources!ReaderControl, Sources!Clients, Sources!None,
            Sources!MainStep, Sources!MainControls, Sources!ReaderStep
<1>1. CASE Sources!Cancel
  BY <1>0, <1>1 DEF Sources!Cancel
<1>2. CASE Sources!Recreate
  BY <1>0, <1>2 DEF Sources!Recreate
<1>3. CASE Sources!ForwardReload
  BY <1>0, <1>3 DEF Sources!ForwardReload
<1>4. CASE Sources!TakeReload
  BY <1>0, <1>4 DEF Sources!TakeReload
<1>5. CASE Sources!DropReload
  BY <1>0, <1>5 DEF Sources!DropReload
<1>6. CASE Sources!SetNotReadyReturns
  BY <1>0, <1>6 DEF Sources!SetNotReadyReturns
<1>7. CASE Sources!Connect
  BY <1>0, <1>7 DEF Sources!Connect
<1>8. CASE Sources!ConnectFails
  BY <1>0, <1>8 DEF Sources!ConnectFails
<1>9. CASE Sources!ReaderDone
  BY <1>0, <1>9 DEF Sources!ReaderDone
<1>10. CASE Sources!ContextDone
  BY <1>0, <1>10 DEF Sources!ContextDone
<1>11. CASE Sources!Join
  BY <1>0, <1>11 DEF Sources!Join
<1>12. CASE Sources!WaitReturns
  BY <1>0, <1>12 DEF Sources!WaitReturns
<1>13. CASE Sources!Undo
  BY <1>0, <1>13 DEF Sources!Undo
<1>14. CASE Sources!Return
  BY <1>0, <1>14 DEF Sources!Return
<1>15. CASE Sources!Tracks
  BY <1>0, <1>15 DEF Sources!Tracks
<1>16. CASE Sources!OpenFails
  BY <1>0, <1>16 DEF Sources!OpenFails
<1>17. CASE Sources!ReadFails
  BY <1>0, <1>17 DEF Sources!ReadFails
<1>18. ASSUME NEW ok \in BOOLEAN, Sources!SetReadyReturns(ok) PROVE SourcesInv'
  BY <1>0, <1>18 DEF Sources!SetReadyReturns
<1>19. ASSUME NEW client \in Sources!Clients, Sources!TrackEnds(client) PROVE SourcesInv'
  BY <1>0, <1>19 DEF Sources!TrackEnds
<1> HIDE DEF SourcesInv
<1> QED
  BY <1>1, <1>2, <1>3, <1>4, <1>5, <1>6, <1>7, <1>8, <1>9, <1>10, <1>11, <1>12, <1>13, <1>14, <1>15,
     <1>16, <1>17, <1>18, <1>19 DEF Sources!Next

LEMMA SourcesInvImplies == SourcesInv => Sources!TypeOK /\ Sources!ReturnsClean
<1> SUFFICES ASSUME SourcesInv PROVE Sources!TypeOK /\ Sources!ReturnsClean
  OBVIOUS
<1>1. Sources!TypeOK
  BY DEF SourcesInv, Sources!TypeOK
<1>2. ssSource \in {"rtsp", "rtmp", "hls", "udp", "srt", "webrtc", "rpicamera"}
  BY SourceTables DEF SourcesInv
<1>3. Sources!ReturnsClean
  BY <1>2 DEF SourcesInv, ReaderIsAwaited, TracksHaveClient, ReadyIsOwned,
     Sources!ReturnsClean, Sources!None
<1> QED
  BY <1>1, <1>3

-----------------------------------------------------------------------------
(* ExternalCmds.                                                            *)

\* A process belongs to a goroutine that waits for it.
GoodCommand(c) ==
    /\ c \in Commands!Command
    /\ c.process => c.run \in {"select", "killed"}

\* When Core waits for the pool every hook is off; when it has waited, no
\* goroutine of a command is left.
PoolEnds ==
    /\ ecPool # "open" => \A h \in Commands!Hooks : ecHook[h] = "off"
    /\ ecPool = "closed" => \A i \in Ids : ecCmd[i].run = "none"

CommandsInv ==
    /\ Commands!TypeOK
    /\ \A i \in Ids : GoodCommand(ecCmd[i])
    /\ PoolEnds
    /\ Commands!EveryRestartIsOwned

\* A command that has ended.
LEMMA NoCommandType ==
    /\ GoodCommand(Commands!NoCommand)
    /\ Commands!NoCommand.run = "none" /\ ~Commands!NoCommand.restart
BY DEF GoodCommand, Commands!NoCommand, Commands!Command, Commands!None

\* A command that was just launched.
LEMMA NewCmdType ==
    ASSUME NEW restart \in BOOLEAN, NEW opposite \in BOOLEAN
    PROVE  LET c == Commands!NewCmd(restart, opposite)
           IN  GoodCommand(c) /\ c.restart = restart
BY DEF GoodCommand, Commands!NewCmd, Commands!NoCommand, Commands!Command, Commands!None

LEMMA CommandsInit == Commands!Init => CommandsInv
<1> SUFFICES ASSUME Commands!Init PROVE CommandsInv
  OBVIOUS
<1>1. \A i \in Ids : ecCmd[i] = Commands!NoCommand
  BY DEF Commands!Init
<1>2. Commands!TypeOK
  BY NoCommandType DEF Commands!Init, Commands!TypeOK, GoodCommand
<1>3. PoolEnds /\ Commands!EveryRestartIsOwned
  BY <1>1, NoCommandType DEF Commands!Init, PoolEnds, Commands!EveryRestartIsOwned,
     Commands!Running, Commands!None
<1> QED
  BY <1>1, <1>2, <1>3, NoCommandType DEF CommandsInv

\* A step of one command: it ends, or keeps what says whether it may restart.
LEMMA CommandMoves ==
    ASSUME CommandsInv, NEW i \in Ids, NEW c, GoodCommand(c), Commands!Set(i, c),
           ecCmd[i].run # "none",
           \/ c.run = "none"
           \/ c.restart = ecCmd[i].restart /\ c.terminate = ecCmd[i].terminate
    PROVE  CommandsInv'
<1>1. /\ ecCmd' = [ecCmd EXCEPT ![i] = c] /\ ecHook' = ecHook /\ ecPool' = ecPool
  BY DEF Commands!Set
<1>2. ecCmd' \in [Ids -> Commands!Command]
  BY <1>1 DEF CommandsInv, Commands!TypeOK, GoodCommand
<1>3. ecCmd'[i] = c /\ \A j \in Ids \ {i} : ecCmd'[j] = ecCmd[j]
  BY <1>1 DEF CommandsInv, Commands!TypeOK
<1>4. Commands!TypeOK' /\ \A j \in Ids : GoodCommand(ecCmd[j])'
  BY <1>1, <1>2, <1>3 DEF CommandsInv, Commands!TypeOK, GoodCommand
<1>5. PoolEnds'
  BY <1>1, <1>3 DEF CommandsInv, PoolEnds
<1>6. Commands!EveryRestartIsOwned'
  BY <1>1, <1>3 DEF CommandsInv, Commands!EveryRestartIsOwned, Commands!Running, Commands!None
<1> QED
  BY <1>4, <1>5, <1>6 DEF CommandsInv

LEMMA CommandSteps ==
    ASSUME CommandsInv, NEW i \in Ids, Commands!CmdStep(i) \/ Commands!ProcessExits(i)
    PROVE  CommandsInv'
<1> DEFINE o == ecCmd[i]
           Like(c) == GoodCommand(c) /\ c.restart = o.restart /\ c.terminate = o.terminate
<1>1. GoodCommand(o)
  BY DEF CommandsInv
<1>2. o.run # "none"
  BY DEF Commands!CmdStep, Commands!ProcessExits, Commands!StartProcess, Commands!CmdDone,
     Commands!Terminated, Commands!KilledDone, Commands!PauseEnds
<1>3. \A c : Like(c) /\ Commands!Set(i, c) => CommandsInv'
  BY <1>2, CommandMoves
<1>4. Commands!Set(i, Commands!NoCommand) => CommandsInv'
  BY <1>2, NoCommandType, CommandMoves
<1>5. ~o.process => Like([o EXCEPT !.run = "pause", !.process = FALSE])
                    /\ Like([o EXCEPT !.run = "start"])
  BY <1>1 DEF GoodCommand, Commands!Command
<1>6. /\ Like([o EXCEPT !.run = "select", !.process = TRUE])
      /\ Like([o EXCEPT !.process = FALSE])
      /\ Like([o EXCEPT !.run = "killed"])
  BY <1>1 DEF GoodCommand, Commands!Command
<1>7. o.run \in {"start", "pause"} => ~o.process
  BY <1>1 DEF GoodCommand
<1> HIDE DEF Like, o
<1>8. ~o.process /\ Commands!Set(i, Commands!AfterExit(o)) => CommandsInv'
  BY <1>3, <1>4, <1>5 DEF Commands!AfterExit
<1>9. CASE Commands!StartProcess(i)
  BY <1>3, <1>6, <1>7, <1>8, <1>9 DEF Commands!StartProcess, o
<1>10. CASE Commands!ProcessExits(i)
  BY <1>3, <1>6, <1>10 DEF Commands!ProcessExits, o
<1>11. CASE Commands!CmdDone(i)
  BY <1>8, <1>11 DEF Commands!CmdDone, o
<1>12. CASE Commands!Terminated(i)
  BY <1>3, <1>6, <1>12 DEF Commands!Terminated, o
<1>13. CASE Commands!KilledDone(i)
  BY <1>4, <1>13 DEF Commands!KilledDone
<1>14. CASE Commands!PauseEnds(i)
  BY <1>3, <1>4, <1>5, <1>7, <1>14 DEF Commands!PauseEnds, o
<1> QED
  BY <1>9, <1>10, <1>11, <1>12, <1>13, <1>14 DEF Commands!CmdStep

\* A hook starts its command, or has none.
LEMMA CommandLaunch ==
    ASSUME CommandsInv, NEW h \in Commands!Hooks, Commands!Launch(h)
    PROVE  CommandsInv'
<1> USE CommandsAssumption DEF Commands!None
<1>0. /\ ecPool = "open" /\ ecPool' = "open" /\ ecHook[h] = "off"
      /\ ecHook \in [Commands!Hooks -> {"off", "none"} \cup Ids]
      /\ ecCmd \in [Ids -> Commands!Command]
  BY DEF Commands!Launch, CommandsInv, Commands!TypeOK
<1>1. CASE ecHook' = [ecHook EXCEPT ![h] = "none"] /\ ecCmd' = ecCmd
  <2>1. /\ ecHook' \in [Commands!Hooks -> {"off", "none"} \cup Ids]
        /\ \A g \in Commands!Hooks \ {h} : ecHook'[g] = ecHook[g]
    BY <1>0, <1>1
  <2> QED
    BY <1>0, <1>1, <2>1 DEF CommandsInv, Commands!TypeOK, GoodCommand, PoolEnds,
       Commands!EveryRestartIsOwned, Commands!Running
<1>2. ASSUME NEW i \in Commands!Free, NEW restart \in BOOLEAN,
             ecHook' = [ecHook EXCEPT ![h] = i],
             ecCmd' = [ecCmd EXCEPT ![i] = Commands!NewCmd(restart, FALSE)]
      PROVE  CommandsInv'
  <2>1. i \in Ids
    BY DEF Commands!Free
  <2>2. GoodCommand(Commands!NewCmd(restart, FALSE))
    BY NewCmdType
  <2>3. /\ ecHook' \in [Commands!Hooks -> {"off", "none"} \cup Ids] /\ ecHook'[h] = i
        /\ \A g \in Commands!Hooks \ {h} : ecHook'[g] = ecHook[g]
    BY <1>0, <1>2, <2>1
  <2>4. /\ ecCmd' \in [Ids -> Commands!Command]
        /\ ecCmd'[i] = Commands!NewCmd(restart, FALSE)
        /\ \A j \in Ids \ {i} : ecCmd'[j] = ecCmd[j]
    BY <1>0, <1>2, <2>1, <2>2 DEF GoodCommand
  <2>5. Commands!TypeOK' /\ PoolEnds'
    BY <1>0, <2>3, <2>4 DEF Commands!TypeOK, PoolEnds
  <2>6. \A j \in Ids : GoodCommand(ecCmd[j])'
    BY <2>2, <2>4 DEF CommandsInv, GoodCommand
  <2>7. Commands!EveryRestartIsOwned'
    BY <1>0, <2>3, <2>4 DEF CommandsInv, Commands!EveryRestartIsOwned, Commands!Running
  <2> QED
    BY <2>5, <2>6, <2>7 DEF CommandsInv
<1> QED
  BY <1>1, <1>2 DEF Commands!Launch

\* Close() of the command of a hook.
LEMMA ClosedCommands ==
    ASSUME CommandsInv, NEW h \in Commands!Hooks, ecHook[h] # "off"
    PROVE  LET k == Commands!Closed(h)
           IN  /\ k \in [Ids -> Commands!Command]
               /\ \A j \in Ids : GoodCommand(k[j])
               /\ \A j \in Ids : k[j].run = ecCmd[j].run /\ k[j].restart = ecCmd[j].restart
               /\ \A j \in Ids : k[j].terminate = (ecCmd[j].terminate \/ ecHook[h] = j)
<1> USE CommandsAssumption DEF Commands!None
<1>0. /\ ecHook[h] \in {"none"} \cup Ids
      /\ ecCmd \in [Ids -> Commands!Command]
      /\ \A j \in Ids : GoodCommand(ecCmd[j])
  BY DEF CommandsInv, Commands!TypeOK
<1>1. CASE ecHook[h] = "none"
  <2>1. Commands!Closed(h) = ecCmd /\ \A j \in Ids : ecHook[h] # j
    BY <1>1 DEF Commands!Closed
  <2>2. \A j \in Ids : ecCmd[j].terminate \in BOOLEAN
    BY <1>0 DEF Commands!Command
  <2> QED
    BY <1>0, <2>1, <2>2
<1>2. CASE ecHook[h] \in Ids
  <2> DEFINE i == ecHook[h]
             x == [ecCmd[i] EXCEPT !.terminate = TRUE]
  <2>1. /\ GoodCommand(x) /\ x \in Commands!Command
        /\ x.run = ecCmd[i].run /\ x.restart = ecCmd[i].restart /\ x.terminate = TRUE
    BY <1>0, <1>2, ZenonT(40) DEF GoodCommand, Commands!Command
  <2>2. Commands!Closed(h) = [ecCmd EXCEPT ![i] = x]
    BY <1>2 DEF Commands!Closed
  <2> HIDE DEF x
  <2>3. \A j \in Ids : ecCmd[j].terminate \in BOOLEAN
    BY <1>0 DEF Commands!Command
  <2>4. /\ Commands!Closed(h) \in [Ids -> Commands!Command]
        /\ Commands!Closed(h)[i] = x
        /\ \A j \in Ids \ {i} : Commands!Closed(h)[j] = ecCmd[j]
    BY <1>0, <1>2, <2>1, <2>2
  <2> HIDE DEF i
  <2> QED
    BY <1>0, <2>1, <2>3, <2>4 DEF i
<1> QED
  BY <1>0, <1>1, <1>2

\* A hook ends, and its opposite may be launched.
LEMMA CommandUnlaunch ==
    ASSUME CommandsInv, NEW h \in Commands!Hooks,
           Commands!Unlaunch(h) \/ Commands!UnlaunchAndRun(h)
    PROVE  CommandsInv'
<1> USE CommandsAssumption DEF Commands!None
<1> DEFINE k == Commands!Closed(h)
<1>0. /\ ecHook[h] # "off" /\ ecHook' = [ecHook EXCEPT ![h] = "off"] /\ ecPool' = ecPool
      /\ ecHook \in [Commands!Hooks -> {"off", "none"} \cup Ids]
  BY DEF Commands!Unlaunch, Commands!UnlaunchAndRun, CommandsInv, Commands!TypeOK
<1>1. /\ k \in [Ids -> Commands!Command]
      /\ \A j \in Ids : GoodCommand(k[j])
      /\ \A j \in Ids : k[j].run = ecCmd[j].run /\ k[j].restart = ecCmd[j].restart
      /\ \A j \in Ids : k[j].terminate = (ecCmd[j].terminate \/ ecHook[h] = j)
  BY <1>0, ClosedCommands
<1> HIDE DEF k
<1>2. /\ ecHook' \in [Commands!Hooks -> {"off", "none"} \cup Ids]
      /\ \A g \in Commands!Hooks \ {h} : ecHook'[g] = ecHook[g]
  BY <1>0
<1>3. ecPool' = "open"
  BY <1>0 DEF CommandsInv, PoolEnds, Commands!TypeOK
<1>4. \A j \in Ids : k[j].run # "none" /\ k[j].restart =>
        k[j].terminate \/ \E g \in Commands!Hooks : ecHook'[g] = j
  <2> SUFFICES ASSUME NEW j \in Ids, k[j].run # "none", k[j].restart,
                      \A g \in Commands!Hooks : ecHook'[g] # j
               PROVE  k[j].terminate
    OBVIOUS
  <2>1. ecCmd[j].run # "none" /\ ecCmd[j].restart
    BY <1>1
  <2>2. ecCmd[j].terminate \/ \E g \in Commands!Hooks : ecHook[g] = j
    BY <2>1 DEF CommandsInv, Commands!EveryRestartIsOwned, Commands!Running
  <2>3. ecCmd[j].terminate \/ ecHook[h] = j
    BY <1>2, <2>2
  <2> QED
    BY <1>1, <2>3, Zenon
<1>5. CASE ecCmd' = k
  BY <1>1, <1>2, <1>3, <1>4, <1>5 DEF CommandsInv, Commands!TypeOK, GoodCommand, PoolEnds,
     Commands!EveryRestartIsOwned, Commands!Running
<1>6. ASSUME NEW i \in Commands!Free,
             ecCmd' = [k EXCEPT ![i] = Commands!NewCmd(FALSE, TRUE)]
      PROVE  CommandsInv'
  <2>1. i \in Ids
    BY DEF Commands!Free
  <2>2. GoodCommand(Commands!NewCmd(FALSE, TRUE)) /\ ~Commands!NewCmd(FALSE, TRUE).restart
    BY NewCmdType
  <2>3. /\ ecCmd' \in [Ids -> Commands!Command]
        /\ ecCmd'[i] = Commands!NewCmd(FALSE, TRUE)
        /\ \A j \in Ids \ {i} : ecCmd'[j] = k[j]
    BY <1>1, <1>6, <2>1, <2>2 DEF GoodCommand
  <2>4. Commands!TypeOK' /\ PoolEnds'
    BY <1>2, <1>3, <2>3 DEF Commands!TypeOK, PoolEnds
  <2>5. \A j \in Ids : GoodCommand(ecCmd[j])'
    <3> SUFFICES ASSUME NEW j \in Ids PROVE GoodCommand(ecCmd'[j])
      BY DEF GoodCommand
    <3>1. CASE j = i
      BY <2>2, <2>3, <3>1
    <3>2. CASE j # i
      <4>1. ecCmd'[j] = k[j]
        BY <2>3, <3>2
      <4> QED
        BY <1>1, <4>1
    <3> QED
      BY <3>1, <3>2
  <2>6. Commands!EveryRestartIsOwned'
    BY <1>4, <2>2, <2>3 DEF Commands!EveryRestartIsOwned, Commands!Running
  <2> QED
    BY <2>4, <2>5, <2>6 DEF CommandsInv
<1> QED
  BY <1>5, <1>6 DEF Commands!Unlaunch, Commands!UnlaunchAndRun, k

LEMMA CommandsNext == CommandsInv /\ Commands!Next => CommandsInv'
<1> SUFFICES ASSUME CommandsInv, Commands!Next PROVE CommandsInv'
  OBVIOUS
<1>1. ASSUME Commands!PoolClose \/ Commands!PoolWaitReturns PROVE CommandsInv'
  BY <1>1 DEF Commands!PoolClose, Commands!PoolWaitReturns, CommandsInv, Commands!TypeOK,
     GoodCommand, PoolEnds, Commands!EveryRestartIsOwned, Commands!Running, Commands!None
<1>2. \A h \in Commands!Hooks :
        Commands!Launch(h) \/ Commands!Unlaunch(h) \/ Commands!UnlaunchAndRun(h) => CommandsInv'
  BY CommandLaunch, CommandUnlaunch
<1>3. CASE \/ Commands!OnInit \/ Commands!OnDemand \/ Commands!OnReady
           \/ Commands!OnConnect \/ Commands!OnRead
  BY <1>2, <1>3 DEF Commands!OnInit, Commands!OnDemand, Commands!OnReady, Commands!OnConnect,
     Commands!OnRead, Commands!Hooks
<1>4. CASE \/ Commands!OnUnInit \/ Commands!OnUnDemand \/ Commands!OnNotReady
           \/ Commands!OnDisconnect \/ Commands!OnUnread
  BY <1>2, <1>4 DEF Commands!OnUnInit, Commands!OnUnDemand, Commands!OnNotReady,
     Commands!OnDisconnect, Commands!OnUnread, Commands!Hooks
<1> QED
  BY <1>1, <1>3, <1>4, CommandSteps DEF Commands!Next

LEMMA CommandsInvImplies ==
    CommandsInv => /\ Commands!TypeOK
                   /\ Commands!EveryRestartIsOwned
                   /\ ecPool = "closed" => \A i \in Ids : ~ecCmd[i].process
BY DEF CommandsInv, PoolEnds, GoodCommand

-----------------------------------------------------------------------------
(* Resources.                                                               *)

\* A pointer that closeResources() does not follow: the metrics and the path
\* manager are told when the other is closed and created, and the API is not
\* told of the RTMPS server (see PointersAreCurrent).
IsLoose(q, r) ==
    \/ q = "metrics" /\ r # "logger"
    \/ q = "pathManager" /\ r = "hlsServer"
    \/ q = "api" /\ r = "rtmpsServer"

\* The flags of a reload include whatever depends on a flagged resource.
FlagsAreClosed(flags) ==
    \A q, r \in Resources!Resources : r \in flags /\ r \in Resources!ClosedWith(q) => q \in flags

\* Each of the resources in kept is needed in c, and what it points to by a
\* pointer that is followed runs if it is needed.
Fits(kept, c) ==
    \A q \in kept :
        /\ Resources!Enabled(q, c)
        /\ \A r \in Resources!PointsTo(q) :
            ~IsLoose(q, r) /\ Resources!Enabled(r, c) => r \in rsAlive

\* What runs fits the configuration, or what a reload keeps fits the next one.
RunningFits ==
    /\ rsCore.pc = "run" =>
        rsAlive = {r \in Resources!Resources : Resources!Enabled(r, rsConf)}
    /\ rsCore.pc \in {"run", "creating"} => rsOutdated = {}
    /\ rsCore.pc = "creating" => Fits(rsAlive, rsConf)
    /\ rsCore.pc = "closing" =>
        /\ Resources!IsConf(rsCore.next)
        /\ Fits(rsAlive \ rsCore.flags, rsCore.next)
        /\ \A o \in rsOutdated : o[1] \in rsCore.flags
    /\ rsCore.pc \in {"closing", "stopping"} => FlagsAreClosed(rsCore.flags)

\* The pointers that are kept are those of the code, and all of them.
PointersFit ==
    /\ \A p \in rsRefs : p[2] \in Resources!PointsTo(p[1])
    /\ \A q, r \in rsAlive : r \in Resources!PointsTo(q) =>
        <<q, r>> \in rsRefs \/ (q = "api" /\ r = "rtmpsServer")
    /\ rsStale \subseteq {<<"api", "rtmpsServer">>}

ResourcesInv == Resources!TypeOK /\ RunningFits /\ PointersFit

LEMMA ResourcesAre ==
    /\ DOMAIN Resources!Order = 1..14
    /\ Resources!Resources =
        {"logger", "metrics", "pprof", "recordCleaner", "playbackServer",
         "pathManager", "rtspServer", "rtspsServer", "rtmpServer", "rtmpsServer",
         "hlsServer", "webRTCServer", "srtServer", "api"}
    /\ \A i \in 1..14 : Resources!Order[i] \in Resources!Resources
    /\ \A r \in Resources!Resources : \E i \in 1..14 : r = Resources!Order[i]
BY DEF Resources!Resources, Resources!ToSet, Resources!Order

\* The library's Min and Max, on the indices of Order.
LEMMA MinOfOrder ==
    ASSUME NEW S \in SUBSET (1..14), S # {}
    PROVE  Resources!Min(S) \in S /\ \A y \in S : Resources!Min(S) <= y
<1>1. \E x \in S : \A y \in S : x <= y
  <2> SUFFICES ASSUME \A x \in S : \E y \in S : y < x PROVE FALSE
    OBVIOUS
  <2>1. \A x \in S : x \in 1..14
    OBVIOUS
  <2>2. \A x \in S : x > 2
    BY <2>1
  <2>3. \A x \in S : x > 4
    BY <2>1, <2>2
  <2>4. \A x \in S : x > 7
    BY <2>1, <2>3
  <2>5. \A x \in S : x > 10
    BY <2>1, <2>4
  <2>6. \A x \in S : x > 13
    BY <2>1, <2>5
  <2>7. \A x \in S : x > 14
    BY <2>1, <2>6
  <2>8. PICK x \in S : TRUE
    OBVIOUS
  <2> QED
    BY <2>1, <2>7, <2>8
<1> QED
  BY <1>1 DEF Resources!Min

LEMMA MaxOfOrder ==
    ASSUME NEW S \in SUBSET (1..14), S # {}
    PROVE  Resources!Max(S) \in S /\ \A y \in S : Resources!Max(S) >= y
<1>1. \E x \in S : \A y \in S : x >= y
  <2> SUFFICES ASSUME \A x \in S : \E y \in S : y > x PROVE FALSE
    OBVIOUS
  <2>1. \A x \in S : x \in 1..14
    OBVIOUS
  <2>2. \A x \in S : x < 13
    BY <2>1
  <2>3. \A x \in S : x < 10
    BY <2>1, <2>2
  <2>4. \A x \in S : x < 7
    BY <2>1, <2>3
  <2>5. \A x \in S : x < 4
    BY <2>1, <2>4
  <2>6. \A x \in S : x < 2
    BY <2>1, <2>5
  <2>7. \A x \in S : x < 1
    BY <2>1, <2>6
  <2>8. PICK x \in S : TRUE
    OBVIOUS
  <2> QED
    BY <2>1, <2>7, <2>8
<1> QED
  BY <1>1 DEF Resources!Max

\* A pointer that is followed points to what is earlier in the order, and the
\* flags follow it.
LEMMA PointersGoBack ==
    ASSUME NEW i \in 1..14, NEW j \in 1..14,
           Resources!Order[j] \in Resources!PointsTo(Resources!Order[i]),
           ~IsLoose(Resources!Order[i], Resources!Order[j])
    PROVE  /\ j < i
           /\ Resources!Order[j] \in Resources!ClosedWith(Resources!Order[i])
<1> USE DEF Resources!Order, Resources!PointsTo, Resources!ClosedWith, Resources!Servers, IsLoose
<1>1. CASE i = 1
  BY <1>1
<1>2. CASE i = 2
  BY <1>2
<1>3. CASE i = 3
  BY <1>3
<1>4. CASE i = 4
  BY <1>4
<1>5. CASE i = 5
  BY <1>5
<1>6. CASE i = 6
  BY <1>6
<1>7. CASE i = 7
  BY <1>7
<1>8. CASE i = 8
  BY <1>8
<1>9. CASE i = 9
  BY <1>9
<1>10. CASE i = 10
  BY <1>10
<1>11. CASE i = 11
  BY <1>11
<1>12. CASE i = 12
  BY <1>12
<1>13. CASE i = 13
  BY <1>13
<1>14. CASE i = 14
  BY <1>14
<1> QED
  BY <1>1, <1>2, <1>3, <1>4, <1>5, <1>6, <1>7, <1>8, <1>9, <1>10, <1>11, <1>12, <1>13, <1>14

LEMMA FirstOfIs ==
    ASSUME NEW s \in SUBSET Resources!Resources, s # {}
    PROVE  \E i \in 1..14 : /\ Resources!FirstOf(s) = Resources!Order[i]
                            /\ Resources!Order[i] \in s
                            /\ \A j \in 1..14 : Resources!Order[j] \in s => i <= j
<1> DEFINE I == Resources!IndicesOf(s)
<1>1. I = {i \in 1..14 : Resources!Order[i] \in s}
  BY ResourcesAre DEF Resources!IndicesOf
<1> HIDE DEF I
<1>2. I \in SUBSET (1..14) /\ I # {}
  <2>1. PICK r \in s : r \in Resources!Resources
    OBVIOUS
  <2>2. PICK i \in 1..14 : r = Resources!Order[i]
    BY <2>1, ResourcesAre
  <2> QED
    BY <1>1, <2>1, <2>2
<1>3. Resources!Min(I) \in I /\ \A j \in I : Resources!Min(I) <= j
  BY <1>2, MinOfOrder
<1> QED
  BY <1>1, <1>3 DEF Resources!FirstOf, I

LEMMA LastOfIs ==
    ASSUME NEW s \in SUBSET Resources!Resources, s # {}
    PROVE  \E i \in 1..14 : /\ Resources!LastOf(s) = Resources!Order[i]
                            /\ Resources!Order[i] \in s
                            /\ \A j \in 1..14 : Resources!Order[j] \in s => i >= j
<1> DEFINE I == Resources!IndicesOf(s)
<1>1. I = {i \in 1..14 : Resources!Order[i] \in s}
  BY ResourcesAre DEF Resources!IndicesOf
<1> HIDE DEF I
<1>2. I \in SUBSET (1..14) /\ I # {}
  <2>1. PICK r \in s : r \in Resources!Resources
    OBVIOUS
  <2>2. PICK i \in 1..14 : r = Resources!Order[i]
    BY <2>1, ResourcesAre
  <2> QED
    BY <1>1, <2>1, <2>2
<1>3. Resources!Max(I) \in I /\ \A j \in I : Resources!Max(I) >= j
  BY <1>2, MaxOfOrder
<1> QED
  BY <1>1, <1>3 DEF Resources!LastOf, I

\* Whether a resource is needed depends on the switches that are compared for it.
LEMMA EnabledIsCompared ==
    ASSUME NEW r \in Resources!Resources, NEW c, NEW d,
           Resources!ComparedSwitches(r) \cap ((d \ c) \cup (c \ d)) = {}
    PROVE  Resources!Enabled(r, c) <=> Resources!Enabled(r, d)
<1> USE DEF Resources!Enabled, Resources!ComparedSwitches
<1>1. CASE r = "logger"
  BY <1>1
<1>2. CASE r = "metrics"
  BY <1>2
<1>3. CASE r = "pprof"
  BY <1>3
<1>4. CASE r = "recordCleaner"
  BY <1>4
<1>5. CASE r = "playbackServer"
  BY <1>5
<1>6. CASE r = "pathManager"
  BY <1>6
<1>7. CASE r = "rtspServer"
  BY <1>7
<1>8. CASE r = "rtspsServer"
  BY <1>8
<1>9. CASE r = "rtmpServer"
  BY <1>9
<1>10. CASE r = "rtmpsServer"
  BY <1>10
<1>11. CASE r = "hlsServer"
  BY <1>11
<1>12. CASE r = "webRTCServer"
  BY <1>12
<1>13. CASE r = "srtServer"
  BY <1>13
<1>14. CASE r = "api"
  BY <1>14
<1> QED
  BY ResourcesAre, <1>1, <1>2, <1>3, <1>4, <1>5, <1>6, <1>7, <1>8, <1>9, <1>10, <1>11, <1>12, <1>13, <1>14

\* Every parameter that a resource is built from is compared for it, or is Paths.
LEMMA BuiltIsCompared ==
    ASSUME NEW r \in Resources!Resources
    PROVE  /\ Resources!BuiltFrom(r) \subseteq Resources!Compared(r) \cup {"Paths"}
           /\ "Paths" \in Resources!BuiltFrom(r) => r \in {"pathManager", "playbackServer"}
           /\ Resources!BuiltFrom(r) \subseteq Resources!Params
<1>0. Resources!BuiltFrom(r) \subseteq Resources!Params
  BY DEF Resources!Params
<1> USE <1>0 DEF Resources!BuiltFrom, Resources!Compared, Resources!ComparedByServer, Resources!Servers,
        Resources!LoggerParams, Resources!PathManagerParams, Resources!RTSPParams, Resources!RTSPSParams,
        Resources!RTMPParams, Resources!RTMPSParams, Resources!HLSParams, Resources!WebRTCParams,
        Resources!SRTParams, Resources!Timeouts, Resources!RunOn
<1>1. CASE r = "logger"
  BY <1>1
<1>2. CASE r = "metrics"
  BY <1>2
<1>3. CASE r = "pprof"
  BY <1>3
<1>4. CASE r = "recordCleaner"
  BY <1>4
<1>5. CASE r = "playbackServer"
  BY <1>5
<1>6. CASE r = "pathManager"
  BY <1>6
<1>7. CASE r = "rtspServer"
  BY <1>7
<1>8. CASE r = "rtspsServer"
  BY <1>8
<1>9. CASE r = "rtmpServer"
  BY <1>9
<1>10. CASE r = "rtmpsServer"
  BY <1>10
<1>11. CASE r = "hlsServer"
  BY <1>11
<1>12. CASE r = "webRTCServer"
  BY <1>12
<1>13. CASE r = "srtServer"
  BY <1>13
<1>14. CASE r = "api"
  BY <1>14
<1> QED
  BY ResourcesAre, <1>1, <1>2, <1>3, <1>4, <1>5, <1>6, <1>7, <1>8, <1>9, <1>10, <1>11, <1>12, <1>13, <1>14

\* Four rounds reach everything that depends on a flag, since the resources form
\* five layers: the logger, the metrics and others, the path manager, the
\* servers, the API.
LEMMA CloseFlagsAreClosed ==
    ASSUME NEW changed
    PROVE  /\ FlagsAreClosed(Resources!CloseFlags(changed))
           /\ Resources!CloseFlags(changed) \subseteq Resources!Resources
           /\ \A r \in Resources!Resources :
                (Resources!Compared(r) \cup Resources!ComparedSwitches(r)) \cap changed # {}
                    => r \in Resources!CloseFlags(changed)
<1> DEFINE Widen(s) == s \cup {r \in Resources!Resources : Resources!ClosedWith(r) \cap s # {}}
           s0 == {r \in Resources!Resources :
                    (Resources!Compared(r) \cup Resources!ComparedSwitches(r)) \cap changed # {}}
           s1 == Widen(s0)
           s2 == Widen(s1)
           s3 == Widen(s2)
           s4 == Widen(s3)
           Server == Resources!Servers
<1>1. Resources!CloseFlags(changed) = s4
  BY DEF Resources!CloseFlags
<1>2. s0 \subseteq Resources!Resources
  OBVIOUS
<1> HIDE DEF s0
<1>3. /\ s0 \subseteq s1 /\ s1 \subseteq s2 /\ s2 \subseteq s3 /\ s3 \subseteq s4
      /\ s4 \subseteq Resources!Resources
  BY <1>2
<1>4. \A q, r \in Resources!Resources : r \in Resources!ClosedWith(q) =>
        /\ r \in s0 => q \in s1
        /\ r \in s1 => q \in s2
        /\ r \in s2 => q \in s3
        /\ r \in s3 => q \in s4
  OBVIOUS
<1>5. \A q \in Resources!Resources :
        /\ q \in s1 => q \in s0 \/ \E r \in s0 : r \in Resources!ClosedWith(q)
        /\ q \in s2 => q \in s1 \/ \E r \in s1 : r \in Resources!ClosedWith(q)
        /\ q \in s3 => q \in s2 \/ \E r \in s2 : r \in Resources!ClosedWith(q)
        /\ q \in s4 => q \in s3 \/ \E r \in s3 : r \in Resources!ClosedWith(q)
  OBVIOUS
<1> HIDE DEF s1, s2, s3, s4
<1>6. /\ {"logger", "metrics", "pathManager", "api"} \subseteq Resources!Resources
      /\ Server \subseteq Resources!Resources
      /\ "api" \notin Server /\ "pathManager" \notin Server
      /\ "logger" \notin Server /\ "metrics" \notin Server
  BY ResourcesAre DEF Resources!Servers
<1>7. /\ Resources!ClosedWith("logger") = {}
      /\ Resources!ClosedWith("pathManager") = {"metrics", "logger"}
      /\ Resources!ClosedWith("api") \subseteq Server \cup {"pathManager", "logger"}
      /\ \A q \in Server : Resources!ClosedWith(q) \subseteq {"metrics", "pathManager", "logger"}
      /\ \A q \in Resources!Resources \ (Server \cup {"logger", "pathManager", "api"}) :
            Resources!ClosedWith(q) = {"logger"}
  BY ResourcesAre DEF Resources!ClosedWith, Resources!Servers
<1> HIDE DEF Server
<1>8. "logger" \in s4 => "logger" \in s0
  BY <1>5, <1>6, <1>7
<1>9. "metrics" \in s4 => "metrics" \in s1
  BY <1>3, <1>4, <1>5, <1>6, <1>7, <1>8
<1>10. "pathManager" \in s4 => "pathManager" \in s2
  BY <1>3, <1>4, <1>5, <1>6, <1>7, <1>8, <1>9
<1>11. \A q \in Server : q \in s4 => q \in s3
  BY <1>3, <1>4, <1>5, <1>6, <1>7, <1>8, <1>9, <1>10
<1>12. ASSUME NEW q \in Resources!Resources, NEW r \in s4, r \in Resources!ClosedWith(q)
       PROVE  q \in s4
  <2>1. CASE q \in Server
    BY <1>3, <1>4, <1>6, <1>7, <1>8, <1>9, <1>10, <1>12, <2>1
  <2>2. CASE q = "logger"
    BY <1>7, <1>12, <2>2
  <2>3. CASE q = "pathManager"
    BY <1>3, <1>4, <1>6, <1>7, <1>8, <1>9, <1>12, <2>3
  <2>4. CASE q = "api"
    BY <1>3, <1>4, <1>6, <1>7, <1>8, <1>10, <1>11, <1>12, <2>4
  <2>5. CASE q \notin Server \cup {"logger", "pathManager", "api"}
    BY <1>3, <1>4, <1>6, <1>7, <1>8, <1>12, <2>5
  <2> QED
    BY <2>1, <2>2, <2>3, <2>4, <2>5
<1> QED
  BY <1>1, <1>3, <1>12 DEF FlagsAreClosed, s0

\* A pointer that the flags follow leads back in the order.
LEMMA FollowedPointer ==
    ASSUME NEW q \in Resources!Resources, NEW r \in Resources!Resources,
           r \in Resources!PointsTo(q), ~IsLoose(q, r)
    PROVE  /\ r \in Resources!ClosedWith(q)
           /\ \A i, j \in 1..14 : q = Resources!Order[i] /\ r = Resources!Order[j] => j < i
<1>1. PICK i \in 1..14 : q = Resources!Order[i]
  BY ResourcesAre
<1>2. PICK j \in 1..14 : r = Resources!Order[j]
  BY ResourcesAre
<1> QED
  BY <1>1, <1>2, PointersGoBack

\* Whoever is not told of the close of what it points to is the API.
LEMMA LoosePointer ==
    ASSUME NEW q, NEW r, IsLoose(q, r)
    PROVE  q \in Resources!ToldOf(r) \/ (q = "api" /\ r = "rtmpsServer")
BY DEF IsLoose, Resources!ToldOf

LEMMA PointsToResources ==
    ASSUME NEW q \in Resources!Resources
    PROVE  Resources!PointsTo(q) \subseteq Resources!Resources \ {q}
<1> USE ResourcesAre DEF Resources!PointsTo, Resources!Servers
<1>1. CASE q \in {"logger", "metrics", "pprof", "recordCleaner", "playbackServer",
                  "pathManager", "api"}
  BY <1>1
<1>2. CASE q \in Resources!Servers
  BY <1>2
<1> QED
  BY <1>1, <1>2

LEMMA ResourcesInit == Resources!Init => ResourcesInv
<1> SUFFICES ASSUME Resources!Init PROVE ResourcesInv
  OBVIOUS
<1>1. /\ rsAlive = {} /\ rsRefs = {} /\ rsStale = {} /\ rsOutdated = {}
      /\ rsConf \in SUBSET Resources!Switches /\ Resources!IsConf(rsConf)
      /\ rsCore = [pc |-> "creating", initial |-> TRUE, flags |-> {}, next |-> {}]
  BY DEF Resources!Init
<1>2. Resources!TypeOK
  BY <1>1 DEF Resources!TypeOK
<1> QED
  BY <1>1, <1>2 DEF ResourcesInv, RunningFits, Fits, PointersFit

\* closeResources() computes the flags of a new configuration.
LEMMA ResourcesReload ==
    ASSUME ResourcesInv, NEW next \in SUBSET Resources!Switches, Resources!IsConf(next),
           NEW values, Resources!Reload(next, values)
    PROVE  ResourcesInv'
<1> DEFINE paths == IF "CleanerEntries" \in values THEN {"Paths"} ELSE {}
           changed == values \cup paths \cup (next \ rsConf) \cup (rsConf \ next)
           flags == Resources!CloseFlags(changed)
           told == {"pathManager", "playbackServer"} \ flags
           new == {o \in rsAlive \X changed :
                    o[2] \in Resources!BuiltFrom(o[1]) /\ ~(o[2] = "Paths" /\ o[1] \in told)}
           C == [pc: {"creating", "run", "closing", "stopping", "ended", "panic"},
                 initial: BOOLEAN, flags: SUBSET Resources!Resources,
                 next: SUBSET Resources!Switches]
<1>1. /\ rsCore.pc = "run"
      /\ rsCore' = [rsCore EXCEPT !.pc = "closing", !.flags = flags, !.next = next]
      /\ rsOutdated' = rsOutdated \cup new
      /\ UNCHANGED <<rsConf, rsAlive, rsRefs, rsStale>>
  BY DEF Resources!Reload
<1>2. (next \ rsConf) \cup (rsConf \ next) \subseteq changed
  OBVIOUS
<1> HIDE DEF changed
<1>3. /\ FlagsAreClosed(flags) /\ flags \subseteq Resources!Resources
      /\ \A r \in Resources!Resources :
            (Resources!Compared(r) \cup Resources!ComparedSwitches(r)) \cap changed # {}
                => r \in flags
  BY CloseFlagsAreClosed
<1> HIDE DEF flags
<1>4. /\ rsAlive = {r \in Resources!Resources : Resources!Enabled(r, rsConf)}
      /\ rsOutdated = {}
  BY <1>1 DEF ResourcesInv, RunningFits
<1>5. rsCore' \in C /\ rsCore'.pc = "closing" /\ rsCore'.flags = flags /\ rsCore'.next = next
  BY <1>1, <1>3 DEF ResourcesInv, Resources!TypeOK
<1>6. \A r \in Resources!Resources \ flags :
        Resources!Enabled(r, rsConf) <=> Resources!Enabled(r, next)
  <2> SUFFICES ASSUME NEW r \in Resources!Resources, r \notin flags
               PROVE  Resources!Enabled(r, rsConf) <=> Resources!Enabled(r, next)
    OBVIOUS
  <2>1. Resources!ComparedSwitches(r) \cap changed = {}
    BY <1>3
  <2>2. Resources!ComparedSwitches(r) \cap ((next \ rsConf) \cup (rsConf \ next)) = {}
    BY <1>2, <2>1
  <2> QED
    BY <2>2, EnabledIsCompared
<1>7. Fits(rsAlive \ flags, next)
  <2> SUFFICES ASSUME NEW q \in rsAlive, q \notin flags
               PROVE  /\ Resources!Enabled(q, next)
                      /\ \A r \in Resources!PointsTo(q) :
                            ~IsLoose(q, r) /\ Resources!Enabled(r, next) => r \in rsAlive
    BY DEF Fits
  <2>1. q \in Resources!Resources /\ Resources!Enabled(q, next)
    BY <1>4, <1>6
  <2>2. ASSUME NEW r \in Resources!PointsTo(q), ~IsLoose(q, r), Resources!Enabled(r, next)
        PROVE  r \in rsAlive
    <3>1. r \in Resources!Resources
      BY <2>1, PointsToResources
    <3>2. r \in Resources!ClosedWith(q)
      BY <2>1, <2>2, <3>1, FollowedPointer
    <3>3. r \notin flags
      BY <1>3, <2>1, <3>1, <3>2 DEF FlagsAreClosed
    <3> QED
      BY <1>4, <1>6, <2>2, <3>1, <3>3
  <2> QED
    BY <2>1, <2>2
<1>8. ASSUME NEW o \in new
      PROVE  o[1] \in flags /\ o \in rsAlive \X Resources!Params
  <2>1. /\ o[1] \in Resources!Resources /\ o[1] \in rsAlive /\ o[2] \in changed
        /\ o = <<o[1], o[2]>>
        /\ o[2] \in Resources!BuiltFrom(o[1]) /\ ~(o[2] = "Paths" /\ o[1] \in told)
    BY <1>4
  <2>2. /\ o[2] \in Resources!Compared(o[1]) \cup {"Paths"} /\ o[2] \in Resources!Params
        /\ o[2] = "Paths" => o[1] \in {"pathManager", "playbackServer"}
    BY <2>1, BuiltIsCompared
  <2>3. o[1] \in flags
    <3>1. CASE o[2] = "Paths"
      BY <2>1, <2>2, <3>1
    <3>2. CASE o[2] \in Resources!Compared(o[1])
      BY <1>3, <2>1, <3>2
    <3> QED
      BY <2>2, <3>1, <3>2
  <2> QED
    BY <2>1, <2>2, <2>3
<1> HIDE DEF new
<1>9. Resources!TypeOK'
  BY <1>1, <1>4, <1>5, <1>8 DEF ResourcesInv, Resources!TypeOK
<1>10. Fits(rsAlive \ rsCore.flags, rsCore.next)'
  BY <1>1, <1>5, <1>7 DEF Fits
<1>11. RunningFits'
  BY <1>1, <1>3, <1>4, <1>5, <1>8, <1>10 DEF RunningFits
<1>12. PointersFit'
  BY <1>1 DEF ResourcesInv, PointersFit
<1> QED
  BY <1>9, <1>11, <1>12 DEF ResourcesInv

\* A resource is closed: whoever points to it is told or has been closed.
LEMMA ResourcesClose == ResourcesInv /\ Resources!CloseResource => ResourcesInv'
<1> SUFFICES ASSUME ResourcesInv, Resources!CloseResource PROVE ResourcesInv'
  OBVIOUS
<1> DEFINE s == rsCore.flags \cap rsAlive
           r == Resources!LastOf(s)
           lost == {p \in rsRefs : p[2] = r /\ p[1] \notin Resources!ToldOf(r)}
<1>1. /\ rsCore.pc \in {"closing", "stopping"} /\ s # {}
      /\ rsAlive' = rsAlive \ {r}
      /\ rsRefs' = {p \in rsRefs : r \notin {p[1], p[2]}}
      /\ rsStale' = {p \in rsStale : p[1] # r} \cup lost
      /\ rsOutdated' = {p \in rsOutdated : p[1] # r}
      /\ UNCHANGED <<rsConf, rsCore>>
  BY DEF Resources!CloseResource
<1>2. /\ rsAlive \subseteq Resources!Resources /\ rsRefs \subseteq rsAlive \X rsAlive
      /\ s \in SUBSET Resources!Resources /\ FlagsAreClosed(rsCore.flags)
      /\ \A p \in rsRefs : p[2] \in Resources!PointsTo(p[1])
  BY <1>1 DEF ResourcesInv, Resources!TypeOK, RunningFits, PointersFit
<1> HIDE DEF s
<1>3. PICK i \in 1..14 : /\ r = Resources!Order[i] /\ r \in s
                         /\ \A j \in 1..14 : Resources!Order[j] \in s => i >= j
  BY <1>1, <1>2, LastOfIs
<1> HIDE DEF r
<1>4. r \in rsAlive /\ r \in rsCore.flags
  BY <1>3 DEF s
<1>5. lost \subseteq {<<"api", "rtmpsServer">>}
  <2> SUFFICES ASSUME NEW p \in rsRefs, p[2] = r, p[1] \notin Resources!ToldOf(r)
               PROVE  p = <<"api", "rtmpsServer">>
    OBVIOUS
  <2>1. p = <<p[1], r>> /\ p[1] \in rsAlive /\ p[1] \in Resources!Resources
        /\ r \in Resources!Resources /\ r \in Resources!PointsTo(p[1])
    BY <1>2
  <2>2. CASE IsLoose(p[1], r)
    BY <2>1, <2>2, LoosePointer
  <2>3. CASE ~IsLoose(p[1], r)
    <3>1. PICK k \in 1..14 : p[1] = Resources!Order[k]
      BY <2>1, ResourcesAre
    <3>2. i < k /\ r \in Resources!ClosedWith(p[1])
      BY <1>3, <2>1, <2>3, <3>1, FollowedPointer
    <3>3. p[1] \in s
      BY <1>2, <1>4, <2>1, <3>2 DEF FlagsAreClosed, s
    <3> QED
      BY <1>3, <3>1, <3>2, <3>3
  <2> QED
    BY <2>2, <2>3
<1>6. \A p \in lost : p[1] \in rsAlive \ {r} /\ p[2] \in Resources!Resources
  <2> SUFFICES ASSUME NEW p \in lost PROVE p[1] \in rsAlive \ {r} /\ p[2] \in Resources!Resources
    OBVIOUS
  <2>1. p[1] \in rsAlive /\ p[2] = r /\ r \in Resources!PointsTo(p[1])
        /\ p[1] \in Resources!Resources /\ r \in Resources!Resources
    BY <1>2
  <2> QED
    BY <2>1, PointsToResources
<1>7. lost \subseteq rsAlive' \X Resources!Resources
  BY <1>1, <1>2, <1>6
<1> HIDE DEF lost
<1>8. Resources!TypeOK'
  <2>1. rsRefs' \subseteq rsAlive' \X rsAlive'
    BY <1>1, <1>2
  <2>2. rsStale' \subseteq rsAlive' \X Resources!Resources
    BY <1>1, <1>7 DEF ResourcesInv, Resources!TypeOK
  <2>3. rsOutdated' \subseteq rsAlive' \X Resources!Params
    BY <1>1 DEF ResourcesInv, Resources!TypeOK
  <2> QED
    BY <1>1, <2>1, <2>2, <2>3 DEF ResourcesInv, Resources!TypeOK
<1>9. PointersFit'
  <2>1. rsStale' \subseteq {<<"api", "rtmpsServer">>}
    BY <1>1, <1>5 DEF ResourcesInv, PointersFit
  <2>2. \A p \in rsRefs' : p[2] \in Resources!PointsTo(p[1])
    BY <1>1, <1>2
  <2>3. \A q, t \in rsAlive' : t \in Resources!PointsTo(q) =>
            <<q, t>> \in rsRefs' \/ (q = "api" /\ t = "rtmpsServer")
    BY <1>1 DEF ResourcesInv, PointersFit
  <2> QED
    BY <2>1, <2>2, <2>3 DEF PointersFit
<1>10. Fits(rsAlive \ rsCore.flags, rsCore.next) /\ rsCore.pc = "closing" =>
            Fits(rsAlive \ rsCore.flags, rsCore.next)'
  <2> SUFFICES ASSUME rsCore.pc = "closing", Fits(rsAlive \ rsCore.flags, rsCore.next),
                      NEW q \in rsAlive \ rsCore.flags,
                      NEW t \in Resources!PointsTo(q), ~IsLoose(q, t)
               PROVE  /\ Resources!Enabled(q, rsCore.next)
                      /\ Resources!Enabled(t, rsCore.next) => t \in rsAlive \ {r}
    BY <1>1, <1>4 DEF Fits
  <2>1. q \in Resources!Resources /\ t \in Resources!Resources
    BY <1>2, PointsToResources
  <2>2. t \in Resources!ClosedWith(q)
    BY <2>1, FollowedPointer
  <2>3. t \notin rsCore.flags
    BY <1>2, <2>1, <2>2 DEF FlagsAreClosed
  <2> QED
    BY <1>4, <2>3 DEF Fits
<1>11. RunningFits'
  BY <1>1, <1>10 DEF ResourcesInv, RunningFits
<1> QED
  BY <1>8, <1>9, <1>11 DEF ResourcesInv

\* A missing resource is created, with its pointers.
LEMMA ResourcesCreate == ResourcesInv /\ Resources!CreateResource => ResourcesInv'
<1> SUFFICES ASSUME ResourcesInv, Resources!CreateResource PROVE ResourcesInv'
  OBVIOUS
<1> DEFINE s == Resources!Missing
           r == Resources!FirstOf(s)
           out == {<<r, q>> : q \in Resources!PointsTo(r) \cap rsAlive}
           tells == {q \in rsAlive \cap {"metrics", "pathManager"} :
                        r \in Resources!PointsTo(q)}
           in == {<<q, r>> : q \in tells}
<1>1. /\ rsCore.pc = "creating" /\ s # {}
      /\ rsAlive' = rsAlive \cup {r}
      /\ rsRefs' = rsRefs \cup out \cup in
      /\ UNCHANGED <<rsConf, rsStale, rsOutdated, rsCore>>
  BY DEF Resources!CreateResource
<1>2. s \in SUBSET Resources!Resources
  BY DEF Resources!Missing
<1>3. \A t : t \in s <=> t \in Resources!Resources \ rsAlive /\ Resources!Enabled(t, rsConf)
  BY DEF Resources!Missing
<1> HIDE DEF s
<1>4. PICK i \in 1..14 : /\ r = Resources!Order[i] /\ r \in s
                         /\ \A j \in 1..14 : Resources!Order[j] \in s => i <= j
  BY <1>1, <1>2, FirstOfIs
<1> HIDE DEF r
<1>5. r \in Resources!Resources \ rsAlive /\ Resources!Enabled(r, rsConf)
  BY <1>3, <1>4
<1>6. /\ rsAlive \subseteq Resources!Resources
      /\ Fits(rsAlive, rsConf)
      /\ rsRefs \subseteq rsAlive \X rsAlive
  BY <1>1 DEF ResourcesInv, Resources!TypeOK, RunningFits
<1>7. /\ out \subseteq rsAlive' \X rsAlive' /\ in \subseteq rsAlive' \X rsAlive'
      /\ \A p \in out \cup in : p[2] \in Resources!PointsTo(p[1])
      /\ \A q \in rsAlive : q \in Resources!PointsTo(r) => <<r, q>> \in out
      /\ \A q \in tells : <<q, r>> \in in
  BY <1>1
<1> HIDE DEF out, in
<1>8. Resources!TypeOK'
  BY <1>1, <1>5, <1>6, <1>7 DEF ResourcesInv, Resources!TypeOK
<1>9. Fits(rsAlive, rsConf)'
  <2>1. ASSUME NEW t \in Resources!PointsTo(r), ~IsLoose(r, t), Resources!Enabled(t, rsConf)
        PROVE  t \in rsAlive
    <3>1. t \in Resources!Resources
      BY <1>5, PointsToResources
    <3>2. PICK j \in 1..14 : t = Resources!Order[j]
      BY <3>1, ResourcesAre
    <3>3. j < i
      BY <1>4, <1>5, <2>1, <3>1, <3>2, FollowedPointer
    <3>4. t \notin s
      BY <1>4, <3>2, <3>3
    <3> QED
      BY <1>3, <2>1, <3>1, <3>4
  <2> QED
    BY <1>1, <1>5, <1>6, <2>1 DEF Fits
<1>10. RunningFits'
  BY <1>1, <1>9 DEF ResourcesInv, RunningFits
<1>11. PointersFit'
  <2>1. \A p \in rsRefs' : p[2] \in Resources!PointsTo(p[1])
    BY <1>1, <1>7 DEF ResourcesInv, PointersFit
  <2>2. ASSUME NEW q \in rsAlive', NEW t \in rsAlive', t \in Resources!PointsTo(q)
        PROVE  <<q, t>> \in rsRefs' \/ (q = "api" /\ t = "rtmpsServer")
    <3>1. CASE q = r
      <4>1. t \in rsAlive
        BY <1>1, <1>5, <2>2, <3>1, PointsToResources
      <4> QED
        BY <1>1, <1>7, <2>2, <3>1, <4>1
    <3>2. CASE q # r /\ t = r
      <4>1. q \in rsAlive
        BY <1>1, <3>2
      <4>2. IsLoose(q, r)
        BY <1>5, <1>6, <2>2, <3>2, <4>1 DEF Fits
      <4>3. q \in tells \/ (q = "api" /\ t = "rtmpsServer")
        BY <2>2, <3>2, <4>1, <4>2 DEF IsLoose
      <4> QED
        BY <1>1, <1>7, <3>2, <4>3
    <3>3. CASE q # r /\ t # r
      BY <1>1, <2>2, <3>3 DEF ResourcesInv, PointersFit
    <3> QED
      BY <3>1, <3>2, <3>3
  <2> QED
    BY <1>1, <2>1, <2>2 DEF ResourcesInv, PointersFit
<1> QED
  BY <1>8, <1>10, <1>11 DEF ResourcesInv

\* The other steps of Core move it from one phase to the next.
LEMMA ResourcesPhases ==
    ASSUME ResourcesInv,
           \/ Resources!Shutdown \/ Resources!Closed
           \/ Resources!Created \/ Resources!CreateFails
    PROVE  ResourcesInv'
<1> DEFINE C == [pc: {"creating", "run", "closing", "stopping", "ended", "panic"},
                 initial: BOOLEAN, flags: SUBSET Resources!Resources,
                 next: SUBSET Resources!Switches]
<1>0. rsCore \in C
  BY DEF ResourcesInv, Resources!TypeOK
<1>1. UNCHANGED <<rsAlive, rsRefs, rsStale, rsOutdated>> /\ PointersFit'
  BY DEF Resources!Shutdown, Resources!Closed, Resources!Created, Resources!CreateFails,
     ResourcesInv, PointersFit
<1>2. FlagsAreClosed(Resources!Resources)
  BY DEF FlagsAreClosed
<1>3. CASE /\ rsConf' = rsConf /\ rsCore' \in C
           /\ rsCore'.pc \in {"stopping", "panic"} /\ rsCore'.flags = Resources!Resources
  BY <1>1, <1>2, <1>3 DEF ResourcesInv, Resources!TypeOK, RunningFits
<1>4. CASE Resources!Shutdown \/ Resources!CreateFails
  <2>1. /\ rsConf' = rsConf /\ rsCore' \in C
        /\ rsCore'.pc \in {"stopping", "panic"} /\ rsCore'.flags = Resources!Resources
    BY <1>0, <1>4 DEF Resources!Shutdown, Resources!CreateFails
  <2> QED
    BY <1>3, <2>1
<1>5. CASE Resources!Closed
  <2>1. CASE rsCore.pc = "closing"
    <3>1. /\ rsConf' = rsCore.next /\ rsCore' \in C /\ rsCore'.pc = "creating"
      BY <1>0, <1>5, <2>1 DEF Resources!Closed
    <3>2. rsAlive \ rsCore.flags = rsAlive
      BY <1>5 DEF Resources!Closed
    <3>3. /\ Resources!IsConf(rsCore.next) /\ Fits(rsAlive, rsCore.next)
          /\ \A o \in rsOutdated : o[1] \in rsCore.flags
      BY <2>1, <3>2 DEF ResourcesInv, RunningFits
    <3>4. rsOutdated = {}
      BY <1>5, <3>3 DEF Resources!Closed, ResourcesInv, Resources!TypeOK
    <3>5. Fits(rsAlive, rsConf)'
      BY <1>1, <3>1, <3>3 DEF Fits
    <3>6. Resources!TypeOK'
      BY <1>0, <1>1, <3>1, <3>3 DEF ResourcesInv, Resources!TypeOK
    <3>7. RunningFits'
      BY <1>1, <3>1, <3>4, <3>5 DEF RunningFits
    <3> QED
      BY <1>1, <3>6, <3>7 DEF ResourcesInv
  <2>2. CASE rsCore.pc = "stopping"
    <3>1. rsConf' = rsConf /\ rsCore' \in C /\ rsCore'.pc = "ended"
      BY <1>0, <1>5, <2>2 DEF Resources!Closed
    <3> QED
      BY <1>1, <3>1 DEF ResourcesInv, Resources!TypeOK, RunningFits
  <2> QED
    BY <1>5, <2>1, <2>2 DEF Resources!Closed
<1>6. CASE Resources!Created
  <2>1. rsConf' = rsConf /\ rsCore' \in C /\ rsCore'.pc = "run" /\ rsCore.pc = "creating"
    BY <1>0, <1>6 DEF Resources!Created
  <2>2. rsAlive = {r \in Resources!Resources : Resources!Enabled(r, rsConf)}
    <3>1. rsAlive \subseteq Resources!Resources /\ Fits(rsAlive, rsConf)
      BY <2>1 DEF ResourcesInv, Resources!TypeOK, RunningFits
    <3>2. \A r \in Resources!Resources \ rsAlive : ~Resources!Enabled(r, rsConf)
      BY <1>6 DEF Resources!Created, Resources!Missing
    <3> QED
      BY <3>1, <3>2 DEF Fits
  <2> QED
    BY <1>1, <2>1, <2>2 DEF ResourcesInv, Resources!TypeOK, RunningFits
<1> QED
  BY <1>4, <1>5, <1>6

LEMMA ResourcesNext == ResourcesInv /\ Resources!Next => ResourcesInv'
<1> SUFFICES ASSUME ResourcesInv, Resources!Next PROVE ResourcesInv'
  OBVIOUS
<1>1. ASSUME NEW s \in {{}} \cup {{t} : t \in Toggled},
             NEW values \in {{}} \cup {{p} : p \in Resources!Params},
             LET next == (rsConf \cup s) \ (rsConf \cap s)
             IN  Resources!IsConf(next) /\ Resources!Reload(next, values)
      PROVE  ResourcesInv'
  <2> DEFINE next == (rsConf \cup s) \ (rsConf \cap s)
  <2>1. next \in SUBSET Resources!Switches
    BY ResourcesAssumption DEF ResourcesInv, Resources!TypeOK
  <2>2. Resources!IsConf(next) /\ Resources!Reload(next, values)
    BY <1>1
  <2> HIDE DEF next
  <2> QED
    BY <2>1, <2>2, ResourcesReload
<1>2. ASSUME NEW r, Resources!APIRequest(r) PROVE ResourcesInv'
  BY <1>2 DEF Resources!APIRequest, ResourcesInv, Resources!TypeOK, RunningFits, Fits,
     PointersFit
<1> QED
  BY <1>1, <1>2, ResourcesClose, ResourcesCreate, ResourcesPhases DEF Resources!Next

LEMMA ResourcesInvImplies ==
    ResourcesInv => /\ Resources!TypeOK
                    /\ Resources!RunningMatchesConf /\ Resources!PointersAreCurrent
BY DEF ResourcesInv, RunningFits, PointersFit, Resources!RunningMatchesConf,
   Resources!PointersAreCurrent

-----------------------------------------------------------------------------
(* The services together.                                                   *)

ServicesInv ==
    /\ kind = "resources" => ResourcesInv
    /\ kind = "reload" => ReloadInv
    /\ kind = "sources" => SourcesInv
    /\ kind = "commands" => CommandsInv

LEMMA ServicesInductive == Spec => []ServicesInv
<1>1. Init => ServicesInv
  BY ResourcesInit, ReloadInit, SourcesInit, CommandsInit DEF Init, ServicesInv
<1>2. ServicesInv /\ [Next]_vars => ServicesInv'
  <2> SUFFICES ASSUME ServicesInv, [Next]_vars PROVE ServicesInv'
    OBVIOUS
  <2>0. kind' = kind
    BY DEF Next, vars
  <2>1. ASSUME UNCHANGED rsVars, ResourcesInv PROVE ResourcesInv'
    BY <2>1 DEF rsVars, ResourcesInv, Resources!TypeOK, RunningFits, Fits, PointersFit
  <2>2. ASSUME UNCHANGED crVars, ReloadInv PROVE ReloadInv'
    BY <2>2 DEF crVars, ReloadInv, Reload!TypeOK, Counted, SendersHoldMutex, FlyingIsGlobal,
       FirstAPIIsAhead, NextIsCurrent, FirstAPIIsCurrent, Signalled
  <2>3. ASSUME UNCHANGED ssVars, SourcesInv PROVE SourcesInv'
    BY <2>3 DEF ssVars, SourcesInv, ReaderIsAwaited, TracksHaveClient, ReadyIsOwned
  <2>4. ASSUME UNCHANGED ecVars, CommandsInv PROVE CommandsInv'
    BY <2>4 DEF ecVars, CommandsInv, Commands!TypeOK, PoolEnds,
       Commands!EveryRestartIsOwned, Commands!Running
  <2>5. CASE kind = "resources"
    <3>1. ResourcesInv'
      BY <2>1, <2>5, ResourcesNext DEF ServicesInv, Next, vars
    <3> QED
      BY <2>0, <2>5, <3>1 DEF ServicesInv
  <2>6. CASE kind = "reload"
    <3>1. ReloadInv'
      BY <2>2, <2>6, ReloadNext DEF ServicesInv, Next, vars
    <3> QED
      BY <2>0, <2>6, <3>1 DEF ServicesInv
  <2>7. CASE kind = "sources"
    <3>1. SourcesInv'
      BY <2>3, <2>7, SourcesNext DEF ServicesInv, Next, vars
    <3> QED
      BY <2>0, <2>7, <3>1 DEF ServicesInv
  <2>8. CASE kind = "commands"
    <3>1. CommandsInv'
      BY <2>4, <2>8, CommandsNext DEF ServicesInv, Next, vars
    <3> QED
      BY <2>0, <2>8, <3>1 DEF ServicesInv
  <2> QED
    BY <2>0, <2>5, <2>6, <2>7, <2>8 DEF ServicesInv
<1> QED
  BY <1>1, <1>2, PTL DEF Spec

\* Whatever sequence of reloads changes switches and parameters, closeResources()
\* and createResources() leave exactly the resources of the configuration, built
\* from its current values; none ever points to a closed one and, between two
\* reloads, none misses one that runs, but for the RTMPS server in the API.
THEOREM ResourcesMatchConfAlways == Spec => []ResourcesMatchConf
<1>1. ServicesInv => ResourcesMatchConf
  BY ResourcesInvImplies DEF ServicesInv, ResourcesMatchConf
<1> QED
  BY <1>1, ServicesInductive, PTL

\* Edits of paths by any number of clients of the API, mixed with any number of
\* changes of the file, leave Core with the configuration that the API shows.
THEOREM APIShowsWhatRunsAlways == Spec => []APIShowsWhatRuns
<1>1. ServicesInv => APIShowsWhatRuns
  BY ReloadInvImplies DEF ServicesInv, APIShowsWhatRuns
<1> QED
  BY <1>1, ServicesInductive, PTL

\* A write of the file that the watcher does not skip is loaded in the end, and
\* no edit of the API that was under way undoes it.
THEOREM WritesAreSeenAlways == Spec => []WritesAreSeen
<1>1. ServicesInv => WritesAreSeen
  BY ReloadInvImplies DEF ServicesInv, WritesAreSeen
<1> QED
  BY <1>1, ServicesInductive, PTL

\* However Run() of a static source ends, its goroutine has ended and the handler
\* was told (the SRT source does not tell it); SetReady() is called only while
\* the source is not ready.  A part of NobodyLeftWaiting.
THEOREM SourcesReturnClean == Spec => [](kind = "sources" => Sources!ReturnsClean)
<1>1. ServicesInv => (kind = "sources" => Sources!ReturnsClean)
  BY SourcesInvImplies DEF ServicesInv
<1> QED
  BY <1>1, ServicesInductive, PTL

\* For any number of commands: one that restarts can be stopped by its hook or
\* has been told to end, and when Pool.Close() has returned no process is left.
\* The parts of NobodyLeftWaiting that need no ENABLED.
THEOREM CommandsAreOwned ==
    Spec => [](kind = "commands" =>
                /\ Commands!EveryRestartIsOwned
                /\ ecPool = "closed" => \A i \in Ids : ~ecCmd[i].process)
<1>1. ServicesInv => (kind = "commands" =>
                        /\ Commands!EveryRestartIsOwned
                        /\ ecPool = "closed" => \A i \in Ids : ~ecCmd[i].process)
  BY CommandsInvImplies DEF ServicesInv
<1> QED
  BY <1>1, ServicesInductive, PTL
-----------------------------------------------------------------------------
(* Playback: loops over sequences and segments in their order.              *)

\* Induction, for a set of numbers.
LEMMA Induction ==
    ASSUME NEW S, 0 \in S, \A n \in Nat : n \in S => n + 1 \in S
    PROVE  Nat \subseteq S
<1> SUFFICES ASSUME NEW z \in Nat, z \notin S PROVE FALSE
  OBVIOUS
<1> DEFINE Less == {p \in Nat \X Nat : p[1] < p[2]}
           Out == {n \in Nat : n \notin S}
<1>1. IsWellFoundedOn(Less, Nat)
  BY NatLessThanWellFounded, Zenon DEF OpToRel
<1>2. Out \subseteq Nat /\ z \in Out
  OBVIOUS
<1>3. PICK b \in Out : \A c \in Out : ~(<<c, b>> \in Less)
  <2> HIDE DEF Less, Out
  <2> QED
    BY <1>1, <1>2, WFMin
<1>4. b \in Nat /\ b # 0 /\ b - 1 \in Nat /\ b \notin S /\ b = (b - 1) + 1
  BY <1>3
<1>5. b - 1 \in S
  <2>1. <<b - 1, b>> \in Less
    BY <1>4
  <2> QED
    BY <1>3, <1>4, <2>1
<1> QED
  BY <1>4, <1>5

\* The least of a set of numbers.
LEMMA LeastNumber ==
    ASSUME NEW T \in SUBSET Nat, T # {}
    PROVE  Playback!Min(T) \in T /\ \A x \in T : Playback!Min(T) <= x
<1> DEFINE Less == {p \in Nat \X Nat : p[1] < p[2]}
<1>1. IsWellFoundedOn(Less, Nat)
  BY NatLessThanWellFounded, Zenon DEF OpToRel
<1>2. PICK b \in T : \A c \in T : ~(<<c, b>> \in Less)
  <2> HIDE DEF Less
  <2> QED
    BY <1>1, WFMin
<1>3. ASSUME NEW c \in T PROVE b <= c
  <2>1. b \in Nat /\ c \in Nat
    OBVIOUS
  <2>2. c < b => <<c, b>> \in Less
    BY <2>1
  <2> QED
    BY <1>2, <2>1, <2>2
<1> QED
  BY <1>3 DEF Playback!Min

\* f is what a loop makes of c, from round m to round K.
Loop(f, step, c, m, K) == f = [n \in m..K |-> IF n = m THEN c ELSE step[<<f[n - 1], n>>]]
LoopIn(f, step, c, m, K, X) == Loop(f, step, c, m, K) /\ \A n \in m..K : f[n] \in X

LEMMA LoopExists ==
    ASSUME NEW X, NEW step, NEW c \in X, NEW m \in Nat, NEW K \in Nat, m <= K,
           \A x \in X, n \in (m + 1)..K : step[<<x, n>>] \in X
    PROVE  \E f : LoopIn(f, step, c, m, K, X)
<1> DEFINE S == {k \in Nat : m <= k /\ k <= K => \E f : LoopIn(f, step, c, m, k, X)}
<1>1. ASSUME NEW k \in Nat, k = m PROVE k \in S
  <2> DEFINE f == [n \in m..k |-> c]
  <2>1. \A n \in m..k : n = m
    BY <1>1
  <2>2. LoopIn(f, step, c, m, k, X)
    BY <2>1 DEF Loop, LoopIn
  <2> HIDE DEF f
  <2> QED
    BY <2>2
<1>2. 0 \in S
  BY <1>1
<1>3. ASSUME NEW k \in Nat, k \in S PROVE k + 1 \in S
  <2>1. CASE k + 1 < m \/ k + 1 > K
    BY <2>1
  <2>2. CASE k + 1 = m
    BY <1>1, <2>2
  <2>3. CASE m <= k /\ k + 1 <= K
    <3>1. PICK f : LoopIn(f, step, c, m, k, X)
      BY <1>3, <2>3
    <3> DEFINE j == k + 1
               g == [n \in m..j |-> IF n = j THEN step[<<f[k], j>>] ELSE f[n]]
    <3>2. /\ k \in m..k /\ j \in (m + 1)..K /\ j # m
          /\ \A n \in m..j : n = j \/ n \in m..k
          /\ \A n \in m..j : n # m => n - 1 \in m..k /\ n - 1 \in m..j /\ n - 1 # j
          /\ \A n \in m..k : n # j /\ n \in m..j
          /\ j \in m..j /\ j - 1 = k
      BY <2>3
    <3>3. /\ \A n \in m..k : f[n] = IF n = m THEN c ELSE step[<<f[n - 1], n>>]
          /\ \A n \in m..k : f[n] \in X
      BY <3>1 DEF LoopIn, Loop
    <3> HIDE DEF j
    <3>4. g[j] = step[<<f[k], j>>] /\ \A n \in m..k : g[n] = f[n]
      BY <3>2
    <3>5. \A n \in m..j : g[n] \in X
      BY <3>2, <3>3, <3>4
    <3>6. g = [n \in m..j |-> g[n]]
      OBVIOUS
    <3> HIDE DEF g
    <3>7. ASSUME NEW n \in m..j PROVE g[n] = IF n = m THEN c ELSE step[<<g[n - 1], n>>]
      <4>1. CASE n = j
        BY <3>2, <3>4, <4>1
      <4>2. CASE n # j
        <5>1. n \in m..k
          BY <3>2, <4>2
        <5>2. n # m => n - 1 \in m..k
          BY <3>2
        <5>3. g[n] = f[n] /\ (n # m => g[n - 1] = f[n - 1])
          BY <3>4, <5>1, <5>2
        <5> QED
          BY <3>3, <5>1, <5>3
      <4> QED
        BY <4>1, <4>2
    <3>8. Loop(g, step, c, m, j)
      BY <3>6, <3>7 DEF Loop
    <3>9. LoopIn(g, step, c, m, j, X)
      BY <3>5, <3>8 DEF LoopIn
    <3> QED
      BY <3>9 DEF j
  <2> QED
    BY <2>1, <2>2, <2>3
<1> HIDE DEF S
<1>4. Nat \subseteq S
  BY <1>2, <1>3, Induction
<1>5. K \in S
  BY <1>4
<1> QED
  BY <1>5 DEF S

\* No two segments start at the same time.
Distinct(S) == \A a, b \in S : a.start = b.start => a = b

StartsInOrder(q) == \A i, j \in DOMAIN q : i < j => q[i].start < q[j].start

\* q has the segments S, in their order.
Lists(q, S) ==
    /\ q \in Seq(S) /\ StartsInOrder(q)
    /\ \A s \in S : \E i \in DOMAIN q : q[i] = s

LEMMA SameCardinality == ASSUME NEW S PROVE Playback!Cardinality(S) = Cardinality(S)
  BY DEF Playback!Cardinality, Cardinality, Playback!IsFiniteSet, IsFiniteSet

LEMMA SegmentsAreFinite == IsFiniteSet(Playback!Segment)
<1> DEFINE T == 0..MaxTime
           P == T \X T
           f == [s \in Playback!Segment |-> <<s.start, s.duration>>]
<1>1. MaxTime \in Nat
  BY PlaybackAssumption
<1>2. IsFiniteSet(P)
  <2>1. IsFiniteSet(T)
    BY <1>1, FS_Interval
  <2> QED
    BY <2>1, FS_Product
<1>3. ASSUME NEW s \in Playback!Segment PROVE f[s] \in P
  BY <1>1 DEF Playback!Segment
<1>4. ASSUME NEW s \in Playback!Segment, NEW t \in Playback!Segment, f[s] = f[t] PROVE s = t
  BY <1>4 DEF Playback!Segment
<1>5. f \in Injection(Playback!Segment, P)
  <2>1. f \in [Playback!Segment -> P] /\ DOMAIN f = Playback!Segment
    BY <1>3
  <2> HIDE DEF f, P
  <2> QED
    BY <1>4, <2>1 DEF Injection, IsInjective
<1> HIDE DEF f, P
<1> QED
  BY <1>2, <1>5, FS_Injection

LEMMA SegmentIs ==
    ASSUME NEW s \in Playback!Segment
    PROVE  s.start \in Nat /\ s.duration \in Nat /\ s.duration > 0
BY PlaybackAssumption DEF Playback!Segment

\* Segments that start at different times can be sorted: the place of a segment
\* is the number of those that start before it.
LEMMA CanBeSorted ==
    ASSUME NEW S \in SUBSET Playback!Segment, Distinct(S), NEW n, n = Cardinality(S)
    PROVE  \E q \in [1..n -> S] : \A i, j \in 1..n : i < j => q[i].start < q[j].start
<1> DEFINE B(s) == {t \in S : t.start < s.start}
           place == [s \in S |-> Cardinality(B(s)) + 1]
<1>1. IsFiniteSet(S) /\ n \in Nat
  BY SegmentsAreFinite, FS_Subset, FS_CardinalityType
<1>2. \A s \in S : s.start \in Nat
  BY SegmentIs
<1>3. ASSUME NEW s \in S, NEW U \in SUBSET S, U = B(s)
      PROVE  /\ IsFiniteSet(U) /\ Cardinality(U) \in Nat
             /\ IsFiniteSet(U \cup {s}) /\ Cardinality(U \cup {s}) = Cardinality(U) + 1
  <2>1. s \notin U
    BY <1>2, <1>3
  <2>2. IsFiniteSet(U) /\ Cardinality(U) \in Nat
    BY <1>1, FS_Subset, FS_CardinalityType
  <2> QED
    BY <2>1, <2>2, FS_AddElement
<1>4. ASSUME NEW s \in S
      PROVE  /\ IsFiniteSet(B(s)) /\ Cardinality(B(s)) \in Nat
             /\ IsFiniteSet(B(s) \cup {s}) /\ Cardinality(B(s) \cup {s}) = Cardinality(B(s)) + 1
  <2>1. B(s) \in SUBSET S
    OBVIOUS
  <2> HIDE DEF B
  <2> QED
    BY <1>3, <2>1
<1>5. ASSUME NEW s \in S PROVE place[s] \in 1..n
  <2>1. B(s) \cup {s} \in SUBSET S
    OBVIOUS
  <2> HIDE DEF B
  <2>2. Cardinality(B(s) \cup {s}) <= n
    BY <1>1, <2>1, FS_Subset
  <2>3. place[s] = Cardinality(B(s)) + 1
    OBVIOUS
  <2>4. Cardinality(B(s)) \in Nat /\ Cardinality(B(s) \cup {s}) = Cardinality(B(s)) + 1
    BY <1>4
  <2> HIDE DEF place
  <2> QED
    BY <1>1, <2>2, <2>3, <2>4
<1>6. ASSUME NEW s \in S, NEW t \in S, s.start < t.start PROVE place[s] < place[t]
  <2>1. B(s) \cup {s} \in SUBSET B(t)
    BY <1>2, <1>6
  <2> HIDE DEF B
  <2>2. Cardinality(B(s) \cup {s}) <= Cardinality(B(t))
    BY <1>4, <2>1, FS_Subset
  <2>3. place[s] = Cardinality(B(s)) + 1 /\ place[t] = Cardinality(B(t)) + 1
    OBVIOUS
  <2>4. /\ Cardinality(B(s)) \in Nat /\ Cardinality(B(t)) \in Nat
        /\ Cardinality(B(s) \cup {s}) = Cardinality(B(s)) + 1
    BY <1>4
  <2> HIDE DEF place
  <2> QED
    BY <2>2, <2>3, <2>4
<1>7. ASSUME NEW s \in S, NEW t \in S, place[s] = place[t] PROVE s = t
  <2>1. place[s] \in Nat /\ place[t] \in Nat
    BY <1>5
  <2> HIDE DEF place
  <2>2. ~(s.start < t.start) /\ ~(t.start < s.start)
    BY <1>6, <1>7, <2>1
  <2>3. s.start = t.start
    BY <1>2, <2>2
  <2> QED
    BY <2>3 DEF Distinct
<1>8. place \in Surjection(S, 1..n)
  <2>1. place \in [S -> 1..n] /\ DOMAIN place = S
    BY <1>5
  <2> HIDE DEF place
  <2>2. place \in Injection(S, 1..n)
    BY <1>7, <2>1 DEF Injection, IsInjective
  <2>3. IsFiniteSet(1..n) /\ Cardinality(1..n) = n
    BY <1>1, FS_Interval
  <2> QED
    BY <2>2, <2>3, FS_Injection
<1> HIDE DEF place
<1>9. \A i \in 1..n : \E s \in S : place[s] = i
  BY <1>8 DEF Surjection
<1> DEFINE q == [i \in 1..n |-> CHOOSE s \in S : place[s] = i]
<1>10. \A i \in 1..n : q[i] \in S /\ place[q[i]] = i
  BY <1>9
<1>11. q \in [1..n -> S]
  BY <1>10
<1> HIDE DEF q
<1>12. ASSUME NEW i \in 1..n, NEW j \in 1..n, i < j PROVE q[i].start < q[j].start
  <2>1. /\ q[i] \in S /\ q[j] \in S /\ place[q[i]] = i /\ place[q[j]] = j
    BY <1>10
  <2>2. q[i].start \in Nat /\ q[j].start \in Nat
    BY <1>2, <2>1
  <2>3. ~(q[j].start < q[i].start)
    BY <1>6, <1>12, <2>1
  <2>4. q[i].start # q[j].start
    BY <1>12, <2>1 DEF Distinct
  <2> QED
    BY <2>2, <2>3, <2>4
<1> QED
  BY <1>11, <1>12

LEMMA ByStartLists ==
    ASSUME NEW S \in SUBSET Playback!Segment, Distinct(S)
    PROVE  Lists(Playback!ByStart(S), S)
<1> DEFINE n == Cardinality(S)
           q == Playback!ByStart(S)
<1>1. IsFiniteSet(S) /\ n \in Nat
  BY SegmentsAreFinite, FS_Subset, FS_CardinalityType
<1>2. \A s \in S : s.start \in Nat
  BY SegmentIs
<1>3. Playback!Cardinality(S) = n
  BY SameCardinality
<1> HIDE DEF n
<1>4. \E p \in [1..n -> S] : \A i, j \in 1..n : i < j => p[i].start < p[j].start
  BY CanBeSorted DEF n
<1>5. q \in [1..n -> S] /\ \A i, j \in 1..n : i < j => q[i].start < q[j].start
  BY <1>3, <1>4 DEF Playback!ByStart
<1> HIDE DEF q
<1>6. q \in Seq(S) /\ DOMAIN q = 1..n
  BY <1>1, <1>5
<1>7. StartsInOrder(q)
  BY <1>5, <1>6 DEF StartsInOrder
<1>8. q \in Injection(1..n, S)
  <2>1. ASSUME NEW i \in 1..n, NEW j \in 1..n, q[i] = q[j] PROVE i = j
    <3>1. q[i] \in S /\ q[j] \in S
      BY <1>5
    <3>2. q[i].start \in Nat /\ q[j].start \in Nat
      BY <1>2, <3>1
    <3>3. ~(i < j) /\ ~(j < i)
      BY <1>5, <2>1, <3>2
    <3> QED
      BY <3>3, <1>1
  <2> QED
    BY <1>5, <1>6, <2>1 DEF Injection, IsInjective
<1>9. IsFiniteSet(1..n) /\ Cardinality(1..n) = Cardinality(S)
  BY <1>1, FS_Interval DEF n
<1>10. q \in Surjection(1..n, S)
  BY <1>1, <1>8, <1>9, FS_Injection
<1> QED
  BY <1>6, <1>7, <1>10 DEF Surjection, Lists, q

-----------------------------------------------------------------------------
(* The list of the recordings.                                              *)

Entries == [start: Nat, duration: Int]

\* out is what the first n segments of in make.
Merged(in, n, out) ==
    LET m == Len(out)
        End(s) == Playback!EndOf(s)
    IN  /\ out \in Seq(Entries)
        /\ n = 0 <=> out = <<>>
        /\ n # 0 => End(out[m]) = End(in[n]) /\ out[m].start <= in[n].start
        /\ \A i \in 1..n : \E k \in 1..m :
                /\ out[k].start <= in[i].start
                /\ End(in[i]) <= End(out[k]) + Tolerance
                /\ k = m /\ i # n => End(in[i]) - Tolerance <= in[n].start
        /\ \A k \in 1..(m - 1) : ~Playback!CanBeConcatenated(out[k], out[k + 1])

LEMMA MergeNext ==
    ASSUME NEW in \in Seq(Playback!Segment), StartsInOrder(in),
           NEW n \in Nat, n + 1 \in 1..Len(in), NEW out, Merged(in, n, out)
    PROVE  Merged(in, n + 1, Playback!Merge(out, in[n + 1]))
<1> DEFINE m == Len(out)
           s == in[n + 1]
           new == Playback!Merge(out, s)
           End(x) == Playback!EndOf(x)
<1>0. Tolerance \in Nat
  BY PlaybackAssumption
<1>1. /\ out \in Seq(Entries) /\ m \in Nat /\ DOMAIN out = 1..m
      /\ n = 0 <=> m = 0
      /\ \A k \in 1..m : out[k] \in Entries
  BY DEF Merged
<1>2. /\ s \in Playback!Segment /\ Len(in) \in Nat /\ DOMAIN in = 1..Len(in)
      /\ \A i \in 1..(n + 1) : in[i] \in Playback!Segment
  OBVIOUS
<1>3. /\ s.start \in Nat /\ s.duration \in Nat /\ s.duration > 0
      /\ \A i \in 1..(n + 1) : in[i].start \in Nat /\ in[i].duration \in Nat
  BY <1>2, SegmentIs
<1>4. \A k \in 1..m : out[k].start \in Nat /\ out[k].duration \in Int
  BY <1>1 DEF Entries
<1>5. s \in Entries
  BY <1>2, <1>3 DEF Playback!Segment, Entries
<1>6. n # 0 => in[n].start < s.start
  BY <1>2 DEF StartsInOrder
<1>7. /\ n # 0 => End(out[m]) = End(in[n]) /\ out[m].start <= in[n].start
      /\ \A i \in 1..n : \E k \in 1..m :
                /\ out[k].start <= in[i].start
                /\ End(in[i]) <= End(out[k]) + Tolerance
                /\ k = m /\ i # n => End(in[i]) - Tolerance <= in[n].start
      /\ \A k \in 1..(m - 1) : ~Playback!CanBeConcatenated(out[k], out[k + 1])
  BY DEF Merged
<1>8. CASE m # 0 /\ Playback!CanBeConcatenated(out[m], s)
  <2> DEFINE d == s.start + s.duration - out[m].start
             last == [out[m] EXCEPT !.duration = d]
  <2>1. /\ m \in 1..m /\ out # <<>> /\ n # 0 /\ n \in Nat /\ n \in 1..n
        /\ out[m].start \in Nat /\ out[m].duration \in Int /\ out[m] \in Entries
    BY <1>1, <1>4, <1>8
  <2>2. /\ End(out[m]) - Tolerance <= s.start
    BY <1>8 DEF Playback!CanBeConcatenated, Playback!EndOf
  <2>3. d \in Int
    BY <1>3, <2>1
  <2>4. last \in Entries /\ last.start = out[m].start /\ End(last) = s.start + s.duration
    <3> HIDE DEF d
    <3>1. last \in Entries /\ last.start = out[m].start /\ last.duration = d
      BY <2>1, <2>3 DEF Entries
    <3> QED
      BY <1>3, <2>1, <3>1 DEF Playback!EndOf, d
  <2>5. new = [out EXCEPT ![m] = last]
    BY <1>8, <2>1 DEF Playback!Merge, Playback!Last
  <2> HIDE DEF last, new
  <2>6. /\ new \in Seq(Entries) /\ Len(new) = m /\ new # <<>> /\ new[m] = last
        /\ \A k \in 1..m : k # m => new[k] = out[k]
    BY <1>1, <2>1, <2>4, <2>5
  <2>7. ASSUME NEW i \in 1..(n + 1)
        PROVE  \E k \in 1..m :
                /\ new[k].start <= in[i].start
                /\ End(in[i]) <= End(new[k]) + Tolerance
                /\ k = m /\ i # n + 1 => End(in[i]) - Tolerance <= s.start
    <3>0. /\ in[i].start \in Nat /\ in[i].duration \in Nat /\ End(in[i]) \in Nat
          /\ End(in[i]) = in[i].start + in[i].duration
      BY <1>3 DEF Playback!EndOf
    <3>1. CASE i = n + 1
      <4>1. new[m].start <= s.start
        BY <1>3, <1>6, <1>7, <1>2, <2>1, <2>4, <2>6
      <4>2. End(s) = End(new[m])
        BY <2>4, <2>6 DEF Playback!EndOf
      <4>3. End(s) <= End(new[m]) + Tolerance
        BY <1>0, <3>0, <3>1, <4>2
      <4> QED
        BY <2>1, <3>1, <4>1, <4>3
    <3>2. CASE i # n + 1
      <4>1. i \in 1..n
        BY <3>2
      <4>2. PICK k \in 1..m : /\ out[k].start <= in[i].start
                              /\ End(in[i]) <= End(out[k]) + Tolerance
                              /\ k = m /\ i # n => End(in[i]) - Tolerance <= in[n].start
        BY <1>7, <4>1
      <4>3. CASE k # m
        BY <2>6, <4>2, <4>3
      <4>4. CASE k = m
        <5>1. End(in[i]) - Tolerance <= s.start
          <6>1. CASE i = n
            BY <1>7, <2>1, <2>2, <6>1
          <6>2. CASE i # n
            <7>1. in[n].start \in Nat /\ in[n].start < s.start
              BY <1>3, <1>6, <2>1
            <7>2. End(in[i]) - Tolerance <= in[n].start
              BY <4>2, <4>4, <6>2
            <7> HIDE DEF s, End
            <7> QED
              BY <1>0, <1>3, <3>0, <7>1, <7>2
          <6> QED
            BY <6>1, <6>2
        <5>2. End(new[m]) = s.start + s.duration /\ new[m].start = out[m].start
          BY <2>4, <2>6
        <5> HIDE DEF s, End
        <5>3. End(in[i]) <= End(new[m]) + Tolerance
          <6>1. \A a, b, c, len, t \in Nat : a - t <= c /\ b = c + len => a <= b + t
            OBVIOUS
          <6>2. s.start + s.duration \in Nat
            BY <1>3
          <6> QED
            BY <1>0, <1>3, <3>0, <5>1, <5>2, <6>1, <6>2
        <5> QED
          BY <2>1, <4>2, <4>4, <5>1, <5>2, <5>3
      <4> QED
        BY <4>3, <4>4
    <3> QED
      BY <3>1, <3>2
  <2>8. ASSUME NEW k \in 1..(m - 1) PROVE ~Playback!CanBeConcatenated(new[k], new[k + 1])
    <3>0. ~Playback!CanBeConcatenated(out[k], out[k + 1])
      BY <1>7
    <3> HIDE DEF m
    <3>1. k \in 1..m /\ k # m /\ k + 1 \in 1..m
      BY <1>1
    <3>2. new[k] = out[k] /\ new[k + 1].start = out[k + 1].start
      BY <2>4, <2>6, <3>1
    <3> QED
      BY <3>0, <3>2 DEF Playback!CanBeConcatenated
  <2>9. End(new[m]) = End(s) /\ new[m].start <= s.start
    <3>1. End(new[m]) = End(s)
      BY <2>4, <2>6 DEF Playback!EndOf
    <3>2. new[m].start <= s.start
      BY <1>3, <1>6, <1>7, <1>2, <2>1, <2>4, <2>6
    <3> QED
      BY <3>1, <3>2
  <2> HIDE DEF End
  <2> QED
    BY <2>6, <2>7, <2>8, <2>9 DEF Merged, End, new
<1>9. CASE ~(m # 0 /\ Playback!CanBeConcatenated(out[m], s))
  <2>0. out = <<>> <=> m = 0
    BY <1>1
  <2>1. new = Append(out, s)
    BY <1>9, <2>0 DEF Playback!Merge, Playback!Last
  <2> HIDE DEF new, s
  <2>2. /\ new \in Seq(Entries) /\ Len(new) = m + 1 /\ new # <<>> /\ new[m + 1] = s
        /\ \A k \in 1..m : new[k] = out[k]
    BY <1>1, <1>5, <2>1
  <2>3. ASSUME NEW i \in 1..(n + 1)
        PROVE  \E k \in 1..(m + 1) :
                /\ new[k].start <= in[i].start
                /\ End(in[i]) <= End(new[k]) + Tolerance
                /\ k = m + 1 /\ i # n + 1 => End(in[i]) - Tolerance <= s.start
    <3>1. CASE i = n + 1
      <4>1. m + 1 \in 1..(m + 1) /\ new[m + 1] = in[i]
        BY <1>1, <2>2, <3>1 DEF s
      <4>2. new[m + 1].start <= in[i].start /\ End(in[i]) <= End(new[m + 1]) + Tolerance
        BY <1>0, <1>3, <4>1 DEF Playback!EndOf
      <4> QED
        BY <3>1, <4>1, <4>2
    <3>2. CASE i # n + 1
      <4>1. i \in 1..n
        BY <3>2
      <4>2. PICK k \in 1..m : out[k].start <= in[i].start /\ End(in[i]) <= End(out[k]) + Tolerance
        BY <1>7, <4>1
      <4>3. k \in 1..(m + 1) /\ k # m + 1 /\ new[k] = out[k]
        BY <1>1, <2>2
      <4> HIDE DEF End
      <4> QED
        BY <4>2, <4>3
    <3> QED
      BY <3>1, <3>2
  <2>4. ASSUME NEW k \in 1..m PROVE ~Playback!CanBeConcatenated(new[k], new[k + 1])
    <3>1. CASE k = m
      <4>1. new[k] = out[m] /\ new[k + 1] = s /\ m # 0
        BY <1>1, <2>2, <3>1
      <4> QED
        BY <1>9, <4>1
    <3>2. CASE k # m
      <4> HIDE DEF m
      <4>1. k \in 1..(m - 1) /\ k + 1 \in 1..m
        BY <1>1, <3>2
      <4>2. new[k] = out[k] /\ new[k + 1] = out[k + 1]
        BY <2>2, <4>1
      <4> QED
        BY <1>7, <4>1, <4>2
    <3> QED
      BY <3>1, <3>2
  <2>5. Len(new) - 1 = m /\ n + 1 # 0 /\ s.start <= s.start /\ s = in[n + 1]
    BY <1>1, <1>3, <2>2 DEF s
  <2>6. Merged(in, n + 1, new)
    <3>1. \A k \in 1..(Len(new) - 1) : ~Playback!CanBeConcatenated(new[k], new[k + 1])
      BY <2>4, <2>5
    <3>2. \A i \in 1..(n + 1) : \E k \in 1..Len(new) :
                /\ new[k].start <= in[i].start
                /\ End(in[i]) <= End(new[k]) + Tolerance
                /\ k = Len(new) /\ i # n + 1 => End(in[i]) - Tolerance <= in[n + 1].start
      BY <2>2, <2>3, <2>5
    <3>3. End(new[Len(new)]) = End(in[n + 1]) /\ new[Len(new)].start <= in[n + 1].start
      BY <2>2, <2>5
    <3> HIDE DEF m
    <3> QED
      BY <2>2, <2>5, <3>1, <3>2, <3>3 DEF Merged
  <2> QED
    BY <2>6 DEF new, s
<1> QED
  BY <1>8, <1>9

LEMMA MergeType ==
    ASSUME NEW out \in Seq(Entries), NEW s \in Playback!Segment
    PROVE  Playback!Merge(out, s) \in Seq(Entries)
<1> DEFINE m == Len(out)
           d == s.start + s.duration - out[m].start
           last == [out[m] EXCEPT !.duration = d]
<1>1. s.start \in Nat /\ s.duration \in Nat /\ s \in Entries
  BY SegmentIs DEF Playback!Segment, Entries
<1>2. ASSUME out # <<>> PROVE [out EXCEPT ![m] = last] \in Seq(Entries)
  <2>1. m \in 1..m /\ m \in Nat /\ out[m] \in Entries
    BY <1>2
  <2>2. out[m].start \in Nat
    BY <2>1 DEF Entries
  <2>3. d \in Int
    BY <1>1, <2>2
  <2>4. last \in Entries
    <3> HIDE DEF d
    <3> QED
      BY <2>1, <2>3 DEF Entries
  <2> HIDE DEF last
  <2> QED
    BY <2>1, <2>4
<1>3. Append(out, s) \in Seq(Entries)
  BY <1>1
<1>4. Playback!Merge(out, s) \in {[out EXCEPT ![m] = last], Append(out, s)}
      /\ (out = <<>> => Playback!Merge(out, s) = Append(out, s))
  BY DEF Playback!Merge, Playback!Last
<1> HIDE DEF last
<1> QED
  BY <1>2, <1>3, <1>4

\* The loop of mergeConcatenatedSegments(): each round of it is a Merge.
LEMMA MergeRounds ==
    ASSUME NEW in \in Seq(Playback!Segment)
    PROVE  \E f : /\ f[0] = <<>>
                  /\ \A n \in 1..Len(in) : f[n] = Playback!Merge(f[n - 1], in[n])
                  /\ Playback!MergeConcatenatedSegments(in) = f[Len(in)]
<1> DEFINE K == Len(in)
           X == Seq(Entries)
           step == [p \in X \X (1..K) |-> Playback!Merge(p[1], in[p[2]])]
           Rounds(f) == f = [n \in 0..K |-> IF n = 0 THEN <<>> ELSE Playback!Merge(f[n - 1], in[n])]
           f == CHOOSE g : Rounds(g)
<1>1. K \in Nat /\ \A n \in 1..K : in[n] \in Playback!Segment
  OBVIOUS
<1>2. \A x \in X, n \in 1..K : step[<<x, n>>] = Playback!Merge(x, in[n])
  OBVIOUS
<1>3. \A x \in X, n \in 1..K : step[<<x, n>>] \in X
  <2> HIDE DEF step
  <2> QED
    BY <1>1, <1>2, MergeType
<1>4. \E g : LoopIn(g, step, <<>>, 0, K, X)
  <2> DEFINE c == <<>>
             m == 0
  <2>1. c \in X
    OBVIOUS
  <2> HIDE DEF step, X, K, c
  <2>2. m \in Nat /\ m <= K /\ m + 1 = 1
    BY <1>1
  <2>3. \A x \in X, n \in (m + 1)..K : step[<<x, n>>] \in X
    BY <1>3, <2>2
  <2> HIDE DEF m
  <2>4. \E g : LoopIn(g, step, c, m, K, X)
    BY <1>1, <2>1, <2>2, <2>3, LoopExists
  <2> QED
    BY <2>4 DEF c, m
<1>5. PICK g : LoopIn(g, step, <<>>, 0, K, X)
  BY <1>4
<1> HIDE DEF step
<1>6. Rounds(g)
  <2>1. /\ g = [n \in 0..K |-> IF n = 0 THEN <<>> ELSE step[<<g[n - 1], n>>]]
        /\ \A n \in 0..K : g[n] \in X
    BY <1>5 DEF LoopIn, Loop
  <2>2. ASSUME NEW n \in 0..K
        PROVE  g[n] = IF n = 0 THEN <<>> ELSE Playback!Merge(g[n - 1], in[n])
    <3>1. CASE n = 0
      BY <2>1, <3>1
    <3>2. CASE n # 0
      <4>1. n \in 1..K /\ n - 1 \in 0..K
        BY <1>1, <3>2
      <4>2. step[<<g[n - 1], n>>] = Playback!Merge(g[n - 1], in[n])
        BY <1>2, <2>1, <4>1
      <4>3. g[n] = step[<<g[n - 1], n>>]
        BY <2>1, <3>2
      <4> QED
        BY <3>2, <4>2, <4>3
    <3> QED
      BY <3>1, <3>2
  <2>3. g = [n \in 0..K |-> g[n]]
    BY <2>1
  <2> QED
    BY <2>2, <2>3
<1>7. Rounds(f)
  BY <1>6
<1>8. Playback!MergeConcatenatedSegments(in) = f[K]
  BY DEF Playback!MergeConcatenatedSegments
<1> HIDE DEF f
<1>9. \A n \in 0..K : f[n] = IF n = 0 THEN <<>> ELSE Playback!Merge(f[n - 1], in[n])
  BY <1>7
<1>10. f[0] = <<>> /\ \A n \in 1..K : f[n] = Playback!Merge(f[n - 1], in[n])
  BY <1>1, <1>9
<1> QED
  BY <1>8, <1>10

LEMMA MergeLoop ==
    ASSUME NEW in \in Seq(Playback!Segment), StartsInOrder(in)
    PROVE  Merged(in, Len(in), Playback!MergeConcatenatedSegments(in))
<1>1. PICK f : /\ f[0] = <<>>
               /\ \A n \in 1..Len(in) : f[n] = Playback!Merge(f[n - 1], in[n])
               /\ Playback!MergeConcatenatedSegments(in) = f[Len(in)]
  BY MergeRounds
<1> DEFINE S == {n \in Nat : n <= Len(in) => Merged(in, n, f[n])}
<1>2. 0 \in S
  <2>1. Merged(in, 0, <<>>)
    BY DEF Merged
  <2> QED
    BY <1>1, <2>1
<1>3. ASSUME NEW n \in Nat, n \in S PROVE n + 1 \in S
  <2>1. CASE n + 1 <= Len(in)
    <3>1. n + 1 \in 1..Len(in) /\ n <= Len(in) /\ (n + 1) - 1 = n
      BY <2>1
    <3>2. Merged(in, n, f[n]) /\ f[n + 1] = Playback!Merge(f[n], in[n + 1])
      BY <1>1, <1>3, <3>1
    <3>3. Merged(in, n + 1, Playback!Merge(f[n], in[n + 1]))
      BY <3>1, <3>2, MergeNext
    <3> QED
      BY <3>2, <3>3
  <2>2. CASE ~(n + 1 <= Len(in))
    BY <2>2
  <2> QED
    BY <2>1, <2>2
<1> HIDE DEF S
<1>4. Nat \subseteq S
  BY <1>2, <1>3, Induction
<1>5. Len(in) \in Nat /\ Len(in) \in S
  BY <1>4
<1> QED
  BY <1>1, <1>5 DEF S

\* What ListIsRight says of the entries out for the segments S.
ListRight(S, out) ==
    /\ \A s \in S : \E i \in DOMAIN out :
        /\ out[i].start <= s.start
        /\ s.start + s.duration <= out[i].start + out[i].duration + Tolerance
    /\ \A i \in 1..(Len(out) - 1) : ~Playback!CanBeConcatenated(out[i], out[i + 1])

LEMMA OnListIsRight ==
    ASSUME NEW S \in SUBSET Playback!Segment, Distinct(S)
    PROVE  ListRight(S, Playback!OnList(S))
<1> DEFINE in == Playback!ByStart(S)
           out == Playback!OnList(S)
<1>1. Lists(in, S)
  BY ByStartLists
<1> HIDE DEF in
<1>2. /\ in \in Seq(Playback!Segment) /\ StartsInOrder(in) /\ DOMAIN in = 1..Len(in)
      /\ \A s \in S : \E i \in DOMAIN in : in[i] = s
  BY <1>1 DEF Lists
<1>3. Merged(in, Len(in), out)
  BY <1>2, MergeLoop DEF Playback!OnList, in
<1> HIDE DEF out
<1>4. /\ DOMAIN out = 1..Len(out)
      /\ \A i \in 1..Len(in) : \E k \in 1..Len(out) :
                /\ out[k].start <= in[i].start
                /\ Playback!EndOf(in[i]) <= Playback!EndOf(out[k]) + Tolerance
      /\ \A k \in 1..(Len(out) - 1) : ~Playback!CanBeConcatenated(out[k], out[k + 1])
  BY <1>3 DEF Merged
<1>5. ASSUME NEW s \in S
      PROVE  \E i \in DOMAIN out :
                /\ out[i].start <= s.start
                /\ s.start + s.duration <= out[i].start + out[i].duration + Tolerance
  <2>1. PICK i \in 1..Len(in) : in[i] = s
    BY <1>2
  <2> QED
    BY <1>4, <2>1 DEF Playback!EndOf
<1> QED
  BY <1>4, <1>5 DEF ListRight, out

-----------------------------------------------------------------------------
(* The segments that serve a request.                                       *)

\* f has the segments of S from the last that starts up to start, to the last
\* that starts up to end, in their order; none if S starts later.
AreFound(f, S, start, end) ==
    /\ f \in Seq(S) /\ StartsInOrder(f)
    /\ f = <<>> => \A s \in S : s.start > start
    /\ f # <<>> => f[1].start <= start /\ \A s \in S : s.start <= start => s.start <= f[1].start
    /\ \A s \in S : f # <<>> /\ f[1].start <= s.start /\ s.start <= end =>
                        \E i \in DOMAIN f : f[i] = s
    /\ \A i \in DOMAIN f : f[i].start <= end

LEMMA FindSegmentsFinds ==
    ASSUME NEW S \in SUBSET Playback!Segment, Distinct(S), NEW start \in Nat, NEW duration \in Nat
    PROVE  AreFound(Playback!FindSegments(S, start, duration), S, start, start + duration)
<1> DEFINE end == start + duration
           A == {s \in S : s.start <= end}
           q == Playback!ByStart(A)
           n == Len(q)
           first == {i \in 1..(n - 1) : q[i].start <= start /\ start < q[i + 1].start}
           f == Playback!FindSegments(S, start, duration)
<1>1. Lists(q, A)
  <2>1. A \in SUBSET Playback!Segment /\ Distinct(A)
    BY DEF Distinct
  <2> HIDE DEF A
  <2> QED
    BY <2>1, ByStartLists
<1>2. f = IF q = <<>> THEN <<>>
          ELSE IF first # {} THEN SubSeq(q, Playback!Min(first), n)
          ELSE IF Playback!Last(q).start > start THEN <<>>
          ELSE <<Playback!Last(q)>>
  BY DEF Playback!FindSegments
<1>3. Playback!Last(q) = q[n]
  BY DEF Playback!Last
<1>4. end \in Nat /\ start <= end
  OBVIOUS
<1> HIDE DEF q, end
<1>5. /\ q \in Seq(A) /\ n \in Nat /\ DOMAIN q = 1..n
      /\ q = <<>> <=> n = 0
      /\ \A i \in 1..n : q[i] \in A
  BY <1>1 DEF Lists
<1>6. \A i \in 1..n : q[i] \in S /\ q[i].start <= end
  BY <1>5
<1>7. \A i \in 1..n : q[i].start \in Nat
  BY <1>6, SegmentIs
<1>8. \A s \in S : s.start \in Nat
  BY SegmentIs
<1>9. \A s \in S : s.start <= end => \E i \in 1..n : q[i] = s
  BY <1>1, <1>5 DEF Lists
<1>10. \A i, j \in 1..n : i < j => q[i].start < q[j].start
  BY <1>1, <1>5 DEF Lists, StartsInOrder
<1>11. \A s \in S : s.start <= start => s.start <= end
  BY <1>4, <1>8
<1> HIDE DEF A, n, f
<1>12. \A i, j \in 1..n : i <= j => q[i].start <= q[j].start
  <2> SUFFICES ASSUME NEW i \in 1..n, NEW j \in 1..n, i <= j PROVE q[i].start <= q[j].start
    OBVIOUS
  <2>1. CASE i = j
    BY <1>7, <2>1
  <2>2. CASE i # j
    BY <1>5, <1>7, <1>10, <2>2
  <2> QED
    BY <2>1, <2>2
<1>13. CASE q = <<>>
  <2>1. f = <<>> /\ \A i \in 1..n : FALSE
    BY <1>2, <1>5, <1>13
  <2>2. \A s \in S : s.start > start
    BY <1>4, <1>8, <1>9, <1>11, <2>1
  <2> QED
    BY <2>1, <2>2 DEF AreFound, StartsInOrder, f, end
<1>14. CASE q # <<>> /\ first # {}
  <2> DEFINE k == Playback!Min(first)
  <2>1. k \in first
    <3>1. first \in SUBSET Nat
      OBVIOUS
    <3> HIDE DEF first
    <3> QED
      BY <1>14, <3>1, LeastNumber
  <2> HIDE DEF k
  <2>2. /\ k \in 1..n /\ k + 1 \in 1..n /\ k \in Nat
        /\ q[k].start <= start /\ start < q[k + 1].start
    BY <1>5, <2>1
  <2>3. f = SubSeq(q, k, n)
    BY <1>2, <1>14 DEF k
  <2>4. /\ f \in Seq(S) /\ Len(f) = n - k + 1
        /\ \A i \in 1..(n - k + 1) : f[i] = q[k + i - 1]
    <3>1. q \in Seq(S)
      BY <1>5 DEF A
    <3> QED
      BY <1>5, <2>2, <2>3, <3>1
  <2>5. /\ DOMAIN f = 1..(n - k + 1) /\ f # <<>> /\ 1 \in 1..(n - k + 1) /\ f[1] = q[k]
        /\ \A i \in 1..(n - k + 1) : k + i - 1 \in 1..n
        /\ \A j \in 1..n : j >= k => j - k + 1 \in 1..(n - k + 1) /\ k + (j - k + 1) - 1 = j
    BY <1>5, <2>2, <2>4
  <2>6. ASSUME NEW s \in S, s.start <= start PROVE s.start <= q[k].start
    <3>1. PICK j \in 1..n : q[j] = s
      BY <1>9, <1>11, <2>6
    <3>2. ~(k + 1 <= j)
      <4>1. k + 1 <= j => q[k + 1].start <= q[j].start
        BY <1>12, <2>2
      <4> QED
        BY <1>7, <2>2, <2>6, <3>1, <4>1
    <3>3. j <= k
      BY <2>2, <3>2
    <3> QED
      BY <1>12, <2>2, <3>1, <3>3
  <2>7. ASSUME NEW s \in S, q[k].start <= s.start, s.start <= end
        PROVE  \E i \in DOMAIN f : f[i] = s
    <3>1. PICK j \in 1..n : q[j] = s
      BY <1>9, <2>7
    <3>2. j >= k
      <4>1. j < k => q[j].start < q[k].start
        BY <1>10, <2>2
      <4> QED
        BY <1>7, <2>2, <2>7, <3>1, <4>1
    <3>3. j - k + 1 \in DOMAIN f /\ f[j - k + 1] = s
      BY <2>4, <2>5, <3>1, <3>2
    <3> QED
      BY <3>3
  <2>8. ASSUME NEW i \in DOMAIN f, NEW j \in DOMAIN f, i < j PROVE f[i].start < f[j].start
    <3>1. k + i - 1 \in 1..n /\ k + j - 1 \in 1..n /\ k + i - 1 < k + j - 1
      BY <2>2, <2>5, <2>8
    <3> QED
      BY <1>10, <2>4, <2>5, <3>1
  <2>9. \A i \in DOMAIN f : f[i].start <= end
    BY <1>6, <2>4, <2>5
  <2>10. AreFound(f, S, start, end)
    BY <2>2, <2>4, <2>5, <2>6, <2>7, <2>8, <2>9 DEF AreFound, StartsInOrder
  <2> QED
    BY <2>10 DEF f, end
<1>15. CASE q # <<>> /\ first = {} /\ q[n].start > start
  <2>1. f = <<>>
    BY <1>2, <1>3, <1>15
  <2>2. ASSUME NEW s \in S, s.start <= start PROVE FALSE
    <3>1. PICK j \in 1..n : q[j] = s
      BY <1>9, <1>11, <2>2
    <3> DEFINE T == {i \in Nat : j + i <= n => q[j + i].start <= start}
    <3>2. 0 \in T
      BY <2>2, <3>1
    <3>3. ASSUME NEW i \in Nat, i \in T PROVE i + 1 \in T
      <4>1. CASE j + (i + 1) <= n
        <5>1. j + i \in 1..(n - 1) /\ j + i <= n /\ (j + i) + 1 = j + (i + 1) /\ j + (i + 1) \in 1..n
          BY <1>5, <4>1
        <5>2. q[j + i].start <= start
          BY <3>3, <5>1
        <5>3. ~(start < q[(j + i) + 1].start)
          BY <1>15, <5>1, <5>2
        <5>4. q[j + (i + 1)].start <= start
          BY <1>7, <5>1, <5>3
        <5> QED
          BY <5>4
      <4>2. CASE ~(j + (i + 1) <= n)
        BY <4>2
      <4> QED
        BY <4>1, <4>2
    <3> HIDE DEF T
    <3>4. Nat \subseteq T
      BY <3>2, <3>3, Induction
    <3>5. n - j \in Nat /\ j + (n - j) = n /\ n \in 1..n
      BY <1>5, <3>1
    <3>6. q[n].start <= start
      BY <3>4, <3>5 DEF T
    <3> QED
      BY <1>7, <1>15, <3>5, <3>6
  <2>3. \A s \in S : s.start > start
    BY <1>8, <2>2
  <2>4. AreFound(f, S, start, end)
    BY <2>1, <2>3 DEF AreFound, StartsInOrder
  <2> QED
    BY <2>4 DEF f, end
<1>16. CASE q # <<>> /\ first = {} /\ ~(q[n].start > start)
  <2>1. f = <<q[n]>> /\ n \in 1..n
    BY <1>2, <1>3, <1>5, <1>16
  <2>2. q[n] \in S /\ q[n].start <= end /\ q[n].start \in Nat /\ q[n].start <= start
    BY <1>6, <1>7, <1>16, <2>1
  <2>3. f \in Seq(S) /\ DOMAIN f = {1} /\ f[1] = q[n] /\ f # <<>>
    BY <2>1, <2>2
  <2>4. ASSUME NEW s \in S, s.start <= start PROVE s.start <= q[n].start
    <3>1. PICK j \in 1..n : q[j] = s
      BY <1>9, <1>11, <2>4
    <3>2. j <= n
      BY <1>5
    <3> QED
      BY <1>12, <2>1, <3>1, <3>2
  <2>5. ASSUME NEW s \in S, q[n].start <= s.start, s.start <= end PROVE q[n] = s
    <3>1. PICK j \in 1..n : q[j] = s
      BY <1>9, <2>5
    <3>2. ~(j < n)
      BY <1>7, <1>10, <2>1, <2>5, <3>1
    <3>3. j = n
      BY <1>5, <3>2
    <3> QED
      BY <3>1, <3>3
  <2>6. StartsInOrder(f)
    BY <2>3 DEF StartsInOrder
  <2>7. AreFound(f, S, start, end)
    BY <2>2, <2>3, <2>4, <2>5, <2>6 DEF AreFound
  <2> QED
    BY <2>7 DEF f, end
<1> QED
  BY <1>13, <1>14, <1>15, <1>16

LEMMA LesserOfTwo ==
    ASSUME NEW a \in Int, NEW b \in Int
    PROVE  Playback!Min({a, b}) = IF a <= b THEN a ELSE b
<1>1. CASE a <= b
  <2>1. \A x \in {a, b} : (\A y \in {a, b} : x <= y) <=> x = a
    BY <1>1
  <2> QED
    BY <1>1, <2>1 DEF Playback!Min
<1>2. CASE ~(a <= b)
  <2>1. \A x \in {a, b} : (\A y \in {a, b} : x <= y) <=> x = b
    BY <1>2
  <2> QED
    BY <1>2, <2>1 DEF Playback!Min
<1> QED
  BY <1>1, <1>2

\* Where onGet() is: what is served, up to when, and how much is left.
Position == [start: Int, left: Int, served: Seq(Playback!Segment), stopped: BOOLEAN]

Lesser(a, b) == IF a <= b THEN a ELSE b

\* y is z after segment s.
IsServed(z, s, y) ==
    LET gap == z.stopped \/ ~Playback!Follows(s, z.start)
        e == Lesser(s.duration, z.left)
    IN  /\ y \in Position
        /\ y.stopped = gap
        /\ y.start = IF gap THEN z.start ELSE s.start + e
        /\ y.left = IF gap THEN z.left ELSE z.left - e
        /\ y.served = IF gap THEN z.served ELSE Append(z.served, s)

LEMMA ServeNextServes ==
    ASSUME NEW z \in Position, NEW s \in Playback!Segment
    PROVE  IsServed(z, s, Playback!ServeNext(z, s))
<1> DEFINE gap == z.stopped \/ ~Playback!Follows(s, z.start)
           e == Lesser(s.duration, z.left)
           y == Playback!ServeNext(z, s)
<1>0. Tolerance \in Nat
  BY PlaybackAssumption
<1>1. s.start \in Nat /\ s.duration \in Nat
  BY SegmentIs
<1>2. PICK a \in Int, l \in Int, v \in Seq(Playback!Segment), h \in BOOLEAN :
            z = [start |-> a, left |-> l, served |-> v, stopped |-> h]
  BY DEF Position
<1>3. z.start = a /\ z.left = l /\ z.served = v /\ z.stopped = h
  BY <1>2
<1>4. Playback!Elapsed(s, s.start, z.left) = e /\ e \in Int
  <2> DEFINE d == s.start + s.duration - s.start
  <2>1. d = s.duration /\ d \in Int
    BY <1>1
  <2>2. Playback!Elapsed(s, s.start, z.left) = Playback!Min({d, l})
    BY <1>3 DEF Playback!Elapsed
  <2> HIDE DEF d
  <2>3. Playback!Min({d, l}) = IF d <= l THEN d ELSE l
    BY <2>1, LesserOfTwo
  <2> QED
    BY <1>1, <1>3, <2>1, <2>2, <2>3 DEF Lesser
<1>5. gap <=> z.stopped \/ s.start < z.start - Tolerance \/ s.start > z.start + Tolerance
  BY <1>0, <1>1, <1>2, <1>3 DEF Playback!Follows
<1>6. y = IF gap THEN [z EXCEPT !.stopped = TRUE]
          ELSE [z EXCEPT !.start = s.start + e, !.left = @ - e, !.served = Append(@, s)]
  BY <1>4, <1>5 DEF Playback!ServeNext
<1> HIDE DEF gap, e, y
<1>7. CASE gap
  <2>1. [z EXCEPT !.stopped = TRUE] = [start |-> a, left |-> l, served |-> v, stopped |-> TRUE]
    <3> DEFINE t == TRUE
    <3> HIDE DEF t
    <3>1. [z EXCEPT !.stopped = t] = [start |-> a, left |-> l, served |-> v, stopped |-> t]
      BY <1>2
    <3> QED
      BY <3>1 DEF t
  <2>2. y = [start |-> a, left |-> l, served |-> v, stopped |-> TRUE]
    BY <1>6, <1>7, <2>1
  <2>3. /\ y \in Position /\ y.stopped = TRUE /\ y.start = z.start /\ y.left = z.left
        /\ y.served = z.served
    BY <1>2, <1>3, <2>2 DEF Position
  <2> QED
    BY <1>7, <2>3 DEF IsServed, gap, e, y
<1>8. CASE ~gap
  <2> DEFINE b == s.start + e
             m == l - e
             w == Append(v, s)
             z1 == [z EXCEPT !.start = b]
             z2 == [z1 EXCEPT !.left = m]
             z3 == [z2 EXCEPT !.served = w]
  <2>1. b \in Int /\ m \in Int /\ w \in Seq(Playback!Segment)
    BY <1>1, <1>4
  <2>2. y = z3
    BY <1>3, <1>6, <1>8
  <2> HIDE DEF b, m, w
  <2>3. z1 = [start |-> b, left |-> l, served |-> v, stopped |-> h]
    BY <1>2
  <2> HIDE DEF z1
  <2>4. z2 = [start |-> b, left |-> m, served |-> v, stopped |-> h]
    BY <2>3
  <2> HIDE DEF z2
  <2>5. z3 = [start |-> b, left |-> m, served |-> w, stopped |-> h]
    BY <2>4
  <2> HIDE DEF z3
  <2>6. /\ y \in Position /\ y.stopped = h /\ y.start = b /\ y.left = m /\ y.served = w
    BY <2>1, <2>2, <2>5 DEF Position
  <2>7. h = FALSE
    BY <1>3, <1>8 DEF gap
  <2>8. /\ y.stopped = FALSE /\ y.start = s.start + e /\ y.left = z.left - e
        /\ y.served = Append(z.served, s)
    BY <1>3, <2>6, <2>7 DEF b, m, w
  <2> QED
    BY <1>8, <2>6, <2>8 DEF IsServed, gap, e, y
<1> QED
  BY <1>7, <1>8

\* T is the time that the first segments of f take from start on.
Times(T, f, start) ==
    /\ T[1] = Playback!EndOf(f[1]) - start
    /\ \A n \in 1..Len(f) : T[n] \in Int /\ (n # 1 => T[n] = T[n - 1] + f[n].duration)

LEMMA TimeServedIs ==
    ASSUME NEW f \in Seq(Playback!Segment), f # <<>>, NEW start \in Nat
    PROVE  Times(Playback!TimeServed(f, start), f, start)
<1> DEFINE K == Len(f)
           c == Playback!EndOf(f[1]) - start
           step == [p \in Int \X (2..K) |-> p[1] + f[p[2]].duration]
           Rounds(g) == g = [n \in 1..K |-> IF n = 1 THEN c ELSE g[n - 1] + f[n].duration]
           T == CHOOSE g : Rounds(g)
<1>1. K \in Nat /\ K >= 1 /\ \A n \in 1..K : f[n].start \in Nat /\ f[n].duration \in Nat
  BY SegmentIs
<1>2. c \in Int
  BY <1>1 DEF Playback!EndOf
<1>3. \A x \in Int, n \in 2..K : step[<<x, n>>] = x + f[n].duration
  OBVIOUS
<1>4. Playback!TimeServed(f, start) = T
  BY DEF Playback!TimeServed
<1> HIDE DEF step, K, c
<1>5. PICK g : LoopIn(g, step, c, 1, K, Int)
  <2> DEFINE m == 1
             X == Int
  <2>1. m \in Nat /\ m <= K /\ m + 1 = 2
    BY <1>1
  <2>2. ASSUME NEW x \in X, NEW n \in (m + 1)..K PROVE step[<<x, n>>] \in X
    <3>1. n \in 2..K /\ n \in 1..K
      BY <1>1, <2>1
    <3>2. step[<<x, n>>] = x + f[n].duration /\ f[n].duration \in Nat
      BY <1>1, <1>3, <3>1
    <3> QED
      BY <3>2
  <2>3. c \in X
    BY <1>2
  <2> HIDE DEF m, X
  <2>4. \E g : LoopIn(g, step, c, m, K, X)
    BY <1>1, <2>1, <2>2, <2>3, LoopExists
  <2> QED
    BY <2>4 DEF m, X
<1>6. Rounds(g)
  <2>1. /\ g = [n \in 1..K |-> IF n = 1 THEN c ELSE step[<<g[n - 1], n>>]]
        /\ \A n \in 1..K : g[n] \in Int
    BY <1>5 DEF LoopIn, Loop
  <2>2. ASSUME NEW n \in 1..K, n # 1 PROVE step[<<g[n - 1], n>>] = g[n - 1] + f[n].duration
    <3>1. n \in 2..K /\ n - 1 \in 1..K
      BY <1>1, <2>2
    <3> QED
      BY <1>3, <2>1, <3>1
  <2>3. \A n \in 1..K : g[n] = IF n = 1 THEN c ELSE g[n - 1] + f[n].duration
    BY <2>1, <2>2
  <2>4. g = [n \in 1..K |-> g[n]]
    BY <2>1
  <2> QED
    BY <2>3, <2>4
<1>7. Rounds(T)
  BY <1>6
<1> HIDE DEF T
<1>8. \A n \in 1..K : T[n] = IF n = 1 THEN c ELSE T[n - 1] + f[n].duration
  BY <1>7
<1> DEFINE S == {n \in Nat : n + 1 <= K => T[n + 1] \in Int}
<1>9. 0 \in S
  <2>1. 1 \in 1..K /\ 0 + 1 = 1
    BY <1>1
  <2> QED
    BY <1>2, <1>8, <2>1
<1>10. ASSUME NEW n \in Nat, n \in S PROVE n + 1 \in S
  <2>1. CASE (n + 1) + 1 <= K
    <3>1. n + 1 <= K /\ (n + 1) + 1 \in 1..K /\ (n + 1) + 1 # 1 /\ ((n + 1) + 1) - 1 = n + 1
      BY <1>1, <2>1
    <3>2. T[n + 1] \in Int
      BY <1>10, <3>1
    <3>3. T[(n + 1) + 1] = T[n + 1] + f[(n + 1) + 1].duration
      BY <1>8, <3>1
    <3>4. f[(n + 1) + 1].duration \in Nat
      BY <1>1, <3>1
    <3>5. T[(n + 1) + 1] \in Int
      BY <3>2, <3>3, <3>4
    <3> QED
      BY <3>5
  <2>2. CASE ~((n + 1) + 1 <= K)
    BY <2>2
  <2> QED
    BY <2>1, <2>2
<1> HIDE DEF S
<1>11. Nat \subseteq S
  BY <1>9, <1>10, Induction
<1>12. ASSUME NEW n \in 1..K PROVE T[n] \in Int
  <2>1. n - 1 \in Nat /\ (n - 1) + 1 = n /\ n <= K
    BY <1>1
  <2> QED
    BY <1>11, <2>1 DEF S
<1>13. T[1] = c
  BY <1>1, <1>8
<1> QED
  BY <1>4, <1>8, <1>12, <1>13 DEF Times, K, c

\* The loop of onGet(): z is where it is after each of the segments f.
ServeLoop(z, f, start, duration) ==
    LET e == Lesser(Playback!EndOf(f[1]) - start, duration)
    IN  /\ z[1] = [start |-> start + e, left |-> duration - e, served |-> <<f[1]>>, stopped |-> FALSE]
        /\ \A n \in 1..Len(f) :
            z[n] \in Position /\ (n # 1 => z[n] = Playback!ServeNext(z[n - 1], f[n]))

LEMMA ServeRounds ==
    ASSUME NEW S, NEW start \in Nat, NEW duration \in Nat,
           NEW f, f = Playback!FindSegments(S, start, duration),
           f \in Seq(Playback!Segment), f # <<>>,
           Lesser(Playback!EndOf(f[1]) - start, duration) > 0
    PROVE  \E z : /\ ServeLoop(z, f, start, duration)
                  /\ Playback!OnGet(S, start, duration) = z[Len(f)].served
<1> DEFINE K == Len(f)
           e == Lesser(Playback!EndOf(f[1]) - start, duration)
           c == [start |-> start + e, left |-> duration - e, served |-> <<f[1]>>, stopped |-> FALSE]
           step == [p \in Position \X (2..K) |-> Playback!ServeNext(p[1], f[p[2]])]
           Rounds(g) == g = [n \in 1..K |-> IF n = 1 THEN c ELSE Playback!ServeNext(g[n - 1], f[n])]
           z == CHOOSE g : Rounds(g)
<1>1. /\ K \in Nat /\ K >= 1 /\ \A n \in 1..K : f[n] \in Playback!Segment
      /\ f[1].start \in Nat /\ f[1].duration \in Nat
  BY SegmentIs
<1>2. Playback!Elapsed(f[1], start, duration) = e /\ e \in Int
  <2> DEFINE d == f[1].start + f[1].duration - start
  <2>1. d \in Int /\ d = Playback!EndOf(f[1]) - start
    BY <1>1 DEF Playback!EndOf
  <2>2. Playback!Elapsed(f[1], start, duration) = Playback!Min({d, duration})
    BY DEF Playback!Elapsed
  <2> HIDE DEF d
  <2>3. Playback!Min({d, duration}) = IF d <= duration THEN d ELSE duration
    BY <2>1, LesserOfTwo
  <2> QED
    BY <2>1, <2>2, <2>3 DEF Lesser
<1>3. c \in Position
  <2> DEFINE a == start + e
             l == duration - e
             v == <<f[1]>>
  <2>1. a \in Int /\ l \in Int /\ v \in Seq(Playback!Segment)
    BY <1>1, <1>2
  <2> HIDE DEF a, l, v
  <2>2. [start |-> a, left |-> l, served |-> v, stopped |-> FALSE] \in Position
    BY <2>1 DEF Position
  <2> QED
    BY <2>2 DEF a, l, v
<1>4. Playback!OnGet(S, start, duration) = z[K].served
  <2>1. ~(e <= 0) /\ e > 0
    BY <1>2
  <2>2. ~(f = <<>> \/ Playback!Elapsed(f[1], start, duration) <= 0)
    BY <1>2, <2>1
  <2> QED
    BY <1>2, <2>2 DEF Playback!OnGet
<1>5. \A x \in Position, n \in 2..K : step[<<x, n>>] = Playback!ServeNext(x, f[n])
  OBVIOUS
<1> HIDE DEF step, K, c
<1>6. PICK g : LoopIn(g, step, c, 1, K, Position)
  <2> DEFINE m == 1
             X == Position
  <2>1. m \in Nat /\ m <= K /\ m + 1 = 2
    BY <1>1
  <2>2. ASSUME NEW x \in X, NEW n \in (m + 1)..K PROVE step[<<x, n>>] \in X
    <3>1. n \in 2..K /\ n \in 1..K
      BY <1>1, <2>1
    <3>2. step[<<x, n>>] = Playback!ServeNext(x, f[n])
      BY <1>5, <3>1
    <3>3. IsServed(x, f[n], Playback!ServeNext(x, f[n]))
      BY <1>1, <3>1, ServeNextServes
    <3> QED
      BY <3>2, <3>3 DEF IsServed
  <2>3. c \in X
    BY <1>3
  <2> HIDE DEF m, X
  <2>4. \E g : LoopIn(g, step, c, m, K, X)
    BY <1>1, <2>1, <2>2, <2>3, LoopExists
  <2> QED
    BY <2>4 DEF m, X
<1>7. Rounds(g)
  <2>1. /\ g = [n \in 1..K |-> IF n = 1 THEN c ELSE step[<<g[n - 1], n>>]]
        /\ \A n \in 1..K : g[n] \in Position
    BY <1>6 DEF LoopIn, Loop
  <2>2. ASSUME NEW n \in 1..K, n # 1 PROVE step[<<g[n - 1], n>>] = Playback!ServeNext(g[n - 1], f[n])
    <3>1. n \in 2..K /\ n - 1 \in 1..K
      BY <1>1, <2>2
    <3> QED
      BY <1>5, <2>1, <3>1
  <2>3. \A n \in 1..K : g[n] = IF n = 1 THEN c ELSE Playback!ServeNext(g[n - 1], f[n])
    BY <2>1, <2>2
  <2>4. g = [n \in 1..K |-> g[n]]
    BY <2>1
  <2> QED
    BY <2>3, <2>4
<1>8. Rounds(z)
  BY <1>7
<1> HIDE DEF z
<1>9. \A n \in 1..K : z[n] = IF n = 1 THEN c ELSE Playback!ServeNext(z[n - 1], f[n])
  BY <1>8
<1> DEFINE N == {n \in Nat : n + 1 <= K => z[n + 1] \in Position}
<1>10. 0 \in N
  <2>1. 1 \in 1..K /\ 0 + 1 = 1
    BY <1>1
  <2> QED
    BY <1>3, <1>9, <2>1
<1>11. ASSUME NEW n \in Nat, n \in N PROVE n + 1 \in N
  <2>1. CASE (n + 1) + 1 <= K
    <3>1. n + 1 <= K /\ (n + 1) + 1 \in 1..K /\ (n + 1) + 1 # 1 /\ ((n + 1) + 1) - 1 = n + 1
      BY <1>1, <2>1
    <3>2. z[n + 1] \in Position
      BY <1>11, <3>1
    <3>3. z[(n + 1) + 1] = Playback!ServeNext(z[n + 1], f[(n + 1) + 1])
      BY <1>9, <3>1
    <3>4. IsServed(z[n + 1], f[(n + 1) + 1], Playback!ServeNext(z[n + 1], f[(n + 1) + 1]))
      BY <1>1, <3>1, <3>2, ServeNextServes
    <3>5. z[(n + 1) + 1] \in Position
      BY <3>3, <3>4 DEF IsServed
    <3> QED
      BY <3>5
  <2>2. CASE ~((n + 1) + 1 <= K)
    BY <2>2
  <2> QED
    BY <2>1, <2>2
<1> HIDE DEF N
<1>12. Nat \subseteq N
  BY <1>10, <1>11, Induction
<1>13. ASSUME NEW n \in 1..K PROVE z[n] \in Position
  <2>1. n - 1 \in Nat /\ (n - 1) + 1 = n /\ n <= K
    BY <1>1
  <2> QED
    BY <1>12, <2>1 DEF N
<1>14. z[1] = c
  BY <1>1, <1>9
<1>15. ServeLoop(z, f, start, duration)
  BY <1>9, <1>13, <1>14 DEF ServeLoop, K, c
<1> QED
  BY <1>4, <1>15 DEF K

\* What is true after segment n of f, whose times are T.
Serving(z, f, T, n, duration) ==
    LET k == Len(z.served)
    IN  /\ z \in Position /\ k \in 1..n
        /\ \A i \in 1..k : z.served[i] = f[i]
        /\ IF T[k] <= duration THEN z.start = Playback!EndOf(f[k]) /\ z.left = duration - T[k]
           ELSE z.left = 0
        /\ z.stopped => k # n /\ (T[k] <= duration => ~Playback!Follows(f[k + 1], Playback!EndOf(f[k])))
        /\ ~z.stopped => k = n
        /\ \A i \in 1..(k - 1) : T[i] <= duration => Playback!Follows(f[i + 1], Playback!EndOf(f[i]))

LEMMA ServingFirst ==
    ASSUME NEW f \in Seq(Playback!Segment), f # <<>>, NEW start \in Nat, NEW duration \in Nat,
           NEW T, Times(T, f, start), NEW z, ServeLoop(z, f, start, duration)
    PROVE  Serving(z[1], f, T, 1, duration)
<1> DEFINE e == Lesser(T[1], duration)
           x == z[1]
<1>1. /\ 1 \in 1..Len(f) /\ f[1].start \in Nat /\ f[1].duration \in Nat
      /\ f[1] \in Playback!Segment
  BY SegmentIs
<1>2. T[1] \in Int /\ T[1] = Playback!EndOf(f[1]) - start
  BY <1>1 DEF Times
<1>3. x \in Position
  BY <1>1 DEF ServeLoop
<1>4. x = [start |-> start + e, left |-> duration - e, served |-> <<f[1]>>, stopped |-> FALSE]
  BY <1>2 DEF ServeLoop
<1> HIDE DEF x, e
<1>5. x.start = start + e /\ x.left = duration - e /\ x.served = <<f[1]>> /\ x.stopped = FALSE
  BY <1>4
<1>6. Len(x.served) = 1 /\ x.served[1] = f[1]
  BY <1>5
<1>7. IF T[1] <= duration THEN x.start = Playback!EndOf(f[1]) /\ x.left = duration - T[1]
      ELSE x.left = 0
  <2>1. CASE T[1] <= duration
    <3>1. e = T[1]
      BY <2>1 DEF e, Lesser
    <3>2. Playback!EndOf(f[1]) \in Int
      BY <1>1 DEF Playback!EndOf
    <3>3. start + e = Playback!EndOf(f[1])
      BY <1>2, <3>1, <3>2
    <3> QED
      BY <1>5, <2>1, <3>1, <3>3
  <2>2. CASE ~(T[1] <= duration)
    BY <1>5, <2>2 DEF e, Lesser
  <2> QED
    BY <2>1, <2>2
<1>8. \A i \in 1..1 : x.served[i] = f[i]
  BY <1>6
<1>9. \A i \in 1..(1 - 1) : FALSE
  OBVIOUS
<1>10. Serving(x, f, T, 1, duration)
  BY <1>3, <1>5, <1>6, <1>7, <1>8, <1>9 DEF Serving
<1> QED
  BY <1>10 DEF x

LEMMA ServingNext ==
    ASSUME NEW f \in Seq(Playback!Segment), NEW start \in Nat, NEW duration \in Nat,
           NEW T, Times(T, f, start), NEW n \in Nat \ {0}, n + 1 \in 1..Len(f),
           NEW z, Serving(z, f, T, n, duration), NEW y, IsServed(z, f[n + 1], y)
    PROVE  Serving(y, f, T, n + 1, duration)
<1> DEFINE k == Len(z.served)
           s == f[n + 1]
           gap == z.stopped \/ ~Playback!Follows(s, z.start)
           e == Lesser(s.duration, z.left)
<1>1. /\ z \in Position /\ k \in 1..n
      /\ \A i \in 1..k : z.served[i] = f[i]
      /\ IF T[k] <= duration THEN z.start = Playback!EndOf(f[k]) /\ z.left = duration - T[k]
         ELSE z.left = 0
      /\ z.stopped => k # n /\ (T[k] <= duration => ~Playback!Follows(f[k + 1], Playback!EndOf(f[k])))
      /\ ~z.stopped => k = n
      /\ \A i \in 1..(k - 1) : T[i] <= duration => Playback!Follows(f[i + 1], Playback!EndOf(f[i]))
  BY DEF Serving
<1>2. /\ y \in Position /\ y.stopped = gap
      /\ y.start = IF gap THEN z.start ELSE s.start + e
      /\ y.left = IF gap THEN z.left ELSE z.left - e
      /\ y.served = IF gap THEN z.served ELSE Append(z.served, s)
  BY DEF IsServed
<1>3. /\ Len(f) \in Nat /\ s \in Playback!Segment
      /\ z.start \in Int /\ z.left \in Int /\ z.served \in Seq(Playback!Segment)
      /\ z.stopped \in BOOLEAN
  BY <1>1 DEF Position
<1>4. s.start \in Nat /\ s.duration \in Nat /\ s.duration > 0
  BY <1>3, SegmentIs
<1>5. T[n] \in Int /\ T[n + 1] \in Int /\ T[n + 1] = T[n] + s.duration
  BY <1>3 DEF Times
<1> HIDE DEF s, k
<1>6. CASE gap
  <2>1. y.stopped = TRUE /\ y.start = z.start /\ y.left = z.left /\ y.served = z.served
    BY <1>2, <1>6
  <2>2. Len(y.served) = k /\ k \in 1..(n + 1) /\ k # n + 1
    BY <1>1, <2>1 DEF k
  <2>3. T[k] <= duration => ~Playback!Follows(f[k + 1], Playback!EndOf(f[k]))
    <3>1. CASE z.stopped
      BY <1>1, <3>1
    <3>2. CASE ~z.stopped
      <4>1. k = n /\ ~Playback!Follows(s, z.start)
        BY <1>1, <1>6, <3>2
      <4> QED
        BY <1>1, <4>1 DEF s
    <3> QED
      BY <3>1, <3>2
  <2> HIDE DEF gap, e
  <2> QED
    BY <1>1, <1>2, <2>1, <2>2, <2>3 DEF Serving
<1>7. CASE ~gap
  <2>1. /\ y.stopped = FALSE /\ y.start = s.start + e /\ y.left = z.left - e
        /\ y.served = Append(z.served, s)
    BY <1>2, <1>7
  <2>2. k = n /\ ~z.stopped /\ Playback!Follows(s, z.start)
    BY <1>1, <1>7
  <2>3. /\ Len(y.served) = n + 1 /\ y.served[n + 1] = s
        /\ \A i \in 1..n : y.served[i] = z.served[i]
    BY <1>3, <2>1, <2>2 DEF k
  <2>4. \A i \in 1..(n + 1) : y.served[i] = f[i]
    <3>1. ASSUME NEW i \in 1..(n + 1) PROVE y.served[i] = f[i]
      <4>1. CASE i = n + 1
        BY <2>3, <4>1 DEF s
      <4>2. CASE i # n + 1
        <5>1. i \in 1..n
          BY <4>2
        <5> QED
          BY <1>1, <2>2, <2>3, <5>1
      <4> QED
        BY <4>1, <4>2
    <3> QED
      BY <3>1
  <2>5. /\ T[n] <= duration => z.start = Playback!EndOf(f[n]) /\ z.left = duration - T[n]
        /\ ~(T[n] <= duration) => z.left = 0
    BY <1>1, <2>2
  <2>6. IF T[n + 1] <= duration
        THEN y.start = Playback!EndOf(s) /\ y.left = duration - T[n + 1]
        ELSE y.left = 0
    <3>1. CASE T[n + 1] <= duration
      <4>1. T[n] <= duration /\ s.duration <= duration - T[n]
        BY <1>4, <1>5, <3>1
      <4>2. e = s.duration /\ z.left = duration - T[n]
        BY <2>5, <4>1 DEF Lesser
      <4>3. y.start = Playback!EndOf(s)
        BY <2>1, <4>2 DEF Playback!EndOf
      <4>4. y.left = duration - T[n + 1]
        BY <1>4, <1>5, <2>1, <4>2
      <4> QED
        BY <3>1, <4>3, <4>4
    <3>2. CASE ~(T[n + 1] <= duration)
      <4>1. e = z.left
        <5>1. CASE T[n] <= duration
          <6>1. z.left = duration - T[n]
            BY <2>5, <5>1
          <6>2. ~(s.duration <= z.left)
            BY <1>4, <1>5, <3>2, <6>1
          <6> QED
            BY <6>2 DEF Lesser
        <5>2. CASE ~(T[n] <= duration)
          BY <1>4, <2>5, <5>2 DEF Lesser
        <5> QED
          BY <5>1, <5>2
      <4>2. y.left = 0
        BY <1>3, <2>1, <4>1
      <4> QED
        BY <3>2, <4>2
    <3> QED
      BY <3>1, <3>2
  <2>7. \A i \in 1..n : T[i] <= duration => Playback!Follows(f[i + 1], Playback!EndOf(f[i]))
    <3>1. ASSUME NEW i \in 1..n, T[i] <= duration
          PROVE  Playback!Follows(f[i + 1], Playback!EndOf(f[i]))
      <4>1. CASE i = n
        BY <2>2, <2>5, <3>1, <4>1 DEF s
      <4>2. CASE i # n
        <5>1. i \in 1..(k - 1)
          BY <2>2, <4>2
        <5> QED
          BY <1>1, <3>1, <5>1
      <4> QED
        BY <4>1, <4>2
    <3> QED
      BY <3>1
  <2>8. (n + 1) - 1 = n /\ n + 1 \in 1..(n + 1) /\ s = f[n + 1]
    BY DEF s
  <2> HIDE DEF gap, e
  <2> QED
    BY <1>2, <2>1, <2>3, <2>4, <2>6, <2>7, <2>8 DEF Serving
<1> QED
  BY <1>6, <1>7

\* What is true once all segments are gone through.
LEMMA ServingLast ==
    ASSUME NEW f \in Seq(Playback!Segment), f # <<>>, NEW start \in Nat, NEW duration \in Nat,
           NEW T, Times(T, f, start), NEW z, ServeLoop(z, f, start, duration)
    PROVE  Serving(z[Len(f)], f, T, Len(f), duration)
<1> DEFINE K == Len(f)
           N == {n \in Nat : n + 1 <= K => Serving(z[n + 1], f, T, n + 1, duration)}
<1>1. K \in Nat /\ K >= 1 /\ \A n \in 1..K : f[n] \in Playback!Segment
  OBVIOUS
<1>2. 0 \in N
  BY ServingFirst
<1>3. ASSUME NEW n \in Nat, n \in N PROVE n + 1 \in N
  <2> DEFINE j == n + 1
  <2>1. CASE j + 1 <= K
    <3>1. j \in Nat \ {0} /\ j <= K /\ j + 1 \in 1..K /\ j \in 1..K /\ j + 1 # 1 /\ (j + 1) - 1 = j
      BY <1>1, <2>1
    <3>2. Serving(z[j], f, T, j, duration)
      BY <1>3, <3>1
    <3> HIDE DEF j
    <3>3. z[j] \in Position /\ z[j + 1] = Playback!ServeNext(z[j], f[j + 1])
      BY <3>1 DEF ServeLoop
    <3>4. IsServed(z[j], f[j + 1], z[j + 1])
      BY <1>1, <3>1, <3>3, ServeNextServes
    <3>5. Serving(z[j + 1], f, T, j + 1, duration)
      BY <3>1, <3>2, <3>4, ServingNext
    <3> QED
      BY <3>5 DEF j
  <2>2. CASE ~(j + 1 <= K)
    BY <2>2
  <2> QED
    BY <2>1, <2>2
<1> HIDE DEF N
<1>4. Nat \subseteq N
  BY <1>2, <1>3, Induction
<1>5. K - 1 \in N /\ K - 1 \in Nat /\ (K - 1) + 1 = K
  BY <1>1, <1>4
<1>6. Serving(z[K], f, T, K, duration)
  BY <1>5 DEF N
<1> QED
  BY <1>6

\* The times of a part are those of the whole.
Begins(g, f) == Len(g) <= Len(f) /\ \A i \in 1..Len(g) : g[i] = f[i]
SameUpTo(U, T, n) == \A i \in 1..n : U[i] = T[i]

LEMMA SameTimes ==
    ASSUME NEW f \in Seq(Playback!Segment), NEW g \in Seq(Playback!Segment), NEW start \in Nat,
           g # <<>>, Begins(g, f), NEW T, Times(T, f, start), NEW U, Times(U, g, start)
    PROVE  SameUpTo(U, T, Len(g))
<1> USE DEF Begins
<1> DEFINE K == Len(g)
           N == {n \in Nat : n + 1 <= K => U[n + 1] = T[n + 1]}
<1>1. K \in Nat /\ K >= 1 /\ Len(f) \in Nat /\ g[1] = f[1]
  OBVIOUS
<1>2. 0 \in N
  BY <1>1 DEF Times
<1>3. ASSUME NEW n \in Nat, n \in N PROVE n + 1 \in N
  <2> DEFINE j == n + 1
  <2>1. CASE j + 1 <= K
    <3>1. j <= K /\ j + 1 \in 1..K /\ j + 1 \in 1..Len(f) /\ j + 1 # 1 /\ (j + 1) - 1 = j
      BY <1>1, <2>1
    <3>2. U[j] = T[j]
      BY <1>3, <3>1
    <3> HIDE DEF j
    <3>3. U[j + 1] = U[j] + g[j + 1].duration /\ T[j + 1] = T[j] + f[j + 1].duration
      BY <3>1 DEF Times
    <3>4. U[j + 1] = T[j + 1]
      BY <3>1, <3>2, <3>3
    <3> QED
      BY <3>4 DEF j
  <2>2. CASE ~(j + 1 <= K)
    BY <2>2
  <2> QED
    BY <2>1, <2>2
<1> HIDE DEF N
<1>4. Nat \subseteq N
  BY <1>2, <1>3, Induction
<1>5. ASSUME NEW i \in 1..K PROVE U[i] = T[i]
  <2>1. i - 1 \in Nat /\ (i - 1) + 1 = i /\ i <= K
    BY <1>1
  <2> QED
    BY <1>4, <2>1 DEF N
<1> QED
  BY <1>5 DEF SameUpTo

\* What GetIsRight says of what is served of the segments S.
IsFirst(S, start, s) == s \in S /\ s.start <= start /\ \A q \in S : q.start <= start => q.start <= s.start
IsAfter(S, end, r, s) ==
    /\ s.start <= end /\ r.start < s.start
    /\ \A q \in S : r.start < q.start => s.start <= q.start
GetRight(S, start, duration, served, time) ==
    /\ served # <<>> <=> \E s \in S : IsFirst(S, start, s) /\ Playback!EndOf(s) > start
    /\ served # <<>> => IsFirst(S, start, served[1])
    /\ \A i \in 1..(Len(served) - 1) :
        served[i + 1] \in S /\ IsAfter(S, start + duration, served[i], served[i + 1])
    /\ \A i \in DOMAIN served, s \in S :
        IsAfter(S, start + duration, served[i], s) /\ time[i] <= duration =>
            (Playback!Follows(s, Playback!EndOf(served[i])) <=> i < Len(served))

LEMMA NothingIsRight ==
    ASSUME NEW S, NEW start, NEW duration, NEW time,
           ~\E s \in S : IsFirst(S, start, s) /\ Playback!EndOf(s) > start
    PROVE  GetRight(S, start, duration, <<>>, time)
BY DEF GetRight

\* The segments that are found follow each other, and none is left out.
NoneLeftOut(S, start, end, f) ==
    /\ f \in Seq(Playback!Segment) /\ f[1] \in S /\ IsFirst(S, start, f[1])
    /\ \A s \in S : IsFirst(S, start, s) => s = f[1]
    /\ \A i \in 1..(Len(f) - 1) : f[i + 1] \in S /\ IsAfter(S, end, f[i], f[i + 1])
    /\ \A i \in 1..Len(f), s \in S : IsAfter(S, end, f[i], s) => i + 1 \in 1..Len(f) /\ s = f[i + 1]

LEMMA FoundFollow ==
    ASSUME NEW S \in SUBSET Playback!Segment, Distinct(S), NEW start \in Nat, NEW end \in Nat,
           NEW f, AreFound(f, S, start, end), f # <<>>
    PROVE  NoneLeftOut(S, start, end, f)
<1> DEFINE K == Len(f)
<1>1. /\ f \in Seq(S) /\ K \in Nat /\ DOMAIN f = 1..K /\ K >= 1 /\ 1 \in 1..K
      /\ \A i \in 1..K : f[i] \in S
      /\ f[1].start <= start /\ \A s \in S : s.start <= start => s.start <= f[1].start
      /\ \A i, j \in 1..K : i < j => f[i].start < f[j].start
      /\ \A s \in S : f[1].start <= s.start /\ s.start <= end => \E i \in 1..K : f[i] = s
      /\ \A i \in 1..K : f[i].start <= end
  BY DEF AreFound, StartsInOrder
<1>2. \A s \in S : s.start \in Nat
  BY SegmentIs
<1>3. f \in Seq(Playback!Segment)
  BY <1>1
<1> HIDE DEF K
<1>4. f[1] \in S /\ IsFirst(S, start, f[1])
  BY <1>1 DEF IsFirst
<1>5. ASSUME NEW s \in S, IsFirst(S, start, s) PROVE s = f[1]
  <2>1. s.start <= f[1].start /\ f[1].start <= s.start
    BY <1>1, <1>4, <1>5 DEF IsFirst
  <2>2. s.start = f[1].start
    BY <1>2, <1>4, <2>1
  <2> QED
    BY <1>4, <2>2 DEF Distinct
<1>6. ASSUME NEW i \in 1..K, NEW q \in S, f[i].start < q.start, q.start <= end
      PROVE  i + 1 \in 1..K /\ f[i + 1].start <= q.start
  <2>1. f[1].start <= f[i].start
    <3>1. 1 < i => f[1].start < f[i].start
      BY <1>1
    <3>2. f[1].start \in Nat /\ f[i].start \in Nat
      BY <1>1, <1>2
    <3> QED
      BY <1>1, <3>1, <3>2
  <2>2. f[1].start \in Nat /\ f[i].start \in Nat /\ q.start \in Nat
    BY <1>1, <1>2
  <2>3. f[1].start <= q.start
    BY <1>6, <2>1, <2>2
  <2>4. PICK j \in 1..K : f[j] = q
    BY <1>1, <1>6, <2>3
  <2>5. ~(j < i) /\ j # i
    BY <1>1, <1>6, <2>2, <2>4
  <2>6. i < j /\ i + 1 \in 1..K /\ (i + 1 < j \/ i + 1 = j)
    BY <1>1, <2>5
  <2>7. f[i + 1].start \in Nat
    BY <1>1, <1>2, <2>6
  <2> QED
    BY <1>1, <2>2, <2>4, <2>6, <2>7
<1>7. ASSUME NEW i \in 1..(K - 1) PROVE f[i + 1] \in S /\ IsAfter(S, end, f[i], f[i + 1])
  <2>1. i \in 1..K /\ i + 1 \in 1..K /\ i < i + 1
    BY <1>1
  <2>2. f[i + 1] \in S /\ f[i + 1].start <= end /\ f[i].start < f[i + 1].start
    BY <1>1, <2>1
  <2>3. ASSUME NEW q \in S, f[i].start < q.start PROVE f[i + 1].start <= q.start
    <3>1. q.start <= end => f[i + 1].start <= q.start
      BY <1>6, <2>1, <2>3
    <3>2. q.start \in Nat /\ f[i + 1].start \in Nat
      BY <1>2, <2>2
    <3> QED
      BY <2>2, <3>1, <3>2
  <2> QED
    BY <2>2, <2>3 DEF IsAfter
<1>8. ASSUME NEW i \in 1..K, NEW s \in S, IsAfter(S, end, f[i], s)
      PROVE  i + 1 \in 1..K /\ s = f[i + 1]
  <2>1. /\ s.start <= end /\ f[i].start < s.start
        /\ \A q \in S : f[i].start < q.start => s.start <= q.start
    BY <1>8 DEF IsAfter
  <2>2. i + 1 \in 1..K /\ f[i + 1].start <= s.start
    BY <1>6, <2>1
  <2>3. i < i + 1 /\ f[i + 1] \in S
    BY <1>1, <2>2
  <2>4. s.start <= f[i + 1].start
    BY <1>1, <2>1, <2>2, <2>3
  <2>5. s.start = f[i + 1].start
    BY <1>2, <2>2, <2>3, <2>4
  <2> QED
    BY <2>2, <2>3, <2>5 DEF Distinct
<1> QED
  BY <1>3, <1>4, <1>5, <1>7, <1>8 DEF K, NoneLeftOut

\* Nothing is served when nothing is found, or when what is found has ended.
LEMMA NotServed ==
    ASSUME NEW S, NEW start \in Nat, NEW duration \in Nat,
           NEW f, f = Playback!FindSegments(S, start, duration),
           \/ f = <<>>
           \/ /\ f # <<>> /\ f \in Seq(Playback!Segment)
              /\ ~(Lesser(Playback!EndOf(f[1]) - start, duration) > 0)
    PROVE  Playback!OnGet(S, start, duration) = <<>>
<1>1. CASE f = <<>>
  BY <1>1 DEF Playback!OnGet
<1>2. CASE /\ f # <<>> /\ f \in Seq(Playback!Segment)
           /\ ~(Lesser(Playback!EndOf(f[1]) - start, duration) > 0)
  <2> DEFINE d == f[1].start + f[1].duration - start
  <2>0. f[1] \in Playback!Segment
    BY <1>2
  <2>1. d \in Int /\ d = Playback!EndOf(f[1]) - start
    BY <2>0, SegmentIs DEF Playback!EndOf
  <2>2. Playback!Elapsed(f[1], start, duration) = Playback!Min({d, duration})
    BY DEF Playback!Elapsed
  <2> HIDE DEF d
  <2>3. Playback!Min({d, duration}) = Lesser(d, duration)
    BY <2>1, LesserOfTwo DEF Lesser
  <2>4. Lesser(d, duration) <= 0
    BY <1>2, <2>1 DEF Lesser
  <2>5. Playback!Elapsed(f[1], start, duration) <= 0
    BY <2>2, <2>3, <2>4
  <2> QED
    BY <2>5 DEF Playback!OnGet
<1> QED
  BY <1>1, <1>2

\* onGet() serves the segments that it should.
LEMMA OnGetIsRight ==
    ASSUME NEW S \in SUBSET Playback!Segment, Distinct(S),
           NEW start \in Nat, NEW duration \in Nat \ {0}, NEW served,
           served = Playback!OnGet(S, start, duration)
    PROVE  GetRight(S, start, duration, served, Playback!TimeServed(served, start))
<1> DEFINE f == Playback!FindSegments(S, start, duration)
           K == Len(f)
           e == Lesser(Playback!EndOf(f[1]) - start, duration)
           T == Playback!TimeServed(f, start)
           time == Playback!TimeServed(served, start)
<1>1. AreFound(f, S, start, start + duration) /\ start + duration \in Nat
  BY FindSegmentsFinds
<1>2. CASE f = <<>>
  <2>1. served = <<>>
    BY <1>2, NotServed
  <2>2. \A s \in S : s.start > start /\ s.start \in Nat
    BY <1>1, <1>2, SegmentIs DEF AreFound
  <2>3. ~\E s \in S : IsFirst(S, start, s) /\ Playback!EndOf(s) > start
    BY <2>2 DEF IsFirst
  <2> QED
    BY <2>1, <2>3, NothingIsRight
<1>3. CASE f # <<>>
  <2> HIDE DEF f
  <2>1. /\ f \in Seq(Playback!Segment) /\ f[1] \in S /\ IsFirst(S, start, f[1])
        /\ \A s \in S : IsFirst(S, start, s) => s = f[1]
        /\ \A i \in 1..(Len(f) - 1) : f[i + 1] \in S /\ IsAfter(S, start + duration, f[i], f[i + 1])
        /\ \A i \in 1..Len(f), s \in S :
                IsAfter(S, start + duration, f[i], s) => i + 1 \in 1..Len(f) /\ s = f[i + 1]
    <3> DEFINE end == start + duration
    <3>1. end \in Nat /\ AreFound(f, S, start, end)
      BY <1>1
    <3> HIDE DEF end
    <3>2. NoneLeftOut(S, start, end, f)
      BY <1>3, <3>1, FoundFollow
    <3> QED
      BY <3>2 DEF end, NoneLeftOut
  <2>2. K \in Nat /\ K >= 1 /\ Playback!EndOf(f[1]) \in Int
    BY <1>3, <2>1, SegmentIs DEF Playback!EndOf
  <2>3. e > 0 <=> Playback!EndOf(f[1]) > start
    BY <2>2 DEF Lesser
  <2>4. CASE ~(e > 0)
    <3>1. served = <<>>
      BY <1>3, <2>1, <2>4, NotServed DEF f
    <3>2. ~\E s \in S : IsFirst(S, start, s) /\ Playback!EndOf(s) > start
      BY <2>1, <2>3, <2>4
    <3> QED
      BY <3>1, <3>2, NothingIsRight
  <2>5. CASE e > 0
    <3>1. PICK z : ServeLoop(z, f, start, duration) /\ served = z[K].served
      BY <1>3, <2>1, <2>5, ServeRounds DEF f
    <3>2. Times(T, f, start)
      BY <1>3, <2>1, TimeServedIs
    <3> HIDE DEF T
    <3>3. Serving(z[K], f, T, K, duration)
      BY <1>3, <2>1, <3>1, <3>2, ServingLast
    <3> DEFINE k == Len(served)
    <3>4. /\ served \in Seq(Playback!Segment) /\ k \in 1..K
          /\ \A i \in 1..k : served[i] = f[i]
          /\ k # K /\ T[k] <= duration => ~Playback!Follows(f[k + 1], Playback!EndOf(f[k]))
          /\ \A i \in 1..(k - 1) : T[i] <= duration => Playback!Follows(f[i + 1], Playback!EndOf(f[i]))
      BY <3>1, <3>3 DEF Serving, Position
    <3>5. /\ served # <<>> /\ DOMAIN served = 1..k /\ k \in Nat /\ k >= 1 /\ k <= K
          /\ served[1] = f[1]
      BY <2>2, <3>4
    <3>6. Times(time, served, start)
      BY <3>4, <3>5, TimeServedIs
    <3> HIDE DEF time
    <3>7. \A i \in 1..k : time[i] = T[i]
      <4>1. Begins(served, f)
        BY <3>4, <3>5 DEF Begins
      <4>2. SameUpTo(time, T, k)
        <5> HIDE DEF K
        <5> QED
          BY <2>1, <3>2, <3>4, <3>5, <3>6, <4>1, SameTimes
      <4> QED
        BY <4>2 DEF SameUpTo
    <3>8. \E s \in S : IsFirst(S, start, s) /\ Playback!EndOf(s) > start
      BY <2>1, <2>3, <2>5
    <3>9. ASSUME NEW i \in 1..(k - 1)
          PROVE  served[i + 1] \in S /\ IsAfter(S, start + duration, served[i], served[i + 1])
      <4>1. i \in 1..(K - 1) /\ i \in 1..k /\ i + 1 \in 1..k
        BY <2>2, <3>5
      <4>2. served[i] = f[i] /\ served[i + 1] = f[i + 1]
        BY <3>4, <4>1
      <4> QED
        BY <2>1, <4>1, <4>2
    <3>10. ASSUME NEW i \in DOMAIN served, NEW s \in S,
                  IsAfter(S, start + duration, served[i], s), time[i] <= duration
           PROVE  Playback!Follows(s, Playback!EndOf(served[i])) <=> i < k
      <4>1. i \in 1..k /\ i \in 1..K /\ served[i] = f[i] /\ T[i] <= duration
        BY <2>2, <3>4, <3>5, <3>7, <3>10
      <4>2. i + 1 \in 1..K /\ s = f[i + 1]
        BY <2>1, <3>10, <4>1
      <4>3. CASE i < k
        <5>1. i \in 1..(k - 1)
          BY <3>5, <4>1, <4>3
        <5> QED
          BY <3>4, <4>1, <4>2, <4>3, <5>1
      <4>4. CASE i = k
        <5>1. k # K /\ ~(i < k)
          BY <2>2, <4>2, <4>4
        <5> QED
          BY <3>4, <4>1, <4>2, <4>4, <5>1
      <4> QED
        BY <3>5, <4>1, <4>3, <4>4
    <3> QED
      BY <2>1, <3>5, <3>8, <3>9, <3>10 DEF GetRight, time
  <2> QED
    BY <2>4, <2>5
<1> QED
  BY <1>2, <1>3

-----------------------------------------------------------------------------
(* The requests.                                                            *)

LEMMA RecordingsAre ==
    ASSUME NEW S \in Playback!Recordings
    PROVE  S \in SUBSET Playback!Segment /\ Distinct(S)
BY DEF Playback!Recordings, Playback!kSubset, Distinct

\* What ListIsRight and GetIsRight say, of every answer.
ServedRight == Playback!ListIsRight /\ Playback!GetIsRight

LEMMA AnswersAreRight == Spec => [](kind = "playback" => ServedRight)
<1>1. Init => (kind = "playback" => ServedRight)
  BY DEF Init, Playback!Init, ServedRight, Playback!ListIsRight, Playback!GetIsRight
<1>2. (kind = "playback" => ServedRight) /\ [Next]_vars => (kind = "playback" => ServedRight)'
  <2> SUFFICES ASSUME kind = "playback" => ServedRight, [Next]_vars, kind' = "playback"
               PROVE  ServedRight'
    OBVIOUS
  <2>1. CASE Next
    <3>1. kind = "playback" /\ Playback!Next
      BY <2>1 DEF Next
    <3>2. CASE Playback!ListRequest
      <4>1. PICK S \in Playback!Recordings : /\ pbRequest' = [op |-> "list", segments |-> S]
                                             /\ pbAnswer' = [ok |-> TRUE, served |-> Playback!OnList(S)]
        BY <3>2 DEF Playback!ListRequest
      <4>2. ListRight(S, Playback!OnList(S))
        BY RecordingsAre, OnListIsRight
      <4>3. /\ pbRequest'.op = "list" /\ pbRequest'.segments = S
            /\ pbAnswer'.served = Playback!OnList(S)
        BY <4>1
      <4>4. ListRight(pbRequest.segments, pbAnswer.served)'
        BY <4>2, <4>3
      <4>5. Playback!ListIsRight'
        BY <4>4 DEF ListRight, Playback!ListIsRight
      <4> QED
        BY <4>3, <4>5 DEF ServedRight, Playback!GetIsRight
    <3>3. CASE Playback!GetRequest
      <4>1. PICK S \in Playback!Recordings, start \in 0..MaxTime, duration \in 1..MaxTime :
                /\ pbRequest' = [op |-> "get", segments |-> S, start |-> start, duration |-> duration]
                /\ pbAnswer' = [ok |-> TRUE, served |-> Playback!OnGet(S, start, duration)]
        BY <3>3 DEF Playback!GetRequest
      <4>2. start \in Nat /\ duration \in Nat \ {0}
        BY PlaybackAssumption
      <4>3. pbRequest'.op = "get" /\ pbAnswer'.served = Playback!OnGet(S, start, duration)
        BY <4>1
      <4>4. GetRight(S, start, duration, pbAnswer'.served,
                     Playback!TimeServed(pbAnswer'.served, start))
        BY <4>2, <4>3, RecordingsAre, OnGetIsRight
      <4>5. Playback!GetIsRight'
        <5>1. /\ pbRequest'.segments = S /\ pbRequest'.start = start
              /\ pbRequest'.duration = duration
          BY <4>1
        <5> QED
          BY <4>4, <5>1 DEF GetRight, IsFirst, IsAfter, Playback!GetIsRight
      <4> QED
        BY <4>3, <4>5 DEF ServedRight, Playback!ListIsRight
    <3>4. CASE Playback!SeekRequest
      <4>1. pbRequest'.op = "seek"
        BY <3>4 DEF Playback!SeekRequest
      <4> QED
        BY <4>1 DEF ServedRight, Playback!ListIsRight, Playback!GetIsRight
    <3>5. CASE Playback!MuxRequest
      <4>1. pbRequest'.op = "mux"
        BY <3>5 DEF Playback!MuxRequest
      <4> QED
        BY <4>1 DEF ServedRight, Playback!ListIsRight, Playback!GetIsRight
    <3> QED
      BY <3>1, <3>2, <3>3, <3>4, <3>5 DEF Playback!Next
  <2>2. CASE UNCHANGED vars
    BY <2>2 DEF vars, pbVars, ServedRight, Playback!ListIsRight, Playback!GetIsRight,
        Playback!TimeServed
  <2> QED
    BY <2>1, <2>2
<1> QED
  BY <1>1, <1>2, PTL DEF Spec

\* The list of the recordings of a path (onList, mergeConcatenatedSegments) has
\* an entry for every moment that was recorded, up to the tolerance, and no two
\* entries that could be one, for any recordings.
THEOREM ListsAreRight == Spec => [](kind = "playback" => Playback!ListIsRight)
BY AnswersAreRight, PTL DEF ServedRight

\* A request for a part of the recordings (onGet, findSegments) is served from
\* the segment that it starts in, then from each one that follows without a gap,
\* leaving none out, until its time is served, for any recordings.
THEOREM GetsAreRight == Spec => [](kind = "playback" => Playback!GetIsRight)
BY AnswersAreRight, PTL DEF ServedRight
=============================================================================
