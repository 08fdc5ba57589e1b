-------------------------------- MODULE Path --------------------------------
(***************************************************************************)
(* One path of the server: internal/core/path.go.                          *)
(*                                                                         *)
(* A path is a goroutine that owns the fields of struct path and runs one  *)
(* handler at a time, chosen by the select of runInner().  Clients reach   *)
(* it through unbuffered channels and block until they are answered, so a  *)
(* handler together with the shouldClose() that follows it is one step.    *)
(* The tail of run(), after runInner() has returned, is a step of its own: *)
(* sessions that give up in between find the context cancelled.            *)
(*                                                                         *)
(* The fields of the struct are grouped by the part of the path they serve *)
(* (the stream, the readers, the requests on hold, the two on-demand state *)
(* machines).  The groups also hold the effects of the path on other       *)
(* goroutines: the sessions it has told to close, the sessions that hold a *)
(* stream, the static source handler, and panics.                          *)
(***************************************************************************)
EXTENDS Naturals, Sequences, FiniteSets

CONSTANTS
    Readers,     \* sessions that may call AddReader / RemoveReader
    Describers,  \* connections that may call Describe
    Publishers,  \* sessions that may publish
    Confs        \* the path configurations considered

(***************************************************************************)
(* Configuration (conf.Path).  Only the settings that path.go branches on  *)
(* are kept.  Every source that is a URL or the camera is "static", except *)
(* an SRT URL: internal/staticsources/srt never calls SetNotReady, so it   *)
(* is told apart.                                                          *)
(***************************************************************************)
PathConf ==
    [source            : {"publisher", "redirect", "static", "srt"},
     sourceOnDemand    : BOOLEAN,
     runOnDemand       : BOOLEAN,
     regexp            : BOOLEAN,
     overridePublisher : BOOLEAN,
     record            : BOOLEAN,
     maxReaders        : Nat]

HasStaticSource(c) == c.source \in {"static", "srt"}

HasOnDemandStaticSource(c) == HasStaticSource(c) /\ c.sourceOnDemand

HasOnDemandPublisher(c) == c.runOnDemand

\* The combinations that conf.Path.validate() accepts.
ValidConf(c) ==
    /\ HasStaticSource(c) /\ c.regexp => c.sourceOnDemand
    /\ c.sourceOnDemand => c.source # "publisher"
    /\ c.runOnDemand => c.source = "publisher"

ASSUME ConfsAssumption == \A c \in Confs : c \in PathConf /\ ValidConf(c)

ASSUME ClientsAssumption ==
    /\ IsFiniteSet(Readers)
    /\ Publishers \cap {"nil", "redirect", "static"} = {}

-----------------------------------------------------------------------------
VARIABLES
    conf,        \* pa.conf
    pc,          \* where the goroutine is, see Control
    source,      \* pa.source
    stream,      \* pa.stream and what setReady() sets up with it
    clients,     \* pa.readers and the sessions behind them
    held,        \* requests on hold
    static,      \* the static source handler and its on-demand state machine
    demand,      \* the runOnDemand command and its state machine
    publisher,   \* where each publisher session is in its life
    told         \* publisher sessions whose Close() has been called

vars == <<conf, pc, source, stream, clients, held, static, demand, publisher, told>>

\* "new": in runInner(), no client request served yet; "run": in runInner();
\* "teardown": runInner() has returned; "closed": run() has returned.
Control == {"new", "run", "teardown", "closed"}

Stream ==
    [live           : BOOLEAN,                     \* pa.stream # nil
     recordAgent    : BOOLEAN,                     \* pa.recordAgent # nil
     onNotReadyHook : {"nil", "owed", "spent"},
     panic          : BOOLEAN]

Clients ==
    [readers  : SUBSET Readers,   \* pa.readers
     attached : SUBSET Readers,   \* AddReader succeeded, RemoveReader not called yet
     stale    : SUBSET Readers,   \* attached to a stream that is not pa.stream
     told     : SUBSET Readers]   \* Close() has been called on them

Held ==
    [describeRequests  : SUBSET Describers,
     readerAddRequests : Seq(Readers)]

OnDemandState == {"initial", "waitingReady", "ready", "closing"}

Static ==
    [state      : OnDemandState,
     readyTimer : BOOLEAN,   \* armed
     closeTimer : BOOLEAN,
     running    : BOOLEAN,   \* staticSourceHandler.running
     setReady   : BOOLEAN,   \* the last successful call of the instance was SetReady
     panic      : BOOLEAN]

Demand ==
    [state      : OnDemandState,
     readyTimer : BOOLEAN,
     closeTimer : BOOLEAN,
     hook       : BOOLEAN,   \* pa.onUnDemandHook # nil: the command is running
     panic      : BOOLEAN]

\* initialize() and the part of run() that precedes runInner().
Init ==
    /\ conf \in Confs
    /\ pc = "new"
    /\ source = CASE conf.source = "publisher" -> "nil"
                  [] conf.source = "redirect"  -> "redirect"
                  [] OTHER                     -> "static"
    /\ stream = [live |-> FALSE, recordAgent |-> FALSE, onNotReadyHook |-> "nil", panic |-> FALSE]
    /\ clients = [readers |-> {}, attached |-> {}, stale |-> {}, told |-> {}]
    /\ held = [describeRequests |-> {}, readerAddRequests |-> << >>]
    /\ static = [state |-> "initial", readyTimer |-> FALSE, closeTimer |-> FALSE,
                 running |-> HasStaticSource(conf) /\ ~conf.sourceOnDemand,
                 setReady |-> FALSE, panic |-> FALSE]
    /\ demand = [state |-> "initial", readyTimer |-> FALSE, closeTimer |-> FALSE,
                 hook |-> FALSE, panic |-> FALSE]
    /\ publisher = [p \in Publishers |-> "idle"]
    /\ told = {}

-----------------------------------------------------------------------------
(***************************************************************************)
(* Helpers of path.go.  Each maps the group of fields it works on.         *)
(***************************************************************************)
Running == pc \in {"new", "run"}

OnHold == {held.readerAddRequests[i] : i \in DOMAIN held.readerAddRequests}

NobodyHeld(h) == h.describeRequests = {} /\ h.readerAddRequests = << >>

\* Every request on hold has been answered.
NoneHeld == [describeRequests |-> {}, readerAddRequests |-> << >>]

ShouldClose(src, cl, h) ==
    /\ conf.regexp
    /\ src = "nil"
    /\ cl.readers = {}
    /\ NobodyHeld(h)

\* What follows a handler that checks shouldClose().
CheckShouldClose == pc' = IF ShouldClose(source', clients', held') THEN "teardown" ELSE "run"

\* setReady() when stream.New() succeeds.  The new stream replaces whatever
\* pa.stream held, so the readers of that one are left on a stale stream.
SetReady(st) ==
    [st EXCEPT !.live = TRUE,
               !.recordAgent = @ \/ conf.record,
               !.onNotReadyHook = "owed"]

\* setReady() when stream.New() fails: pa.stream is overwritten with nil.
SetReadyFails(st) == [st EXCEPT !.live = FALSE]

LoseStream(cl) == [cl EXCEPT !.stale = cl.attached]

\* setNotReady().  Calling the hook when it is nil, or a second time, panics
\* (nil function, close of a closed channel in externalcmd.Cmd.Close).
SetNotReady(st) ==
    [st EXCEPT !.live = FALSE,
               !.recordAgent = FALSE,
               !.onNotReadyHook = "spent",
               !.panic = @ \/ st.onNotReadyHook # "owed"]

\* Mutant of CloseReaders: the sessions are forgotten but not told.
CloseReadersSilently(cl) == [cl EXCEPT !.readers = {}, !.stale = cl.attached]

\* Mutant of CloseReaders: the sessions stay in pa.readers.
CloseReadersKeepsThem(cl) ==
    [cl EXCEPT !.told = @ \cup cl.readers, !.stale = cl.attached]

CloseReaders(cl) ==
    [cl EXCEPT !.told = @ \cup cl.readers,
               !.readers = {},
               !.stale = cl.attached]

\* staticSourceHandler.start() panics if it is already running, stop() if it
\* is not; stop() returns after the handler and its instance have ended.
HandlerStart(ss) == [ss EXCEPT !.running = TRUE, !.panic = @ \/ ss.running]

HandlerStop(ss) == [ss EXCEPT !.running = FALSE, !.setReady = FALSE, !.panic = @ \/ ~ss.running]

OnDemandStaticSourceStart(ss) ==
    [HandlerStart(ss) EXCEPT !.readyTimer = TRUE, !.state = "waitingReady"]

\* onDemandStaticSourceStop() and onDemandPublisherStop() disarm the close
\* timer only when they find it armed by the state.
OnDemandStaticSourceStop(ss) ==
    [HandlerStop(ss) EXCEPT !.closeTimer = @ /\ ss.state # "closing", !.state = "initial"]

OnDemandPublisherStart(od) ==
    [od EXCEPT !.hook = TRUE, !.readyTimer = TRUE, !.state = "waitingReady"]

\* onUnDemandHook must not be nil.
OnDemandPublisherStop(od) ==
    [od EXCEPT !.closeTimer = @ /\ od.state # "closing",
               !.panic = @ \/ ~od.hook,
               !.hook = FALSE,
               !.state = "initial"]

\* onDemandStaticSourceScheduleClose() and onDemandPublisherScheduleClose().
ScheduleClose(d) == [d EXCEPT !.closeTimer = TRUE, !.state = "closing"]

\* A reader has joined: a scheduled close is cancelled.
CancelClose(d) ==
    IF d.state = "closing" THEN [d EXCEPT !.state = "ready", !.closeTimer = FALSE] ELSE d

\* Mutant of ScheduleCloseIfReady: nothing happens when the last reader leaves.
NeverScheduleClose(d) == d

\* The last reader has left.
ScheduleCloseIfReady(d) == IF d.state = "ready" THEN ScheduleClose(d) ELSE d

\* The source or the publisher is ready: from here on the close timer runs.
StopReadyTimer(d) == [d EXCEPT !.readyTimer = FALSE]

\* addReaderPost() for the sessions rs, which get the current stream.
Admit(cl, rs) ==
    [cl EXCEPT !.readers = @ \cup rs, !.attached = @ \cup rs, !.stale = @ \ rs]

\* Mutant of Full: off by one.
FullOneTooLate(cl) == conf.maxReaders # 0 /\ Cardinality(cl.readers) > conf.maxReaders

Full(cl) == conf.maxReaders # 0 /\ Cardinality(cl.readers) >= conf.maxReaders

\* The first n requests on hold.
HeldUpTo(n) == {held.readerAddRequests[i] : i \in 1..n}

\* Mutant of Fitting: off by one.
FittingOneTooFew(cl) ==
    {held.readerAddRequests[i] : i \in
        {j \in DOMAIN held.readerAddRequests :
            \/ conf.maxReaders = 0
            \/ held.readerAddRequests[j] \in cl.readers
            \/ Cardinality(cl.readers \cup HeldUpTo(j)) < conf.maxReaders}}

\* consumeOnHoldRequests(): addReaderPost() on each request in order.  No
\* session is on hold twice (its call blocks), so the new readers that fit
\* under maxReaders are a prefix of the queue.
Fitting(cl) ==
    {held.readerAddRequests[i] : i \in
        {j \in DOMAIN held.readerAddRequests :
            \/ conf.maxReaders = 0
            \/ held.readerAddRequests[j] \in cl.readers
            \/ Cardinality(cl.readers \cup HeldUpTo(j)) <= conf.maxReaders}}

\* addReaderPost() for one session, and the loop of consumeOnHoldRequests() over
\* the requests in the order in which they were put on hold.
AddReaderPost(cl, r) ==
    IF r \in cl.readers \/ ~Full(cl) THEN Admit(cl, {r}) ELSE cl

ConsumeOnHold(cl) ==
    LET after[n \in 0..Len(held.readerAddRequests)] ==
            IF n = 0 THEN cl ELSE AddReaderPost(after[n - 1], held.readerAddRequests[n])
    IN  after[Len(held.readerAddRequests)]

-----------------------------------------------------------------------------
(***************************************************************************)
(* The cases of the select in runInner().                                  *)
(***************************************************************************)
\* Mutant of StaticReadyTimerFires: the requests on hold are not answered.
StaticReadyTimerForgetsHeld ==
    /\ Running /\ static.readyTimer
    /\ static' = OnDemandStaticSourceStop(StopReadyTimer(static))
    /\ UNCHANGED <<conf, source, stream, clients, held, demand, publisher, told>>
    /\ CheckShouldClose

\* doOnDemandStaticSourceReadyTimer()
StaticReadyTimerFires ==
    /\ Running /\ static.readyTimer
    /\ held' = NoneHeld
    /\ static' = OnDemandStaticSourceStop(StopReadyTimer(static))
    /\ UNCHANGED <<conf, source, stream, clients, demand, publisher, told>>
    /\ CheckShouldClose

\* doOnDemandStaticSourceCloseTimer()
StaticCloseTimerFires ==
    /\ Running /\ static.closeTimer
    /\ stream' = SetNotReady(stream)
    /\ clients' = CloseReaders(clients)
    /\ static' = OnDemandStaticSourceStop([static EXCEPT !.closeTimer = FALSE])
    /\ UNCHANGED <<conf, source, held, demand, publisher, told>>
    /\ CheckShouldClose

\* doOnDemandPublisherReadyTimer()
PublisherReadyTimerFires ==
    /\ Running /\ demand.readyTimer
    /\ held' = NoneHeld
    /\ demand' = OnDemandPublisherStop(StopReadyTimer(demand))
    /\ UNCHANGED <<conf, source, stream, clients, static, publisher, told>>
    /\ CheckShouldClose

\* doOnDemandPublisherCloseTimer(), the only timer without shouldClose().
PublisherCloseTimerFires ==
    /\ Running /\ demand.closeTimer
    /\ demand' = OnDemandPublisherStop([demand EXCEPT !.closeTimer = FALSE])
    /\ UNCHANGED <<conf, pc, source, stream, clients, held, static, publisher, told>>

\* Mutant of ReloadConf: sourceOnDemand is updated in place too.
ReloadConfChangesSource(record) ==
    /\ Running
    /\ conf' = [conf EXCEPT !.record = record, !.sourceOnDemand = record]
    /\ stream' = [stream EXCEPT !.recordAgent = record /\ (@ \/ stream.live)]
    /\ UNCHANGED <<pc, source, clients, held, static, demand, publisher, told>>

\* Mutant of ReloadConf: the recorder is started whether or not there is a
\* stream.
ReloadConfRecordsNothing(record) ==
    /\ Running
    /\ conf' = [conf EXCEPT !.record = record]
    /\ stream' = [stream EXCEPT !.recordAgent = record]
    /\ UNCHANGED <<pc, source, clients, held, static, demand, publisher, told>>

\* doReloadConf(); of the settings kept here, pathConfCanBeUpdated() lets
\* only record change on a live path.
ReloadConf(record) ==
    /\ Running
    /\ conf' = [conf EXCEPT !.record = record]
    /\ stream' = [stream EXCEPT !.recordAgent = record /\ (@ \/ stream.live)]
    /\ UNCHANGED <<pc, source, clients, held, static, demand, publisher, told>>

\* The instance of the static source calls SetReady after it was started or
\* after it reported not ready; an SRT source, which never reports, calls it
\* again whenever it has been restarted.  StaticSourceHandler shows that the
\* handler delivers the calls of a reporting source in this alternation.
MayCallSetReady == static.running /\ (~static.setReady \/ conf.source = "srt")

\* doSourceStaticSetReady()
StaticSourceSetReady ==
    LET cl      == LoseStream(clients)
        ready   == [static EXCEPT !.setReady = TRUE]
        closing == ScheduleClose(StopReadyTimer(ready))
    IN  /\ Running /\ MayCallSetReady
        /\ stream' = SetReady(stream)
        /\ clients' = Admit(cl, Fitting(cl))
        /\ held' = NoneHeld
        /\ static' = IF ~HasOnDemandStaticSource(conf) THEN ready
                     ELSE IF Fitting(cl) = {} THEN closing ELSE CancelClose(closing)
        /\ UNCHANGED <<conf, pc, source, demand, publisher, told>>

StaticSourceSetReadyFails ==
    /\ Running /\ MayCallSetReady
    /\ stream' = SetReadyFails(stream)
    /\ clients' = LoseStream(clients)
    /\ UNCHANGED <<conf, pc, source, held, static, demand, publisher, told>>

\* doSourceStaticSetNotReady()
StaticSourceSetNotReady ==
    LET ss == [static EXCEPT !.setReady = FALSE]
    IN  /\ Running /\ static.running /\ static.setReady
        /\ conf.source # "srt"
        /\ stream' = SetNotReady(stream)
        /\ clients' = CloseReaders(clients)
        /\ static' = IF HasOnDemandStaticSource(conf) /\ static.state # "initial"
                     THEN OnDemandStaticSourceStop(ss) ELSE ss
        /\ UNCHANGED <<conf, source, held, demand, publisher, told>>
        /\ CheckShouldClose

OnDemand == HasOnDemandStaticSource(conf) \/ HasOnDemandPublisher(conf)

\* The part that doDescribe() and doAddReader() share when a request goes on
\* hold: start the source or the command unless somebody did.
StartOnDemand ==
    /\ static' = IF HasOnDemandStaticSource(conf) /\ static.state = "initial"
                 THEN OnDemandStaticSourceStart(static) ELSE static
    /\ demand' = IF ~HasOnDemandStaticSource(conf) /\ demand.state = "initial"
                 THEN OnDemandPublisherStart(demand) ELSE demand

\* doDescribe().  A redirect, a stream, a fallback and an error are immediate
\* answers; otherwise the request goes on hold.
DescribeAnswers(d) ==
    /\ Running /\ d \notin held.describeRequests
    /\ source = "redirect" \/ stream.live \/ ~OnDemand
    /\ UNCHANGED <<conf, source, stream, clients, held, static, demand, publisher, told>>
    /\ CheckShouldClose

DescribeHolds(d) ==
    /\ Running /\ d \notin held.describeRequests
    /\ source # "redirect" /\ ~stream.live /\ OnDemand
    /\ StartOnDemand
    /\ held' = [held EXCEPT !.describeRequests = @ \cup {d}]
    /\ UNCHANGED <<conf, source, stream, clients, publisher, told>>
    /\ CheckShouldClose

\* Mutant of AddReaderJoins: the scheduled close of the source stands.
AddReaderJoinsUnnoticed(r) ==
    /\ Running /\ r \notin OnHold
    /\ stream.live
    /\ r \notin clients.readers /\ ~Full(clients)
    /\ clients' = Admit(clients, {r})
    /\ UNCHANGED <<conf, source, stream, held, static, demand, publisher, told>>
    /\ CheckShouldClose

\* doAddReader() with a stream: addReaderPost().  A session may ask again while
\* it is attached (SETUP of a second media).
AddReaderJoins(r) ==
    /\ Running /\ r \notin OnHold
    /\ stream.live
    /\ r \notin clients.readers /\ ~Full(clients)
    /\ clients' = Admit(clients, {r})
    /\ static' = IF HasOnDemandStaticSource(conf) THEN CancelClose(static) ELSE static
    /\ demand' = IF ~HasOnDemandStaticSource(conf) /\ HasOnDemandPublisher(conf)
                 THEN CancelClose(demand) ELSE demand
    /\ UNCHANGED <<conf, source, stream, held, publisher, told>>
    /\ CheckShouldClose

AddReaderHolds(r) ==
    /\ Running /\ r \notin OnHold
    /\ ~stream.live /\ OnDemand
    /\ StartOnDemand
    /\ held' = [held EXCEPT !.readerAddRequests = Append(@, r)]
    /\ UNCHANGED <<conf, source, stream, clients, publisher, told>>
    /\ CheckShouldClose

\* Already a reader (it is given the current stream again), too many readers,
\* or nobody is publishing.
AddReaderAnswers(r) ==
    /\ Running /\ r \notin OnHold
    /\ IF stream.live THEN r \in clients.readers \/ Full(clients) ELSE ~OnDemand
    /\ clients' = IF stream.live /\ r \in clients.readers THEN Admit(clients, {r}) ELSE clients
    /\ UNCHANGED <<conf, source, stream, held, static, demand, publisher, told>>
    /\ CheckShouldClose

Forget(cl, r) ==
    [readers |-> cl.readers \ {r}, attached |-> cl.attached \ {r},
     stale |-> cl.stale \ {r}, told |-> cl.told \ {r}]

\* doRemoveReader(), which is not followed by shouldClose(); the call comes
\* once per session, whether or not the path still has it among its readers.
RemoveReader(r) ==
    LET last == clients.readers \subseteq {r}
    IN  /\ Running /\ r \in clients.attached \ OnHold
        /\ clients' = Forget(clients, r)
        /\ static' = IF last /\ HasOnDemandStaticSource(conf)
                     THEN ScheduleCloseIfReady(static) ELSE static
        /\ demand' = IF last /\ ~HasOnDemandStaticSource(conf) /\ HasOnDemandPublisher(conf)
                     THEN ScheduleCloseIfReady(demand) ELSE demand
        /\ UNCHANGED <<conf, pc, source, stream, held, publisher, told>>

\* Mutant of AddPublisher: setNotReady() also when the previous publisher had
\* not started.
AddPublisherAlwaysNotReady(p) ==
    /\ Running /\ publisher[p] = "idle"
    /\ conf.source = "publisher"
    /\ source = "nil" \/ conf.overridePublisher
    /\ pc' = "run"
    /\ source' = p
    /\ told' = told \cup ({source} \cap Publishers)
    /\ stream' = IF source # "nil" THEN SetNotReady(stream) ELSE stream
    /\ clients' = IF source # "nil" THEN CloseReaders(clients) ELSE clients
    /\ publisher' = [publisher EXCEPT ![p] = "added"]
    /\ UNCHANGED <<conf, held, static, demand>>

\* Mutant of AddPublisher: the previous publisher is not told to close.
AddPublisherSilently(p) ==
    /\ Running /\ publisher[p] = "idle"
    /\ conf.source = "publisher"
    /\ source = "nil" \/ conf.overridePublisher
    /\ pc' = "run"
    /\ source' = p
    /\ stream' = IF stream.live THEN SetNotReady(stream) ELSE stream
    /\ clients' = IF stream.live THEN CloseReaders(clients) ELSE clients
    /\ publisher' = [publisher EXCEPT ![p] = "added"]
    /\ UNCHANGED <<conf, held, static, demand, told>>

\* doAddPublisher() when it accepts: an existing publisher is told to close
\* and removed first.
AddPublisher(p) ==
    /\ Running /\ publisher[p] = "idle"
    /\ conf.source = "publisher"
    /\ source = "nil" \/ conf.overridePublisher
    /\ pc' = "run"
    /\ source' = p
    /\ told' = told \cup ({source} \cap Publishers)
    /\ stream' = IF stream.live THEN SetNotReady(stream) ELSE stream
    /\ clients' = IF stream.live THEN CloseReaders(clients) ELSE clients
    /\ publisher' = [publisher EXCEPT ![p] = "added"]
    /\ UNCHANGED <<conf, held, static, demand>>

AddPublisherFails(p) ==
    /\ Running /\ publisher[p] = "idle"
    /\ \/ conf.source # "publisher"
       \/ source # "nil" /\ ~conf.overridePublisher
    /\ pc' = "run"
    /\ UNCHANGED <<conf, source, stream, clients, held, static, demand, publisher, told>>

\* Mutant of RemovePublisher: the stream outlives its publisher.
RemovePublisherKeepsStream(p) ==
    /\ Running /\ publisher[p] # "idle"
    /\ source' = IF source = p THEN "nil" ELSE source
    /\ publisher' = [publisher EXCEPT ![p] = "idle"]
    /\ told' = told \ {p}
    /\ UNCHANGED <<conf, stream, clients, held, static, demand>>
    /\ CheckShouldClose

\* doRemovePublisher(): a publisher that was overridden changes nothing.
RemovePublisher(p) ==
    /\ Running /\ publisher[p] # "idle"
    /\ source' = IF source = p THEN "nil" ELSE source
    /\ stream' = IF source = p /\ stream.live THEN SetNotReady(stream) ELSE stream
    /\ clients' = IF source = p /\ stream.live THEN CloseReaders(clients) ELSE clients
    /\ publisher' = [publisher EXCEPT ![p] = "idle"]
    /\ told' = told \ {p}
    /\ UNCHANGED <<conf, held, static, demand>>
    /\ CheckShouldClose

\* Mutant of StartPublisher: a publisher that was overridden may start.
StartPublisherOverridden(p) ==
    /\ Running /\ publisher[p] = "added"
    /\ stream' = SetReady(stream)
    /\ clients' = LoseStream(clients)
    /\ publisher' = [publisher EXCEPT ![p] = "publishing"]
    /\ UNCHANGED <<conf, pc, source, held, static, demand, told>>

\* doStartPublisher(); a publisher that was overridden gets an error.
StartPublisher(p) ==
    LET cl == LoseStream(clients)
        od == IF HasOnDemandPublisher(conf) /\ demand.state # "initial"
              THEN ScheduleClose(StopReadyTimer(demand)) ELSE demand
    IN  /\ Running /\ publisher[p] = "added" /\ source = p
        /\ stream' = SetReady(stream)
        /\ clients' = Admit(cl, Fitting(cl))
        /\ held' = NoneHeld
        /\ demand' = IF Fitting(cl) # {} /\ HasOnDemandPublisher(conf) THEN CancelClose(od) ELSE od
        /\ publisher' = [publisher EXCEPT ![p] = "publishing"]
        /\ UNCHANGED <<conf, pc, source, static, told>>

StartPublisherFails(p) ==
    /\ Running /\ publisher[p] = "added" /\ source = p
    /\ stream' = SetReadyFails(stream)
    /\ clients' = LoseStream(clients)
    /\ UNCHANGED <<conf, pc, source, held, static, demand, publisher, told>>

\* doStopPublisher(): PAUSE of an RTSP session that is recording.
StopPublisher(p) ==
    LET live == source = p /\ stream.live
    IN  /\ Running /\ publisher[p] = "publishing"
        /\ stream' = IF live THEN SetNotReady(stream) ELSE stream
        /\ clients' = IF live THEN CloseReaders(clients) ELSE clients
        /\ publisher' = [publisher EXCEPT ![p] = "added"]
        /\ UNCHANGED <<conf, source, held, static, demand, told>>
        /\ CheckShouldClose

\* The context of the path is cancelled by the path manager.
Terminate ==
    /\ Running
    /\ pc' = "teardown"
    /\ UNCHANGED <<conf, source, stream, clients, held, static, demand, publisher, told>>

-----------------------------------------------------------------------------
\* Mutant of Teardown: the runOnDemand command is left running.
TeardownKeepsCommand ==
    /\ pc = "teardown"
    /\ pc' = "closed"
    /\ held' = NoneHeld
    /\ stream' = IF stream.live THEN SetNotReady(stream) ELSE stream
    /\ clients' = IF stream.live THEN CloseReaders(clients) ELSE clients
    /\ LET ss == [static EXCEPT !.readyTimer = FALSE, !.closeTimer = FALSE]
       IN  static' = IF source = "static" /\ (~conf.sourceOnDemand \/ static.state # "initial")
                     THEN HandlerStop(ss) ELSE ss
    /\ demand' = [demand EXCEPT !.readyTimer = FALSE, !.closeTimer = FALSE]
    /\ told' = told \cup ({source} \cap Publishers)
    /\ UNCHANGED <<conf, source, publisher>>

\* The part of run() that follows runInner().
Teardown ==
    /\ pc = "teardown"
    /\ pc' = "closed"
    /\ held' = NoneHeld
    /\ stream' = IF stream.live THEN SetNotReady(stream) ELSE stream
    /\ clients' = IF stream.live THEN CloseReaders(clients) ELSE clients
    /\ LET ss == [static EXCEPT !.readyTimer = FALSE, !.closeTimer = FALSE]
       IN  static' = IF source = "static" /\ (~conf.sourceOnDemand \/ static.state # "initial")
                     THEN HandlerStop(ss) ELSE ss
    /\ demand' = [demand EXCEPT !.readyTimer = FALSE, !.closeTimer = FALSE, !.hook = FALSE]
    /\ told' = told \cup ({source} \cap Publishers)
    /\ UNCHANGED <<conf, source, publisher>>

\* Once the context of the path is cancelled, calls return at once.
LeaveClosedPath(r) ==
    /\ ~Running /\ r \in clients.attached \ OnHold
    /\ clients' = [clients EXCEPT !.attached = @ \ {r}, !.stale = @ \ {r}, !.told = @ \ {r}]
    /\ UNCHANGED <<conf, pc, source, stream, held, static, demand, publisher, told>>

UnpublishClosedPath(p) ==
    /\ ~Running /\ publisher[p] # "idle"
    /\ publisher' = [publisher EXCEPT ![p] = "idle"]
    /\ told' = told \ {p}
    /\ UNCHANGED <<conf, pc, source, stream, clients, held, static, demand>>

-----------------------------------------------------------------------------
TimerStep ==
    \/ StaticReadyTimerFires
    \/ StaticCloseTimerFires
    \/ PublisherReadyTimerFires
    \/ PublisherCloseTimerFires

SourceStep ==
    \/ StaticSourceSetReady
    \/ StaticSourceSetReadyFails
    \/ StaticSourceSetNotReady

ReaderStep(r) ==
    \/ AddReaderJoins(r)
    \/ AddReaderHolds(r)
    \/ AddReaderAnswers(r)
    \/ RemoveReader(r)
    \/ LeaveClosedPath(r)

PublisherStep(p) ==
    \/ AddPublisher(p)
    \/ AddPublisherFails(p)
    \/ RemovePublisher(p)
    \/ StartPublisher(p)
    \/ StartPublisherFails(p)
    \/ StopPublisher(p)
    \/ UnpublishClosedPath(p)

Next ==
    \/ TimerStep
    \/ SourceStep
    \/ \E record \in BOOLEAN : ReloadConf(record)
    \/ \E d \in Describers : DescribeAnswers(d) \/ DescribeHolds(d)
    \/ \E r \in Readers : ReaderStep(r)
    \/ \E p \in Publishers : PublisherStep(p)
    \/ Terminate
    \/ Teardown

Spec == Init /\ [][Next]_vars

(***************************************************************************)
(* Fairness.  A timer that is armed and not stopped fires; the goroutine   *)
(* of the path runs on once runInner() has returned; a session that the    *)
(* path has told to close ends and calls RemoveReader or RemovePublisher,  *)
(* as every server does in the tail of its session goroutine.  Nothing     *)
(* makes a source or a publisher become ready.                             *)
(***************************************************************************)
Fairness ==
    /\ WF_vars(StaticReadyTimerFires)
    /\ WF_vars(StaticCloseTimerFires)
    /\ WF_vars(PublisherReadyTimerFires)
    /\ WF_vars(PublisherCloseTimerFires)
    /\ WF_vars(Teardown)
    /\ \A r \in Readers : WF_vars(r \in clients.told /\ (RemoveReader(r) \/ LeaveClosedPath(r)))
    /\ \A p \in Publishers : WF_vars(p \in told /\ (RemovePublisher(p) \/ UnpublishClosedPath(p)))

FairSpec == Spec /\ Fairness
-----------------------------------------------------------------------------
(***************************************************************************)
(* Properties.                                                             *)
(***************************************************************************)
\* The fields of struct path keep their types.
TypeOK ==
    /\ conf \in PathConf /\ ValidConf(conf)
    /\ pc \in Control
    /\ source \in Publishers \cup {"nil", "redirect", "static"}
    /\ stream \in Stream
    /\ clients \in Clients
    /\ held \in Held
    /\ static \in Static
    /\ demand \in Demand
    /\ publisher \in [Publishers -> {"idle", "added", "publishing"}]
    /\ told \subseteq Publishers

\* No sequence of requests, timers and source events reaches one of the
\* panics of the code: staticSourceHandler.start() while running, stop() while
\* stopped, onNotReadyHook or onUnDemandHook called when nil or spent.
NoPanic == ~stream.panic /\ ~static.panic /\ ~demand.panic

\* Whether the source obeys the SetReady / SetNotReady protocol: the SRT
\* source never calls SetNotReady.
ReportsNotReady == conf.source # "srt"

\* What kind of source a path has follows its configuration, and what the
\* configuration does not use stays as it was created.
SourceMatchesConf ==
    /\ source = "static" <=> HasStaticSource(conf)
    /\ source = "redirect" <=> conf.source = "redirect"
    /\ ~HasStaticSource(conf) => ~static.running
    /\ ~HasOnDemandStaticSource(conf) => static.state = "initial"
    /\ ~HasOnDemandPublisher(conf) => demand.state = "initial"
    /\ static.setReady => static.running /\ static.state # "waitingReady"

\* Whoever will call setNotReady() finds the not-ready hook in place: the tail
\* of run(), the close timer of an on-demand source, a source that reports.
HookInPlace ==
    /\ stream.live => stream.onNotReadyHook = "owed"
    /\ pc # "closed" /\ static.state \in {"ready", "closing"} => stream.onNotReadyHook = "owed"
    /\ pc # "closed" /\ static.setReady => stream.onNotReadyHook = "owed"

\* The timers and the on-demand state machines agree: a ready timer is armed
\* exactly in "waitingReady" and a close timer exactly in "closing".
TimersMatchState ==
    Running =>
        /\ static.readyTimer <=> static.state = "waitingReady"
        /\ static.closeTimer <=> static.state = "closing"
        /\ demand.readyTimer <=> demand.state = "waitingReady"
        /\ demand.closeTimer <=> demand.state = "closing"

\* What was started on demand runs exactly while its state machine is not
\* initial: a source or a runOnDemand command is never left behind, and never
\* stopped under a state machine that believes it is up.
DemandMatchesState ==
    pc # "closed" =>
        /\ source = "static" =>
              (static.running <=> ~conf.sourceOnDemand \/ static.state # "initial")
        /\ demand.hook <=> demand.state # "initial"

\* The inductive invariant behind NoPanic.
PanicInv ==
    /\ TypeOK
    /\ NoPanic
    /\ SourceMatchesConf
    /\ HookInPlace
    /\ TimersMatchState
    /\ DemandMatchesState

\* A stream exists exactly while its source is sending: the static source that
\* last called SetReady, or the publisher that owns the path and has started.
StreamMatchesSource ==
    Running /\ ReportsNotReady =>
        (stream.live <=>
            \/ source = "static" /\ static.running /\ static.setReady
            \/ source \in Publishers /\ publisher[source] = "publishing")

\* Everything that setReady() sets up is torn down with the stream: the
\* not-ready hook is owed exactly while there is a stream, and the recorder
\* exists exactly while there is a stream that the configuration says to
\* record, whatever the order of reloads and source events.
ReadyEffectsMatchStream ==
    ReportsNotReady =>
        /\ stream.onNotReadyHook = "owed" <=> stream.live
        /\ stream.recordAgent <=> stream.live /\ conf.record

\* No reader is left on a stream that is gone: a session that holds a stream
\* other than the current one has been told to close.
NoOrphanReader == ReportsNotReady => clients.stale \subseteq clients.told

\* The path's list of readers is exactly the set of sessions that hold the
\* current stream (while the path is being destroyed, those that have not left
\* by themselves).
ReadersHoldStream ==
    ReportsNotReady =>
        /\ Running => clients.readers \subseteq clients.attached \ clients.stale
        /\ clients.attached \ clients.stale \subseteq clients.readers
        /\ clients.readers # {} => stream.live

\* A session that believes it is publishing either owns the path or has been
\* told to close (it was overridden, or the path was destroyed).
NoOrphanPublisher ==
    \A p \in Publishers :
        publisher[p] # "idle" => (pc # "closed" /\ p = source) \/ p \in told

\* An on-demand source or command is scheduled to close only when nobody
\* reads; a source that is up for readers has some; a command that is up for
\* readers will see one of them leave.
CloseOnlyWhenUnused ==
    Running /\ ReportsNotReady =>
        /\ "closing" \in {static.state, demand.state} => clients.readers = {}
        /\ static.state = "ready" => clients.readers # {}
        /\ demand.state = "ready" => clients.attached # {}

\* maxReaders is never exceeded, in particular not when several requests on
\* hold are admitted at once.
MaxReadersRespected ==
    conf.maxReaders # 0 => Cardinality(clients.readers) <= conf.maxReaders

\* Requests are on hold only while there is no stream to give them, and a
\* static source that has requests on hold is starting under its timer.
HeldOnlyWhileStarting ==
    ReportsNotReady /\ ~NobodyHeld(held) =>
        /\ OnDemand /\ ~stream.live
        /\ HasOnDemandStaticSource(conf) => static.state = "waitingReady"

\* A path created from a regular expression closes as soon as it has been used
\* and has neither a source nor a request on hold.
NoIdleDynamicPath ==
    pc = "run" /\ conf.regexp /\ source = "nil" => ~NobodyHeld(held)

\* A path that was destroyed leaves nothing behind: no source, no command, no
\* stream, no recorder, no session that was not told to close.
ClosedIsClean ==
    pc = "closed" =>
        /\ ~static.running /\ ~demand.hook /\ NobodyHeld(held)
        /\ ReportsNotReady => ~stream.live /\ ~stream.recordAgent
        /\ ReportsNotReady => clients.attached \subseteq clients.told

\* When setReady() answers the requests on hold, Fitting() admits exactly the
\* sessions that the loop admits, and leaves them as the loop does.
FittingIsLoop ==
    LET cl == LoseStream(clients)
    IN  Running => Admit(cl, Fitting(cl)) = ConsumeOnHold(cl)

\* The inductive invariant behind the properties of streams and sessions.
StreamInv ==
    /\ PanicInv
    /\ StreamMatchesSource
    /\ ReadyEffectsMatchStream
    /\ NoOrphanReader
    /\ ReadersHoldStream
    /\ NoOrphanPublisher
    /\ CloseOnlyWhenUnused
    /\ HeldOnlyWhileStarting
    /\ NoIdleDynamicPath
    /\ ClosedIsClean

Contract == INSTANCE PathContract WITH
    Sessions <- Readers,
    open     <- pc # "closed",
    ready    <- stream.live,
    readers  <- clients.readers,
    waiting  <- OnHold,
    limit    <- conf.maxReaders

\* Whatever its source is, a path keeps the promise of PathContract to the
\* sessions that read from it (provided that the source reports when it stops
\* being ready, which the SRT source does not).
KeepsContract == Contract!Spec

\* mediamtx.yml on runOnDemandStartTimeout: "Readers will be put on hold until
\* the runOnDemand command starts publishing or until this amount of time has
\* passed."  No reader is on hold for ever.
HoldAnswered == \A r \in Readers : r \in OnHold ~> r \notin OnHold

\* A request that is on hold while the source or the command is starting is
\* answered: by the stream, by the start timeout or by the end of the path.
StartingHoldAnswered ==
    \A r \in Readers :
        r \in OnHold /\ (static.readyTimer \/ demand.readyTimer) ~> r \notin OnHold

\* An on-demand source or command that nobody reads or waits for is eventually
\* stopped, unless publishers keep coming and going (each start re-arms the
\* close timer).
UnusedIsStopped ==
    \/ []<>(OnDemand /\ clients.readers = {} /\ NobodyHeld(held) => ~static.running /\ ~demand.hook)
    \/ []<><<publisher' # publisher>>_vars
=============================================================================
