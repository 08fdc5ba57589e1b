----------------------------- MODULE PathProofs -----------------------------
(***************************************************************************)
(* Theorems about Path, for every set of sessions and every configuration: *)
(* the types and the panics of the handlers, the stream, the limit on      *)
(* readers, and the promise of a path to its readers: Path implements      *)
(* PathContract when its source reports that it stops being ready.         *)
(***************************************************************************)
EXTENDS Path, FiniteSetTheorems, WellFoundedInduction, TLAPS

\* The helpers of setReady() and setNotReady() keep the type of the stream.
LEMMA StreamOps ==
    ASSUME NEW st \in Stream, conf \in PathConf
    PROVE  /\ SetReady(st) \in Stream
           /\ SetReadyFails(st) \in Stream
           /\ SetNotReady(st) \in Stream
BY DEF Stream, PathConf, SetReady, SetReadyFails, SetNotReady

\* The helpers that move readers keep the type of the clients.
LEMMA ClientOps ==
    ASSUME NEW cl \in Clients
    PROVE  /\ LoseStream(cl) \in Clients
           /\ CloseReaders(cl) \in Clients
           /\ \A rs \in SUBSET Readers : Admit(cl, rs) \in Clients
           /\ \A r \in Readers : Forget(cl, r) \in Clients
BY DEF Clients, LoseStream, CloseReaders, Admit, Forget

\* The helpers of the on-demand static source keep its type.
LEMMA StaticOps ==
    ASSUME NEW ss \in Static
    PROVE  /\ HandlerStart(ss) \in Static
           /\ HandlerStop(ss) \in Static
           /\ OnDemandStaticSourceStart(ss) \in Static
           /\ OnDemandStaticSourceStop(ss) \in Static
           /\ ScheduleClose(ss) \in Static
           /\ CancelClose(ss) \in Static
           /\ ScheduleCloseIfReady(ss) \in Static
           /\ StopReadyTimer(ss) \in Static
           /\ [ss EXCEPT !.closeTimer = FALSE] \in Static
           /\ [ss EXCEPT !.setReady = TRUE] \in Static
           /\ [ss EXCEPT !.setReady = FALSE] \in Static
<1>1. HandlerStart(ss) \in Static /\ HandlerStop(ss) \in Static
  BY DEF Static, HandlerStart, HandlerStop
<1>2. OnDemandStaticSourceStart(ss) \in Static
  BY <1>1 DEF Static, OnDemandStaticSourceStart, OnDemandState
<1>3. OnDemandStaticSourceStop(ss) \in Static
  BY <1>1 DEF Static, OnDemandStaticSourceStop, OnDemandState
<1>4. ScheduleClose(ss) \in Static /\ CancelClose(ss) \in Static
  BY DEF Static, ScheduleClose, CancelClose, OnDemandState
<1>5. ScheduleCloseIfReady(ss) \in Static
  BY <1>4 DEF ScheduleCloseIfReady
<1> QED
  BY <1>1, <1>2, <1>3, <1>4, <1>5, ZenonT(40) DEF Static, StopReadyTimer

\* The helpers of the runOnDemand command keep its type.
LEMMA DemandOps ==
    ASSUME NEW od \in Demand
    PROVE  /\ OnDemandPublisherStart(od) \in Demand
           /\ OnDemandPublisherStop(od) \in Demand
           /\ ScheduleClose(od) \in Demand
           /\ CancelClose(od) \in Demand
           /\ ScheduleCloseIfReady(od) \in Demand
           /\ StopReadyTimer(od) \in Demand
           /\ [od EXCEPT !.closeTimer = FALSE] \in Demand
<1>1. OnDemandPublisherStart(od) \in Demand
  BY DEF Demand, OnDemandPublisherStart, OnDemandState
<1>2. OnDemandPublisherStop(od) \in Demand
  BY DEF Demand, OnDemandPublisherStop, OnDemandState
<1>3. ScheduleClose(od) \in Demand /\ CancelClose(od) \in Demand
  BY DEF Demand, ScheduleClose, CancelClose, OnDemandState
<1>4. ScheduleCloseIfReady(od) \in Demand
  BY <1>3 DEF ScheduleCloseIfReady
<1> QED
  BY <1>1, <1>2, <1>3, <1>4 DEF Demand, StopReadyTimer

\* consumeOnHoldRequests() admits sessions that were on hold.
LEMMA FittingType ==
    ASSUME held \in Held, NEW cl
    PROVE  Fitting(cl) \in SUBSET Readers
<1> SUFFICES ASSUME NEW r \in Fitting(cl) PROVE r \in Readers
  OBVIOUS
<1>1. PICK i \in DOMAIN held.readerAddRequests : r = held.readerAddRequests[i]
  BY DEF Fitting
<1>2. held.readerAddRequests \in Seq(Readers)
  BY DEF Held
<1> QED
  BY <1>1, <1>2

\* Putting a request on hold, or answering all of them, keeps the type.
LEMMA HeldOps ==
    /\ NoneHeld \in Held
    /\ held \in Held =>
          /\ \A r \in Readers : [held EXCEPT !.readerAddRequests = Append(@, r)] \in Held
          /\ \A d \in Describers : [held EXCEPT !.describeRequests = @ \cup {d}] \in Held
BY DEF Held, NoneHeld

\* Starting what is on demand keeps the types of both state machines.
LEMMA StartOnDemandType ==
    ASSUME TypeOK, StartOnDemand
    PROVE  static' \in Static /\ demand' \in Demand
BY StaticOps, DemandOps DEF TypeOK, StartOnDemand

\* initialize() establishes the types.
LEMMA InitType == Init => TypeOK
<1> SUFFICES ASSUME Init PROVE TypeOK
  OBVIOUS
<1>1. conf \in PathConf /\ ValidConf(conf)
  BY ConfsAssumption DEF Init
<1>2. source \in Publishers \cup {"nil", "redirect", "static"}
  BY DEF Init
<1>3. stream \in Stream /\ clients \in Clients /\ held \in Held
  BY DEF Init, Stream, Clients, Held
<1>4. static \in Static
  <2>1. (HasStaticSource(conf) /\ ~conf.sourceOnDemand) \in BOOLEAN
    OBVIOUS
  <2> QED
    BY <2>1 DEF Init, Static, OnDemandState
<1>5. demand \in Demand
  BY DEF Init, Demand, OnDemandState
<1> QED
  BY <1>1, <1>2, <1>3, <1>4, <1>5 DEF Init, TypeOK, Control

\* Every step keeps the types.
LEMMA NextType == TypeOK /\ [Next]_vars => TypeOK'
<1> SUFFICES ASSUME TypeOK, [Next]_vars PROVE TypeOK'
  OBVIOUS
<1> USE DEF TypeOK
<1>1. conf \in PathConf /\ held \in Held /\ stream \in Stream
  OBVIOUS
<1>2. CASE StaticReadyTimerFires
  BY <1>2, StaticOps, HeldOps DEF StaticReadyTimerFires, CheckShouldClose, Control
<1>3. CASE StaticCloseTimerFires
  BY <1>3, StaticOps, StreamOps, ClientOps DEF StaticCloseTimerFires, CheckShouldClose, Control
<1>4. CASE PublisherReadyTimerFires
  BY <1>4, DemandOps, HeldOps DEF PublisherReadyTimerFires, CheckShouldClose, Control
<1>5. CASE PublisherCloseTimerFires
  BY <1>5, DemandOps DEF PublisherCloseTimerFires
<1>6. ASSUME NEW record \in BOOLEAN, ReloadConf(record) PROVE TypeOK'
  <2>1. conf' \in PathConf /\ ValidConf(conf')
    BY <1>6 DEF ReloadConf, PathConf, ValidConf, HasStaticSource
  <2>2. stream' \in Stream
    BY <1>6 DEF ReloadConf, Stream
  <2> QED
    BY <1>6, <2>1, <2>2 DEF ReloadConf
<1>7. CASE StaticSourceSetReady
  <2>1. clients' \in Clients /\ stream' \in Stream
    BY <1>7, StreamOps, ClientOps, FittingType DEF StaticSourceSetReady
  <2>2. static' \in Static
    BY <1>7, StaticOps DEF StaticSourceSetReady
  <2> QED
    BY <1>7, <2>1, <2>2, HeldOps DEF StaticSourceSetReady
<1>8. CASE StaticSourceSetReadyFails
  BY <1>8, StreamOps, ClientOps DEF StaticSourceSetReadyFails
<1>9. CASE StaticSourceSetNotReady
  BY <1>9, StaticOps, StreamOps, ClientOps DEF StaticSourceSetNotReady, CheckShouldClose, Control
<1>10. ASSUME NEW d \in Describers, DescribeAnswers(d) \/ DescribeHolds(d) PROVE TypeOK'
  BY <1>10, StartOnDemandType, HeldOps DEF DescribeAnswers, DescribeHolds, CheckShouldClose, Control
<1>11. ASSUME NEW r \in Readers, ReaderStep(r) PROVE TypeOK'
  <2>1. CASE AddReaderJoins(r)
    BY <2>1, ClientOps, StaticOps, DemandOps DEF AddReaderJoins, CheckShouldClose, Control
  <2>2. CASE AddReaderHolds(r)
    BY <2>2, StartOnDemandType, HeldOps DEF AddReaderHolds, CheckShouldClose, Control
  <2>3. CASE AddReaderAnswers(r)
    BY <2>3, ClientOps DEF AddReaderAnswers, CheckShouldClose, Control
  <2>4. CASE RemoveReader(r)
    BY <2>4, ClientOps, StaticOps, DemandOps DEF RemoveReader
  <2>5. CASE LeaveClosedPath(r)
    BY <2>5 DEF LeaveClosedPath, Clients
  <2> QED
    BY <1>11, <2>1, <2>2, <2>3, <2>4, <2>5 DEF ReaderStep
<1>12. ASSUME NEW p \in Publishers, PublisherStep(p) PROVE TypeOK'
  <2>1. CASE AddPublisher(p)
    BY <2>1, StreamOps, ClientOps DEF AddPublisher, Control
  <2>2. CASE AddPublisherFails(p)
    BY <2>2 DEF AddPublisherFails, Control
  <2>3. CASE RemovePublisher(p)
    BY <2>3, StreamOps, ClientOps DEF RemovePublisher, CheckShouldClose, Control
  <2>4. CASE StartPublisher(p)
    <3>1. clients' \in Clients /\ stream' \in Stream
      BY <2>4, StreamOps, ClientOps, FittingType DEF StartPublisher
    <3>2. demand' \in Demand
      BY <2>4, DemandOps DEF StartPublisher
    <3> QED
      BY <2>4, <3>1, <3>2, HeldOps DEF StartPublisher
  <2>5. CASE StartPublisherFails(p)
    BY <2>5, StreamOps, ClientOps DEF StartPublisherFails
  <2>6. CASE StopPublisher(p)
    BY <2>6, StreamOps, ClientOps DEF StopPublisher, CheckShouldClose, Control
  <2>7. CASE UnpublishClosedPath(p)
    BY <2>7 DEF UnpublishClosedPath
  <2> QED
    BY <1>12, <2>1, <2>2, <2>3, <2>4, <2>5, <2>6, <2>7 DEF PublisherStep
<1>13. CASE Terminate
  BY <1>13 DEF Terminate, Control
<1>14. CASE Teardown
  <2>1. stream' \in Stream /\ clients' \in Clients
    BY <1>14, StreamOps, ClientOps DEF Teardown
  <2>2. [static EXCEPT !.readyTimer = FALSE, !.closeTimer = FALSE] \in Static
    BY DEF Static
  <2>3. static' \in Static
    BY <1>14, <2>2, StaticOps DEF Teardown
  <2>4. demand' \in Demand
    BY <1>14 DEF Teardown, Demand
  <2> QED
    BY <1>14, <2>1, <2>3, <2>4, HeldOps DEF Teardown, Control
<1>15. CASE UNCHANGED vars
  BY <1>15 DEF vars
<1> QED
  BY <1>2, <1>3, <1>4, <1>5, <1>6, <1>7, <1>8, <1>9, <1>10, <1>11, <1>12, <1>13, <1>14, <1>15
     DEF Next, TimerStep, SourceStep

\* The fields of struct path keep their types, whatever is requested.
THEOREM TypeCorrect == Spec => []TypeOK
<1> QED
  BY InitType, NextType, PTL DEF Spec

-----------------------------------------------------------------------------
(***************************************************************************)
(* Absence of panics.                                                      *)
(***************************************************************************)
\* What the helpers leave in the fields that the invariant is about.
LEMMA StreamFields ==
    ASSUME NEW st \in Stream, conf \in PathConf
    PROVE  /\ SetReady(st).live /\ SetReady(st).onNotReadyHook = "owed"
           /\ SetReady(st).panic = st.panic
           /\ ~SetReadyFails(st).live
           /\ SetReadyFails(st).onNotReadyHook = st.onNotReadyHook
           /\ SetReadyFails(st).panic = st.panic
           /\ ~SetNotReady(st).live
           /\ st.onNotReadyHook = "owed" => SetNotReady(st).panic = st.panic
BY DEF Stream, PathConf, SetReady, SetReadyFails, SetNotReady

\* The same for the on-demand static source.
LEMMA StaticFields ==
    ASSUME NEW ss \in Static
    PROVE  /\ StopReadyTimer(ss).readyTimer = FALSE
           /\ StopReadyTimer(ss).running = ss.running
           /\ StopReadyTimer(ss).setReady = ss.setReady
           /\ StopReadyTimer(ss).panic = ss.panic
           /\ ScheduleClose(ss).state = "closing"
           /\ ScheduleClose(ss).closeTimer = TRUE
           /\ ScheduleClose(ss).readyTimer = ss.readyTimer
           /\ ScheduleClose(ss).running = ss.running
           /\ ScheduleClose(ss).setReady = ss.setReady
           /\ ScheduleClose(ss).panic = ss.panic
           /\ ss.state = "closing" => CancelClose(ss).state = "ready" /\ ~CancelClose(ss).closeTimer
           /\ CancelClose(ss).readyTimer = ss.readyTimer
           /\ CancelClose(ss).running = ss.running
           /\ CancelClose(ss).setReady = ss.setReady
           /\ CancelClose(ss).panic = ss.panic
           /\ OnDemandStaticSourceStop(ss).state = "initial"
           /\ OnDemandStaticSourceStop(ss).readyTimer = ss.readyTimer
           /\ OnDemandStaticSourceStop(ss).closeTimer = (ss.closeTimer /\ ss.state # "closing")
           /\ OnDemandStaticSourceStop(ss).running = FALSE
           /\ OnDemandStaticSourceStop(ss).setReady = FALSE
           /\ ss.running => OnDemandStaticSourceStop(ss).panic = ss.panic
<1>1. HandlerStop(ss) \in Static
  BY StaticOps
<1> QED
  BY <1>1 DEF Static, StopReadyTimer, ScheduleClose, CancelClose, OnDemandStaticSourceStop, HandlerStop

\* The state machine of an on-demand source whose stream has just been set up.
Closing(ss) == ScheduleClose(StopReadyTimer(ss))

\* After SetReady the source is closing, or ready if a request was admitted.
LEMMA ClosingFields ==
    ASSUME NEW ss \in Static, ss.running, ss.setReady, ~ss.panic,
           NEW x, x = Closing(ss) \/ x = CancelClose(Closing(ss))
    PROVE  /\ x.running /\ x.setReady /\ ~x.panic /\ ~x.readyTimer
           /\ \/ x.state = "closing" /\ x.closeTimer
              \/ x.state = "ready" /\ ~x.closeTimer
<1>1. /\ StopReadyTimer(ss) \in Static
      /\ StopReadyTimer(ss).running /\ StopReadyTimer(ss).setReady
      /\ ~StopReadyTimer(ss).panic /\ ~StopReadyTimer(ss).readyTimer
  BY StaticOps, StaticFields
<1>2. /\ Closing(ss) \in Static
      /\ Closing(ss).running /\ Closing(ss).setReady /\ ~Closing(ss).panic
      /\ ~Closing(ss).readyTimer /\ Closing(ss).state = "closing" /\ Closing(ss).closeTimer
  BY <1>1, StaticOps, StaticFields DEF Closing
<1>3. CASE x = Closing(ss)
  BY <1>2, <1>3
<1>4. CASE x = CancelClose(Closing(ss))
  BY <1>2, <1>4, StaticFields
<1> QED
  BY <1>3, <1>4

\* An on-demand source that is stopped while its timers match its state.
LEMMA StopFields ==
    ASSUME NEW ss \in Static, ss.running, ~ss.panic, ~ss.readyTimer,
           ss.closeTimer <=> ss.state = "closing",
           NEW x, x = OnDemandStaticSourceStop(ss)
    PROVE  /\ x.state = "initial" /\ ~x.setReady /\ ~x.panic
           /\ ~x.closeTimer /\ ~x.readyTimer /\ ~x.running
BY StaticFields

\* initialize() establishes the invariant.
LEMMA InitPanicInv == Init => PanicInv
<1> SUFFICES ASSUME Init PROVE PanicInv
  OBVIOUS
<1> USE DEF PanicInv
<1>1. TypeOK
  BY InitType
<1>2. HasOnDemandPublisher(conf) \in BOOLEAN
  BY <1>1 DEF TypeOK, PathConf, HasOnDemandPublisher
<1>3. NoPanic /\ HookInPlace /\ TimersMatchState
  BY DEF Init, NoPanic, HookInPlace, TimersMatchState
<1>4. SourceMatchesConf
  BY <1>1, ClientsAssumption DEF Init, SourceMatchesConf, TypeOK, PathConf, HasStaticSource
<1>5. DemandMatchesState
  BY <1>1, <1>4 DEF Init, DemandMatchesState, SourceMatchesConf
<1> QED
  BY <1>1, <1>3, <1>4, <1>5

\* Every step keeps the invariant.
LEMMA NextPanicInv == PanicInv /\ [Next]_vars => PanicInv'
<1> SUFFICES ASSUME PanicInv, [Next]_vars PROVE PanicInv'
  OBVIOUS
<1> USE DEF PanicInv, Running, NoPanic, SourceMatchesConf, HookInPlace, TimersMatchState, DemandMatchesState
<1>1. TypeOK'
  BY NextType
<1>2. CASE StaticReadyTimerFires
  BY <1>2, <1>1 DEF StaticReadyTimerFires, TypeOK, Static, OnDemandStaticSourceStop, HandlerStop, StopReadyTimer, CheckShouldClose, HasOnDemandStaticSource
<1>3. CASE StaticCloseTimerFires
  BY <1>3, <1>1, StreamFields DEF StaticCloseTimerFires, TypeOK, Static, OnDemandStaticSourceStop, HandlerStop, StopReadyTimer, CheckShouldClose, HasOnDemandStaticSource
<1>4. CASE PublisherReadyTimerFires
  BY <1>4, <1>1 DEF PublisherReadyTimerFires, TypeOK, Demand, OnDemandPublisherStop, StopReadyTimer, CheckShouldClose
<1>5. CASE PublisherCloseTimerFires
  BY <1>5, <1>1 DEF PublisherCloseTimerFires, TypeOK, Demand, OnDemandPublisherStop
<1>6. ASSUME NEW record \in BOOLEAN, ReloadConf(record) PROVE PanicInv'
  BY <1>6, <1>1 DEF ReloadConf, TypeOK, PathConf, Stream, HasStaticSource, HasOnDemandStaticSource, HasOnDemandPublisher
<1>7. CASE StaticSourceSetReady
  <2> DEFINE ready == [static EXCEPT !.setReady = TRUE]
  <2>1. /\ stream'.live /\ stream'.onNotReadyHook = "owed" /\ ~stream'.panic
        /\ static.running /\ HasStaticSource(conf) /\ source = "static"
        /\ UNCHANGED <<conf, pc, source, demand>>
    BY <1>7, StreamFields DEF StaticSourceSetReady, MayCallSetReady, TypeOK
  <2>2. /\ ready \in Static /\ ready.running /\ ready.setReady /\ ~ready.panic
        /\ ready.state = static.state
        /\ ready.readyTimer = static.readyTimer /\ ready.closeTimer = static.closeTimer
    BY <2>1 DEF TypeOK, Static
  <2> HIDE DEF ready
  <2>3. CASE HasOnDemandStaticSource(conf)
    <3>1. static' = Closing(ready) \/ static' = CancelClose(Closing(ready))
      BY <1>7, <2>3 DEF StaticSourceSetReady, ready, Closing
    <3>2. /\ static'.running /\ static'.setReady /\ ~static'.panic /\ ~static'.readyTimer
          /\ \/ static'.state = "closing" /\ static'.closeTimer
             \/ static'.state = "ready" /\ ~static'.closeTimer
      BY <2>2, <3>1, ClosingFields
    <3> QED
      BY <1>1, <2>1, <2>3, <3>2 DEF HasOnDemandStaticSource
  <2>4. CASE ~HasOnDemandStaticSource(conf)
    <3>1. static' = ready
      BY <1>7, <2>4 DEF StaticSourceSetReady, ready
    <3> QED
      BY <1>1, <2>1, <2>2, <2>4, <3>1 DEF HasOnDemandStaticSource
  <2> QED
    BY <2>3, <2>4
<1>8. CASE StaticSourceSetReadyFails
  BY <1>8, <1>1, StreamFields DEF StaticSourceSetReadyFails, TypeOK
<1>9. CASE StaticSourceSetNotReady
  <2> DEFINE ss == [static EXCEPT !.setReady = FALSE]
  <2>1. /\ ~stream'.live /\ ~stream'.panic
        /\ static.running /\ HasStaticSource(conf) /\ source = "static"
        /\ UNCHANGED <<conf, source, demand>>
        /\ Running /\ pc' \in {"run", "teardown"}
    BY <1>9, StreamFields
       DEF StaticSourceSetNotReady, TypeOK, CheckShouldClose
  <2>2. /\ ss \in Static /\ ss.running /\ ~ss.setReady /\ ~ss.panic
        /\ ss.state = static.state
        /\ ss.readyTimer = static.readyTimer /\ ss.closeTimer = static.closeTimer
    BY <2>1 DEF TypeOK, Static
  <2> HIDE DEF ss
  <2>3. CASE HasOnDemandStaticSource(conf) /\ static.state # "initial"
    <3>1. static' = OnDemandStaticSourceStop(ss)
      BY <1>9, <2>3 DEF StaticSourceSetNotReady, ss
    <3>2. ~ss.readyTimer /\ (ss.closeTimer <=> ss.state = "closing")
      BY <1>9, <2>1, <2>2 DEF StaticSourceSetNotReady
    <3>3. /\ static'.state = "initial" /\ ~static'.setReady /\ ~static'.panic
          /\ ~static'.closeTimer /\ ~static'.readyTimer /\ ~static'.running
      BY <2>2, <3>1, <3>2, StopFields
    <3> QED
      BY <1>1, <2>1, <2>3, <3>3 DEF HasOnDemandStaticSource
  <2>4. CASE ~(HasOnDemandStaticSource(conf) /\ static.state # "initial")
    <3>1. static' = ss
      BY <1>9, <2>4 DEF StaticSourceSetNotReady, ss
    <3> QED
      BY <1>1, <2>1, <2>2, <2>4, <3>1 DEF HasOnDemandStaticSource
  <2> QED
    BY <2>3, <2>4
<1>10. ASSUME StartOnDemand, OnDemand, UNCHANGED <<conf, source, stream>>, CheckShouldClose, Running PROVE PanicInv'
  BY <1>10, <1>1 DEF StartOnDemand, OnDemand, TypeOK, Static, Demand, OnDemandStaticSourceStart, OnDemandPublisherStart, HandlerStart, CheckShouldClose, HasOnDemandStaticSource
<1>11. ASSUME NEW d \in Describers, DescribeAnswers(d) \/ DescribeHolds(d) PROVE PanicInv'
  <2>1. CASE DescribeAnswers(d)
    BY <2>1, <1>1 DEF DescribeAnswers, TypeOK, CheckShouldClose
  <2>2. CASE DescribeHolds(d)
    BY <2>2, <1>10 DEF DescribeHolds
  <2> QED
    BY <1>11, <2>1, <2>2
<1>12. ASSUME NEW r \in Readers, ReaderStep(r) PROVE PanicInv'
  <2>1. CASE AddReaderJoins(r)
    BY <2>1, <1>1 DEF AddReaderJoins, TypeOK, Static, Demand, CancelClose, CheckShouldClose, HasOnDemandStaticSource
  <2>2. CASE AddReaderHolds(r)
    BY <2>2, <1>10 DEF AddReaderHolds
  <2>3. CASE AddReaderAnswers(r)
    BY <2>3, <1>1 DEF AddReaderAnswers, TypeOK, CheckShouldClose
  <2>4. CASE RemoveReader(r)
    BY <2>4, <1>1 DEF RemoveReader, TypeOK, Static, Demand, ScheduleCloseIfReady, ScheduleClose
  <2>5. CASE LeaveClosedPath(r)
    BY <2>5, <1>1 DEF LeaveClosedPath, TypeOK
  <2> QED
    BY <1>12, <2>1, <2>2, <2>3, <2>4, <2>5 DEF ReaderStep
<1>13. ASSUME NEW p \in Publishers, PublisherStep(p) PROVE PanicInv'
  <2>1. CASE AddPublisher(p)
    BY <2>1, <1>1, StreamFields, ClientsAssumption DEF AddPublisher, TypeOK, PathConf, HasStaticSource, HasOnDemandStaticSource
  <2>2. CASE AddPublisherFails(p)
    BY <2>2, <1>1 DEF AddPublisherFails, TypeOK
  <2>3. CASE RemovePublisher(p)
    BY <2>3, <1>1, StreamFields, ClientsAssumption DEF RemovePublisher, TypeOK, PathConf, CheckShouldClose, HasStaticSource, HasOnDemandStaticSource
  <2>4. CASE StartPublisher(p)
    BY <2>4, <1>1, StreamFields DEF StartPublisher, TypeOK, Demand, ScheduleClose, CancelClose, StopReadyTimer
  <2>5. CASE StartPublisherFails(p)
    BY <2>5, <1>1, StreamFields DEF StartPublisherFails, TypeOK
  <2>6. CASE StopPublisher(p)
    BY <2>6, <1>1, StreamFields, ClientsAssumption DEF StopPublisher, TypeOK, PathConf, CheckShouldClose, HasStaticSource, HasOnDemandStaticSource
  <2>7. CASE UnpublishClosedPath(p)
    BY <2>7, <1>1 DEF UnpublishClosedPath, TypeOK
  <2> QED
    BY <1>13, <2>1, <2>2, <2>3, <2>4, <2>5, <2>6, <2>7 DEF PublisherStep
<1>14. CASE Terminate
  BY <1>14, <1>1 DEF Terminate, TypeOK
<1>15. CASE Teardown
  BY <1>15, <1>1, StreamFields DEF Teardown, TypeOK, Static, Demand, HandlerStop
<1>16. CASE UNCHANGED vars
  BY <1>16, <1>1 DEF vars, TypeOK
<1> QED
  BY <1>2, <1>3, <1>4, <1>5, <1>6, <1>7, <1>8, <1>9, <1>11, <1>12, <1>13, <1>14, <1>15, <1>16
     DEF Next, TimerStep, SourceStep

\* No panic is reachable.
THEOREM PanicFreedom == Spec => []NoPanic
<1>1. PanicInv => NoPanic
  BY DEF PanicInv
<1> QED
  BY <1>1, InitPanicInv, NextPanicInv, PTL DEF Spec

-----------------------------------------------------------------------------
(***************************************************************************)
(* The stream of a path, the sessions on it and what is on demand agree in *)
(* every reachable state: StreamInv is inductive.  One lemma per group of  *)
(* actions of Next, and in each one step per group of conjuncts.           *)
(***************************************************************************)
\* What the helpers that move sessions leave in the fields of the clients.
LEMMA ClientFields ==
    ASSUME NEW cl \in Clients
    PROVE  /\ CloseReaders(cl).readers = {}
           /\ CloseReaders(cl).attached = cl.attached
           /\ CloseReaders(cl).stale = cl.attached
           /\ CloseReaders(cl).told = cl.told \cup cl.readers
           /\ LoseStream(cl).readers = cl.readers
           /\ LoseStream(cl).attached = cl.attached
           /\ LoseStream(cl).stale = cl.attached
           /\ LoseStream(cl).told = cl.told
           /\ \A rs : /\ Admit(cl, rs).readers = cl.readers \cup rs
                      /\ Admit(cl, rs).attached = cl.attached \cup rs
                      /\ Admit(cl, rs).stale = cl.stale \ rs
                      /\ Admit(cl, rs).told = cl.told
BY DEF Clients, CloseReaders, LoseStream, Admit

\* What setReady() and setNotReady() leave in the fields of the stream.
LEMMA ReadyFields ==
    ASSUME NEW st \in Stream, conf \in PathConf
    PROVE  /\ SetReady(st).live /\ SetReady(st).onNotReadyHook = "owed"
           /\ SetReady(st).recordAgent = (st.recordAgent \/ conf.record)
           /\ ~SetReadyFails(st).live
           /\ SetReadyFails(st).onNotReadyHook = st.onNotReadyHook
           /\ SetReadyFails(st).recordAgent = st.recordAgent
           /\ ~SetNotReady(st).live /\ ~SetNotReady(st).recordAgent
           /\ SetNotReady(st).onNotReadyHook = "spent"
BY DEF Stream, PathConf, SetReady, SetReadyFails, SetNotReady

\* There is no stream any more, and nobody counts on it.
Lost ==
    /\ stream'.live = FALSE /\ stream'.recordAgent = FALSE /\ stream'.onNotReadyHook # "owed"
    /\ clients'.readers = {}
    /\ clients'.attached = clients.attached
    /\ clients'.stale \subseteq clients'.told
    /\ clients'.attached \subseteq clients'.stale

\* setNotReady() leaves nobody on the stream that is gone.
LEMMA NotReadyLoses ==
    ASSUME TypeOK, StreamInv, ReportsNotReady,
           \/ stream' = SetNotReady(stream) /\ clients' = CloseReaders(clients)
           \/ ~stream.live /\ UNCHANGED <<stream, clients>>
    PROVE  Lost
<1>1. stream \in Stream /\ clients \in Clients /\ conf \in PathConf
  BY DEF TypeOK
<1>2. CASE stream' = SetNotReady(stream) /\ clients' = CloseReaders(clients)
  BY <1>1, <1>2, ClientFields, ReadyFields DEF Lost, StreamInv, NoOrphanReader, ReadersHoldStream
<1>3. CASE ~stream.live /\ UNCHANGED <<stream, clients>>
  BY <1>1, <1>3 DEF Lost, StreamInv, NoOrphanReader, ReadersHoldStream, ReadyEffectsMatchStream, Stream
<1> QED
  BY <1>2, <1>3

\* shouldClose(): a handler that checks it leaves no idle dynamic path.
LEMMA ClosesWhenIdle ==
    ASSUME PanicInv', StreamMatchesSource', ReadersHoldStream', CheckShouldClose, UNCHANGED conf
    PROVE  NoIdleDynamicPath'
<1> SUFFICES ASSUME pc' = "run", conf'.regexp, source' = "nil", NobodyHeld(held') PROVE FALSE
  BY DEF NoIdleDynamicPath
<1>1. clients'.readers # {}
  BY DEF CheckShouldClose, ShouldClose
<1>2. conf'.source # "srt"
  BY DEF PanicInv, SourceMatchesConf, HasStaticSource
<1>3. stream'.live
  BY <1>1, <1>2 DEF ReadersHoldStream, ReportsNotReady
<1> QED
  BY <1>2, <1>3, ClientsAssumption DEF StreamMatchesSource, ReportsNotReady, Running

\* initialize() establishes the invariant.
LEMMA InitStreamInv == Init => StreamInv
<1> SUFFICES ASSUME Init PROVE StreamInv
  OBVIOUS
<1>1. PanicInv
  BY InitPanicInv
<1>2. StreamMatchesSource /\ ReadyEffectsMatchStream /\ NoOrphanReader /\ ReadersHoldStream
  BY DEF Init, StreamMatchesSource, ReadyEffectsMatchStream, NoOrphanReader, ReadersHoldStream
<1>3. NoOrphanPublisher /\ CloseOnlyWhenUnused /\ NoIdleDynamicPath /\ ClosedIsClean
  BY DEF Init, NoOrphanPublisher, CloseOnlyWhenUnused, NoIdleDynamicPath, ClosedIsClean
<1>4. HeldOnlyWhileStarting
  BY DEF Init, HeldOnlyWhileStarting, NobodyHeld
<1> QED
  BY <1>1, <1>2, <1>3, <1>4 DEF StreamInv

\* The timers of runInner() keep the invariant.
LEMMA TimersKeepStreamInv == StreamInv /\ PanicInv' /\ TimerStep => StreamInv'
<1> SUFFICES ASSUME StreamInv, PanicInv', TimerStep PROVE StreamInv'
  OBVIOUS
<1> USE DEF ReportsNotReady
<1>0. PanicInv /\ TypeOK /\ TypeOK' /\ stream \in Stream /\ clients \in Clients /\ conf \in PathConf
  BY DEF StreamInv, PanicInv, TypeOK
<1>1. CASE StaticReadyTimerFires
  <2>1. /\ UNCHANGED <<conf, source, stream, clients, demand, publisher, told>>
        /\ Running /\ static.readyTimer /\ static.state = "waitingReady"
        /\ pc' \in {"run", "teardown"}
        /\ static'.state = "initial" /\ ~static'.setReady /\ ~static'.running
        /\ NobodyHeld(held') /\ ~static.setReady
        /\ CheckShouldClose
    <3>1. StopReadyTimer(static) \in Static
      BY <1>0, StaticOps DEF TypeOK
    <3>2. static' = OnDemandStaticSourceStop(StopReadyTimer(static))
      BY <1>1 DEF StaticReadyTimerFires
    <3>3. static'.state = "initial" /\ ~static'.setReady /\ ~static'.running
      BY <3>1, <3>2, StaticFields
    <3>4. Running /\ static.readyTimer /\ static.state = "waitingReady" /\ ~static.setReady
      BY <1>0, <1>1 DEF StaticReadyTimerFires, PanicInv, TimersMatchState, SourceMatchesConf
    <3> QED
      BY <1>1, <3>3, <3>4 DEF StaticReadyTimerFires, CheckShouldClose, NoneHeld, NobodyHeld
  <2>2. StreamMatchesSource'
    BY <2>1 DEF StreamMatchesSource, StreamInv, Running
  <2>3. ReadyEffectsMatchStream' /\ NoOrphanReader' /\ ReadersHoldStream'
    BY <2>1 DEF ReadyEffectsMatchStream, NoOrphanReader, ReadersHoldStream, StreamInv, Running
  <2>4. NoOrphanPublisher' /\ HeldOnlyWhileStarting' /\ ClosedIsClean'
    BY <2>1 DEF NoOrphanPublisher, HeldOnlyWhileStarting, ClosedIsClean, StreamInv, Running
  <2>5. CloseOnlyWhenUnused'
    BY <2>1 DEF CloseOnlyWhenUnused, StreamInv, Running
  <2>6. NoIdleDynamicPath'
    BY <2>1, <2>2, <2>3, ClosesWhenIdle
  <2> QED
    BY <2>2, <2>3, <2>4, <2>5, <2>6 DEF StreamInv
<1>2. CASE StaticCloseTimerFires
  <2>1. /\ UNCHANGED <<conf, source, held, demand, publisher, told>>
        /\ stream' = SetNotReady(stream) /\ clients' = CloseReaders(clients)
        /\ Running /\ static.state = "closing" /\ source = "static"
        /\ pc' \in {"run", "teardown"}
        /\ static'.state = "initial" /\ ~static'.setReady /\ ~static'.running
        /\ CheckShouldClose
    <3>1. [static EXCEPT !.closeTimer = FALSE] \in Static
      BY <1>0, StaticOps DEF TypeOK
    <3>2. static' = OnDemandStaticSourceStop([static EXCEPT !.closeTimer = FALSE])
      BY <1>2 DEF StaticCloseTimerFires
    <3>3. static'.state = "initial" /\ ~static'.setReady /\ ~static'.running
      BY <3>1, <3>2, StaticFields
    <3>4. Running /\ static.state = "closing" /\ source = "static"
      BY <1>0, <1>2 DEF StaticCloseTimerFires, PanicInv, TimersMatchState, SourceMatchesConf, HasOnDemandStaticSource
    <3> QED
      BY <1>2, <3>3, <3>4 DEF StaticCloseTimerFires, CheckShouldClose
  <2>2. ReportsNotReady => Lost
    BY <1>0, <2>1, NotReadyLoses
  <2>3. StreamMatchesSource'
    BY <2>1, <2>2, ClientsAssumption DEF StreamMatchesSource, Running, Lost
  <2>4. ReadyEffectsMatchStream' /\ NoOrphanReader' /\ ReadersHoldStream'
    BY <2>1, <2>2 DEF ReadyEffectsMatchStream, NoOrphanReader, ReadersHoldStream, Lost
  <2>5. HeldOnlyWhileStarting'
    BY <2>1, <2>2 DEF HeldOnlyWhileStarting, StreamInv, Lost, OnDemand, NobodyHeld
  <2>6. NoOrphanPublisher' /\ ClosedIsClean'
    BY <2>1 DEF NoOrphanPublisher, ClosedIsClean, StreamInv, Running
  <2>7. CloseOnlyWhenUnused'
    BY <1>0, <2>1, <2>2 DEF CloseOnlyWhenUnused, StreamInv, Running, Lost, PanicInv, SourceMatchesConf, TypeOK, ValidConf, HasStaticSource, HasOnDemandPublisher
  <2>8. NoIdleDynamicPath'
    BY <2>1, <2>3, <2>4, ClosesWhenIdle
  <2> QED
    BY <2>3, <2>4, <2>5, <2>6, <2>7, <2>8 DEF StreamInv
<1>3. CASE PublisherReadyTimerFires
  <2>1. /\ UNCHANGED <<conf, source, stream, clients, static, publisher, told>>
        /\ Running
        /\ pc' \in {"run", "teardown"}
        /\ demand'.state = "initial"
        /\ NobodyHeld(held')
        /\ CheckShouldClose
    <3>1. StopReadyTimer(demand) \in Demand
      BY <1>0, DemandOps DEF TypeOK
    <3>2. demand' = OnDemandPublisherStop(StopReadyTimer(demand))
      BY <1>3 DEF PublisherReadyTimerFires
    <3>3. demand'.state = "initial"
      BY <3>1, <3>2 DEF OnDemandPublisherStop, Demand
    <3> QED
      BY <1>3, <3>3 DEF PublisherReadyTimerFires, CheckShouldClose, NoneHeld, NobodyHeld
  <2>2. StreamMatchesSource'
    BY <2>1 DEF StreamMatchesSource, StreamInv, Running
  <2>3. ReadyEffectsMatchStream' /\ NoOrphanReader' /\ ReadersHoldStream'
    BY <2>1 DEF ReadyEffectsMatchStream, NoOrphanReader, ReadersHoldStream, StreamInv, Running
  <2>4. NoOrphanPublisher' /\ HeldOnlyWhileStarting' /\ ClosedIsClean'
    BY <2>1 DEF NoOrphanPublisher, HeldOnlyWhileStarting, ClosedIsClean, StreamInv, Running
  <2>5. CloseOnlyWhenUnused'
    BY <2>1 DEF CloseOnlyWhenUnused, StreamInv, Running
  <2>6. NoIdleDynamicPath'
    BY <2>1, <2>2, <2>3, ClosesWhenIdle
  <2> QED
    BY <2>2, <2>3, <2>4, <2>5, <2>6 DEF StreamInv
<1>4. CASE PublisherCloseTimerFires
  <2>1. /\ UNCHANGED <<conf, pc, source, stream, clients, held, static, publisher, told>>
        /\ demand'.state = "initial" /\ pc # "closed"
    BY <1>0, <1>4 DEF PublisherCloseTimerFires, OnDemandPublisherStop, Demand, TypeOK, Running
  <2>2. /\ StreamMatchesSource' /\ ReadyEffectsMatchStream' /\ NoOrphanReader'
        /\ ReadersHoldStream' /\ NoOrphanPublisher' /\ NoIdleDynamicPath'
    BY <2>1 DEF StreamMatchesSource, ReadyEffectsMatchStream, NoOrphanReader, ReadersHoldStream,
                NoOrphanPublisher, NoIdleDynamicPath, NobodyHeld, StreamInv, Running
  <2>3. CloseOnlyWhenUnused' /\ HeldOnlyWhileStarting' /\ ClosedIsClean'
    BY <2>1 DEF CloseOnlyWhenUnused, HeldOnlyWhileStarting, ClosedIsClean, NobodyHeld, OnDemand, StreamInv, Running
  <2> QED
    BY <2>2, <2>3 DEF StreamInv
<1> QED
  BY <1>1, <1>2, <1>3, <1>4 DEF TimerStep

\* The calls of the static source keep it.
LEMMA SourceKeepsStreamInv == StreamInv /\ PanicInv' /\ SourceStep => StreamInv'
<1> SUFFICES ASSUME StreamInv, PanicInv', SourceStep PROVE StreamInv'
  OBVIOUS
<1> USE DEF ReportsNotReady
<1>0. /\ PanicInv /\ TypeOK /\ TypeOK'
      /\ stream \in Stream /\ clients \in Clients /\ conf \in PathConf /\ static \in Static
  BY DEF StreamInv, PanicInv, TypeOK
<1>1. ASSUME Running, MayCallSetReady
      PROVE  /\ source = "static" /\ HasStaticSource(conf) /\ demand.state = "initial"
             /\ source \notin Publishers
             /\ ReportsNotReady =>
                   ~stream.live /\ clients.readers = {} /\ clients.attached \subseteq clients.told
  <2>1. source = "static" /\ HasStaticSource(conf) /\ demand.state = "initial"
    BY <1>0, <1>1 DEF MayCallSetReady, PanicInv, SourceMatchesConf, TypeOK, ValidConf, HasStaticSource,
                      HasOnDemandPublisher
  <2>2. source \notin Publishers
    BY <2>1, ClientsAssumption
  <2>3. ReportsNotReady => ~stream.live
    BY <1>1, <2>1, <2>2 DEF MayCallSetReady, StreamInv, StreamMatchesSource
  <2> QED
    BY <2>1, <2>2, <2>3 DEF StreamInv, ReadersHoldStream, NoOrphanReader
<1>2. CASE StaticSourceSetReady
  <2> DEFINE ready == [static EXCEPT !.setReady = TRUE]
             F == Fitting(LoseStream(clients))
  <2>1. /\ UNCHANGED <<conf, pc, source, demand, publisher, told>>
        /\ Running /\ MayCallSetReady /\ static.running
        /\ NobodyHeld(held')
        /\ stream' = SetReady(stream)
        /\ clients' = Admit(LoseStream(clients), F)
    BY <1>2 DEF StaticSourceSetReady, MayCallSetReady, NoneHeld, NobodyHeld
  <2>2. /\ clients'.readers = clients.readers \cup F
        /\ clients'.attached = clients.attached \cup F
        /\ clients'.stale = clients.attached \ F
        /\ clients'.told = clients.told
    <3>1. LoseStream(clients) \in Clients
      BY <1>0, ClientOps
    <3> HIDE DEF F
    <3> QED
      BY <1>0, <2>1, <3>1, ClientFields
  <2>3. /\ stream'.live /\ stream'.onNotReadyHook = "owed"
        /\ stream'.recordAgent = (stream.recordAgent \/ conf.record)
    BY <1>0, <2>1, ReadyFields
  <2>4. /\ ready \in Static /\ ready.running /\ ready.setReady /\ ready.state = static.state
    BY <1>0, <2>1 DEF Static
  <2>5. /\ static'.running /\ static'.setReady
        /\ static'.state = IF ~HasOnDemandStaticSource(conf) THEN static.state
                           ELSE IF F = {} THEN "closing" ELSE "ready"
    <3>1. static' = IF ~HasOnDemandStaticSource(conf) THEN ready
                    ELSE IF F = {} THEN Closing(ready) ELSE CancelClose(Closing(ready))
      BY <1>2 DEF StaticSourceSetReady, Closing
    <3> HIDE DEF ready, F
    <3>2. /\ StopReadyTimer(ready) \in Static
          /\ StopReadyTimer(ready).running /\ StopReadyTimer(ready).setReady
      BY <2>4, StaticOps, StaticFields, ZenonT(40)
    <3>3. /\ Closing(ready) \in Static
          /\ Closing(ready).running /\ Closing(ready).setReady /\ Closing(ready).state = "closing"
      BY <3>2, StaticOps, StaticFields DEF Closing
    <3>4. /\ CancelClose(Closing(ready)).running /\ CancelClose(Closing(ready)).setReady
          /\ CancelClose(Closing(ready)).state = "ready"
      BY <3>3, StaticFields
    <3> QED
      BY <2>4, <3>1, <3>3, <3>4
  <2> HIDE DEF F, ready
  <2>6. StreamMatchesSource' /\ NoIdleDynamicPath' /\ HeldOnlyWhileStarting'
    BY <1>1, <2>1, <2>3, <2>5 DEF StreamMatchesSource, NoIdleDynamicPath, HeldOnlyWhileStarting
  <2>7. ReadyEffectsMatchStream'
    BY <1>0, <1>1, <2>1, <2>3 DEF ReadyEffectsMatchStream, StreamInv, Stream, PathConf
  <2>8. NoOrphanReader' /\ ReadersHoldStream'
    BY <1>1, <2>1, <2>2, <2>3 DEF NoOrphanReader, ReadersHoldStream
  <2>9. NoOrphanPublisher' /\ ClosedIsClean'
    BY <2>1 DEF NoOrphanPublisher, ClosedIsClean, StreamInv, Running
  <2>10. CloseOnlyWhenUnused'
    BY <1>0, <1>1, <2>1, <2>2, <2>5 DEF CloseOnlyWhenUnused, PanicInv, SourceMatchesConf
  <2> QED
    BY <2>6, <2>7, <2>8, <2>9, <2>10 DEF StreamInv
<1>3. CASE StaticSourceSetReadyFails
  <2>1. /\ UNCHANGED <<conf, pc, source, held, static, demand, publisher, told>>
        /\ Running /\ MayCallSetReady
        /\ ~stream'.live /\ stream'.onNotReadyHook = stream.onNotReadyHook
        /\ stream'.recordAgent = stream.recordAgent
        /\ clients'.readers = clients.readers /\ clients'.attached = clients.attached
        /\ clients'.stale = clients.attached /\ clients'.told = clients.told
    BY <1>0, <1>3, ClientFields, ReadyFields DEF StaticSourceSetReadyFails
  <2>2. StreamMatchesSource' /\ NoIdleDynamicPath' /\ HeldOnlyWhileStarting'
    BY <1>1, <2>1 DEF StreamMatchesSource, NoIdleDynamicPath, HeldOnlyWhileStarting, StreamInv, OnDemand,
                      NobodyHeld
  <2>3. ReadyEffectsMatchStream' /\ NoOrphanReader' /\ ReadersHoldStream'
    BY <1>1, <2>1 DEF ReadyEffectsMatchStream, NoOrphanReader, ReadersHoldStream, StreamInv
  <2>4. NoOrphanPublisher' /\ ClosedIsClean' /\ CloseOnlyWhenUnused'
    BY <2>1 DEF NoOrphanPublisher, ClosedIsClean, CloseOnlyWhenUnused, StreamInv, Running
  <2> QED
    BY <2>2, <2>3, <2>4 DEF StreamInv
<1>4. CASE StaticSourceSetNotReady
  <2> DEFINE ss == [static EXCEPT !.setReady = FALSE]
  <2>1. /\ UNCHANGED <<conf, source, held, demand, publisher, told>>
        /\ stream' = SetNotReady(stream) /\ clients' = CloseReaders(clients)
        /\ Running /\ static.running /\ conf.source # "srt"
        /\ pc' \in {"run", "teardown"}
        /\ CheckShouldClose
    BY <1>4 DEF StaticSourceSetNotReady, CheckShouldClose
  <2>2. source = "static" /\ source \notin Publishers /\ demand.state = "initial"
    BY <1>0, <2>1, ClientsAssumption
       DEF PanicInv, SourceMatchesConf, TypeOK, ValidConf, HasStaticSource, HasOnDemandPublisher
  <2>3. ~static'.setReady /\ static'.state = "initial"
    <3>1. ss \in Static /\ ~ss.setReady /\ ss.state = static.state
      BY <1>0 DEF Static
    <3> HIDE DEF ss
    <3>2. CASE HasOnDemandStaticSource(conf) /\ static.state # "initial"
      <4>1. static' = OnDemandStaticSourceStop(ss)
        BY <1>4, <3>2 DEF StaticSourceSetNotReady, ss
      <4> QED
        BY <3>1, <4>1, StaticFields
    <3>3. CASE ~(HasOnDemandStaticSource(conf) /\ static.state # "initial")
      <4>1. static' = ss
        BY <1>4, <3>3 DEF StaticSourceSetNotReady, ss
      <4> QED
        BY <1>0, <3>1, <3>3, <4>1 DEF PanicInv, SourceMatchesConf
    <3> QED
      BY <3>2, <3>3
  <2>4. Lost
    BY <1>0, <2>1, NotReadyLoses
  <2>5. NobodyHeld(held')
    <3>1. stream.live
      BY <1>4, <2>1, <2>2 DEF StaticSourceSetNotReady, StreamInv, StreamMatchesSource
    <3> QED
      BY <2>1, <3>1 DEF StreamInv, HeldOnlyWhileStarting, NobodyHeld
  <2>6. StreamMatchesSource' /\ HeldOnlyWhileStarting' /\ CloseOnlyWhenUnused'
    BY <2>1, <2>2, <2>3, <2>4, <2>5 DEF StreamMatchesSource, HeldOnlyWhileStarting, CloseOnlyWhenUnused, Lost
  <2>7. ReadyEffectsMatchStream' /\ NoOrphanReader' /\ ReadersHoldStream'
    BY <2>1, <2>4 DEF ReadyEffectsMatchStream, NoOrphanReader, ReadersHoldStream, Lost
  <2>8. NoOrphanPublisher' /\ ClosedIsClean'
    BY <2>1 DEF NoOrphanPublisher, ClosedIsClean, StreamInv, Running
  <2>9. NoIdleDynamicPath'
    BY <2>1, <2>6, <2>7, ClosesWhenIdle
  <2> QED
    BY <2>6, <2>7, <2>8, <2>9 DEF StreamInv
<1> QED
  BY <1>2, <1>3, <1>4 DEF SourceStep

\* A request that goes on hold starts the source or the command.
LEMMA HoldKeepsStreamInv ==
    ASSUME StreamInv, PanicInv', Running, StartOnDemand, OnDemand, ~stream.live,
           UNCHANGED <<conf, source, stream, clients, publisher, told>>, CheckShouldClose
    PROVE  StreamInv'
<1> USE DEF ReportsNotReady
<1>0. PanicInv /\ TypeOK /\ static \in Static /\ demand \in Demand
  BY DEF StreamInv, PanicInv, TypeOK
<1>1. pc # "closed" /\ pc' \in {"run", "teardown"}
  BY DEF Running, CheckShouldClose
<1>2. /\ static'.state \in {static.state, "waitingReady"}
      /\ static'.setReady = static.setReady
      /\ static'.running = static.running \/ ~static.setReady
      /\ HasOnDemandStaticSource(conf) /\ static.state = "initial" => static'.state = "waitingReady"
  <2>1. CASE HasOnDemandStaticSource(conf) /\ static.state = "initial"
    <3>1. HandlerStart(static) \in Static /\ HandlerStart(static).setReady = static.setReady
      <4>1. HandlerStart(static) \in Static
        BY <1>0, StaticOps
      <4>2. HandlerStart(static).setReady = static.setReady
        BY <1>0 DEF HandlerStart, Static
      <4> QED
        BY <4>1, <4>2
    <3>2. static' = OnDemandStaticSourceStart(static)
      BY <2>1 DEF StartOnDemand
    <3>3. static'.state = "waitingReady" /\ static'.setReady = static.setReady
      BY <3>1, <3>2 DEF OnDemandStaticSourceStart, Static
    <3>4. ~static.setReady
      BY <1>0, <1>1, <2>1 DEF PanicInv, SourceMatchesConf, DemandMatchesState, HasOnDemandStaticSource
    <3> QED
      BY <3>3, <3>4
  <2>2. CASE ~(HasOnDemandStaticSource(conf) /\ static.state = "initial")
    BY <2>2 DEF StartOnDemand
  <2> QED
    BY <2>1, <2>2
<1>3. demand'.state \in {demand.state, "waitingReady"}
  BY <1>0 DEF StartOnDemand, OnDemandPublisherStart, Demand
<1>4. StreamMatchesSource'
  BY <1>0, <1>2 DEF StreamMatchesSource, StreamInv, Running
<1>5. ReadyEffectsMatchStream' /\ NoOrphanReader' /\ ReadersHoldStream'
  BY DEF ReadyEffectsMatchStream, NoOrphanReader, ReadersHoldStream, StreamInv, Running
<1>6. NoOrphanPublisher' /\ ClosedIsClean'
  BY <1>1 DEF NoOrphanPublisher, ClosedIsClean, StreamInv
<1>7. HeldOnlyWhileStarting'
  <2>1. ReportsNotReady => static.state \notin {"ready", "closing"}
    BY <1>0, <1>1 DEF PanicInv, HookInPlace, StreamInv, ReadyEffectsMatchStream
  <2>2. static.state \in {"initial", "waitingReady", "ready", "closing"}
    BY <1>0 DEF Static, OnDemandState
  <2> QED
    BY <1>2, <2>1, <2>2 DEF HeldOnlyWhileStarting, OnDemand
<1>8. CloseOnlyWhenUnused'
  BY <1>2, <1>3 DEF CloseOnlyWhenUnused, StreamInv, Running
<1>9. NoIdleDynamicPath'
  BY <1>4, <1>5, ClosesWhenIdle
<1> QED
  BY <1>4, <1>5, <1>6, <1>7, <1>8, <1>9 DEF StreamInv

\* The calls of the sessions that read keep it.
LEMMA ReadersKeepStreamInv ==
    ASSUME StreamInv, PanicInv', NEW r \in Readers, ReaderStep(r)
    PROVE  StreamInv'
<1> USE DEF ReportsNotReady
<1>0. /\ PanicInv /\ TypeOK /\ clients \in Clients /\ static \in Static /\ demand \in Demand
  BY DEF StreamInv, PanicInv, TypeOK
<1>a. HasOnDemandStaticSource(conf) => demand.state = "initial"
  BY <1>0 DEF PanicInv, SourceMatchesConf, TypeOK, ValidConf, HasStaticSource, HasOnDemandStaticSource,
              HasOnDemandPublisher
<1>b. /\ ~HasOnDemandStaticSource(conf) => static.state = "initial"
      /\ ~HasOnDemandPublisher(conf) => demand.state = "initial"
  BY <1>0 DEF PanicInv, SourceMatchesConf
<1>1. CASE AddReaderJoins(r)
  <2>1. /\ UNCHANGED <<conf, source, stream, held, publisher, told>>
        /\ Running /\ stream.live /\ pc # "closed" /\ pc' \in {"run", "teardown"} /\ CheckShouldClose
    BY <1>1 DEF AddReaderJoins, Running, CheckShouldClose
  <2>2. /\ clients'.readers = clients.readers \cup {r}
        /\ clients'.attached = clients.attached \cup {r}
        /\ clients'.stale = clients.stale \ {r}
        /\ clients'.told = clients.told
    BY <1>0, <1>1, ClientFields DEF AddReaderJoins
  <2>3. /\ static'.state = IF static.state = "closing" THEN "ready" ELSE static.state
        /\ static'.setReady = static.setReady /\ static'.running = static.running
    BY <1>0, <1>1, <1>b DEF AddReaderJoins, CancelClose, Static
  <2>4. demand'.state = IF demand.state = "closing" THEN "ready" ELSE demand.state
    BY <1>0, <1>1, <1>a, <1>b DEF AddReaderJoins, CancelClose, Demand
  <2>5. StreamMatchesSource'
    BY <2>1, <2>3 DEF StreamMatchesSource, StreamInv, Running
  <2>6. ReadyEffectsMatchStream' /\ NoOrphanReader' /\ ReadersHoldStream'
    BY <2>1, <2>2 DEF ReadyEffectsMatchStream, NoOrphanReader, ReadersHoldStream, StreamInv, Running
  <2>7. NoOrphanPublisher' /\ ClosedIsClean' /\ HeldOnlyWhileStarting'
    BY <2>1 DEF NoOrphanPublisher, ClosedIsClean, HeldOnlyWhileStarting, NobodyHeld, StreamInv
  <2>8. CloseOnlyWhenUnused'
    BY <2>1, <2>2, <2>3, <2>4 DEF CloseOnlyWhenUnused
  <2>9. NoIdleDynamicPath'
    BY <2>1, <2>5, <2>6, ClosesWhenIdle
  <2> QED
    BY <2>5, <2>6, <2>7, <2>8, <2>9 DEF StreamInv
<1>2. CASE AddReaderHolds(r)
  BY <1>2, HoldKeepsStreamInv DEF AddReaderHolds
<1>3. CASE AddReaderAnswers(r)
  <2>1. /\ UNCHANGED <<conf, source, stream, held, static, demand, publisher, told>>
        /\ Running /\ pc # "closed" /\ pc' \in {"run", "teardown"} /\ CheckShouldClose
    BY <1>3 DEF AddReaderAnswers, Running, CheckShouldClose
  <2>2. /\ clients'.readers = clients.readers
        /\ clients.attached \subseteq clients'.attached
        /\ clients'.attached \subseteq clients.attached \cup clients.readers
        /\ clients'.stale \subseteq clients.stale
        /\ clients.stale \ clients.readers \subseteq clients'.stale
        /\ clients'.told = clients.told
    <3>1. CASE stream.live /\ r \in clients.readers
      <4>1. clients' = Admit(clients, {r})
        BY <1>3, <3>1 DEF AddReaderAnswers
      <4>2. /\ clients'.readers = clients.readers \cup {r}
            /\ clients'.attached = clients.attached \cup {r}
            /\ clients'.stale = clients.stale \ {r}
            /\ clients'.told = clients.told
        BY <1>0, <4>1, ClientFields
      <4> QED
        BY <3>1, <4>2
    <3>2. CASE ~(stream.live /\ r \in clients.readers)
      BY <1>3, <3>2 DEF AddReaderAnswers
    <3> QED
      BY <3>1, <3>2
  <2>3. StreamMatchesSource'
    BY <2>1 DEF StreamMatchesSource, StreamInv, Running
  <2>4. ReadyEffectsMatchStream' /\ NoOrphanReader' /\ ReadersHoldStream'
    BY <2>1, <2>2 DEF ReadyEffectsMatchStream, NoOrphanReader, ReadersHoldStream, StreamInv, Running
  <2>5. NoOrphanPublisher' /\ ClosedIsClean' /\ HeldOnlyWhileStarting'
    BY <2>1 DEF NoOrphanPublisher, ClosedIsClean, HeldOnlyWhileStarting, NobodyHeld, OnDemand, StreamInv
  <2>6. CloseOnlyWhenUnused'
    BY <2>1, <2>2 DEF CloseOnlyWhenUnused, StreamInv, Running
  <2>7. NoIdleDynamicPath'
    BY <2>1, <2>3, <2>4, ClosesWhenIdle
  <2> QED
    BY <2>3, <2>4, <2>5, <2>6, <2>7 DEF StreamInv
<1>4. CASE RemoveReader(r)
  <2>1. /\ UNCHANGED <<conf, pc, source, stream, held, publisher, told>>
        /\ Running /\ pc # "closed"
        /\ clients'.readers = clients.readers \ {r}
        /\ clients'.attached = clients.attached \ {r}
        /\ clients'.stale = clients.stale \ {r}
        /\ clients'.told = clients.told \ {r}
    BY <1>4 DEF RemoveReader, Forget, Running
  <2>2. /\ static'.state = IF static.state = "ready" /\ clients'.readers = {} THEN "closing" ELSE static.state
        /\ static'.setReady = static.setReady /\ static'.running = static.running
    BY <1>0, <1>4, <1>b, <2>1 DEF RemoveReader, ScheduleCloseIfReady, ScheduleClose, Static
  <2>3. demand'.state = IF demand.state = "ready" /\ clients'.readers = {} THEN "closing" ELSE demand.state
    BY <1>0, <1>4, <1>a, <1>b, <2>1 DEF RemoveReader, ScheduleCloseIfReady, ScheduleClose, Demand
  <2>4. StreamMatchesSource'
    BY <2>1, <2>2 DEF StreamMatchesSource, StreamInv, Running
  <2>5. ReadyEffectsMatchStream' /\ NoOrphanReader' /\ ReadersHoldStream'
    BY <2>1 DEF ReadyEffectsMatchStream, NoOrphanReader, ReadersHoldStream, StreamInv, Running
  <2>6. NoOrphanPublisher' /\ ClosedIsClean' /\ NoIdleDynamicPath'
    BY <2>1 DEF NoOrphanPublisher, ClosedIsClean, NoIdleDynamicPath, NobodyHeld, StreamInv
  <2>7. HeldOnlyWhileStarting'
    BY <2>1, <2>2 DEF HeldOnlyWhileStarting, NobodyHeld, OnDemand, StreamInv
  <2>8. CloseOnlyWhenUnused'
    BY <2>1, <2>2, <2>3 DEF CloseOnlyWhenUnused, StreamInv, ReadersHoldStream
  <2> QED
    BY <2>4, <2>5, <2>6, <2>7, <2>8 DEF StreamInv
<1>5. CASE LeaveClosedPath(r)
  <2>1. /\ UNCHANGED <<conf, pc, source, stream, held, static, demand, publisher, told>>
        /\ ~Running
        /\ clients'.readers = clients.readers
        /\ clients'.attached = clients.attached \ {r}
        /\ clients'.stale = clients.stale \ {r}
        /\ clients'.told = clients.told \ {r}
    BY <1>0, <1>5 DEF LeaveClosedPath, Clients
  <2>2. StreamMatchesSource' /\ CloseOnlyWhenUnused'
    BY <2>1 DEF StreamMatchesSource, CloseOnlyWhenUnused, Running
  <2>3. ReadyEffectsMatchStream' /\ NoOrphanReader' /\ ReadersHoldStream'
    BY <2>1 DEF ReadyEffectsMatchStream, NoOrphanReader, ReadersHoldStream, StreamInv, Running
  <2>4. NoOrphanPublisher' /\ ClosedIsClean' /\ NoIdleDynamicPath'
    BY <2>1 DEF NoOrphanPublisher, ClosedIsClean, NoIdleDynamicPath, NobodyHeld, StreamInv
  <2>5. HeldOnlyWhileStarting'
    BY <2>1 DEF HeldOnlyWhileStarting, NobodyHeld, OnDemand, StreamInv
  <2> QED
    BY <2>2, <2>3, <2>4, <2>5 DEF StreamInv
<1> QED
  BY <1>1, <1>2, <1>3, <1>4, <1>5 DEF ReaderStep

\* A step that only moves the goroutine inside runInner(), or out of it.
LEMMA QuietKeepsStreamInv ==
    ASSUME StreamInv, PanicInv', NoIdleDynamicPath',
           UNCHANGED <<conf, source, stream, clients, held, static, demand, publisher, told>>,
           pc' = pc \/ (pc # "closed" /\ pc' # "closed"), Running' => Running
    PROVE  StreamInv'
<1> USE DEF ReportsNotReady
<1>1. StreamMatchesSource' /\ CloseOnlyWhenUnused'
  BY DEF StreamMatchesSource, CloseOnlyWhenUnused, StreamInv
<1>2. ReadyEffectsMatchStream' /\ NoOrphanReader' /\ ReadersHoldStream'
  BY DEF ReadyEffectsMatchStream, NoOrphanReader, ReadersHoldStream, StreamInv
<1>3. NoOrphanPublisher' /\ ClosedIsClean'
  BY DEF NoOrphanPublisher, ClosedIsClean, NobodyHeld, StreamInv
<1>4. HeldOnlyWhileStarting'
  BY DEF HeldOnlyWhileStarting, NobodyHeld, OnDemand, StreamInv
<1> QED
  BY <1>1, <1>2, <1>3, <1>4 DEF StreamInv

\* doDescribe() keeps it.
LEMMA DescribeKeepsStreamInv ==
    ASSUME StreamInv, PanicInv', NEW d \in Describers, DescribeAnswers(d) \/ DescribeHolds(d)
    PROVE  StreamInv'
<1>1. CASE DescribeAnswers(d)
  <2>1. /\ UNCHANGED <<conf, source, stream, clients, held, static, demand, publisher, told>>
        /\ Running /\ pc # "closed" /\ pc' \in {"run", "teardown"} /\ CheckShouldClose
    BY <1>1 DEF DescribeAnswers, Running, CheckShouldClose
  <2>2. StreamMatchesSource' /\ ReadersHoldStream'
    BY <2>1 DEF StreamMatchesSource, ReadersHoldStream, ReportsNotReady, StreamInv, Running
  <2>3. NoIdleDynamicPath'
    BY <2>1, <2>2, ClosesWhenIdle
  <2> QED
    BY <2>1, <2>3, QuietKeepsStreamInv
<1>2. CASE DescribeHolds(d)
  BY <1>2, HoldKeepsStreamInv DEF DescribeHolds
<1> QED
  BY <1>1, <1>2

\* doReloadConf(): the recorder follows the new configuration.
LEMMA ReloadKeepsStreamInv ==
    ASSUME StreamInv, PanicInv', NEW record \in BOOLEAN, ReloadConf(record)
    PROVE  StreamInv'
<1> USE DEF ReportsNotReady
<1>0. TypeOK /\ stream \in Stream /\ conf \in PathConf
  BY DEF StreamInv, PanicInv, TypeOK
<1>1. /\ UNCHANGED <<pc, source, clients, held, static, demand, publisher, told>>
      /\ Running /\ pc # "closed"
  BY DEF ReloadConf, Running
<1>2. /\ conf'.source = conf.source /\ conf'.regexp = conf.regexp /\ conf'.record = record
      /\ conf'.sourceOnDemand = conf.sourceOnDemand /\ conf'.runOnDemand = conf.runOnDemand
  BY <1>0 DEF ReloadConf, PathConf
<1>3. /\ stream'.live = stream.live /\ stream'.onNotReadyHook = stream.onNotReadyHook
      /\ stream'.recordAgent = (record /\ (stream.recordAgent \/ stream.live))
  BY <1>0 DEF ReloadConf, Stream
<1>4. StreamMatchesSource' /\ CloseOnlyWhenUnused'
  BY <1>1, <1>2, <1>3 DEF StreamMatchesSource, CloseOnlyWhenUnused, StreamInv, Running
<1>5. ReadyEffectsMatchStream'
  BY <1>0, <1>2, <1>3 DEF ReadyEffectsMatchStream, StreamInv, Stream
<1>6. NoOrphanReader' /\ ReadersHoldStream'
  BY <1>1, <1>2, <1>3 DEF NoOrphanReader, ReadersHoldStream, StreamInv, Running
<1>7. NoOrphanPublisher' /\ ClosedIsClean' /\ NoIdleDynamicPath'
  BY <1>1, <1>2 DEF NoOrphanPublisher, ClosedIsClean, NoIdleDynamicPath, NobodyHeld, StreamInv
<1>8. HeldOnlyWhileStarting'
  BY <1>1, <1>2, <1>3 DEF HeldOnlyWhileStarting, NobodyHeld, OnDemand, HasOnDemandStaticSource,
                          HasStaticSource, HasOnDemandPublisher, StreamInv
<1> QED
  BY <1>4, <1>5, <1>6, <1>7, <1>8 DEF StreamInv

\* A path that publishers may own has no static source, and reports.
LEMMA PublisherOwned ==
    ASSUME PanicInv, conf.source = "publisher" \/ source \in Publishers
    PROVE  /\ conf.source = "publisher" /\ source # "static" /\ static.state = "initial"
           /\ ~HasOnDemandStaticSource(conf)
<1>1. conf.source \in {"publisher", "redirect", "static", "srt"}
  BY DEF PanicInv, TypeOK, PathConf
<1> QED
  BY <1>1, ClientsAssumption DEF PanicInv, SourceMatchesConf, HasStaticSource, HasOnDemandStaticSource

\* A publisher that takes the path, or leaves it, or pauses.
LEMMA ChangeOfPublisherKeepsStreamInv ==
    ASSUME StreamInv, PanicInv', NEW p \in Publishers,
           AddPublisher(p) \/ RemovePublisher(p) \/ StopPublisher(p)
    PROVE  StreamInv'
<1> USE DEF ReportsNotReady
<1>0. PanicInv /\ TypeOK /\ publisher \in [Publishers -> {"idle", "added", "publishing"}]
  BY DEF StreamInv, PanicInv, TypeOK
<1>1. CASE AddPublisher(p)
  <2>1. /\ UNCHANGED <<conf, held, static, demand>>
        /\ Running /\ pc' = "run" /\ source' = p /\ conf.source = "publisher"
        /\ told' = told \cup ({source} \cap Publishers)
        /\ publisher' = [publisher EXCEPT ![p] = "added"]
    BY <1>1 DEF AddPublisher
  <2>2. Lost
    BY <1>0, <1>1, <2>1, NotReadyLoses DEF AddPublisher
  <2>3. /\ static.state = "initial" /\ p \notin {"nil", "static"} /\ publisher'[p] = "added"
        /\ ~HasOnDemandStaticSource(conf)
    BY <1>0, <2>1, PublisherOwned, ClientsAssumption
  <2>4. StreamMatchesSource' /\ NoIdleDynamicPath' /\ ClosedIsClean'
    BY <2>1, <2>2, <2>3 DEF StreamMatchesSource, NoIdleDynamicPath, ClosedIsClean, Lost
  <2>5. ReadyEffectsMatchStream' /\ NoOrphanReader' /\ ReadersHoldStream'
    BY <2>2 DEF ReadyEffectsMatchStream, NoOrphanReader, ReadersHoldStream, Lost
  <2>6. NoOrphanPublisher'
    BY <1>0, <2>1 DEF NoOrphanPublisher, StreamInv
  <2>7. CloseOnlyWhenUnused'
    BY <2>1, <2>2, <2>3 DEF CloseOnlyWhenUnused, StreamInv, Lost
  <2>8. HeldOnlyWhileStarting'
    BY <2>1, <2>2, <2>3 DEF HeldOnlyWhileStarting, NobodyHeld, OnDemand, StreamInv, Lost
  <2> QED
    BY <2>4, <2>5, <2>6, <2>7, <2>8 DEF StreamInv
<1>2. CASE RemovePublisher(p) \/ StopPublisher(p)
  <2>1. /\ UNCHANGED <<conf, held, static, demand>>
        /\ Running /\ pc # "closed" /\ pc' \in {"run", "teardown"} /\ CheckShouldClose
        /\ source' \in {source, "nil"} /\ (source # p => source' = source)
        /\ \E v \in {"idle", "added"} :
              /\ publisher' = [publisher EXCEPT ![p] = v]
              /\ v = "idle" => told' = told \ {p}
              /\ v = "added" => told' = told /\ source' = source /\ publisher[p] = "publishing"
        /\ IF source = p /\ stream.live
              THEN stream' = SetNotReady(stream) /\ clients' = CloseReaders(clients)
              ELSE UNCHANGED <<stream, clients>>
    <3>1. CASE RemovePublisher(p)
      BY <3>1 DEF RemovePublisher, Running, CheckShouldClose
    <3>2. CASE StopPublisher(p)
      BY <3>2 DEF StopPublisher, Running, CheckShouldClose
    <3> QED
      BY <1>2, <3>1, <3>2
  <2>2. PICK v \in {"idle", "added"} :
              /\ publisher' = [publisher EXCEPT ![p] = v]
              /\ v = "idle" => told' = told \ {p}
              /\ v = "added" => told' = told /\ source' = source /\ publisher[p] = "publishing"
    BY <2>1
  <2>3. NoOrphanPublisher' /\ ClosedIsClean'
    <3>1. \A q \in Publishers : publisher'[q] = IF q = p THEN v ELSE publisher[q]
      BY <1>0, <2>2
    <3> QED
      BY <2>1, <2>2, <3>1 DEF NoOrphanPublisher, ClosedIsClean, StreamInv
  <2>4. CASE source = p
    <3>1. /\ conf.source = "publisher" /\ static.state = "initial" /\ ~HasOnDemandStaticSource(conf)
          /\ source' # "static" /\ "nil" \notin Publishers
      BY <1>0, <2>1, <2>4, PublisherOwned, ClientsAssumption
    <3>2. Lost
      BY <1>0, <2>1, <2>4, <3>1, NotReadyLoses
    <3>3. publisher'[p] # "publishing"
      BY <1>0, <2>2
    <3>4. StreamMatchesSource'
      BY <2>1, <2>4, <3>1, <3>2, <3>3 DEF StreamMatchesSource, Lost
    <3>5. ReadyEffectsMatchStream' /\ NoOrphanReader' /\ ReadersHoldStream'
      BY <3>2 DEF ReadyEffectsMatchStream, NoOrphanReader, ReadersHoldStream, Lost
    <3>6. CloseOnlyWhenUnused'
      BY <2>1, <3>1, <3>2 DEF CloseOnlyWhenUnused, StreamInv, Lost
    <3>7. HeldOnlyWhileStarting'
      BY <2>1, <3>1, <3>2 DEF HeldOnlyWhileStarting, NobodyHeld, OnDemand, StreamInv, Lost
    <3>8. NoIdleDynamicPath'
      BY <2>1, <3>4, <3>5, ClosesWhenIdle
    <3> QED
      BY <2>3, <3>4, <3>5, <3>6, <3>7, <3>8 DEF StreamInv
  <2>5. CASE source # p
    <3>1. UNCHANGED <<stream, clients, source, conf, static, demand, held>>
      BY <2>1, <2>5
    <3>2. source \in Publishers => publisher'[source] = publisher[source]
      BY <1>0, <2>2, <2>5
    <3>3. StreamMatchesSource' /\ CloseOnlyWhenUnused'
      BY <2>1, <3>1, <3>2 DEF StreamMatchesSource, CloseOnlyWhenUnused, StreamInv
    <3>4. ReadyEffectsMatchStream' /\ NoOrphanReader' /\ ReadersHoldStream'
      BY <2>1, <3>1 DEF ReadyEffectsMatchStream, NoOrphanReader, ReadersHoldStream, StreamInv
    <3>5. HeldOnlyWhileStarting'
      BY <3>1 DEF HeldOnlyWhileStarting, NobodyHeld, OnDemand, StreamInv
    <3>6. NoIdleDynamicPath'
      BY <2>1, <3>3, <3>4, ClosesWhenIdle
    <3> QED
      BY <2>3, <3>3, <3>4, <3>5, <3>6 DEF StreamInv
  <2> QED
    BY <2>4, <2>5
<1> QED
  BY <1>1, <1>2

\* A publisher that starts, or fails to.
LEMMA StartPublisherKeepsStreamInv ==
    ASSUME StreamInv, PanicInv', NEW p \in Publishers, StartPublisher(p) \/ StartPublisherFails(p)
    PROVE  StreamInv'
<1> USE DEF ReportsNotReady
<1>0. /\ PanicInv /\ TypeOK /\ publisher \in [Publishers -> {"idle", "added", "publishing"}]
      /\ stream \in Stream /\ clients \in Clients /\ conf \in PathConf /\ demand \in Demand
  BY DEF StreamInv, PanicInv, TypeOK
<1>1. /\ Running /\ pc # "closed" /\ publisher[p] = "added" /\ source = p
      /\ UNCHANGED <<conf, pc, source, static, told>>
  BY DEF StartPublisher, StartPublisherFails, Running
<1>2. /\ conf.source = "publisher" /\ static.state = "initial" /\ ~HasOnDemandStaticSource(conf)
      /\ source # "static" /\ source # "nil"
  BY <1>0, <1>1, PublisherOwned, ClientsAssumption
<1>3. ~stream.live /\ clients.readers = {} /\ clients.attached \subseteq clients.told
  BY <1>1, <1>2 DEF StreamInv, StreamMatchesSource, ReadersHoldStream, NoOrphanReader
<1>4. NoIdleDynamicPath' /\ ClosedIsClean'
  BY <1>1, <1>2 DEF NoIdleDynamicPath, ClosedIsClean
<1>5. CASE StartPublisher(p)
  <2> DEFINE F == Fitting(LoseStream(clients))
  <2>1. /\ stream' = SetReady(stream) /\ clients' = Admit(LoseStream(clients), F)
        /\ NobodyHeld(held') /\ publisher' = [publisher EXCEPT ![p] = "publishing"]
    BY <1>5 DEF StartPublisher, NoneHeld, NobodyHeld
  <2>2. /\ clients'.readers = clients.readers \cup F
        /\ clients'.attached = clients.attached \cup F
        /\ clients'.stale = clients.attached \ F
        /\ clients'.told = clients.told
    <3>1. LoseStream(clients) \in Clients
      BY <1>0, ClientOps
    <3> HIDE DEF F
    <3> QED
      BY <1>0, <2>1, <3>1, ClientFields
  <2>3. /\ stream'.live /\ stream'.onNotReadyHook = "owed"
        /\ stream'.recordAgent = (stream.recordAgent \/ conf.record)
    BY <1>0, <2>1, ReadyFields
  <2>4. \/ demand'.state = "closing" /\ F = {}
        \/ demand'.state = "ready" /\ F # {}
        \/ demand'.state = "initial"
    <3> DEFINE od == IF HasOnDemandPublisher(conf) /\ demand.state # "initial"
                     THEN ScheduleClose(StopReadyTimer(demand)) ELSE demand
    <3>1. demand' = IF F # {} /\ HasOnDemandPublisher(conf) THEN CancelClose(od) ELSE od
      BY <1>5 DEF StartPublisher
    <3>2. od \in Demand
      BY <1>0, DemandOps
    <3>3. od.state = IF HasOnDemandPublisher(conf) /\ demand.state # "initial" THEN "closing" ELSE "initial"
      <4>1. StopReadyTimer(demand) \in Demand
        BY <1>0, DemandOps
      <4>2. ScheduleClose(StopReadyTimer(demand)).state = "closing"
        BY <4>1 DEF ScheduleClose, Demand
      <4>3. ~HasOnDemandPublisher(conf) => demand.state = "initial"
        BY <1>0 DEF PanicInv, SourceMatchesConf
      <4> QED
        BY <4>2, <4>3
    <3> HIDE DEF od, F
    <3>4. CancelClose(od).state = IF od.state = "closing" THEN "ready" ELSE od.state
      BY <3>2 DEF CancelClose, Demand
    <3> QED
      BY <3>1, <3>3, <3>4
  <2> HIDE DEF F
  <2>5. /\ publisher'[p] = "publishing"
        /\ \A q \in Publishers : q # p => publisher'[q] = publisher[q]
    BY <1>0, <2>1
  <2>6. StreamMatchesSource' /\ HeldOnlyWhileStarting'
    BY <1>1, <2>1, <2>3, <2>5 DEF StreamMatchesSource, HeldOnlyWhileStarting
  <2>7. ReadyEffectsMatchStream'
    BY <1>0, <1>1, <1>2, <1>3, <2>3 DEF ReadyEffectsMatchStream, StreamInv, Stream, PathConf
  <2>8. NoOrphanReader' /\ ReadersHoldStream'
    BY <1>3, <2>2, <2>3 DEF NoOrphanReader, ReadersHoldStream
  <2>9. NoOrphanPublisher'
    BY <1>1, <2>5 DEF NoOrphanPublisher, StreamInv
  <2>10. CloseOnlyWhenUnused'
    BY <1>1, <1>2, <1>3, <2>2, <2>4 DEF CloseOnlyWhenUnused
  <2> QED
    BY <1>4, <2>6, <2>7, <2>8, <2>9, <2>10 DEF StreamInv
<1>6. CASE StartPublisherFails(p)
  <2>1. /\ UNCHANGED <<held, demand, publisher>>
        /\ ~stream'.live /\ stream'.onNotReadyHook = stream.onNotReadyHook
        /\ stream'.recordAgent = stream.recordAgent
        /\ clients'.readers = clients.readers /\ clients'.attached = clients.attached
        /\ clients'.stale = clients.attached /\ clients'.told = clients.told
    BY <1>0, <1>6, ClientFields, ReadyFields DEF StartPublisherFails
  <2>2. StreamMatchesSource' /\ HeldOnlyWhileStarting'
    BY <1>1, <1>2, <2>1 DEF StreamMatchesSource, HeldOnlyWhileStarting, StreamInv, OnDemand, NobodyHeld
  <2>3. ReadyEffectsMatchStream' /\ NoOrphanReader' /\ ReadersHoldStream'
    BY <1>1, <1>2, <1>3, <2>1 DEF ReadyEffectsMatchStream, NoOrphanReader, ReadersHoldStream, StreamInv
  <2>4. NoOrphanPublisher' /\ CloseOnlyWhenUnused'
    BY <1>1, <2>1 DEF NoOrphanPublisher, CloseOnlyWhenUnused, StreamInv
  <2> QED
    BY <1>4, <2>2, <2>3, <2>4 DEF StreamInv
<1> QED
  BY <1>5, <1>6

\* Every call of a session that publishes.
LEMMA PublishersKeepStreamInv ==
    ASSUME StreamInv, PanicInv', NEW p \in Publishers, PublisherStep(p)
    PROVE  StreamInv'
<1> USE DEF ReportsNotReady
<1>1. CASE AddPublisherFails(p)
  <2>1. PanicInv /\ conf.source \in {"publisher", "redirect", "static", "srt"}
    BY DEF StreamInv, PanicInv, TypeOK, PathConf
  <2>2. source # "nil"
    BY <1>1, <2>1 DEF AddPublisherFails, PanicInv, SourceMatchesConf, HasStaticSource
  <2>3. /\ UNCHANGED <<conf, source, stream, clients, held, static, demand, publisher, told>>
        /\ Running /\ pc # "closed" /\ pc' = "run"
    BY <1>1 DEF AddPublisherFails, Running
  <2> QED
    BY <2>2, <2>3, QuietKeepsStreamInv DEF NoIdleDynamicPath
<1>2. CASE UnpublishClosedPath(p)
  <2>1. /\ UNCHANGED <<conf, pc, source, stream, clients, held, static, demand>>
        /\ ~Running /\ told' = told \ {p}
        /\ \A q \in Publishers : publisher'[q] = IF q = p THEN "idle" ELSE publisher[q]
    BY <1>2 DEF UnpublishClosedPath, StreamInv, PanicInv, TypeOK
  <2>2. StreamMatchesSource' /\ CloseOnlyWhenUnused'
    BY <2>1 DEF StreamMatchesSource, CloseOnlyWhenUnused, Running
  <2>3. ReadyEffectsMatchStream' /\ NoOrphanReader' /\ ReadersHoldStream'
    BY <2>1 DEF ReadyEffectsMatchStream, NoOrphanReader, ReadersHoldStream, StreamInv, Running
  <2>4. NoOrphanPublisher' /\ ClosedIsClean' /\ NoIdleDynamicPath'
    BY <2>1 DEF NoOrphanPublisher, ClosedIsClean, NoIdleDynamicPath, NobodyHeld, StreamInv
  <2>5. HeldOnlyWhileStarting'
    BY <2>1 DEF HeldOnlyWhileStarting, NobodyHeld, OnDemand, StreamInv
  <2> QED
    BY <2>2, <2>3, <2>4, <2>5 DEF StreamInv
<1> QED
  BY <1>1, <1>2, ChangeOfPublisherKeepsStreamInv, StartPublisherKeepsStreamInv DEF PublisherStep

\* The tail of run() releases everything and tells everybody.
LEMMA TeardownKeepsStreamInv == StreamInv /\ PanicInv' /\ Teardown => StreamInv'
<1> SUFFICES ASSUME StreamInv, PanicInv', Teardown PROVE StreamInv'
  OBVIOUS
<1> USE DEF ReportsNotReady
<1>0. PanicInv /\ TypeOK /\ static \in Static /\ demand \in Demand /\ conf \in PathConf
  BY DEF StreamInv, PanicInv, TypeOK
<1>1. /\ UNCHANGED <<conf, source, publisher>>
      /\ pc = "teardown" /\ pc' = "closed" /\ NobodyHeld(held')
      /\ told' = told \cup ({source} \cap Publishers)
  BY DEF Teardown, NoneHeld, NobodyHeld
<1>2. ReportsNotReady => Lost
  BY <1>0, NotReadyLoses DEF Teardown
<1>3. ~static'.running
  <2> DEFINE ss == [static EXCEPT !.readyTimer = FALSE, !.closeTimer = FALSE]
  <2>1. ss \in Static /\ ss.running = static.running
    BY <1>0 DEF Static
  <2>2. static' = IF source = "static" /\ (~conf.sourceOnDemand \/ static.state # "initial")
                  THEN HandlerStop(ss) ELSE ss
    BY DEF Teardown
  <2> HIDE DEF ss
  <2>3. HandlerStop(ss).running = FALSE
    BY <2>1 DEF HandlerStop, Static
  <2>4. static.running => source = "static" /\ (~conf.sourceOnDemand \/ static.state # "initial")
    BY <1>0, <1>1 DEF PanicInv, SourceMatchesConf, DemandMatchesState
  <2> QED
    BY <2>1, <2>2, <2>3, <2>4
<1>4. ~demand'.hook
  BY <1>0 DEF Teardown, Demand
<1>5. StreamMatchesSource' /\ CloseOnlyWhenUnused' /\ HeldOnlyWhileStarting' /\ NoIdleDynamicPath'
  BY <1>1 DEF StreamMatchesSource, CloseOnlyWhenUnused, HeldOnlyWhileStarting, NoIdleDynamicPath, Running
<1>6. ReadyEffectsMatchStream' /\ NoOrphanReader' /\ ReadersHoldStream'
  BY <1>1, <1>2 DEF ReadyEffectsMatchStream, NoOrphanReader, ReadersHoldStream, Lost
<1>7. NoOrphanPublisher'
  BY <1>1 DEF NoOrphanPublisher, StreamInv
<1>8. ClosedIsClean'
  BY <1>1, <1>2, <1>3, <1>4 DEF ClosedIsClean, Lost
<1> QED
  BY <1>5, <1>6, <1>7, <1>8 DEF StreamInv

\* Every step keeps the invariant.
LEMMA NextStreamInv == StreamInv /\ [Next]_vars => StreamInv'
<1> SUFFICES ASSUME StreamInv, [Next]_vars PROVE StreamInv'
  OBVIOUS
<1>1. PanicInv'
  BY NextPanicInv DEF StreamInv
<1>2. CASE Terminate
  <2>1. /\ UNCHANGED <<conf, source, stream, clients, held, static, demand, publisher, told>>
        /\ Running /\ pc # "closed" /\ pc' = "teardown"
    BY <1>2 DEF Terminate, Running
  <2> QED
    BY <1>1, <2>1, QuietKeepsStreamInv DEF NoIdleDynamicPath
<1>3. CASE UNCHANGED vars
  <2>1. UNCHANGED <<conf, pc, source, stream, clients, held, static, demand, publisher, told>>
    BY <1>3 DEF vars
  <2>2. NoIdleDynamicPath'
    BY <2>1 DEF NoIdleDynamicPath, NobodyHeld, StreamInv
  <2>3. Running' => Running
    BY <2>1 DEF Running
  <2> QED
    BY <1>1, <2>1, <2>2, <2>3, QuietKeepsStreamInv
<1> QED
  BY <1>1, <1>2, <1>3, TimersKeepStreamInv, SourceKeepsStreamInv, ReloadKeepsStreamInv,
     DescribeKeepsStreamInv, ReadersKeepStreamInv, PublishersKeepStreamInv, TeardownKeepsStreamInv
     DEF Next

\* The inductive invariant holds in every reachable state.
THEOREM StreamSafety == Spec => []StreamInv
<1> QED
  BY InitStreamInv, NextStreamInv, PTL DEF Spec

\* There is a stream exactly while the source of the path is sending.
THEOREM StreamFollowsSource == Spec => []StreamMatchesSource
<1>1. StreamInv => StreamMatchesSource
  BY DEF StreamInv
<1> QED
  BY <1>1, StreamSafety, PTL

\* No session is ever left reading a stream that is gone: setNotReady() and the
\* tail of run() have told it to close.
THEOREM ReadersAreTold == Spec => []NoOrphanReader
<1>1. StreamInv => NoOrphanReader
  BY DEF StreamInv
<1> QED
  BY <1>1, StreamSafety, PTL

\* No session goes on publishing into a path that has another source, or that
\* is gone, without having been told to close.
THEOREM PublishersAreTold == Spec => []NoOrphanPublisher
<1>1. StreamInv => NoOrphanPublisher
  BY DEF StreamInv
<1> QED
  BY <1>1, StreamSafety, PTL

\* A source or a command on demand is scheduled to close only while nobody
\* reads.
THEOREM CloseIsScheduledOnlyWhenUnused == Spec => []CloseOnlyWhenUnused
<1>1. StreamInv => CloseOnlyWhenUnused
  BY DEF StreamInv
<1> QED
  BY <1>1, StreamSafety, PTL

\* run() leaves nothing behind when it returns.
THEOREM NothingLeftBehind == Spec => []ClosedIsClean
<1>1. StreamInv => ClosedIsClean
  BY DEF StreamInv
<1> QED
  BY <1>1, StreamSafety, PTL

(***************************************************************************)
(* maxReaders.                                                             *)
(***************************************************************************)
\* A set of indexes of a queue is empty or has a last element.
LEMMA LastIndex ==
    ASSUME NEW n \in Nat, NEW K \in SUBSET (1..n), K # {}
    PROVE  \E m \in K : \A k \in K : k <= m
<1> DEFINE Less == {p \in Nat \X Nat : p[1] < p[2]}
           Above == {b \in Nat : \A k \in K : k <= b}
<1>1. IsWellFoundedOn(Less, Nat)
  BY NatLessThanWellFounded, Zenon DEF OpToRel
<1>2. Above \subseteq Nat /\ n \in Above
  OBVIOUS
<1>3. PICK b \in Above : \A c \in Above : ~(<<c, b>> \in Less)
  <2> HIDE DEF Less, Above
  <2> QED
    BY <1>1, <1>2, WFMin
<1>4. b \in K
  <2> SUFFICES ASSUME b \notin K PROVE FALSE
    OBVIOUS
  <2>1. b \in Nat /\ \A k \in K : k <= b /\ k # b
    BY <1>3
  <2>2. \A k \in K : k \in Nat /\ k >= 1
    OBVIOUS
  <2>3. b >= 1
    <3>1. PICK k \in K : TRUE
      OBVIOUS
    <3> QED
      BY <2>1, <2>2, <3>1
  <2>4. \A k \in K : k <= b - 1
    BY <2>1, <2>2
  <2>5. b - 1 \in Above
    BY <2>1, <2>3, <2>4
  <2>6. <<b - 1, b>> \in Less
    BY <2>1, <2>3
  <2> QED
    BY <1>3, <2>5, <2>6
<1> QED
  BY <1>3, <1>4

\* consumeOnHoldRequests() stops admitting at maxReaders, whatever the order
\* and the number of the requests.
LEMMA FittingWithinLimit ==
    ASSUME held \in Held, conf \in PathConf, conf.maxReaders # 0,
           NEW cl \in Clients, Cardinality(cl.readers) <= conf.maxReaders
    PROVE  Cardinality(cl.readers \cup Fitting(cl)) <= conf.maxReaders
<1> DEFINE Q == held.readerAddRequests
           K == {j \in DOMAIN Q : Cardinality(cl.readers \cup HeldUpTo(j)) <= conf.maxReaders}
<1>1. Q \in Seq(Readers) /\ DOMAIN Q = 1..Len(Q) /\ Len(Q) \in Nat
  BY DEF Held
<1>2. \A r \in Fitting(cl) : r \in cl.readers \/ \E j \in K : r = Q[j]
  BY DEF Fitting
<1>3. CASE K = {}
  <2>1. cl.readers \cup Fitting(cl) = cl.readers
    BY <1>2, <1>3
  <2> QED
    BY <2>1
<1>4. CASE K # {}
  <2>1. PICK m \in K : \A k \in K : k <= m
    BY <1>1, <1>4, LastIndex
  <2> DEFINE S == cl.readers \cup HeldUpTo(m)
  <2>2. cl.readers \cup Fitting(cl) \subseteq S
    <3>1. \A j \in K : Q[j] \in HeldUpTo(m)
      BY <1>1, <2>1 DEF HeldUpTo
    <3> QED
      BY <1>2, <3>1
  <2>3. S \subseteq Readers
    <3>1. HeldUpTo(m) \subseteq Readers
      BY <1>1, <2>1 DEF HeldUpTo
    <3> QED
      BY <3>1 DEF Clients
  <2>4. IsFiniteSet(S)
    BY <2>3, ClientsAssumption, FS_Subset
  <2>5. Cardinality(cl.readers \cup Fitting(cl)) <= Cardinality(S)
    BY <2>2, <2>4, FS_Subset
  <2>6. Cardinality(S) <= conf.maxReaders
    BY <2>1
  <2>7. IsFiniteSet(cl.readers \cup Fitting(cl))
    BY <2>2, <2>4, FS_Subset
  <2>8. Cardinality(S) \in Nat /\ Cardinality(cl.readers \cup Fitting(cl)) \in Nat
    BY <2>4, <2>7, FS_CardinalityType
  <2>9. conf.maxReaders \in Nat
    BY DEF PathConf
  <2> HIDE DEF S
  <2> QED
    BY <2>5, <2>6, <2>8, <2>9
<1> QED
  BY <1>3, <1>4

\* Removing readers, or admitting one while there is room, respects the limit.
LEMMA LimitOps ==
    ASSUME conf \in PathConf, conf.maxReaders # 0, NEW cl \in Clients,
           Cardinality(cl.readers) <= conf.maxReaders
    PROVE  /\ \A S : S \subseteq cl.readers => Cardinality(S) <= conf.maxReaders
           /\ ~Full(cl) => \A r : Cardinality(cl.readers \cup {r}) <= conf.maxReaders
<1>1. IsFiniteSet(cl.readers)
  BY ClientsAssumption, FS_Subset DEF Clients
<1>2. Cardinality(cl.readers) \in Nat /\ conf.maxReaders \in Nat
  BY <1>1, FS_CardinalityType DEF PathConf
<1>3. ASSUME NEW S, S \subseteq cl.readers PROVE Cardinality(S) <= conf.maxReaders
  <2>1. Cardinality(S) <= Cardinality(cl.readers) /\ Cardinality(S) \in Nat
    BY <1>1, <1>3, FS_Subset, FS_CardinalityType
  <2> QED
    BY <1>2, <2>1
<1>4. ASSUME ~Full(cl), NEW r PROVE Cardinality(cl.readers \cup {r}) <= conf.maxReaders
  <2>1. Cardinality(cl.readers \cup {r}) =
            IF r \in cl.readers THEN Cardinality(cl.readers) ELSE Cardinality(cl.readers) + 1
    BY <1>1, FS_AddElement
  <2>2. Cardinality(cl.readers) < conf.maxReaders
    BY <1>2, <1>4 DEF Full
  <2> QED
    BY <1>2, <2>1, <2>2
<1> QED
  BY <1>3, <1>4

\* How a step may change pa.readers: sessions leave, one joins while there is
\* room, or setReady() admits those on hold.
ReadersChange ==
    \/ clients'.readers \subseteq clients.readers
    \/ ~Full(clients) /\ \E r \in Readers : clients'.readers = clients.readers \cup {r}
    \/ clients'.readers = LoseStream(clients).readers \cup Fitting(LoseStream(clients))

\* No handler of path.go changes pa.readers in another way, and none changes
\* maxReaders.
LEMMA NextReaders ==
    ASSUME TypeOK, [Next]_vars
    PROVE  conf'.maxReaders = conf.maxReaders /\ conf'.source = conf.source /\ ReadersChange
<1>0. clients \in Clients /\ LoseStream(clients) \in Clients /\ conf \in PathConf
  BY ClientOps DEF TypeOK
<1> USE DEF ReadersChange
<1>1. CASE TimerStep
  BY <1>0, <1>1, ClientFields
     DEF TimerStep, StaticReadyTimerFires, StaticCloseTimerFires, PublisherReadyTimerFires,
         PublisherCloseTimerFires
<1>2. CASE SourceStep
  BY <1>0, <1>2, ClientFields
     DEF SourceStep, StaticSourceSetReady, StaticSourceSetReadyFails, StaticSourceSetNotReady
<1>3. CASE \E record \in BOOLEAN : ReloadConf(record)
  BY <1>0, <1>3 DEF ReloadConf, PathConf
<1>4. CASE \E d \in Describers : DescribeAnswers(d) \/ DescribeHolds(d)
  BY <1>4 DEF DescribeAnswers, DescribeHolds
<1>5. ASSUME NEW r \in Readers, ReaderStep(r)
      PROVE  conf'.maxReaders = conf.maxReaders /\ conf'.source = conf.source /\ ReadersChange
  <2>1. CASE AddReaderJoins(r)
    BY <1>0, <2>1, ClientFields DEF AddReaderJoins
  <2>2. CASE AddReaderHolds(r)
    BY <2>2 DEF AddReaderHolds
  <2>3. CASE AddReaderAnswers(r)
    BY <1>0, <2>3, ClientFields DEF AddReaderAnswers
  <2>4. CASE RemoveReader(r)
    BY <2>4 DEF RemoveReader, Forget
  <2>5. CASE LeaveClosedPath(r)
    BY <1>0, <2>5 DEF LeaveClosedPath, Clients
  <2> QED
    BY <1>5, <2>1, <2>2, <2>3, <2>4, <2>5 DEF ReaderStep
<1>6. ASSUME NEW p \in Publishers, PublisherStep(p)
      PROVE  conf'.maxReaders = conf.maxReaders /\ conf'.source = conf.source /\ ReadersChange
  <2>1. CASE StartPublisher(p)
    BY <1>0, <2>1, ClientFields DEF StartPublisher
  <2>2. CASE StartPublisherFails(p)
    BY <1>0, <2>2, ClientFields DEF StartPublisherFails
  <2>3. CASE AddPublisher(p) \/ AddPublisherFails(p)
    BY <1>0, <2>3, ClientFields DEF AddPublisher, AddPublisherFails
  <2>4. CASE RemovePublisher(p) \/ StopPublisher(p) \/ UnpublishClosedPath(p)
    BY <1>0, <2>4, ClientFields DEF RemovePublisher, StopPublisher, UnpublishClosedPath
  <2> QED
    BY <1>6, <2>1, <2>2, <2>3, <2>4 DEF PublisherStep
<1>7. CASE Terminate
  BY <1>7 DEF Terminate
<1>8. CASE Teardown
  BY <1>0, <1>8, ClientFields DEF Teardown
<1>9. CASE UNCHANGED vars
  BY <1>9 DEF vars
<1> QED
  BY <1>1, <1>2, <1>3, <1>4, <1>5, <1>6, <1>7, <1>8, <1>9 DEF Next

\* A step keeps the limit.
LEMMA NextWithinLimit == TypeOK /\ MaxReadersRespected /\ [Next]_vars => MaxReadersRespected'
<1> SUFFICES ASSUME TypeOK, MaxReadersRespected, [Next]_vars, conf.maxReaders # 0
             PROVE  Cardinality(clients'.readers) <= conf.maxReaders
  BY NextReaders DEF MaxReadersRespected
<1>1. /\ clients \in Clients /\ held \in Held /\ conf \in PathConf
      /\ LoseStream(clients) \in Clients /\ LoseStream(clients).readers = clients.readers
      /\ Cardinality(clients.readers) <= conf.maxReaders
  BY ClientOps, ClientFields DEF TypeOK, MaxReadersRespected
<1>2. CASE clients'.readers \subseteq clients.readers
  BY <1>1, <1>2, LimitOps
<1>3. CASE ~Full(clients) /\ \E r \in Readers : clients'.readers = clients.readers \cup {r}
  BY <1>1, <1>3, LimitOps
<1>4. CASE clients'.readers = LoseStream(clients).readers \cup Fitting(LoseStream(clients))
  <2>1. Cardinality(LoseStream(clients).readers \cup Fitting(LoseStream(clients))) <= conf.maxReaders
    BY <1>1, FittingWithinLimit
  <2> QED
    BY <1>4, <2>1
<1> QED
  BY <1>2, <1>3, <1>4, NextReaders DEF ReadersChange

\* maxReaders is never exceeded: addReaderPost() checks it for a session that
\* joins and for each request on hold that setReady() answers.
THEOREM ReadersWithinLimit == Spec => []MaxReadersRespected
<1>1. Init => MaxReadersRespected
  BY FS_EmptySet, ConfsAssumption DEF Init, MaxReadersRespected, PathConf
<1> QED
  BY <1>1, NextWithinLimit, TypeCorrect, PTL DEF Spec

-----------------------------------------------------------------------------
(***************************************************************************)
(* PathContract.                                                           *)
(***************************************************************************)
\* Everything that setReady() sets up is torn down with the stream.
THEOREM ReadyEffectsFollowStream == Spec => []ReadyEffectsMatchStream
<1>1. StreamInv => ReadyEffectsMatchStream
  BY DEF StreamInv
<1> QED
  BY <1>1, StreamSafety, PTL

\* The state of the contract, as the path has it.
View == <<pc # "closed", stream.live, clients.readers, OnHold, conf.maxReaders>>

\* What the steps below may assume.
ContractInv == StreamInv /\ MaxReadersRespected /\ ReportsNotReady

\* The types that the steps below rest on.
LEMMA ContractTypes ==
    ContractInv =>
        /\ StreamInv /\ PanicInv /\ TypeOK /\ conf.source # "srt"
        /\ conf \in PathConf /\ stream \in Stream /\ clients \in Clients /\ held \in Held
        /\ static \in Static /\ demand \in Demand
        /\ LoseStream(clients) \in Clients
        /\ LoseStream(clients).readers = clients.readers
        /\ stream.live \in BOOLEAN
BY ClientOps, ClientFields DEF ContractInv, StreamInv, PanicInv, TypeOK, ReportsNotReady, Stream

\* When every request on hold has been answered nobody waits.
LEMMA NobodyWaits ==
    /\ held' = NoneHeld => OnHold' = {}
    /\ NobodyHeld(held) => OnHold = {}
    /\ UNCHANGED held => OnHold' = OnHold
BY DEF OnHold, NoneHeld, NobodyHeld

\* The contract counts sessions as path.go does.
LEMMA SameCardinality == \A S : Contract!Cardinality(S) = Cardinality(S)
BY Zenon DEF Contract!Cardinality, Cardinality

\* setReady(), called when there is no stream, is BecomeReady: it answers every
\* request on hold and lets those read that fit.
LEMMA SetReadyIsBecomeReady ==
    ASSUME ContractInv, pc # "closed", ~stream.live,
           UNCHANGED <<conf, pc>>, stream' = SetReady(stream), held' = NoneHeld,
           clients' = Admit(LoseStream(clients), Fitting(LoseStream(clients)))
    PROVE  Contract!BecomeReady
<1> DEFINE F == Fitting(LoseStream(clients))
<1>1. stream'.live = TRUE
  BY ContractTypes DEF SetReady, Stream
<1>2. clients.readers = {}
  BY ContractTypes DEF ContractInv, StreamInv, ReadersHoldStream
<1>3. clients'.readers = F
  <2>1. clients'.readers = LoseStream(clients).readers \cup F
    BY ContractTypes, ClientFields
  <2> QED
    BY <1>2, <2>1, ContractTypes
<1>4. F \subseteq OnHold
  BY DEF Fitting, OnHold
<1>5. conf.maxReaders = 0 => F = OnHold
  BY DEF Fitting, OnHold
<1>6. conf.maxReaders = 0 \/ Cardinality(F) <= conf.maxReaders
  <2> SUFFICES ASSUME conf.maxReaders # 0 PROVE Cardinality(F) <= conf.maxReaders
    OBVIOUS
  <2>1. Cardinality(LoseStream(clients).readers) <= conf.maxReaders
    BY ContractTypes DEF ContractInv, MaxReadersRespected
  <2>2. Cardinality(LoseStream(clients).readers \cup F) <= conf.maxReaders
    BY <2>1, ContractTypes, FittingWithinLimit
  <2>3. LoseStream(clients).readers \cup F = F
    BY <1>2, ContractTypes
  <2> QED
    BY <2>2, <2>3
<1>7. OnHold' = {}
  BY NobodyWaits
<1> HIDE DEF F
<1> QED
  BY <1>1, <1>3, <1>4, <1>5, <1>6, <1>7, SameCardinality DEF Contract!BecomeReady, Contract!WithinLimit

\* setNotReady(), called when there is a stream, is BecomeNotReady.
LEMMA SetNotReadyIsBecomeNotReady ==
    ASSUME ContractInv, pc # "closed", pc' # "closed", stream.live, UNCHANGED <<conf, held>>,
           stream' = SetNotReady(stream), clients' = CloseReaders(clients)
    PROVE  Contract!BecomeNotReady
<1>1. stream'.live = FALSE
  BY ContractTypes DEF SetNotReady, Stream
<1>2. clients'.readers = {}
  BY ContractTypes, ClientFields
<1> QED
  BY <1>1, <1>2, NobodyWaits DEF Contract!BecomeNotReady

\* setReady(), when stream.New() fails, changes nothing that a reader sees:
\* there was no stream before either.
LEMMA SetReadyFailsIsInvisible ==
    ASSUME ContractInv, ~stream.live, UNCHANGED <<conf, pc, held>>,
           stream' = SetReadyFails(stream), clients' = LoseStream(clients)
    PROVE  UNCHANGED View
<1>1. stream'.live = FALSE
  BY ContractTypes DEF SetReadyFails, Stream
<1>2. clients'.readers = clients.readers
  BY ContractTypes
<1> QED
  BY <1>1, <1>2, NobodyWaits, ContractTypes DEF View

\* A timer ends the wait of the sessions on hold, ends the stream, or is
\* invisible.
LEMMA TimersKeepContract ==
    ASSUME ContractInv, TimerStep
    PROVE  Contract!Next \/ UNCHANGED View
<1>0. ContractInv /\ StreamInv /\ PanicInv
  BY ContractTypes
<1>a. Running => pc # "closed"
  BY DEF Running
<1>1. CASE StaticReadyTimerFires \/ PublisherReadyTimerFires
  <2>1. /\ held' = NoneHeld /\ UNCHANGED <<conf, stream, clients>>
        /\ pc # "closed" /\ pc' # "closed"
    BY <1>1, <1>a DEF StaticReadyTimerFires, PublisherReadyTimerFires, CheckShouldClose
  <2>2. CASE stream.live
    <3>1. OnHold = {}
      BY <2>2, ContractTypes, NobodyWaits
         DEF ContractInv, StreamInv, HeldOnlyWhileStarting
    <3> QED
      BY <2>1, <3>1, NobodyWaits DEF View
  <2>3. CASE ~stream.live
    BY <2>1, <2>3, NobodyWaits DEF Contract!Next, Contract!GiveUp
  <2> QED
    BY <2>2, <2>3
<1>2. CASE StaticCloseTimerFires
  <2>1. static.state = "closing"
    BY <1>0, <1>2 DEF StaticCloseTimerFires, PanicInv, TimersMatchState
  <2>2. stream.live
    BY <1>0, <1>2, <1>a, <2>1
       DEF StaticCloseTimerFires, PanicInv, HookInPlace, StreamInv, ReadyEffectsMatchStream, ContractInv
  <2>3. Contract!BecomeNotReady
    BY <1>2, <1>a, <2>2, SetNotReadyIsBecomeNotReady DEF StaticCloseTimerFires, CheckShouldClose
  <2> QED
    BY <2>3 DEF Contract!Next
<1>3. CASE PublisherCloseTimerFires
  BY <1>3, NobodyWaits DEF PublisherCloseTimerFires, View
<1> QED
  BY <1>1, <1>2, <1>3 DEF TimerStep

\* The calls of a static source that reports.
LEMMA SourceKeepsContract ==
    ASSUME ContractInv, SourceStep
    PROVE  Contract!Next \/ UNCHANGED View
<1>0. ContractInv /\ StreamInv /\ PanicInv /\ conf.source # "srt"
  BY ContractTypes
<1>a. Running => pc # "closed"
  BY DEF Running
<1>b. Running /\ static.running => source = "static" /\ source \notin Publishers
  BY <1>0, ClientsAssumption DEF PanicInv, SourceMatchesConf
<1>1. CASE StaticSourceSetReady
  <2>1. Running /\ ~stream.live
    BY <1>0, <1>1, <1>b
       DEF StaticSourceSetReady, MayCallSetReady, StreamInv, StreamMatchesSource, ContractInv
  <2>2. Contract!BecomeReady
    BY <1>1, <1>a, <2>1, SetReadyIsBecomeReady DEF StaticSourceSetReady
  <2> QED
    BY <2>2 DEF Contract!Next
<1>2. CASE StaticSourceSetReadyFails
  <2>1. ~stream.live
    BY <1>0, <1>2, <1>b
       DEF StaticSourceSetReadyFails, MayCallSetReady, StreamInv, StreamMatchesSource, ContractInv
  <2> QED
    BY <1>2, <2>1, SetReadyFailsIsInvisible DEF StaticSourceSetReadyFails
<1>3. CASE StaticSourceSetNotReady
  <2>1. Running /\ stream.live
    BY <1>0, <1>3, <1>b
       DEF StaticSourceSetNotReady, StreamInv, StreamMatchesSource, ContractInv
  <2>2. Contract!BecomeNotReady
    BY <1>3, <1>a, <2>1, SetNotReadyIsBecomeNotReady DEF StaticSourceSetNotReady, CheckShouldClose
  <2> QED
    BY <2>2 DEF Contract!Next
<1> QED
  BY <1>1, <1>2, <1>3 DEF SourceStep

\* A session that asks to read joins, waits or is answered with an error; one
\* that leaves frees its place.
LEMMA ReadersKeepContract ==
    ASSUME ContractInv, NEW r \in Readers, ReaderStep(r)
    PROVE  Contract!Next \/ UNCHANGED View
<1>0. clients \in Clients /\ conf \in PathConf /\ held \in Held
  BY ContractTypes
<1>a. Running => pc # "closed"
  BY DEF Running
<1>1. CASE AddReaderJoins(r)
  <2>1. /\ Running /\ stream.live /\ pc' # "closed" /\ UNCHANGED <<conf, stream, held>>
        /\ clients'.readers = clients.readers \cup {r} /\ ~Full(clients)
    BY <1>0, <1>1, ClientFields DEF AddReaderJoins, CheckShouldClose
  <2>2. conf.maxReaders = 0 \/ Cardinality(clients.readers \cup {r}) <= conf.maxReaders
    BY <1>0, <2>1, LimitOps DEF ContractInv, MaxReadersRespected
  <2>3. Contract!Join(r)
    BY <1>a, <2>1, <2>2, NobodyWaits, SameCardinality DEF Contract!Join, Contract!WithinLimit
  <2> QED
    BY <2>3 DEF Contract!Next
<1>2. CASE AddReaderHolds(r)
  <2>1. /\ Running /\ ~stream.live /\ pc' # "closed" /\ UNCHANGED <<conf, stream, clients>>
        /\ held'.readerAddRequests = Append(held.readerAddRequests, r)
    BY <1>0, <1>2 DEF AddReaderHolds, CheckShouldClose, Held
  <2>2. OnHold' = OnHold \cup {r}
    <3>1. held.readerAddRequests \in Seq(Readers)
      BY <1>0 DEF Held
    <3> DEFINE q == held.readerAddRequests
    <3>2. /\ DOMAIN Append(q, r) = DOMAIN q \cup {Len(q) + 1}
          /\ Append(q, r)[Len(q) + 1] = r
          /\ \A i \in DOMAIN q : Append(q, r)[i] = q[i]
      BY <3>1
    <3> HIDE DEF q
    <3>3. OnHold = {q[i] : i \in DOMAIN q}
      BY DEF OnHold, q
    <3>4. OnHold' = {Append(q, r)[i] : i \in DOMAIN q \cup {Len(q) + 1}}
      BY <2>1, <3>2 DEF OnHold, q
    <3> QED
      BY <3>2, <3>3, <3>4
  <2>3. Contract!Wait(r)
    BY <1>a, <2>1, <2>2 DEF Contract!Wait
  <2> QED
    BY <2>3 DEF Contract!Next
<1>3. CASE AddReaderAnswers(r)
  <2>1. UNCHANGED <<conf, stream, held>> /\ pc # "closed" /\ pc' # "closed"
    BY <1>3, <1>a DEF AddReaderAnswers, CheckShouldClose
  <2>2. clients'.readers = clients.readers
    <3>1. CASE stream.live /\ r \in clients.readers
      <4>1. clients' = Admit(clients, {r})
        BY <1>3, <3>1 DEF AddReaderAnswers
      <4>2. clients'.readers = clients.readers \cup {r}
        BY <1>0, <4>1, ClientFields
      <4> QED
        BY <3>1, <4>2
    <3>2. CASE ~(stream.live /\ r \in clients.readers)
      BY <1>3, <3>2 DEF AddReaderAnswers
    <3> QED
      BY <3>1, <3>2
  <2> QED
    BY <2>1, <2>2, NobodyWaits DEF View
<1>4. CASE RemoveReader(r)
  <2>1. UNCHANGED <<conf, pc, stream, held>> /\ clients'.readers = clients.readers \ {r}
    BY <1>4 DEF RemoveReader, Forget
  <2>2. Contract!Leave(r)
    BY <2>1, NobodyWaits DEF Contract!Leave
  <2> QED
    BY <2>2 DEF Contract!Next
<1>5. CASE LeaveClosedPath(r)
  <2>1. UNCHANGED <<conf, pc, stream, held>> /\ clients'.readers = clients.readers
    BY <1>0, <1>5 DEF LeaveClosedPath, Clients
  <2> QED
    BY <2>1, NobodyWaits DEF View
<1> QED
  BY <1>1, <1>2, <1>3, <1>4, <1>5 DEF ReaderStep

\* A publisher makes the path ready when it starts, and not ready when it
\* stops, leaves or is overridden while it was sending.
LEMMA PublishersKeepContract ==
    ASSUME ContractInv, NEW p \in Publishers, PublisherStep(p)
    PROVE  Contract!Next \/ UNCHANGED View
<1>a. Running => pc # "closed"
  BY DEF Running
<1>b. Running /\ source = p /\ publisher[p] = "added" => ~stream.live
  BY ContractTypes, ClientsAssumption
     DEF ContractInv, StreamInv, StreamMatchesSource
<1>1. ASSUME pc # "closed", pc' # "closed", UNCHANGED <<conf, held>>,
             \/ stream.live /\ stream' = SetNotReady(stream) /\ clients' = CloseReaders(clients)
             \/ UNCHANGED <<stream, clients>>
      PROVE  Contract!Next \/ UNCHANGED View
  <2>1. CASE stream.live /\ stream' = SetNotReady(stream) /\ clients' = CloseReaders(clients)
    BY <1>1, <2>1, SetNotReadyIsBecomeNotReady DEF Contract!Next
  <2>2. CASE UNCHANGED <<stream, clients>>
    BY <1>1, <2>2, NobodyWaits DEF View
  <2> QED
    BY <1>1, <2>1, <2>2
<1>2. CASE AddPublisher(p) \/ AddPublisherFails(p)
  BY <1>1, <1>2, <1>a DEF AddPublisher, AddPublisherFails
<1>3. CASE RemovePublisher(p) \/ StopPublisher(p)
  BY <1>1, <1>3, <1>a DEF RemovePublisher, StopPublisher, CheckShouldClose
<1>4. CASE StartPublisher(p)
  <2>1. Contract!BecomeReady
    BY <1>4, <1>a, <1>b, SetReadyIsBecomeReady DEF StartPublisher
  <2> QED
    BY <2>1 DEF Contract!Next
<1>5. CASE StartPublisherFails(p)
  BY <1>5, <1>b, SetReadyFailsIsInvisible DEF StartPublisherFails
<1>6. CASE UnpublishClosedPath(p)
  BY <1>6, NobodyWaits DEF UnpublishClosedPath, View
<1> QED
  BY <1>2, <1>3, <1>4, <1>5, <1>6 DEF PublisherStep

\* The end of run() lets every session go, whether or not there was a stream.
LEMMA TeardownKeepsContract ==
    ASSUME ContractInv, Teardown
    PROVE  Contract!Close
<1>1. /\ pc # "closed" /\ pc' = "closed" /\ UNCHANGED conf /\ held' = NoneHeld
      /\ stream' = IF stream.live THEN SetNotReady(stream) ELSE stream
      /\ clients' = IF stream.live THEN CloseReaders(clients) ELSE clients
  BY DEF Teardown
<1>2. stream'.live = FALSE
  BY <1>1, ContractTypes DEF SetNotReady, Stream
<1>3. clients'.readers = {}
  BY <1>1, ContractTypes, ClientFields DEF ContractInv, StreamInv, ReadersHoldStream
<1> QED
  BY <1>1, <1>2, <1>3, NobodyWaits DEF Contract!Close

\* Every step of a path is a step of the contract or is invisible to readers.
LEMMA StepKeepsContract == ContractInv /\ [Next]_vars => [Contract!Next]_View
<1> SUFFICES ASSUME ContractInv, [Next]_vars PROVE Contract!Next \/ UNCHANGED View
  OBVIOUS
<1>a. Running => pc # "closed"
  BY DEF Running
<1>1. CASE \E record \in BOOLEAN : ReloadConf(record)
  <2>1. UNCHANGED <<pc, clients, held>> /\ stream'.live = stream.live /\ conf'.maxReaders = conf.maxReaders
    BY <1>1, ContractTypes DEF ReloadConf, PathConf, Stream
  <2> QED
    BY <2>1, NobodyWaits DEF View
<1>2. CASE \E d \in Describers : DescribeAnswers(d) \/ DescribeHolds(d)
  <2>1. /\ UNCHANGED <<conf, stream, clients>> /\ pc # "closed" /\ pc' # "closed"
        /\ held'.readerAddRequests = held.readerAddRequests
    BY <1>2, <1>a, ContractTypes DEF DescribeAnswers, DescribeHolds, CheckShouldClose, Held
  <2>2. OnHold' = OnHold
    BY <2>1 DEF OnHold
  <2> QED
    BY <2>1, <2>2 DEF View
<1>3. CASE Terminate
  BY <1>3, <1>a, NobodyWaits DEF Terminate, View
<1>4. CASE Teardown
  BY <1>4, TeardownKeepsContract DEF Contract!Next
<1>5. CASE UNCHANGED vars
  BY <1>5, NobodyWaits DEF vars, View
<1> QED
  BY <1>1, <1>2, <1>3, <1>4, <1>5, TimersKeepContract, SourceKeepsContract, ReadersKeepContract,
     PublishersKeepContract DEF Next

\* A path whose source reports when it stops being ready keeps its promise to
\* the sessions that read from it: they read only a live stream and wait only
\* for one, all waiting sessions are answered together when the path becomes
\* ready, and all readers are let go together when it stops.
THEOREM PathImplementsContract == Spec /\ ReportsNotReady => KeepsContract
<1>1. Init => Contract!Init
  BY ConfsAssumption DEF Init, Contract!Init, OnHold, PathConf
<1>2. TypeOK /\ ReportsNotReady /\ [Next]_vars => ReportsNotReady'
  BY NextReaders DEF ReportsNotReady
<1>3. Spec /\ ReportsNotReady => []ReportsNotReady
  BY <1>2, TypeCorrect, PTL DEF Spec
<1>4. StreamInv /\ MaxReadersRespected /\ ReportsNotReady /\ [Next]_vars => [Contract!Next]_View
  BY StepKeepsContract DEF ContractInv
<1> QED
  BY <1>1, <1>3, <1>4, StreamSafety, ReadersWithinLimit, PTL
     DEF Spec, KeepsContract, Contract!Spec, Contract!vars, View

-----------------------------------------------------------------------------
(***************************************************************************)
(* The requests on hold.                                                   *)
(***************************************************************************)
\* Induction over the length of a queue, for a set of numbers.
LEMMA Induction ==
    ASSUME NEW S, 0 \in S, \A n \in Nat : n \in S => n + 1 \in S
    PROVE  Nat \subseteq S
<1> SUFFICES ASSUME NEW z \in Nat, z \notin S PROVE FALSE
  OBVIOUS
<1> DEFINE Less == {p \in Nat \X Nat : p[1] < p[2]}
           Out == {n \in Nat : n \notin S}
<1>1. IsWellFoundedOn(Less, Nat)
  BY NatLessThanWellFounded, Zenon DEF OpToRel
<1>2. Out \subseteq Nat /\ z \in Out
  OBVIOUS
<1>3. PICK b \in Out : \A c \in Out : ~(<<c, b>> \in Less)
  <2> HIDE DEF Less, Out
  <2> QED
    BY <1>1, <1>2, WFMin
<1>4. b \in Nat /\ b # 0 /\ b - 1 \in Nat /\ b \notin S /\ b = (b - 1) + 1
  BY <1>3
<1>5. b - 1 \in S
  <2>1. <<b - 1, b>> \in Less
    BY <1>4
  <2> QED
    BY <1>3, <1>4, <2>1
<1> QED
  BY <1>4, <1>5

\* No session is on hold twice: its call blocks.
HeldOnce ==
    \A i, j \in DOMAIN held.readerAddRequests :
        held.readerAddRequests[i] = held.readerAddRequests[j] => i = j

\* What a step may do to the queue.
QueueChange ==
    \/ held'.readerAddRequests \in {held.readerAddRequests, << >>}
    \/ \E r \in Readers \ OnHold :
            held'.readerAddRequests = Append(held.readerAddRequests, r)

LEMMA NextQueue ==
    ASSUME TypeOK, [Next]_vars
    PROVE  QueueChange
<1>0. held \in Held /\ NoneHeld.readerAddRequests = << >>
  BY DEF TypeOK, NoneHeld
<1> USE DEF QueueChange
<1>1. CASE TimerStep
  BY <1>0, <1>1
     DEF TimerStep, StaticReadyTimerFires, StaticCloseTimerFires, PublisherReadyTimerFires,
         PublisherCloseTimerFires
<1>2. CASE SourceStep
  BY <1>0, <1>2 DEF SourceStep, StaticSourceSetReady, StaticSourceSetReadyFails,
                    StaticSourceSetNotReady
<1>3. CASE \E record \in BOOLEAN : ReloadConf(record)
  BY <1>3 DEF ReloadConf
<1>4. CASE \E d \in Describers : DescribeAnswers(d) \/ DescribeHolds(d)
  BY <1>0, <1>4 DEF DescribeAnswers, DescribeHolds, Held
<1>5. ASSUME NEW r \in Readers, ReaderStep(r) PROVE QueueChange
  <2>1. CASE AddReaderHolds(r)
    BY <1>0, <2>1 DEF AddReaderHolds, Held
  <2>2. CASE AddReaderJoins(r) \/ AddReaderAnswers(r) \/ RemoveReader(r) \/ LeaveClosedPath(r)
    BY <2>2 DEF AddReaderJoins, AddReaderAnswers, RemoveReader, LeaveClosedPath
  <2> QED
    BY <1>5, <2>1, <2>2 DEF ReaderStep
<1>6. ASSUME NEW p \in Publishers, PublisherStep(p) PROVE QueueChange
  BY <1>0, <1>6 DEF PublisherStep, StartPublisher, StartPublisherFails, AddPublisher,
     AddPublisherFails, RemovePublisher, StopPublisher, UnpublishClosedPath
<1>7. CASE Terminate
  BY <1>7 DEF Terminate
<1>8. CASE Teardown
  BY <1>0, <1>8 DEF Teardown
<1>9. CASE UNCHANGED vars
  BY <1>9 DEF vars
<1> QED
  BY <1>1, <1>2, <1>3, <1>4, <1>5, <1>6, <1>7, <1>8, <1>9 DEF Next

LEMMA NextHeldOnce == TypeOK /\ HeldOnce /\ [Next]_vars => HeldOnce'
<1> SUFFICES ASSUME TypeOK, HeldOnce, [Next]_vars PROVE HeldOnce'
  OBVIOUS
<1> DEFINE q == held.readerAddRequests
<1>1. q \in Seq(Readers) /\ Len(q) \in Nat /\ DOMAIN q = 1..Len(q)
  BY DEF TypeOK, Held
<1>2. CASE held'.readerAddRequests \in {q, << >>}
  BY <1>2 DEF HeldOnce
<1>3. ASSUME NEW r \in Readers \ OnHold, held'.readerAddRequests = Append(q, r)
      PROVE  HeldOnce'
  <2>1. \A i \in 1..Len(q) : q[i] # r
    BY <1>1 DEF OnHold
  <2>2. \A i, j \in 1..Len(q) : q[i] = q[j] => i = j
    BY <1>1 DEF HeldOnce
  <2> HIDE DEF q
  <2>3. /\ DOMAIN Append(q, r) = 1..(Len(q) + 1)
        /\ \A i \in 1..(Len(q) + 1) : Append(q, r)[i] = IF i \in 1..Len(q) THEN q[i] ELSE r
        /\ \A i \in 1..(Len(q) + 1) : i \in 1..Len(q) \/ i = Len(q) + 1
    BY <1>1
  <2> QED
    BY <1>3, <2>1, <2>2, <2>3 DEF HeldOnce
<1> QED
  BY <1>2, <1>3, NextQueue DEF QueueChange

\* The sessions a path keeps, field by field.
Sessions(a, b, c, d) == [readers |-> a, attached |-> b, stale |-> c, told |-> d]

LEMMA AdmitIs ==
    ASSUME NEW a, NEW b, NEW c, NEW d, NEW T
    PROVE  Admit(Sessions(a, b, c, d), T) = Sessions(a \cup T, b \cup T, c \ T, d)
<1> DEFINE cl == [readers |-> a, attached |-> b, stale |-> c, told |-> d]
           x == [cl EXCEPT !.readers = a \cup T]
           y == [x EXCEPT !.attached = b \cup T]
           z == [y EXCEPT !.stale = c \ T]
<1>1. Admit(cl, T) = z
  BY DEF Admit
<1>2. x = [readers |-> a \cup T, attached |-> b, stale |-> c, told |-> d]
  OBVIOUS
<1> HIDE DEF x
<1>3. y = [readers |-> a \cup T, attached |-> b \cup T, stale |-> c, told |-> d]
  BY <1>2
<1> HIDE DEF y
<1>4. z = [readers |-> a \cup T, attached |-> b \cup T, stale |-> c \ T, told |-> d]
  BY <1>3
<1> HIDE DEF z
<1> QED
  BY <1>1, <1>4 DEF Sessions

LEMMA AdmitNobody == \A cl \in Clients : Admit(cl, {}) = cl
<1> SUFFICES ASSUME NEW cl \in Clients PROVE Admit(cl, {}) = cl
  OBVIOUS
<1>1. PICK a, b, c, d : cl = Sessions(a, b, c, d)
  BY DEF Clients, Sessions
<1>2. Admit(Sessions(a, b, c, d), {}) = Sessions(a \cup {}, b \cup {}, c \ {}, d)
  BY AdmitIs
<1>3. a \cup {} = a /\ b \cup {} = b /\ c \ {} = c
  OBVIOUS
<1> QED
  BY <1>1, <1>2, <1>3

\* Admitting sessions one after the other is admitting them together.
AdmitsOneMore(cl, S, r) ==
    /\ Admit(cl, S).readers = cl.readers \cup S
    /\ Admit(Admit(cl, S), {r}) = Admit(cl, S \cup {r})

LEMMA AdmitMore ==
    ASSUME NEW cl \in Clients, NEW S, NEW r
    PROVE  AdmitsOneMore(cl, S, r)
<1>1. PICK a, b, c, d : cl = Sessions(a, b, c, d)
  BY DEF Clients, Sessions
<1> DEFINE T == S \cup {r}
<1>2. Admit(cl, S) = Sessions(a \cup S, b \cup S, c \ S, d)
  BY <1>1, AdmitIs
<1>3. Admit(cl, T) = Sessions(a \cup T, b \cup T, c \ T, d)
  BY <1>1, AdmitIs
<1>4. Admit(cl, S).readers = cl.readers \cup S
  BY <1>1, <1>2 DEF Sessions
<1>5. Admit(Sessions(a \cup S, b \cup S, c \ S, d), {r}) =
        Sessions((a \cup S) \cup {r}, (b \cup S) \cup {r}, (c \ S) \ {r}, d)
  BY AdmitIs
<1>6. /\ (a \cup S) \cup {r} = a \cup T /\ (b \cup S) \cup {r} = b \cup T
      /\ (c \ S) \ {r} = c \ T
  OBVIOUS
<1>7. Admit(Admit(cl, S), {r}) = Admit(cl, T)
  BY <1>2, <1>3, <1>5, <1>6
<1> QED
  BY <1>4, <1>7 DEF AdmitsOneMore

\* Request j is admitted, and the sessions that are admitted among the first n.
Fits(cl, j) ==
    \/ conf.maxReaders = 0
    \/ held.readerAddRequests[j] \in cl.readers
    \/ Cardinality(cl.readers \cup HeldUpTo(j)) <= conf.maxReaders
FirstFitting(cl, n) == {held.readerAddRequests[i] : i \in {j \in 1..n : Fits(cl, j)}}

\* Up to request n nobody was refused, or there is no room left.
NoneRefusedOrFull(cl, n) ==
    \/ cl.readers \cup FirstFitting(cl, n) = cl.readers \cup HeldUpTo(n)
    \/ conf.maxReaders # 0 /\ Cardinality(cl.readers \cup FirstFitting(cl, n)) >= conf.maxReaders

\* One round of the loop.
LEMMA LoopRound ==
    ASSUME held \in Held, conf \in PathConf, HeldOnce, NEW cl \in Clients,
           NEW n \in Nat, n + 1 \in DOMAIN held.readerAddRequests, NoneRefusedOrFull(cl, n)
    PROVE  /\ AddReaderPost(Admit(cl, FirstFitting(cl, n)), held.readerAddRequests[n + 1]) =
                Admit(cl, FirstFitting(cl, n + 1))
           /\ NoneRefusedOrFull(cl, n + 1)
<1> DEFINE q == held.readerAddRequests
           r == q[n + 1]
           F == FirstFitting(cl, n)
           G == FirstFitting(cl, n + 1)
           H == HeldUpTo(n)
           R == cl.readers
           M == conf.maxReaders
<1>1. q \in Seq(Readers) /\ Len(q) \in Nat /\ DOMAIN q = 1..Len(q)
  BY DEF Held
<1>2. r \in Readers /\ R \subseteq Readers /\ M \in Nat
  BY <1>1 DEF Clients, PathConf
<1>3. \A i \in 1..n : i \in 1..Len(q) /\ i \in 1..(n + 1) /\ i # n + 1
  BY <1>1
<1>4. \A i \in 1..(n + 1) : i \in 1..n \/ i = n + 1
  OBVIOUS
<1>5. F \subseteq H /\ H \subseteq Readers /\ r \notin H
  <2>1. F \subseteq H
    BY DEF FirstFitting, HeldUpTo
  <2>2. H \subseteq Readers
    BY <1>1, <1>3 DEF HeldUpTo
  <2>3. \A i \in 1..n : q[i] # q[n + 1]
    BY <1>1, <1>3 DEF HeldOnce
  <2>4. r \notin H
    BY <2>3 DEF HeldUpTo
  <2> QED
    BY <2>1, <2>2, <2>4
<1>6. HeldUpTo(n + 1) = H \cup {r}
  BY <1>3, <1>4 DEF HeldUpTo
<1>7. G = IF Fits(cl, n + 1) THEN F \cup {r} ELSE F
  <2>1. n + 1 \in 1..(n + 1)
    OBVIOUS
  <2> QED
    BY <1>3, <1>4, <2>1 DEF FirstFitting
<1> DEFINE A == R \cup F
           B == R \cup H
<1>8. /\ A \subseteq B /\ IsFiniteSet(A) /\ IsFiniteSet(B)
      /\ Cardinality(A) \in Nat /\ Cardinality(B) \in Nat /\ Cardinality(A) <= Cardinality(B)
  <2>1. A \subseteq B /\ B \subseteq Readers
    BY <1>2, <1>5
  <2>2. IsFiniteSet(B)
    BY <2>1, ClientsAssumption, FS_Subset
  <2> QED
    BY <2>1, <2>2, FS_Subset, FS_CardinalityType
<1>9. r \notin R => /\ Cardinality(B \cup {r}) = Cardinality(B) + 1
                    /\ Cardinality(A \cup {r}) = Cardinality(A) + 1
  <2>1. r \notin R => r \notin B /\ r \notin A
    BY <1>5
  <2> HIDE DEF A, B, r
  <2>2. ASSUME r \notin R PROVE Cardinality(B \cup {r}) = Cardinality(B) + 1
    BY <1>8, <2>1, <2>2, FS_AddElement
  <2>3. ASSUME r \notin R PROVE Cardinality(A \cup {r}) = Cardinality(A) + 1
    BY <1>8, <2>1, <2>3, FS_AddElement
  <2> QED
    BY <2>2, <2>3
<1>10. Fits(cl, n + 1) <=> M = 0 \/ r \in R \/ Cardinality(B \cup {r}) <= M
  <2>1. R \cup HeldUpTo(n + 1) = B \cup {r}
    BY <1>6
  <2> QED
    BY <2>1 DEF Fits
<1>11. A = B \/ (M # 0 /\ Cardinality(A) >= M)
  BY DEF NoneRefusedOrFull
<1>12. /\ Admit(cl, F).readers = A
       /\ Admit(Admit(cl, F), {r}) = Admit(cl, F \cup {r})
  <2>1. AdmitsOneMore(cl, F, r)
    BY AdmitMore
  <2> QED
    BY <2>1 DEF AdmitsOneMore
<1>13. Full(Admit(cl, F)) <=> M # 0 /\ Cardinality(A) >= M
  BY <1>12 DEF Full
<1>14. AddReaderPost(Admit(cl, F), r) =
         IF r \in A \/ ~Full(Admit(cl, F)) THEN Admit(cl, F \cup {r}) ELSE Admit(cl, F)
  BY <1>12 DEF AddReaderPost
<1>15. (R \cup (F \cup {r}) = A \cup {r}) /\ R \cup (H \cup {r}) = B \cup {r}
  OBVIOUS
<1>16. NoneRefusedOrFull(cl, n + 1) <=>
         (R \cup G = B \cup {r} \/ (M # 0 /\ Cardinality(R \cup G) >= M))
  BY <1>6, <1>15 DEF NoneRefusedOrFull
<1>a. r \in A <=> r \in R
  BY <1>5
<1>17. CASE Fits(cl, n + 1)
  <2>1. r \in A \/ ~Full(Admit(cl, F))
    <3>1. CASE M = 0 \/ r \in R
      BY <1>13, <1>a, <3>1
    <3>2. CASE M # 0 /\ r \notin R
      <4>1. Cardinality(B) + 1 <= M
        BY <1>9, <1>10, <1>17, <3>2
      <4> HIDE DEF A, B, M
      <4>2. Cardinality(A) < M
        BY <1>2, <1>8, <4>1
      <4> QED
        BY <1>2, <1>8, <1>13, <4>2
    <3> QED
      BY <3>1, <3>2
  <2>2. G = F \cup {r} /\ R \cup G = A \cup {r}
    BY <1>7, <1>15, <1>17
  <2>3. AddReaderPost(Admit(cl, F), r) = Admit(cl, G)
    BY <1>14, <2>1, <2>2
  <2>4. R \cup G = B \cup {r} \/ (M # 0 /\ Cardinality(R \cup G) >= M)
    <3>1. CASE A = B
      BY <2>2, <3>1
    <3>2. CASE M # 0 /\ Cardinality(A) >= M
      <4>1. Cardinality(A \cup {r}) >= Cardinality(A) /\ Cardinality(A \cup {r}) \in Nat
        <5>1. CASE r \in R
          <6>1. A \cup {r} = A
            BY <5>1
          <6> QED
            BY <1>8, <6>1
        <5>2. CASE r \notin R
          BY <1>8, <1>9, <5>2
        <5> QED
          BY <5>1, <5>2
      <4> HIDE DEF A, M
      <4>2. Cardinality(A \cup {r}) >= M
        BY <1>2, <1>8, <3>2, <4>1
      <4> QED
        BY <2>2, <3>2, <4>2
    <3> QED
      BY <1>11, <3>1, <3>2
  <2> QED
    BY <1>16, <2>3, <2>4
<1>18. CASE ~Fits(cl, n + 1)
  <2>1. M # 0 /\ r \notin R /\ ~(Cardinality(B) + 1 <= M)
    BY <1>9, <1>10, <1>18
  <2>2. Cardinality(A) >= M
    <3>1. CASE A = B
      <4> HIDE DEF A, B, M
      <4> QED
        BY <1>2, <1>8, <2>1, <3>1
    <3> QED
      BY <1>11, <3>1
  <2>3. G = F /\ R \cup G = A
    BY <1>7, <1>18
  <2>4. AddReaderPost(Admit(cl, F), r) = Admit(cl, G)
    BY <1>13, <1>14, <1>a, <2>1, <2>2, <2>3
  <2> QED
    BY <1>16, <2>1, <2>2, <2>3, <2>4
<1> QED
  BY <1>17, <1>18

\* The loop ends with what Fitting() says.
LEMMA LoopIsFitting ==
    ASSUME held \in Held, conf \in PathConf, HeldOnce, NEW cl \in Clients
    PROVE  Admit(cl, Fitting(cl)) = ConsumeOnHold(cl)
<1> DEFINE q == held.readerAddRequests
           K == Len(q)
           Round(f) == [n \in 0..K |-> IF n = 0 THEN cl ELSE AddReaderPost(f[n - 1], q[n])]
           h == [n \in 0..K |-> Admit(cl, FirstFitting(cl, n))]
           f == CHOOSE g : g = Round(g)
<1>1. q \in Seq(Readers) /\ K \in Nat /\ DOMAIN q = 1..K
  BY DEF Held
<1>2. FirstFitting(cl, 0) = {} /\ Admit(cl, {}) = cl
  <2>1. Admit(cl, {}) = cl
    BY AdmitNobody
  <2> QED
    BY <2>1 DEF FirstFitting
<1>3. \A n \in Nat : n <= K => NoneRefusedOrFull(cl, n)
  <2> DEFINE S == {n \in Nat : n <= K => NoneRefusedOrFull(cl, n)}
  <2>1. 0 \in S
    BY <1>2 DEF NoneRefusedOrFull, HeldUpTo
  <2>2. ASSUME NEW n \in Nat, n \in S PROVE n + 1 \in S
    <3>1. CASE n + 1 <= K
      <4>1. n + 1 \in DOMAIN q /\ NoneRefusedOrFull(cl, n)
        BY <1>1, <2>2, <3>1
      <4>2. NoneRefusedOrFull(cl, n + 1)
        BY <4>1, LoopRound
      <4> QED
        BY <4>2
    <3>2. CASE ~(n + 1 <= K)
      BY <3>2
    <3> QED
      BY <3>1, <3>2
  <2> HIDE DEF S
  <2>3. Nat \subseteq S
    BY <2>1, <2>2, Induction
  <2> QED
    BY <2>3 DEF S
<1>4. h = Round(h)
  <2>1. ASSUME NEW n \in 0..K
        PROVE  h[n] = IF n = 0 THEN cl ELSE AddReaderPost(h[n - 1], q[n])
    <3>1. CASE n = 0
      BY <1>2, <3>1
    <3>2. CASE n # 0
      <4> DEFINE k == n - 1
      <4>1. k \in Nat /\ k \in 0..K /\ k + 1 = n /\ n \in DOMAIN q /\ k <= K
        BY <1>1, <3>2
      <4> HIDE DEF k
      <4>2. AddReaderPost(Admit(cl, FirstFitting(cl, k)), q[k + 1]) =
                Admit(cl, FirstFitting(cl, k + 1))
        BY <1>3, <4>1, LoopRound
      <4>3. h[n] = Admit(cl, FirstFitting(cl, k + 1)) /\ h[k] = Admit(cl, FirstFitting(cl, k))
        BY <4>1
      <4> HIDE DEF h
      <4>4. h[n] = AddReaderPost(h[k], q[n])
        BY <4>1, <4>2, <4>3
      <4> QED
        BY <3>2, <4>4 DEF k
    <3> QED
      BY <3>1, <3>2
  <2> QED
    BY <2>1
<1>5. f = Round(f)
  <2> HIDE DEF h
  <2>1. \E g : g = Round(g)
    BY <1>4
  <2> QED
    BY <2>1
<1>6. ConsumeOnHold(cl) = f[K]
  BY DEF ConsumeOnHold
<1> HIDE DEF f
<1>7. \A n \in Nat : n <= K => f[n] = h[n]
  <2> DEFINE S == {n \in Nat : n <= K => f[n] = h[n]}
  <2>0. /\ f[0] = cl
        /\ \A n \in 1..K : f[n] = AddReaderPost(f[n - 1], q[n])
        /\ h[0] = cl
        /\ \A n \in 1..K : h[n] = AddReaderPost(h[n - 1], q[n])
    <3>1. ASSUME NEW g, g = Round(g)
          PROVE  g[0] = cl /\ \A n \in 1..K : g[n] = AddReaderPost(g[n - 1], q[n])
      <4>1. \A n \in 0..K : g[n] = IF n = 0 THEN cl ELSE AddReaderPost(g[n - 1], q[n])
        BY <3>1
      <4> QED
        BY <1>1, <4>1
    <3> HIDE DEF h, Round
    <3> QED
      BY <1>4, <1>5, <3>1
  <2> HIDE DEF h
  <2>1. 0 \in S
    BY <2>0
  <2>2. ASSUME NEW n \in Nat, n \in S PROVE n + 1 \in S
    <3>1. CASE n + 1 <= K
      <4>1. n + 1 \in 1..K /\ (n + 1) - 1 = n /\ n <= K
        BY <1>1, <3>1
      <4>2. f[n] = h[n]
        BY <2>2, <4>1
      <4> QED
        BY <2>0, <4>1, <4>2
    <3>2. CASE ~(n + 1 <= K)
      BY <3>2
    <3> QED
      BY <3>1, <3>2
  <2> HIDE DEF S
  <2>3. Nat \subseteq S
    BY <2>1, <2>2, Induction
  <2> QED
    BY <2>3 DEF S
<1>8. f[K] = Admit(cl, FirstFitting(cl, K))
  <2>1. K \in Nat /\ K <= K /\ K \in 0..K
    BY <1>1
  <2>2. h[K] = Admit(cl, FirstFitting(cl, K))
    BY <2>1
  <2> HIDE DEF h
  <2> QED
    BY <1>7, <2>1, <2>2
<1>9. FirstFitting(cl, K) = Fitting(cl)
  BY <1>1 DEF FirstFitting, Fitting, Fits
<1> QED
  BY <1>6, <1>8, <1>9

\* Whatever the number of the requests on hold and of the readers, answering
\* them one by one (consumeOnHoldRequests() and addReaderPost()) admits the
\* sessions of Fitting(), on which the other theorems rest.
THEOREM FittingIsLoopAlways == Spec => []FittingIsLoop
<1>1. Init => HeldOnce
  BY DEF Init, HeldOnce
<1>2. TypeOK /\ HeldOnce => FittingIsLoop
  <2> SUFFICES ASSUME TypeOK, HeldOnce PROVE FittingIsLoop
    OBVIOUS
  <2>1. held \in Held /\ conf \in PathConf /\ LoseStream(clients) \in Clients
    BY ClientOps DEF TypeOK
  <2>2. Admit(LoseStream(clients), Fitting(LoseStream(clients))) =
            ConsumeOnHold(LoseStream(clients))
    BY <2>1, LoopIsFitting
  <2> QED
    BY <2>2 DEF FittingIsLoop
<1> QED
  BY <1>1, <1>2, NextHeldOnce, TypeCorrect, PTL DEF Spec
=============================================================================
