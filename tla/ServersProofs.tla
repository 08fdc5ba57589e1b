---------------------------- MODULE ServersProofs ----------------------------
(***************************************************************************)
(* The five servers, for any number of muxers, requests, connections and    *)
(* sessions.  The invariant of HLS ties the announcements of the path       *)
(* manager that are on their way to what the server has in its map; those   *)
(* of the other servers come from SessionServersProofs.                     *)
(***************************************************************************)
EXTENDS SessionServersProofs, Sequences

-----------------------------------------------------------------------------
(* HLS.                                                                     *)

\* A muxer is on the path between AddReader() and the return of runInner(), it
\* is ready only while runInner() keeps what serves the requests, and while it
\* waits to be recreated there is no runInner().
GoodMuxer(x) ==
    /\ x \in HLS!MuxerState
    /\ x.inner \in {"none", "adding", "returned"} => ~x.attached
    /\ x.isReady => x.inner \in {"running", "returned"}
    /\ x.isRecreating => x.inner = "none"

\* The announcements that were not received alternate, and the last one tells
\* what the path is now.
CallsAlternate ==
    /\ Len(hlsPath.calls) <= 2
    /\ hlsPath.calls # <<>> =>
        (hlsPath.calls[Len(hlsPath.calls)] = "ready" <=> hlsPath.state = "ready")
    /\ Len(hlsPath.calls) = 2 => hlsPath.calls[1] # hlsPath.calls[2]

\* The bound leaves a muxer for the announcement that the path is ready.
RoomForReady ==
    HLS!IsPending("ready") => \E m \in Muxers : hlsMuxer[m].ctl = "unused"

\* An automatic muxer stays in the map until the server has heard that the
\* path is not ready any more.
AutomaticMuxerIsAnnounced ==
    ~hlsServer.closed /\ hlsListed # "none" /\ hlsMuxer[hlsListed].auto =>
        hlsPath.state = "ready" \/ HLS!IsPending("notReady")

\* A request that is on its way has a muxer, and one in a queue has a muxer
\* that still reads its channels.
RequestsHaveMuxers ==
    /\ \A r \in Requests : hlsRequest[r].at # "idle" => hlsRequest[r].by \in Muxers
    /\ \A r \in Requests : hlsRequest[r].at = "queued" =>
        hlsMuxer[hlsRequest[r].by].ctl \in {"select", "waitInner"}

\* What the HLS server, its muxers and the requests keep true together.
HLSInv ==
    /\ HLS!TypeOK
    /\ hlsServer.loop = "ended" => hlsServer.closed
    /\ \A m \in Muxers : GoodMuxer(hlsMuxer[m])
    /\ CallsAlternate
    /\ RoomForReady
    /\ AutomaticMuxerIsAnnounced
    /\ RequestsHaveMuxers
    /\ HLS!OneLiveMuxer

LEMMA HLSInit == HLS!Init => HLSInv
<1> SUFFICES ASSUME HLS!Init PROVE HLSInv
  OBVIOUS
<1> USE DEF HLS!None
<1>1. HLS!Unused \in HLS!MuxerState /\ GoodMuxer(HLS!Unused) /\ HLS!Unused.ctl = "unused"
  BY DEF HLS!Unused, HLS!MuxerState, GoodMuxer
<1>2. HLS!Idle \in HLS!RequestState /\ HLS!Idle.at = "idle"
  BY DEF HLS!Idle, HLS!RequestState
<1>3. /\ \A m \in Muxers : hlsMuxer[m] = HLS!Unused
      /\ \A r \in Requests : hlsRequest[r] = HLS!Idle
  BY DEF HLS!Init
<1>4. hlsPath.calls = <<>> /\ hlsPath.state = "notReady"
  BY DEF HLS!Init
<1>5. HLS!TypeOK
  BY <1>1, <1>2 DEF HLS!Init, HLS!TypeOK
<1>6. CallsAlternate /\ RoomForReady
  BY <1>4 DEF CallsAlternate, RoomForReady, HLS!IsPending
<1>7. AutomaticMuxerIsAnnounced
  BY DEF HLS!Init, AutomaticMuxerIsAnnounced
<1>8. RequestsHaveMuxers /\ HLS!OneLiveMuxer
  BY <1>1, <1>2, <1>3 DEF RequestsHaveMuxers, HLS!OneLiveMuxer
<1> QED
  BY <1>1, <1>3, <1>5, <1>6, <1>7, <1>8 DEF HLS!Init, HLSInv

-----------------------------------------------------------------------------
(* The announcements of the path manager.                                   *)

PathType == [state: {"notReady", "ready", "closing"}, calls: Seq({"ready", "notReady"})]

\* An announcement that is received, or dropped, leaves the later ones.
LEMMA CallsTail ==
    ASSUME hlsPath \in PathType, CallsAlternate, hlsPath.calls # <<>>,
           hlsPath' = [hlsPath EXCEPT !.calls = Tail(@)]
    PROVE  /\ hlsPath' \in PathType /\ CallsAlternate' /\ hlsPath'.state = hlsPath.state
           /\ \A c : HLS!IsPending(c)' => HLS!IsPending(c)
           /\ Head(hlsPath.calls) = "ready" =>
                /\ HLS!IsPending("ready") /\ ~HLS!IsPending("ready")'
                /\ hlsPath.state # "ready" => HLS!IsPending("notReady")'
<1> DEFINE s == hlsPath.calls
           t == Tail(s)
<1>1. s \in Seq({"ready", "notReady"}) /\ Len(s) \in {1, 2} /\ DOMAIN s = 1..Len(s)
  <2>1. s \in Seq({"ready", "notReady"}) /\ s # <<>> /\ Len(s) <= 2
    BY DEF PathType, CallsAlternate
  <2> HIDE DEF s
  <2>2. Len(s) \in Nat /\ Len(s) # 0 /\ DOMAIN s = 1..Len(s)
    BY <2>1
  <2>3. Len(s) \in {1, 2}
    BY <2>1, <2>2
  <2> QED
    BY <2>1, <2>2, <2>3
<1>2. /\ t \in Seq({"ready", "notReady"}) /\ Len(t) = Len(s) - 1 /\ DOMAIN t = 1..Len(t)
      /\ \A i \in DOMAIN t : t[i] = s[i + 1] /\ i + 1 \in DOMAIN s
      /\ Head(s) = s[1] /\ s[1] \in {"ready", "notReady"}
  BY <1>1
<1>3. /\ hlsPath' = [state |-> hlsPath.state, calls |-> t]
      /\ hlsPath'.calls = t /\ hlsPath'.state = hlsPath.state
  BY DEF PathType
<1>4. hlsPath' \in PathType
  BY <1>2, <1>3 DEF PathType
<1>5. s[Len(s)] = "ready" <=> hlsPath.state = "ready"
  BY DEF CallsAlternate
<1>6. Len(s) = 2 => s[1] # s[2]
  BY DEF CallsAlternate
<1> HIDE DEF t, s
<1>7. CASE Len(s) = 1
  <2>1. Len(t) = 0 /\ t = <<>> /\ DOMAIN t = {}
    BY <1>1, <1>2, <1>7
  <2>2. CallsAlternate'
    BY <1>3, <2>1 DEF CallsAlternate
  <2>3. \A c : ~HLS!IsPending(c)'
    BY <1>3, <2>1 DEF HLS!IsPending
  <2>4. Head(s) = "ready" => hlsPath.state = "ready" /\ HLS!IsPending("ready")
    BY <1>1, <1>2, <1>5, <1>7 DEF HLS!IsPending, s
  <2> QED
    BY <2>2, <2>3, <2>4, <1>3, <1>4 DEF s
<1>8. CASE Len(s) = 2
  <2>0. Len(t) = 1 /\ DOMAIN t = {1} /\ DOMAIN s = {1, 2}
    BY <1>1, <1>2, <1>8
  <2>1. Len(t) = 1 /\ DOMAIN t = {1} /\ t[1] = s[2] /\ t # <<>> /\ DOMAIN s = {1, 2}
    <3>1. 1 \in DOMAIN t /\ 1 + 1 = 2
      BY <2>0
    <3>2. t[1] = s[1 + 1]
      BY <3>1, <1>2
    <3>3. t # <<>>
      BY <2>0
    <3> QED
      BY <2>0, <3>1, <3>2, <3>3
  <2>2. CallsAlternate'
    BY <1>3, <2>1, <1>5, <1>8 DEF CallsAlternate
  <2>3. /\ \A c : HLS!IsPending(c)' <=> s[2] = c
        /\ \A c : HLS!IsPending(c) <=> s[1] = c \/ s[2] = c
    BY <1>3, <2>1 DEF HLS!IsPending, s
  <2>4. s[2] \in {"ready", "notReady"}
    BY <1>1, <2>1
  <2> QED
    BY <2>2, <2>3, <2>4, <1>2, <1>3, <1>4, <1>5, <1>6, <1>8 DEF s
<1> QED
  BY <1>1, <1>7, <1>8

\* The path announces what it has become.
LEMMA CallsAppend ==
    ASSUME hlsPath \in PathType, CallsAlternate, Len(hlsPath.calls) < 2,
           NEW c \in {"ready", "notReady"}, NEW st \in {"ready", "closing"},
           c = "ready" <=> st = "ready", c = "ready" <=> hlsPath.state # "ready",
           hlsPath' = [state |-> st, calls |-> Append(hlsPath.calls, c)]
    PROVE  /\ hlsPath' \in PathType /\ CallsAlternate' /\ HLS!IsPending(c)'
           /\ \A d : HLS!IsPending(d)' => HLS!IsPending(d) \/ d = c
           /\ \A d : HLS!IsPending(d) => HLS!IsPending(d)'
<1> DEFINE s == hlsPath.calls
           t == Append(s, c)
<1>1. s \in Seq({"ready", "notReady"}) /\ Len(s) \in {0, 1} /\ DOMAIN s = 1..Len(s)
  <2>1. s \in Seq({"ready", "notReady"}) /\ Len(s) < 2
    BY DEF PathType
  <2> HIDE DEF s
  <2>2. Len(s) \in Nat /\ DOMAIN s = 1..Len(s)
    BY <2>1
  <2>3. Len(s) \in {0, 1}
    BY <2>1, <2>2
  <2> QED
    BY <2>1, <2>2, <2>3
<1>2. /\ t \in Seq({"ready", "notReady"}) /\ Len(t) = Len(s) + 1 /\ DOMAIN t = 1..Len(t)
      /\ t[Len(t)] = c /\ t # <<>>
      /\ \A i \in DOMAIN s : t[i] = s[i] /\ i \in DOMAIN t
  <2> HIDE DEF s
  <2>1. /\ t \in Seq({"ready", "notReady"}) /\ Len(t) = Len(s) + 1
        /\ t[Len(s) + 1] = c
    BY <1>1
  <2>2. \A i \in 1..Len(s) : t[i] = s[i]
    BY <1>1
  <2> HIDE DEF t
  <2>3. DOMAIN t = 1..Len(t) /\ Len(t) # 0
    BY <2>1, <1>1
  <2>4. \A i \in 1..Len(s) : i \in 1..Len(t)
    BY <2>1, <1>1
  <2>5. t # <<>>
    BY <2>1, <2>3
  <2> QED
    BY <1>1, <2>1, <2>2, <2>3, <2>4, <2>5
<1>3. hlsPath'.calls = t /\ hlsPath'.state = st
  OBVIOUS
<1>4. hlsPath' \in PathType
  BY <1>2 DEF PathType
<1>5. Len(s) = 1 => s # <<>> /\ (s[1] = "ready" <=> hlsPath.state = "ready") /\ s[1] = t[1]
                    /\ s[1] \in {"ready", "notReady"}
  BY <1>1, <1>2 DEF CallsAlternate
<1>6. hlsPath'.calls # <<>> =>
          (hlsPath'.calls[Len(hlsPath'.calls)] = "ready" <=> hlsPath'.state = "ready")
  BY <1>2, <1>3
<1> HIDE DEF s, t
<1>7. Len(t) = 2 => t[1] # t[2]
  <2> SUFFICES ASSUME Len(t) = 2 PROVE t[1] # t[2]
    OBVIOUS
  <2>1. Len(s) = 1
    BY <1>1, <1>2
  <2> QED
    BY <2>1, <1>2, <1>5
<1>8. CallsAlternate'
  BY <1>1, <1>2, <1>3, <1>6, <1>7 DEF CallsAlternate
<1>9. Len(t) \in DOMAIN t
  BY <1>1, <1>2
<1>10. HLS!IsPending(c)'
  BY <1>2, <1>3, <1>9 DEF HLS!IsPending
<1>11. \A d : HLS!IsPending(d)' => HLS!IsPending(d) \/ d = c
  <2> SUFFICES ASSUME NEW d, NEW i \in DOMAIN t, t[i] = d PROVE HLS!IsPending(d) \/ d = c
    BY <1>3 DEF HLS!IsPending
  <2>1. i \in DOMAIN s \/ i = Len(t)
    BY <1>1, <1>2
  <2> QED
    BY <2>1, <1>2 DEF HLS!IsPending, s
<1>12. \A d : HLS!IsPending(d) => HLS!IsPending(d)'
  BY <1>2, <1>3 DEF HLS!IsPending, s
<1> QED
  BY <1>4, <1>8, <1>10, <1>11, <1>12

-----------------------------------------------------------------------------
(* The muxers.                                                              *)

\* The requests are answered, or stay where they are.
SomeAnswered ==
    \A r \in Requests : hlsRequest'[r] = hlsRequest[r] \/ hlsRequest'[r] = HLS!Idle

\* A goroutine of the muxer m moves: nobody else notices, as long as it does
\* not come back to life and answers its queue when it ends.
LEMMA MuxerChange ==
    ASSUME HLSInv, NEW m \in Muxers, NEW x, GoodMuxer(x),
           hlsMuxer' = [hlsMuxer EXCEPT ![m] = x],
           UNCHANGED <<hlsRemux, hlsServer, hlsListed, hlsPath>>,
           hlsRequest' \in [Requests -> HLS!RequestState], SomeAnswered,
           hlsMuxer[m].ctl = "unused" => x.ctl = "unused",
           x.auto => hlsMuxer[m].auto,
           \/ x.ctl \in {"select", "waitInner"}
           \/ x.ctl = hlsMuxer[m].ctl
           \/ \A r \in Requests : hlsRequest'[r] # [at |-> "queued", by |-> m],
           x.ctl = "select" /\ ~x.cancelled =>
                hlsMuxer[m].ctl = "select" /\ ~hlsMuxer[m].cancelled
    PROVE  HLSInv'
<1> USE DEF HLS!None
<1>1. hlsMuxer'[m] = x /\ \A n \in Muxers \ {m} : hlsMuxer'[n] = hlsMuxer[n]
  BY DEF HLSInv, HLS!TypeOK
<1>2. HLS!TypeOK'
  BY DEF HLSInv, HLS!TypeOK, GoodMuxer
<1>3. \A n \in Muxers : GoodMuxer(hlsMuxer'[n])
  BY <1>1 DEF HLSInv
<1>4. CallsAlternate'
  BY DEF HLSInv, CallsAlternate
<1>5. RoomForReady'
  BY <1>1 DEF HLSInv, RoomForReady, HLS!IsPending
<1>6. AutomaticMuxerIsAnnounced'
  <2>1. \A n \in Muxers : hlsMuxer'[n].auto => hlsMuxer[n].auto
    BY <1>1
  <2>2. hlsListed # "none" => hlsListed \in Muxers
    BY DEF HLSInv, HLS!TypeOK
  <2> QED
    BY <2>1, <2>2 DEF HLSInv, AutomaticMuxerIsAnnounced, HLS!IsPending
<1>7. RequestsHaveMuxers'
  <2> SUFFICES ASSUME NEW r \in Requests
               PROVE  /\ hlsRequest'[r].at # "idle" => hlsRequest'[r].by \in Muxers
                      /\ hlsRequest'[r].at = "queued" =>
                            hlsMuxer'[hlsRequest'[r].by].ctl \in {"select", "waitInner"}
    BY DEF RequestsHaveMuxers
  <2>1. CASE hlsRequest'[r] = HLS!Idle
    BY <2>1 DEF HLS!Idle
  <2>2. CASE hlsRequest'[r] = hlsRequest[r]
    <3>1. /\ hlsRequest[r].at # "idle" => hlsRequest[r].by \in Muxers
          /\ hlsRequest[r].at = "queued" =>
                hlsMuxer[hlsRequest[r].by].ctl \in {"select", "waitInner"}
      BY DEF HLSInv, RequestsHaveMuxers
    <3>2. hlsRequest'[r].at = "queued" /\ hlsRequest'[r].by = m =>
              hlsRequest'[r] = [at |-> "queued", by |-> m]
      BY DEF HLS!RequestState
    <3> QED
      BY <2>2, <3>1, <3>2, <1>1
  <2> QED
    BY <2>1, <2>2 DEF SomeAnswered
<1>8. HLS!OneLiveMuxer'
  BY <1>1 DEF HLSInv, HLS!OneLiveMuxer, HLS!Done
<1>9. hlsServer'.loop = "ended" => hlsServer'.closed
  BY DEF HLSInv
<1> QED
  BY <1>2, <1>3, <1>4, <1>5, <1>6, <1>7, <1>8, <1>9 DEF HLSInv

\* createMuxer(): the bound has a muxer that is not used, and leaves one for the
\* announcement that is pending.
LEMMA CreateMuxerChooses ==
    ASSUME HLSInv, NEW auto \in BOOLEAN, HLS!CreateMuxer(auto),
           auto => HLS!IsPending("ready")
    PROVE  \E m \in Muxers :
              /\ hlsMuxer[m].ctl = "unused" /\ hlsListed' = m
              /\ hlsMuxer' = [hlsMuxer EXCEPT ![m] =
                    [HLS!Unused EXCEPT !.ctl = "select", !.auto = auto, !.inner = "adding"]]
              /\ ~auto /\ HLS!IsPending("ready") =>
                    \E n \in Muxers \ {m} : hlsMuxer[n].ctl = "unused"
<1> DEFINE m == CHOOSE n \in Muxers : hlsMuxer[n].ctl = "unused"
<1>1. \E n \in Muxers : hlsMuxer[n].ctl = "unused"
  BY DEF HLS!CreateMuxer, HLS!HasRoom, HLSInv, RoomForReady
<1>2. m \in Muxers /\ hlsMuxer[m].ctl = "unused"
  BY <1>1
<1>3. /\ hlsListed' = m
      /\ hlsMuxer' = [hlsMuxer EXCEPT ![m] =
            [HLS!Unused EXCEPT !.ctl = "select", !.auto = auto, !.inner = "adding"]]
  BY DEF HLS!CreateMuxer
<1>4. ~auto => HLS!HasRoom
  BY DEF HLS!CreateMuxer
<1> HIDE DEF m
<1>5. ~auto /\ HLS!IsPending("ready") => \E n \in Muxers \ {m} : hlsMuxer[n].ctl = "unused"
  BY <1>4 DEF HLS!HasRoom
<1> QED
  BY <1>2, <1>3, <1>5

\* The map has the new muxer, the only one that is alive.
LEMMA NewMuxer ==
    ASSUME HLSInv, NEW auto \in BOOLEAN, HLS!CreateMuxer(auto), hlsListed = "none",
           auto => HLS!IsPending("ready")
    PROVE  /\ hlsListed' \in Muxers
           /\ hlsMuxer' \in [Muxers -> HLS!MuxerState]
           /\ \A m \in Muxers : GoodMuxer(hlsMuxer'[m])
           /\ hlsMuxer'[hlsListed'].auto = auto
           /\ \A m \in Muxers : hlsMuxer'[m].ctl = "select" /\ ~hlsMuxer'[m].cancelled
                /\ ~hlsServer.closed => hlsListed' = m
           /\ \A m \in Muxers : hlsMuxer[m].ctl \in {"select", "waitInner"} =>
                hlsMuxer'[m].ctl = hlsMuxer[m].ctl
           /\ ~auto /\ HLS!IsPending("ready") =>
                \E m \in Muxers : hlsMuxer'[m].ctl = "unused"
<1> USE DEF HLS!None
<1> DEFINE x == [HLS!Unused EXCEPT !.ctl = "select", !.auto = auto, !.inner = "adding"]
<1>1. PICK m \in Muxers :
          /\ hlsMuxer[m].ctl = "unused" /\ hlsListed' = m
          /\ hlsMuxer' = [hlsMuxer EXCEPT ![m] = x]
          /\ ~auto /\ HLS!IsPending("ready") =>
                \E n \in Muxers \ {m} : hlsMuxer[n].ctl = "unused"
  BY CreateMuxerChooses
<1>u. /\ HLS!Unused \in HLS!MuxerState /\ ~HLS!Unused.attached
      /\ ~HLS!Unused.isReady /\ ~HLS!Unused.isRecreating
  BY DEF HLS!Unused, HLS!MuxerState
<1>2. /\ x \in HLS!MuxerState /\ x.ctl = "select" /\ x.auto = auto
      /\ ~x.attached /\ ~x.isReady /\ ~x.isRecreating
  BY <1>u DEF HLS!MuxerState
<1> HIDE DEF x
<1>3. GoodMuxer(x) /\ x.auto = auto /\ x.ctl = "select"
  BY <1>2 DEF GoodMuxer
<1>4. hlsMuxer'[m] = x /\ \A n \in Muxers \ {m} : hlsMuxer'[n] = hlsMuxer[n]
  BY <1>1 DEF HLSInv, HLS!TypeOK
<1>5. hlsMuxer' \in [Muxers -> HLS!MuxerState]
  BY <1>1, <1>3 DEF HLSInv, HLS!TypeOK, GoodMuxer
<1>6. \A n \in Muxers : GoodMuxer(hlsMuxer'[n])
  BY <1>3, <1>4 DEF HLSInv
<1>7. \A n \in Muxers : hlsMuxer[n].ctl = "select" /\ ~hlsMuxer[n].cancelled
          /\ ~hlsServer.closed => FALSE
  BY ServersAssumption DEF HLSInv, HLS!OneLiveMuxer, HLS!Done
<1> QED
  BY <1>1, <1>3, <1>4, <1>5, <1>6, <1>7

LEMMA HLSNext == HLSInv /\ [HLS!Next]_hlsVars => HLSInv'
<1> SUFFICES ASSUME HLSInv, [HLS!Next]_hlsVars PROVE HLSInv'
  OBVIOUS
<1> USE DEF HLS!None
<1> DEFINE Servers == [closed: BOOLEAN, loop: {"select", "forward", "ended"},
                       request: Requests \cup {"none"}]
<1>t. /\ hlsRemux \in BOOLEAN /\ hlsServer \in Servers
      /\ hlsListed \in Muxers \cup {"none"} /\ hlsMuxer \in [Muxers -> HLS!MuxerState]
      /\ hlsRequest \in [Requests -> HLS!RequestState] /\ hlsPath \in PathType
  BY DEF HLSInv, HLS!TypeOK, PathType
<1>p. /\ hlsServer.loop = "ended" => hlsServer.closed
      /\ \A m \in Muxers : GoodMuxer(hlsMuxer[m])
      /\ CallsAlternate /\ RoomForReady /\ AutomaticMuxerIsAnnounced
      /\ RequestsHaveMuxers /\ HLS!OneLiveMuxer
  BY DEF HLSInv
\* The announcements.
<1>1. ASSUME UNCHANGED <<hlsRemux, hlsServer, hlsListed, hlsMuxer, hlsRequest>>,
             hlsPath' \in PathType, CallsAlternate', RoomForReady',
             AutomaticMuxerIsAnnounced'
      PROVE  HLSInv'
  <2>1. HLS!TypeOK'
    BY <1>1, <1>t DEF HLS!TypeOK, PathType
  <2>2. RequestsHaveMuxers' /\ HLS!OneLiveMuxer'
    BY <1>1, <1>p DEF RequestsHaveMuxers, HLS!OneLiveMuxer, HLS!Done
  <2> QED
    BY <2>1, <2>2, <1>1, <1>p DEF HLSInv
<1>2. CASE HLS!PathTurnsReady
  <2>1. /\ hlsPath.state = "notReady" /\ Len(hlsPath.calls) < 2 /\ HLS!HasRoom
        /\ hlsPath' = [state |-> "ready", calls |-> Append(hlsPath.calls, "ready")]
        /\ UNCHANGED <<hlsRemux, hlsServer, hlsListed, hlsMuxer, hlsRequest>>
    BY <1>2 DEF HLS!PathTurnsReady, HLS!PathIsFree
  <2>2. hlsPath' \in PathType /\ CallsAlternate'
    BY <2>1, <1>t, <1>p, CallsAppend
  <2>3. RoomForReady'
    BY <2>1 DEF RoomForReady, HLS!HasRoom
  <2>4. AutomaticMuxerIsAnnounced'
    BY <2>1 DEF AutomaticMuxerIsAnnounced
  <2> QED
    BY <2>1, <2>2, <2>3, <2>4, <1>1
<1>3. CASE HLS!PathTurnsNotReady
  <2>1. /\ hlsPath.state = "ready" /\ Len(hlsPath.calls) < 2
        /\ hlsPath' = [state |-> "closing", calls |-> Append(hlsPath.calls, "notReady")]
        /\ UNCHANGED <<hlsRemux, hlsServer, hlsListed, hlsMuxer, hlsRequest>>
    BY <1>3 DEF HLS!PathTurnsNotReady, HLS!PathIsFree
  <2>2. /\ hlsPath' \in PathType /\ CallsAlternate' /\ HLS!IsPending("notReady")'
        /\ HLS!IsPending("ready")' => HLS!IsPending("ready")
    BY <2>1, <1>t, <1>p, CallsAppend
  <2>3. RoomForReady'
    BY <2>1, <2>2, <1>p DEF RoomForReady
  <2>4. AutomaticMuxerIsAnnounced'
    BY <2>2 DEF AutomaticMuxerIsAnnounced
  <2> QED
    BY <2>1, <2>2, <2>3, <2>4, <1>1
<1>4. CASE HLS!PathClosesReaders
  <2> DEFINE Closed(x) == [x EXCEPT !.attached = FALSE, !.cancelled = TRUE]
  <2>1. /\ hlsPath.state = "closing" /\ hlsPath' = [hlsPath EXCEPT !.state = "notReady"]
        /\ hlsMuxer' = [m \in Muxers |->
              IF hlsMuxer[m].attached THEN Closed(hlsMuxer[m]) ELSE hlsMuxer[m]]
        /\ UNCHANGED <<hlsRemux, hlsServer, hlsListed, hlsRequest>>
    BY <1>4 DEF HLS!PathClosesReaders
  <2>2. /\ hlsPath' = [state |-> "notReady", calls |-> hlsPath.calls]
        /\ hlsPath' \in PathType /\ hlsPath'.calls = hlsPath.calls
        /\ hlsPath'.state = "notReady"
    BY <2>1, <1>t DEF PathType
  <2>3. ASSUME NEW m \in Muxers
        PROVE  /\ GoodMuxer(hlsMuxer'[m]) /\ hlsMuxer'[m] \in HLS!MuxerState
               /\ hlsMuxer'[m].ctl = hlsMuxer[m].ctl /\ hlsMuxer'[m].auto = hlsMuxer[m].auto
               /\ hlsMuxer[m].cancelled => hlsMuxer'[m].cancelled
    <3>1. CASE hlsMuxer[m].attached
      <4>1. hlsMuxer'[m] = Closed(hlsMuxer[m])
        BY <2>1, <3>1
      <4>2. hlsMuxer[m] \in HLS!MuxerState /\ GoodMuxer(hlsMuxer[m])
        BY <1>p DEF GoodMuxer
      <4> DEFINE x == Closed(hlsMuxer[m])
      <4>3. /\ x \in HLS!MuxerState /\ ~x.attached /\ x.cancelled
            /\ x.ctl = hlsMuxer[m].ctl /\ x.auto = hlsMuxer[m].auto
            /\ x.inner = hlsMuxer[m].inner /\ x.isReady = hlsMuxer[m].isReady
            /\ x.isRecreating = hlsMuxer[m].isRecreating
        BY <4>2 DEF HLS!MuxerState
      <4> HIDE DEF x
      <4>4. GoodMuxer(x)
        BY <4>2, <4>3 DEF GoodMuxer
      <4> QED
        BY <4>1, <4>3, <4>4 DEF x
    <3>2. CASE ~hlsMuxer[m].attached
      BY <2>1, <3>2, <1>p DEF GoodMuxer
    <3> QED
      BY <3>1, <3>2
  <2>4. hlsMuxer' \in [Muxers -> HLS!MuxerState]
    BY <2>1, <2>3
  <2> HIDE DEF Closed
  <2>5. HLS!TypeOK'
    BY <2>1, <2>2, <2>4, <1>t DEF HLS!TypeOK, PathType
  <2>6. CallsAlternate'
    BY <2>1, <2>2, <1>p DEF CallsAlternate
  <2>7. RoomForReady'
    BY <2>2, <2>3, <1>p DEF RoomForReady, HLS!IsPending
  <2>8. AutomaticMuxerIsAnnounced'
    BY <2>1, <2>2, <2>3, <1>p, <1>t DEF AutomaticMuxerIsAnnounced, HLS!IsPending
  <2>9. RequestsHaveMuxers'
    BY <2>1, <2>3, <1>p DEF RequestsHaveMuxers
  <2>10. HLS!OneLiveMuxer'
    BY <2>1, <2>3, <1>p DEF HLS!OneLiveMuxer, HLS!Done
  <2> QED
    BY <2>1, <2>3, <2>5, <2>6, <2>7, <2>8, <2>9, <2>10, <1>p DEF HLSInv
<1>5. CASE HLS!AnnouncementDropped
  <2>1. /\ hlsServer.closed /\ hlsPath.calls # <<>>
        /\ hlsPath' = [hlsPath EXCEPT !.calls = Tail(@)]
        /\ UNCHANGED <<hlsRemux, hlsServer, hlsListed, hlsMuxer, hlsRequest>>
    BY <1>5 DEF HLS!AnnouncementDropped
  <2>2. /\ hlsPath' \in PathType /\ CallsAlternate'
        /\ HLS!IsPending("ready")' => HLS!IsPending("ready")
    BY <2>1, <1>t, <1>p, CallsTail
  <2>3. RoomForReady' /\ AutomaticMuxerIsAnnounced'
    BY <2>1, <2>2, <1>p DEF RoomForReady, AutomaticMuxerIsAnnounced
  <2> QED
    BY <2>1, <2>2, <2>3, <1>1
<1>6. CASE HLS!ReceivePathReady
  <2>1. /\ hlsPath.calls # <<>> /\ Head(hlsPath.calls) = "ready"
        /\ hlsPath' = [hlsPath EXCEPT !.calls = Tail(@)]
        /\ UNCHANGED <<hlsRemux, hlsServer, hlsRequest>>
    BY <1>6 DEF HLS!ReceivePathReady
  <2>2. /\ hlsPath' \in PathType /\ CallsAlternate' /\ hlsPath'.state = hlsPath.state
        /\ HLS!IsPending("ready") /\ ~HLS!IsPending("ready")'
        /\ hlsPath.state # "ready" => HLS!IsPending("notReady")'
    BY <2>1, <1>t, <1>p, CallsTail
  <2>3. RoomForReady' /\ AutomaticMuxerIsAnnounced'
    BY <2>2 DEF RoomForReady, AutomaticMuxerIsAnnounced
  <2>4. CASE UNCHANGED <<hlsListed, hlsMuxer>>
    BY <2>1, <2>2, <2>3, <2>4, <1>1
  <2>5. CASE hlsListed = "none" /\ HLS!CreateMuxer(TRUE)
    <3>1. /\ hlsListed' \in Muxers /\ hlsMuxer' \in [Muxers -> HLS!MuxerState]
          /\ \A m \in Muxers : GoodMuxer(hlsMuxer'[m])
          /\ \A m \in Muxers : hlsMuxer'[m].ctl = "select" /\ ~hlsMuxer'[m].cancelled
                /\ ~hlsServer.closed => hlsListed' = m
          /\ \A m \in Muxers : hlsMuxer[m].ctl \in {"select", "waitInner"} =>
                hlsMuxer'[m].ctl = hlsMuxer[m].ctl
      BY <2>2, <2>5, NewMuxer
    <3>2. HLS!TypeOK'
      BY <2>1, <2>2, <3>1, <1>t DEF HLS!TypeOK, PathType
    <3>3. RequestsHaveMuxers'
      BY <2>1, <3>1, <1>p DEF RequestsHaveMuxers
    <3>4. HLS!OneLiveMuxer'
      BY <2>1, <3>1 DEF HLS!OneLiveMuxer, HLS!Done
    <3> QED
      BY <2>1, <2>2, <2>3, <3>1, <3>2, <3>3, <3>4, <1>p DEF HLSInv
  <2> QED
    BY <2>4, <2>5, <1>6 DEF HLS!ReceivePathReady
<1>7. CASE HLS!ReceivePathNotReady
  <2>1. /\ hlsPath.calls # <<>>
        /\ hlsPath' = [hlsPath EXCEPT !.calls = Tail(@)]
        /\ UNCHANGED <<hlsRemux, hlsServer, hlsRequest>>
    BY <1>7 DEF HLS!ReceivePathNotReady
  <2>2. /\ hlsPath' \in PathType /\ CallsAlternate' /\ hlsPath'.state = hlsPath.state
        /\ HLS!IsPending("ready")' => HLS!IsPending("ready")
    BY <2>1, <1>t, <1>p, CallsTail
  <2>3. CASE (hlsListed = "none" \/ ~hlsMuxer[hlsListed].auto) /\ UNCHANGED <<hlsListed, hlsMuxer>>
    <3>1. RoomForReady' /\ AutomaticMuxerIsAnnounced'
      BY <2>2, <2>3, <1>p DEF RoomForReady, AutomaticMuxerIsAnnounced
    <3> QED
      BY <2>1, <2>2, <2>3, <3>1, <1>1
  <2>4. CASE /\ hlsListed # "none" /\ hlsListed' = "none"
             /\ hlsMuxer' = [hlsMuxer EXCEPT ![hlsListed].cancelled = TRUE]
    <3> DEFINE x == [hlsMuxer[hlsListed] EXCEPT !.cancelled = TRUE]
    <3>0. hlsListed \in Muxers
      BY <2>4, <1>t
    <3>1. /\ GoodMuxer(x) /\ x.ctl = hlsMuxer[hlsListed].ctl /\ x.cancelled
      BY <3>0, <1>p DEF GoodMuxer, HLS!MuxerState
    <3>2. hlsMuxer' = [hlsMuxer EXCEPT ![hlsListed] = x]
      BY <2>4
    <3> HIDE DEF x
    <3>3. /\ hlsMuxer'[hlsListed] = x
          /\ \A m \in Muxers \ {hlsListed} : hlsMuxer'[m] = hlsMuxer[m]
      BY <3>0, <3>2, <1>t
    <3>4. hlsMuxer' \in [Muxers -> HLS!MuxerState]
      BY <3>1, <3>2, <1>t DEF GoodMuxer
    <3>5. HLS!TypeOK'
      BY <2>1, <2>2, <2>4, <3>4, <1>t DEF HLS!TypeOK, PathType
    <3>6. \A m \in Muxers : GoodMuxer(hlsMuxer'[m]) /\ hlsMuxer'[m].ctl = hlsMuxer[m].ctl
      BY <3>1, <3>3, <1>p
    <3>7. RoomForReady'
      BY <2>2, <3>6, <1>p DEF RoomForReady
    <3>8. AutomaticMuxerIsAnnounced'
      BY <2>4 DEF AutomaticMuxerIsAnnounced
    <3>9. RequestsHaveMuxers'
      BY <2>1, <3>6, <1>p DEF RequestsHaveMuxers
    <3>10. HLS!OneLiveMuxer'
      BY <2>1, <3>1, <3>3, <1>p DEF HLS!OneLiveMuxer, HLS!Done
    <3> QED
      BY <2>1, <2>2, <3>5, <3>6, <3>7, <3>8, <3>9, <3>10, <1>p DEF HLSInv
  <2> QED
    BY <2>3, <2>4, <1>7 DEF HLS!ReceivePathNotReady
\* The requests.
<1>8. ASSUME NEW r \in Requests, HLS!ReceiveRequest(r) PROVE HLSInv'
  <2>1. /\ UNCHANGED <<hlsRemux, hlsPath>>
        /\ hlsServer' = [hlsServer EXCEPT !.loop = "forward", !.request = r]
        /\ hlsRequest' = [hlsRequest EXCEPT ![r] = [at |-> "forwarded", by |-> hlsListed']]
    BY <1>8 DEF HLS!ReceiveRequest
  <2>2. /\ hlsServer' \in Servers /\ hlsServer'.closed = hlsServer.closed
        /\ hlsServer'.loop = "forward"
    BY <2>1, <1>t
  <2>3. /\ hlsListed' \in Muxers /\ hlsMuxer' \in [Muxers -> HLS!MuxerState]
        /\ \A m \in Muxers : GoodMuxer(hlsMuxer'[m])
        /\ \A m \in Muxers : hlsMuxer'[m].ctl = "select" /\ ~hlsMuxer'[m].cancelled
              /\ ~hlsServer.closed => hlsListed' = m
        /\ \A m \in Muxers : hlsMuxer[m].ctl \in {"select", "waitInner"} =>
              hlsMuxer'[m].ctl = hlsMuxer[m].ctl
        /\ HLS!IsPending("ready") => \E m \in Muxers : hlsMuxer'[m].ctl = "unused"
        /\ hlsMuxer'[hlsListed'].auto => hlsListed' = hlsListed /\ hlsMuxer' = hlsMuxer
    <3>1. CASE hlsListed # "none" /\ UNCHANGED <<hlsListed, hlsMuxer>>
      BY <3>1, <1>t, <1>p DEF HLS!OneLiveMuxer, HLS!Done, RoomForReady
    <3>2. CASE hlsListed = "none" /\ HLS!CreateMuxer(FALSE)
      <4>1. /\ hlsListed' \in Muxers /\ hlsMuxer' \in [Muxers -> HLS!MuxerState]
            /\ \A m \in Muxers : GoodMuxer(hlsMuxer'[m])
            /\ hlsMuxer'[hlsListed'].auto = FALSE
            /\ \A m \in Muxers : hlsMuxer'[m].ctl = "select" /\ ~hlsMuxer'[m].cancelled
                  /\ ~hlsServer.closed => hlsListed' = m
            /\ \A m \in Muxers : hlsMuxer[m].ctl \in {"select", "waitInner"} =>
                  hlsMuxer'[m].ctl = hlsMuxer[m].ctl
            /\ HLS!IsPending("ready") => \E m \in Muxers : hlsMuxer'[m].ctl = "unused"
        BY <3>2, NewMuxer
      <4> QED
        BY <4>1
    <3> QED
      BY <3>1, <3>2, <1>8 DEF HLS!ReceiveRequest
  <2>4. /\ hlsRequest' \in [Requests -> HLS!RequestState]
        /\ hlsRequest'[r] = [at |-> "forwarded", by |-> hlsListed']
        /\ \A q \in Requests \ {r} : hlsRequest'[q] = hlsRequest[q]
    BY <2>1, <2>3, <1>t DEF HLS!RequestState
  <2>5. HLS!TypeOK'
    BY <2>1, <2>2, <2>3, <2>4, <1>t DEF HLS!TypeOK, PathType
  <2>6. CallsAlternate' /\ RoomForReady'
    BY <2>1, <2>3, <1>p DEF CallsAlternate, RoomForReady, HLS!IsPending
  <2>7. AutomaticMuxerIsAnnounced'
    BY <2>1, <2>2, <2>3, <1>p DEF AutomaticMuxerIsAnnounced, HLS!IsPending
  <2>8. RequestsHaveMuxers'
    BY <2>3, <2>4, <1>p DEF RequestsHaveMuxers
  <2>9. HLS!OneLiveMuxer'
    BY <2>2, <2>3 DEF HLS!OneLiveMuxer, HLS!Done
  <2> QED
    BY <2>2, <2>3, <2>5, <2>6, <2>7, <2>8, <2>9 DEF HLSInv
\* A step that only moves the server's loop and answers or queues a request.
<1>9. ASSUME UNCHANGED <<hlsRemux, hlsListed, hlsMuxer, hlsPath>>,
             hlsServer' \in Servers, hlsServer.closed => hlsServer'.closed,
             hlsServer'.loop = "ended" => hlsServer'.closed,
             hlsRequest' \in [Requests -> HLS!RequestState], RequestsHaveMuxers'
      PROVE  HLSInv'
  <2>1. HLS!TypeOK'
    BY <1>9, <1>t DEF HLS!TypeOK, PathType
  <2>2. /\ CallsAlternate' /\ RoomForReady' /\ AutomaticMuxerIsAnnounced'
        /\ HLS!OneLiveMuxer'
    BY <1>9, <1>p DEF CallsAlternate, RoomForReady, AutomaticMuxerIsAnnounced, HLS!IsPending,
                      HLS!OneLiveMuxer, HLS!Done
  <2> QED
    BY <2>1, <2>2, <1>9, <1>p DEF HLSInv
<1>10. ASSUME NEW r \in Requests, HLS!TakeRequest(r) \/ HLS!RefuseRequest(r) PROVE HLSInv'
  <2> DEFINE m == hlsRequest[r].by
  <2>1. /\ UNCHANGED <<hlsRemux, hlsListed, hlsMuxer, hlsPath>>
        /\ hlsServer' = [hlsServer EXCEPT !.loop = "select", !.request = "none"]
        /\ hlsRequest[r].at = "forwarded"
    BY <1>10 DEF HLS!TakeRequest, HLS!RefuseRequest
  <2>2. /\ hlsServer' \in Servers /\ hlsServer'.closed = hlsServer.closed
        /\ hlsServer'.loop = "select"
    BY <2>1, <1>t
  <2>3. m \in Muxers
    BY <2>1, <1>p DEF RequestsHaveMuxers
  <2>4. ASSUME hlsRequest' = [hlsRequest EXCEPT ![r] = HLS!Idle] PROVE HLSInv'
    <3>1. HLS!Idle \in HLS!RequestState /\ HLS!Idle.at = "idle"
      BY DEF HLS!Idle, HLS!RequestState
    <3>2. hlsRequest' \in [Requests -> HLS!RequestState]
      BY <2>4, <3>1, <1>t
    <3>3. RequestsHaveMuxers'
      BY <2>1, <2>4, <3>1, <1>t, <1>p DEF RequestsHaveMuxers
    <3> QED
      BY <2>1, <2>2, <3>2, <3>3, <1>9
  <2>5. ASSUME hlsMuxer[m].ctl = "select",
               hlsRequest' = [hlsRequest EXCEPT ![r] = [at |-> "queued", by |-> m]]
        PROVE  HLSInv'
    <3> HIDE DEF m
    <3>1. hlsRequest' \in [Requests -> HLS!RequestState]
      BY <2>3, <2>5, <1>t DEF HLS!RequestState
    <3>2. RequestsHaveMuxers'
      BY <2>1, <2>3, <2>5, <1>t, <1>p DEF RequestsHaveMuxers
    <3> QED
      BY <2>1, <2>2, <3>1, <3>2, <1>9
  <2> QED
    BY <2>4, <2>5, <1>10 DEF HLS!TakeRequest, HLS!RefuseRequest
<1>11. CASE HLS!Close
  <2>1. hlsServer' \in Servers /\ hlsServer'.closed
    BY <1>11, <1>t DEF HLS!Close
  <2>2. UNCHANGED <<hlsRemux, hlsListed, hlsMuxer, hlsPath, hlsRequest>>
    BY <1>11 DEF HLS!Close
  <2> QED
    BY <2>1, <2>2, <1>9, <1>t, <1>p DEF RequestsHaveMuxers
<1>12. CASE HLS!LoopEnds
  <2>1. hlsServer' \in Servers /\ hlsServer'.closed
    BY <1>12, <1>t DEF HLS!LoopEnds
  <2>2. UNCHANGED <<hlsRemux, hlsListed, hlsMuxer, hlsPath, hlsRequest>>
    BY <1>12 DEF HLS!LoopEnds
  <2> QED
    BY <2>1, <2>2, <1>9, <1>t, <1>p DEF RequestsHaveMuxers
\* The muxers.
<1>13. ASSUME NEW m \in Muxers, HLS!CloseMuxer(m) PROVE HLSInv'
  <2> DEFINE x == HLS!Unused
  <2>1. /\ hlsMuxer[m].ctl = "closing" /\ hlsMuxer' = [hlsMuxer EXCEPT ![m] = x]
        /\ UNCHANGED <<hlsRemux, hlsServer, hlsRequest, hlsPath>>
        /\ \/ hlsListed' = IF hlsListed = m THEN "none" ELSE hlsListed
           \/ hlsServer.closed /\ UNCHANGED hlsListed
    BY <1>13 DEF HLS!CloseMuxer
  <2>2. GoodMuxer(x) /\ x.ctl = "unused" /\ x.auto = FALSE
    BY DEF HLS!Unused, HLS!MuxerState, GoodMuxer
  <2> HIDE DEF x
  <2>3. /\ hlsMuxer'[m] = x /\ \A n \in Muxers \ {m} : hlsMuxer'[n] = hlsMuxer[n]
        /\ hlsMuxer' \in [Muxers -> HLS!MuxerState]
    BY <2>1, <2>2, <1>t DEF GoodMuxer
  <2>4. HLS!TypeOK'
    BY <2>1, <2>3, <1>t DEF HLS!TypeOK, PathType
  <2>5. \A n \in Muxers : GoodMuxer(hlsMuxer'[n])
    BY <2>2, <2>3, <1>p
  <2>6. CallsAlternate' /\ RoomForReady'
    BY <2>1, <2>2, <2>3, <1>p DEF CallsAlternate, RoomForReady, HLS!IsPending
  <2>7. AutomaticMuxerIsAnnounced'
    BY <2>1, <2>2, <2>3, <1>t, <1>p DEF AutomaticMuxerIsAnnounced, HLS!IsPending
  <2>8. RequestsHaveMuxers'
    BY <2>1, <2>2, <2>3, <1>p DEF RequestsHaveMuxers
  <2>9. HLS!OneLiveMuxer'
    BY <2>1, <2>2, <2>3, <1>p DEF HLS!OneLiveMuxer, HLS!Done
  <2> QED
    BY <2>1, <2>4, <2>5, <2>6, <2>7, <2>8, <2>9, <1>p DEF HLSInv
\* The answers of run() to the requests in its queue.
<1>q. ASSUME NEW m \in Muxers, hlsRequest' = HLS!Answer(HLS!Queued(m))
      PROVE  /\ hlsRequest' \in [Requests -> HLS!RequestState] /\ SomeAnswered
             /\ \A r \in Requests : hlsRequest'[r] # [at |-> "queued", by |-> m]
  <2>1. HLS!Idle \in HLS!RequestState /\ HLS!Idle # [at |-> "queued", by |-> m]
    BY DEF HLS!Idle, HLS!RequestState
  <2>2. \A r \in Requests : hlsRequest'[r] =
            IF hlsRequest[r] = [at |-> "queued", by |-> m] THEN HLS!Idle ELSE hlsRequest[r]
    BY <1>q DEF HLS!Answer, HLS!Queued
  <2>3. hlsRequest' \in [Requests -> HLS!RequestState]
    BY <1>q, <2>1, <1>t DEF HLS!Answer
  <2> QED
    BY <2>1, <2>2, <2>3 DEF SomeAnswered
<1>r. ASSUME UNCHANGED hlsRequest
      PROVE  hlsRequest' \in [Requests -> HLS!RequestState] /\ SomeAnswered
  BY <1>r, <1>t DEF SomeAnswered
<1>14. ASSUME NEW m \in Muxers, HLS!MuxerStops(m) PROVE HLSInv'
  <2>0. /\ hlsMuxer[m].ctl = "select" /\ UNCHANGED <<hlsRemux, hlsServer, hlsListed, hlsPath>>
    BY <1>14 DEF HLS!MuxerStops
  <2>1. CASE hlsMuxer[m].isRecreating
    <3> DEFINE x == [hlsMuxer[m] EXCEPT !.ctl = "closing", !.cancelled = TRUE]
    <3>1. hlsMuxer' = [hlsMuxer EXCEPT ![m] = x] /\ hlsRequest' = HLS!Answer(HLS!Queued(m))
      BY <1>14, <2>1, <1>t DEF HLS!MuxerStops
    <3>2. GoodMuxer(x) /\ x.ctl = "closing" /\ x.auto = hlsMuxer[m].auto
      BY <1>p DEF GoodMuxer, HLS!MuxerState
    <3> HIDE DEF x
    <3> QED
      BY <3>1, <3>2, <2>0, <1>q, MuxerChange
  <2>2. CASE ~hlsMuxer[m].isRecreating
    <3> DEFINE x == [hlsMuxer[m] EXCEPT !.ctl = "waitInner", !.innerCancelled = TRUE]
    <3>1. hlsMuxer' = [hlsMuxer EXCEPT ![m] = x] /\ UNCHANGED hlsRequest
      BY <1>14, <2>2, <1>t DEF HLS!MuxerStops
    <3>2. GoodMuxer(x) /\ x.ctl = "waitInner" /\ x.auto = hlsMuxer[m].auto
      BY <1>p DEF GoodMuxer, HLS!MuxerState
    <3> HIDE DEF x
    <3> QED
      BY <3>1, <3>2, <2>0, <1>r, MuxerChange
  <2> QED
    BY <2>1, <2>2
<1>15. ASSUME NEW m \in Muxers, HLS!InnerErr(m) PROVE HLSInv'
  <2>0. /\ hlsMuxer[m].ctl \in {"select", "waitInner"} /\ hlsMuxer[m].inner = "returned"
        /\ hlsRequest' = HLS!Answer(HLS!Queued(m))
        /\ UNCHANGED <<hlsRemux, hlsServer, hlsListed, hlsPath>>
    BY <1>15 DEF HLS!InnerErr
  <2>1. CASE hlsMuxer[m].auto /\ hlsMuxer[m].ctl = "select"
    <3> DEFINE x == [hlsMuxer[m] EXCEPT !.inner = "none", !.innerCancelled = FALSE,
                                        !.isReady = FALSE, !.isRecreating = TRUE]
    <3>1. hlsMuxer' = [hlsMuxer EXCEPT ![m] = x]
      BY <1>15, <2>1, <1>t DEF HLS!InnerErr
    <3>2. /\ GoodMuxer(x) /\ x.ctl = "select" /\ x.auto = hlsMuxer[m].auto
          /\ x.cancelled = hlsMuxer[m].cancelled
      BY <1>p, <2>0, <2>1 DEF GoodMuxer, HLS!MuxerState
    <3> HIDE DEF x
    <3> QED
      BY <3>1, <3>2, <2>0, <2>1, <1>q, MuxerChange
  <2>2. CASE ~(hlsMuxer[m].auto /\ hlsMuxer[m].ctl = "select")
    <3> DEFINE x == [hlsMuxer[m] EXCEPT !.inner = "none", !.ctl = "closing",
                                        !.cancelled = TRUE, !.isReady = FALSE]
    <3>1. hlsMuxer' = [hlsMuxer EXCEPT ![m] = x]
      BY <1>15, <2>2, <1>t DEF HLS!InnerErr
    <3>2. GoodMuxer(x) /\ x.ctl = "closing" /\ x.auto = hlsMuxer[m].auto
      BY <1>p, <2>0 DEF GoodMuxer, HLS!MuxerState
    <3> HIDE DEF x
    <3> QED
      BY <3>1, <3>2, <2>0, <1>q, MuxerChange
  <2> QED
    BY <2>1, <2>2
\* A step of runInner(), or of run() that starts it: run() stays where it is.
<1>16. ASSUME NEW m \in Muxers, NEW x, GoodMuxer(x), x.ctl = hlsMuxer[m].ctl,
              x.auto = hlsMuxer[m].auto, x.cancelled = hlsMuxer[m].cancelled,
              hlsMuxer' = [hlsMuxer EXCEPT ![m] = x],
              UNCHANGED <<hlsRemux, hlsServer, hlsListed, hlsPath>>,
              UNCHANGED hlsRequest \/ hlsRequest' = HLS!Answer(HLS!Queued(m))
       PROVE  HLSInv'
  BY <1>16, <1>q, <1>r, MuxerChange
<1>17. ASSUME NEW m \in Muxers, HLS!Return(m), hlsMuxer[m].inner # "none",
              UNCHANGED <<hlsRemux, hlsServer, hlsListed, hlsPath, hlsRequest>>
       PROVE  HLSInv'
  <2> DEFINE x == [hlsMuxer[m] EXCEPT !.inner = "returned", !.attached = FALSE]
  <2>1. hlsMuxer' = [hlsMuxer EXCEPT ![m] = x]
    BY <1>17, <1>t DEF HLS!Return
  <2>2. /\ GoodMuxer(x) /\ x.ctl = hlsMuxer[m].ctl /\ x.auto = hlsMuxer[m].auto
        /\ x.cancelled = hlsMuxer[m].cancelled
    BY <1>17, <1>p DEF GoodMuxer, HLS!MuxerState
  <2> HIDE DEF x
  <2> QED
    BY <2>1, <2>2, <1>16, <1>17
<1>18. ASSUME NEW m \in Muxers, HLS!InnerReady(m) PROVE HLSInv'
  <2> DEFINE x == [hlsMuxer[m] EXCEPT !.isReady = TRUE, !.inner = "running"]
  <2>1. /\ hlsMuxer' = [hlsMuxer EXCEPT ![m] = x] /\ hlsRequest' = HLS!Answer(HLS!Queued(m))
        /\ UNCHANGED <<hlsRemux, hlsServer, hlsListed, hlsPath>>
    BY <1>18, <1>t DEF HLS!InnerReady
  <2>2. /\ GoodMuxer(x) /\ x.ctl = hlsMuxer[m].ctl /\ x.auto = hlsMuxer[m].auto
        /\ x.cancelled = hlsMuxer[m].cancelled
    BY <1>18, <1>p DEF GoodMuxer, HLS!MuxerState, HLS!InnerReady
  <2> HIDE DEF x
  <2> QED
    BY <2>1, <2>2, <1>16
<1>19. ASSUME NEW m \in Muxers, HLS!RecreateTimerFires(m) PROVE HLSInv'
  <2> DEFINE x == [hlsMuxer[m] EXCEPT !.isRecreating = FALSE, !.inner = "adding"]
  <2>1. /\ hlsMuxer' = [hlsMuxer EXCEPT ![m] = x]
        /\ UNCHANGED <<hlsRemux, hlsServer, hlsListed, hlsPath, hlsRequest>>
    BY <1>19, <1>t DEF HLS!RecreateTimerFires
  <2>2. /\ GoodMuxer(x) /\ x.ctl = hlsMuxer[m].ctl /\ x.auto = hlsMuxer[m].auto
        /\ x.cancelled = hlsMuxer[m].cancelled
    BY <1>19, <1>p DEF GoodMuxer, HLS!MuxerState, HLS!RecreateTimerFires
  <2> HIDE DEF x
  <2> QED
    BY <2>1, <2>2, <1>16
<1>20. ASSUME NEW m \in Muxers, HLS!InnerAddReader(m) PROVE HLSInv'
  <2>0. /\ hlsMuxer[m].inner = "adding"
        /\ UNCHANGED <<hlsRemux, hlsServer, hlsListed, hlsPath, hlsRequest>>
    BY <1>20 DEF HLS!InnerAddReader
  <2>1. CASE hlsMuxer' = [hlsMuxer EXCEPT ![m].inner = "setup", ![m].attached = TRUE]
    <3> DEFINE x == [hlsMuxer[m] EXCEPT !.inner = "setup", !.attached = TRUE]
    <3>1. hlsMuxer' = [hlsMuxer EXCEPT ![m] = x]
      BY <2>1, <1>t
    <3>2. /\ GoodMuxer(x) /\ x.ctl = hlsMuxer[m].ctl /\ x.auto = hlsMuxer[m].auto
          /\ x.cancelled = hlsMuxer[m].cancelled
      BY <2>0, <1>p DEF GoodMuxer, HLS!MuxerState
    <3> HIDE DEF x
    <3> QED
      BY <3>1, <3>2, <2>0, <1>16
  <2>2. CASE hlsMuxer' = [hlsMuxer EXCEPT ![m].inner = "returned"]
    <3> DEFINE x == [hlsMuxer[m] EXCEPT !.inner = "returned"]
    <3>1. hlsMuxer' = [hlsMuxer EXCEPT ![m] = x]
      BY <2>2, <1>t
    <3>2. /\ GoodMuxer(x) /\ x.ctl = hlsMuxer[m].ctl /\ x.auto = hlsMuxer[m].auto
          /\ x.cancelled = hlsMuxer[m].cancelled
      BY <2>0, <1>p DEF GoodMuxer, HLS!MuxerState
    <3> HIDE DEF x
    <3> QED
      BY <3>1, <3>2, <2>0, <1>16
  <2> QED
    BY <2>1, <2>2, <1>20 DEF HLS!InnerAddReader
<1>21. ASSUME NEW m \in Muxers, HLS!InnerSetup(m) PROVE HLSInv'
  <2>0. /\ hlsMuxer[m].inner = "setup"
        /\ UNCHANGED <<hlsRemux, hlsServer, hlsListed, hlsPath, hlsRequest>>
    BY <1>21 DEF HLS!InnerSetup
  <2>1. CASE HLS!Return(m)
    BY <2>0, <2>1, <1>17
  <2>2. CASE hlsMuxer' = [hlsMuxer EXCEPT ![m].inner = "sendReady"]
    <3> DEFINE x == [hlsMuxer[m] EXCEPT !.inner = "sendReady"]
    <3>1. hlsMuxer' = [hlsMuxer EXCEPT ![m] = x]
      BY <2>2, <1>t
    <3>2. /\ GoodMuxer(x) /\ x.ctl = hlsMuxer[m].ctl /\ x.auto = hlsMuxer[m].auto
          /\ x.cancelled = hlsMuxer[m].cancelled
      BY <2>0, <1>p DEF GoodMuxer, HLS!MuxerState
    <3> HIDE DEF x
    <3> QED
      BY <3>1, <3>2, <2>0, <1>16
  <2> QED
    BY <2>1, <2>2, <1>21 DEF HLS!InnerSetup
<1>22. ASSUME NEW m \in Muxers,
              HLS!InnerIdle(m) \/ HLS!InnerWriterError(m) \/ HLS!InnerTerminated(m)
       PROVE  HLSInv'
  BY <1>22, <1>17 DEF HLS!InnerIdle, HLS!InnerWriterError, HLS!InnerTerminated
<1>23. CASE UNCHANGED hlsVars
  <2>1. /\ UNCHANGED <<hlsRemux, hlsServer, hlsListed, hlsMuxer, hlsPath, hlsRequest>>
    BY <1>23 DEF hlsVars
  <2> QED
    BY <2>1, <1>9, <1>t, <1>p DEF RequestsHaveMuxers
<1> QED
  BY <1>2, <1>3, <1>4, <1>5, <1>6, <1>7, <1>8, <1>10, <1>11, <1>12, <1>13, <1>14, <1>15,
     <1>18, <1>19, <1>20, <1>21, <1>22, <1>23
  DEF HLS!Next, HLS!Announce, HLS!Forward, HLS!MuxerStep

LEMMA HLSInvImplies ==
    HLSInv => /\ HLS!TypeOK /\ HLS!EndedMuxerIsDetached /\ HLS!OneLiveMuxer
              /\ HLS!NoAutomaticMuxerWhenNotReady /\ HLS!ServedByStartedMuxer
<1> SUFFICES ASSUME HLSInv
             PROVE  /\ HLS!TypeOK /\ HLS!EndedMuxerIsDetached /\ HLS!OneLiveMuxer
                    /\ HLS!NoAutomaticMuxerWhenNotReady /\ HLS!ServedByStartedMuxer
  OBVIOUS
<1> USE DEF HLS!None
<1>1. HLS!EndedMuxerIsDetached
  BY DEF HLSInv, GoodMuxer, HLS!EndedMuxerIsDetached
<1>2. HLS!NoAutomaticMuxerWhenNotReady
  <2> SUFFICES ASSUME hlsPath.state # "ready", hlsPath.calls = <<>>, ~hlsServer.closed
               PROVE  hlsListed = "none" \/ ~hlsMuxer[hlsListed].auto
    BY DEF HLS!NoAutomaticMuxerWhenNotReady
  <2>1. ~HLS!IsPending("notReady")
    BY DEF HLS!IsPending
  <2> QED
    BY <2>1 DEF HLSInv, AutomaticMuxerIsAnnounced
<1>3. HLS!ServedByStartedMuxer
  BY DEF HLSInv, GoodMuxer, RequestsHaveMuxers, HLS!ServedByStartedMuxer
<1> QED
  BY <1>1, <1>2, <1>3 DEF HLSInv

-----------------------------------------------------------------------------
(* The servers together.                                                    *)

\* A step of one server leaves the others alone.
ServersInv == HLSInv /\ RTMPInv /\ SRTInv /\ RTSPInv /\ WebRTCInv

LEMMA ServersInductive == Spec => []ServersInv
<1>1. Init => ServersInv
  BY HLSInit, RTMPInit, SRTInit, RTSPInit, WebRTCInit DEF Init, ServersInv
<1>2. ServersInv /\ [Next]_vars => ServersInv'
  <2> SUFFICES ASSUME ServersInv, [Next]_vars PROVE ServersInv'
    OBVIOUS
  <2>1. /\ [HLS!Next]_hlsVars /\ [RTMP!Next]_rtmpVars /\ [SRT!Next]_srtVars
        /\ [RTSP!Next]_rtspVars /\ [WebRTC!Next]_webrtcVars
    BY DEF Next, vars
  <2> QED
    BY <2>1, HLSNext, RTMPNext, SRTNext, RTSPNext, WebRTCNext DEF ServersInv
<1> QED
  BY <1>1, <1>2, PTL DEF Spec

\* The servers' variables always have their types, for any number of muxers,
\* requests, connections and sessions.  For HLS this includes that
\* createMuxer() always finds a muxer for an announcement under the bound; for
\* RTSP, that a connection never fails to authenticate once more after the
\* last failure that handleAuthError() forgives.
THEOREM ServersTypeCorrect == Spec => []TypeOK
<1>1. ServersInv => TypeOK
  BY HLSInvImplies, RTMPInvImplies, SRTInvImplies, RTSPInvImplies, WebRTCInvImplies
  DEF ServersInv, TypeOK
<1> QED
  BY <1>1, ServersInductive, PTL

\* However a session ends, and whatever the order in which its goroutines, the
\* path, the API and the server end it, it leaves nothing on the path, no hook
\* that runs and no entry in the map of a running server.
THEOREM EndedSessionsAreCleanAlways == Spec => []EndedSessionsAreClean
<1>1. ServersInv => EndedSessionsAreClean
  BY HLSInvImplies, RTMPInvImplies, SRTInvImplies, RTSPInvImplies, WebRTCInvImplies
  DEF ServersInv, EndedSessionsAreClean
<1> QED
  BY <1>1, ServersInductive, PTL

\* A session that nobody closed can be listed, kicked and closed; an HLS path
\* never has two muxers that serve it.
THEOREM LiveSessionsAreListedAlways == Spec => []LiveSessionsAreListed
<1>1. ServersInv => LiveSessionsAreListed
  BY HLSInvImplies, RTMPInvImplies, SRTInvImplies, WebRTCInvImplies
  DEF ServersInv, LiveSessionsAreListed
<1> QED
  BY <1>1, ServersInductive, PTL

\* The announcements of the path manager, which arrive late, never leave the
\* HLS server with an automatic muxer of a path that is not ready.
THEOREM NoAutomaticMuxerWhenNotReadyAlways == Spec => []NoAutomaticMuxerWhenNotReady
<1>1. ServersInv => NoAutomaticMuxerWhenNotReady
  BY HLSInvImplies DEF ServersInv, NoAutomaticMuxerWhenNotReady
<1> QED
  BY <1>1, ServersInductive, PTL

\* A muxer of HLS hands itself to a request only while runInner() keeps what
\* serves it, and ends with an empty queue: the part of NobodyLeftWaiting that
\* needs no ENABLED.
THEOREM RequestsServedByStartedMuxer == Spec => []HLS!ServedByStartedMuxer
<1>1. ServersInv => HLS!ServedByStartedMuxer
  BY HLSInvImplies DEF ServersInv
<1> QED
  BY <1>1, ServersInductive, PTL
=============================================================================
