------------------------- MODULE SessionServersProofs -------------------------
(***************************************************************************)
(* What each session server keeps true, proved for any number of            *)
(* connections and sessions: RTMP, SRT, RTSP and WebRTC.  Each server has   *)
(* an inductive invariant made of what one connection or session satisfies  *)
(* by itself (Good...) and of how the map of the server agrees with them;   *)
(* an action changes one connection, so that it is enough to say which      *)
(* record it leaves there and what it does to the map.                      *)
(***************************************************************************)
EXTENDS MCServers, TLAPS

-----------------------------------------------------------------------------
(* RTMP.                                                                    *)

\* A connection whose reader has not been admitted yet, or has returned, is not
\* on the path and runs no hook; run() only ends after its reader has.
GoodRTMPConn(r) ==
    /\ r \in RTMP!ConnState
    /\ r.run \in {"closing", "unused"} => r.reader = "none"
    /\ r.reader \in {"none", "handshake", "adding", "pause", "returned"} =>
        ~r.attached /\ ~r.reading

\* The loop ends only after the context is done: as long as it is not, a
\* connection that ends gets itself removed from the map.
RTMPInv ==
    /\ RTMP!TypeOK
    /\ rtmpServer.loop = "ended" => rtmpServer.closed
    /\ \A c \in Conns : GoodRTMPConn(rtmpConn[c])
    /\ ~rtmpServer.closed => \A c \in rtmpConns : rtmpConn[c].run # "unused"
    /\ RTMP!LiveConnsAreListed

LEMMA RTMPInit == RTMP!Init => RTMPInv
<1> SUFFICES ASSUME RTMP!Init PROVE RTMPInv
  OBVIOUS
<1>1. RTMP!Unused \in RTMP!ConnState /\ GoodRTMPConn(RTMP!Unused)
  BY DEF RTMP!Unused, RTMP!ConnState, RTMP!None, GoodRTMPConn
<1>2. \A c \in Conns : rtmpConn[c] = RTMP!Unused
  BY DEF RTMP!Init
<1>3. RTMP!TypeOK
  BY <1>1 DEF RTMP!Init, RTMP!TypeOK
<1>4. RTMP!Unused.run = "unused"
  BY DEF RTMP!Unused
<1> QED
  BY <1>1, <1>2, <1>3, <1>4 DEF RTMP!Init, RTMPInv, RTMP!LiveConnsAreListed

\* An action that leaves r as the connection c keeps the invariant if r is good
\* by itself and the map is right about it.
LEMMA RTMPConnChange ==
    ASSUME RTMPInv, NEW c \in Conns, NEW r, GoodRTMPConn(r),
           rtmpConn' = [rtmpConn EXCEPT ![c] = r], rtmpServer' = rtmpServer,
           rtmpConns' \in {rtmpConns, rtmpConns \ {c}, rtmpConns \cup {c}},
           ~rtmpServer.closed /\ c \in rtmpConns' => r.run # "unused",
           r.run = "select" /\ ~r.cancelled /\ ~rtmpServer.closed => c \in rtmpConns'
    PROVE  RTMPInv'
<1>1. rtmpConn'[c] = r /\ \A d \in Conns \ {c} : rtmpConn'[d] = rtmpConn[d]
  BY DEF RTMPInv, RTMP!TypeOK
<1>2. \A d \in Conns \ {c} : d \in rtmpConns' <=> d \in rtmpConns
  OBVIOUS
<1>3. RTMP!TypeOK'
  BY DEF RTMPInv, RTMP!TypeOK, GoodRTMPConn
<1>4. \A d \in Conns : GoodRTMPConn(rtmpConn'[d])
  BY <1>1 DEF RTMPInv
<1>5. ~rtmpServer.closed => \A d \in rtmpConns' : rtmpConn'[d].run # "unused"
  BY <1>1, <1>2, <1>3 DEF RTMPInv, RTMP!TypeOK
<1>6. RTMP!LiveConnsAreListed'
  BY <1>1, <1>2 DEF RTMPInv, RTMP!LiveConnsAreListed, RTMP!Done
<1> QED
  BY <1>3, <1>4, <1>5, <1>6 DEF RTMPInv

LEMMA RTMPNext == RTMPInv /\ [RTMP!Next]_rtmpVars => RTMPInv'
<1> SUFFICES ASSUME RTMPInv, [RTMP!Next]_rtmpVars PROVE RTMPInv'
  OBVIOUS
<1> USE DEF RTMP!None
<1>t. /\ rtmpServer \in [closed: BOOLEAN, loop: {"select", "ended"}]
      /\ rtmpConns \subseteq Conns
      /\ rtmpServer.loop = "ended" => rtmpServer.closed
  BY DEF RTMPInv, RTMP!TypeOK
<1>l. ASSUME NEW c \in Conns, rtmpConn[c].run = "select", ~rtmpConn[c].cancelled,
             ~rtmpServer.closed
      PROVE  c \in rtmpConns
  BY <1>l DEF RTMPInv, RTMP!LiveConnsAreListed, RTMP!Done
<1>m. ASSUME NEW c \in Conns, ~rtmpServer.closed, c \in rtmpConns
      PROVE  rtmpConn[c].run # "unused"
  BY <1>m DEF RTMPInv
<1>g. \A c \in Conns : GoodRTMPConn(rtmpConn[c])
  BY DEF RTMPInv
<1>1. ASSUME UNCHANGED <<rtmpConns, rtmpConn>>, rtmpServer'.closed,
             rtmpServer' \in [closed: BOOLEAN, loop: {"select", "ended"}]
      PROVE  RTMPInv'
  BY <1>1 DEF RTMPInv, RTMP!TypeOK, RTMP!LiveConnsAreListed, RTMP!Done
<1>2. CASE RTMP!AcceptError \/ RTMP!Close \/ RTMP!LoopEnds
  <2> DEFINE Closed == /\ rtmpServer' \in [closed: BOOLEAN, loop: {"select", "ended"}]
                       /\ rtmpServer'.closed
  <2>1. CASE RTMP!AcceptError
    <3>1. Closed
      BY <2>1 DEF RTMP!AcceptError
    <3> QED
      BY <2>1, <3>1, <1>1 DEF RTMP!AcceptError
  <2>2. CASE RTMP!Close
    <3>1. Closed
      BY <2>2, <1>t DEF RTMP!Close
    <3> QED
      BY <2>2, <3>1, <1>1 DEF RTMP!Close
  <2>3. CASE RTMP!LoopEnds
    <3>1. Closed
      BY <2>3, <1>t DEF RTMP!LoopEnds
    <3> QED
      BY <2>3, <3>1, <1>1 DEF RTMP!LoopEnds
  <2> QED
    BY <1>2, <2>1, <2>2, <2>3
<1>3. ASSUME NEW c \in Conns, RTMP!NewConn(c) PROVE RTMPInv'
  <2> DEFINE r == [RTMP!Unused EXCEPT !.run = "select", !.reader = "handshake"]
  <2>1. GoodRTMPConn(r) /\ r.run = "select"
    BY DEF RTMP!Unused, RTMP!ConnState, GoodRTMPConn
  <2>2. /\ rtmpConn' = [rtmpConn EXCEPT ![c] = r] /\ rtmpServer' = rtmpServer
        /\ rtmpConns' = rtmpConns \cup {c}
    BY <1>3 DEF RTMP!NewConn, RTMP!Set
  <2> HIDE DEF r
  <2> QED
    BY <2>1, <2>2, RTMPConnChange
<1>4. ASSUME NEW c \in Conns, RTMP!CloseConn(c) PROVE RTMPInv'
  <2> DEFINE r == RTMP!Unused
  <2>1. GoodRTMPConn(r) /\ r.run = "unused"
    BY DEF RTMP!Unused, RTMP!ConnState, GoodRTMPConn
  <2>2. /\ rtmpConn' = [rtmpConn EXCEPT ![c] = r] /\ rtmpServer' = rtmpServer
        /\ rtmpConns' = rtmpConns \ {c} \/ (rtmpServer.closed /\ rtmpConns' = rtmpConns)
    BY <1>4 DEF RTMP!CloseConn, RTMP!Set
  <2> HIDE DEF r
  <2> QED
    BY <2>1, <2>2, RTMPConnChange
<1>5. ASSUME NEW c \in Conns, RTMP!Kick(c) PROVE RTMPInv'
  <2> DEFINE r == [rtmpConn[c] EXCEPT !.cancelled = TRUE]
  <2>1. GoodRTMPConn(r) /\ r.cancelled
    BY <1>g DEF RTMP!ConnState, GoodRTMPConn
  <2>2. /\ rtmpConn' = [rtmpConn EXCEPT ![c] = r] /\ rtmpServer' = rtmpServer
        /\ rtmpConns' = rtmpConns \ {c}
    BY <1>5 DEF RTMP!Kick
  <2> HIDE DEF r
  <2> QED
    BY <2>1, <2>2, RTMPConnChange
<1>6. ASSUME NEW c \in Conns, NEW r, GoodRTMPConn(r), r.run # "unused",
             rtmpConn' = [rtmpConn EXCEPT ![c] = r], UNCHANGED <<rtmpServer, rtmpConns>>,
             r.run = "select" => rtmpConn[c].run = "select",
             rtmpConn[c].cancelled => r.cancelled
      PROVE  RTMPInv'
  <2>1. r.cancelled \in BOOLEAN /\ rtmpConn[c].cancelled \in BOOLEAN
    BY <1>g, <1>6 DEF GoodRTMPConn, RTMP!ConnState
  <2>2. r.run = "select" /\ ~r.cancelled /\ ~rtmpServer.closed => c \in rtmpConns'
    BY <1>6, <1>l
  <2> QED
    BY <1>6, <2>2, RTMPConnChange
<1>7. ASSUME NEW c \in Conns, rtmpConn[c].reader # "none", RTMP!Return(c),
             UNCHANGED <<rtmpServer, rtmpConns>>
      PROVE  RTMPInv'
  <2> DEFINE r == [rtmpConn[c] EXCEPT !.reader = "returned", !.attached = FALSE,
                                      !.reading = FALSE]
  <2>1. /\ GoodRTMPConn(r) /\ r.run = rtmpConn[c].run /\ r.run # "unused"
        /\ r.cancelled = rtmpConn[c].cancelled
    BY <1>g, <1>7 DEF RTMP!ConnState, GoodRTMPConn
  <2>2. rtmpConn' = [rtmpConn EXCEPT ![c] = r]
    BY <1>7 DEF RTMP!Return, RTMP!Set
  <2> HIDE DEF r
  <2> QED
    BY <2>1, <2>2, <1>6, <1>7
<1>8. ASSUME NEW c \in Conns, RTMP!RunStops(c) PROVE RTMPInv'
  <2> DEFINE r == [rtmpConn[c] EXCEPT !.run = "waitReader"]
  <2>1. GoodRTMPConn(r) /\ r.run = "waitReader" /\ r.cancelled = rtmpConn[c].cancelled
    BY <1>g, <1>8 DEF RTMP!ConnState, GoodRTMPConn, RTMP!RunStops
  <2>2. rtmpConn' = [rtmpConn EXCEPT ![c] = r] /\ UNCHANGED <<rtmpServer, rtmpConns>>
    BY <1>8 DEF RTMP!RunStops, RTMP!Set
  <2> HIDE DEF r
  <2> QED
    BY <2>1, <2>2, <1>6
<1>9. ASSUME NEW c \in Conns, RTMP!ReaderEnds(c) PROVE RTMPInv'
  <2> DEFINE r == [rtmpConn[c] EXCEPT !.run = "closing", !.reader = "none",
                                      !.cancelled = TRUE]
  <2>1. GoodRTMPConn(r) /\ r.run = "closing" /\ r.cancelled
    BY <1>g, <1>9 DEF RTMP!ConnState, GoodRTMPConn, RTMP!ReaderEnds
  <2>2. rtmpConn' = [rtmpConn EXCEPT ![c] = r] /\ UNCHANGED <<rtmpServer, rtmpConns>>
    BY <1>9 DEF RTMP!ReaderEnds, RTMP!Set
  <2> HIDE DEF r
  <2> QED
    BY <2>1, <2>2, <1>6
<1>10. ASSUME NEW c \in Conns, RTMP!PathCloses(c) PROVE RTMPInv'
  <2> DEFINE r == [rtmpConn[c] EXCEPT !.attached = FALSE, !.cancelled = TRUE]
  <2>1. /\ GoodRTMPConn(r) /\ r.run = rtmpConn[c].run /\ r.run # "unused"
        /\ r.cancelled
    BY <1>g, <1>10 DEF RTMP!ConnState, GoodRTMPConn, RTMP!PathCloses
  <2>2. rtmpConn' = [rtmpConn EXCEPT ![c] = r] /\ UNCHANGED <<rtmpServer, rtmpConns>>
    BY <1>10 DEF RTMP!PathCloses, RTMP!Set
  <2> HIDE DEF r
  <2> QED
    BY <2>1, <2>2, <1>6
\* A step of the reader that goes on.
<1>11. ASSUME NEW c \in Conns, rtmpConn[c].reader # "none",
              NEW reader \in {"adding", "pause", "setup", "active"},
              NEW role \in {"none", "read", "publish"},
              NEW attached \in BOOLEAN, NEW reading \in BOOLEAN,
              reader \in {"adding", "pause"} => ~attached /\ ~reading,
              rtmpConn' = [rtmpConn EXCEPT ![c] = [rtmpConn[c] EXCEPT
                  !.reader = reader, !.role = role, !.attached = attached,
                  !.reading = reading]],
              UNCHANGED <<rtmpServer, rtmpConns>>
       PROVE  RTMPInv'
  <2> DEFINE r == [rtmpConn[c] EXCEPT !.reader = reader, !.role = role,
                                      !.attached = attached, !.reading = reading]
  <2>1. /\ GoodRTMPConn(r) /\ r.run = rtmpConn[c].run /\ r.run # "unused"
        /\ r.cancelled = rtmpConn[c].cancelled
    BY <1>g, <1>11 DEF RTMP!ConnState, GoodRTMPConn
  <2>2. rtmpConn' = [rtmpConn EXCEPT ![c] = r]
    BY <1>11
  <2> HIDE DEF r
  <2> QED
    BY <2>1, <2>2, <1>6, <1>11
<1>f. ASSUME NEW c \in Conns
      PROVE  /\ rtmpConn[c] = [run |-> rtmpConn[c].run, reader |-> rtmpConn[c].reader,
                   role |-> rtmpConn[c].role, cancelled |-> rtmpConn[c].cancelled,
                   attached |-> rtmpConn[c].attached, reading |-> rtmpConn[c].reading]
             /\ rtmpConn[c].role \in {"none", "read", "publish"}
             /\ rtmpConn[c].attached \in BOOLEAN /\ rtmpConn[c].reading \in BOOLEAN
             /\ rtmpConn[c].reader \in {"handshake", "adding", "pause"} =>
                    ~rtmpConn[c].attached /\ ~rtmpConn[c].reading
  BY <1>g DEF GoodRTMPConn, RTMP!ConnState
<1>12. ASSUME NEW c \in Conns, RTMP!Handshake(c) PROVE RTMPInv'
  <2>1. CASE RTMP!Return(c)
    BY <2>1, <1>12, <1>7 DEF RTMP!Handshake
  <2>2. ASSUME NEW s \in {"read", "publish"},
               RTMP!Set(c, [rtmpConn[c] EXCEPT !.reader = "adding", !.role = s])
        PROVE  RTMPInv'
    <3>1. rtmpConn' = [rtmpConn EXCEPT ![c] = [rtmpConn[c] EXCEPT
             !.reader = "adding", !.role = s, !.attached = rtmpConn[c].attached,
             !.reading = rtmpConn[c].reading]]
      BY <2>2, <1>12, <1>f DEF RTMP!Set, RTMP!Handshake
    <3> QED
      BY <3>1, <1>12, <1>11, <1>f DEF RTMP!Handshake
  <2> QED
    BY <2>1, <2>2, <1>12 DEF RTMP!Handshake
<1>13. ASSUME NEW c \in Conns, RTMP!PathAnswers(c) PROVE RTMPInv'
  <2>1. CASE RTMP!Return(c)
    BY <2>1, <1>13, <1>7 DEF RTMP!PathAnswers
  <2>2. CASE RTMP!Set(c, [rtmpConn[c] EXCEPT !.reader = "pause"])
    <3>1. rtmpConn' = [rtmpConn EXCEPT ![c] = [rtmpConn[c] EXCEPT !.reader = "pause",
             !.role = rtmpConn[c].role, !.attached = FALSE, !.reading = FALSE]]
      BY <2>2, <1>13, <1>f, ZenonT(40) DEF RTMP!Set, RTMP!PathAnswers
    <3> QED
      BY <3>1, <1>13, <1>11, <1>f DEF RTMP!PathAnswers
  <2>3. CASE RTMP!Set(c, [rtmpConn[c] EXCEPT !.reader = "setup", !.attached = TRUE])
    <3>1. rtmpConn' = [rtmpConn EXCEPT ![c] = [rtmpConn[c] EXCEPT !.reader = "setup",
             !.role = rtmpConn[c].role, !.attached = TRUE, !.reading = rtmpConn[c].reading]]
      BY <2>3, <1>13, <1>f DEF RTMP!Set, RTMP!PathAnswers
    <3> QED
      BY <3>1, <1>13, <1>11, <1>f DEF RTMP!PathAnswers
  <2> QED
    BY <2>1, <2>2, <2>3, <1>13 DEF RTMP!PathAnswers
<1>14. ASSUME NEW c \in Conns, RTMP!StartReading(c) PROVE RTMPInv'
  <2>1. CASE RTMP!Return(c)
    BY <2>1, <1>14, <1>7 DEF RTMP!StartReading
  <2>2. CASE RTMP!Set(c, [rtmpConn[c] EXCEPT !.reader = "active", !.reading = TRUE])
    <3>1. rtmpConn' = [rtmpConn EXCEPT ![c] = [rtmpConn[c] EXCEPT !.reader = "active",
             !.role = rtmpConn[c].role, !.attached = rtmpConn[c].attached,
             !.reading = TRUE]]
      BY <2>2, <1>14, <1>f DEF RTMP!Set, RTMP!StartReading
    <3> QED
      BY <3>1, <1>14, <1>11, <1>f DEF RTMP!StartReading
  <2> QED
    BY <2>1, <2>2, <1>14 DEF RTMP!StartReading
<1>15. ASSUME NEW c \in Conns, RTMP!StartPublishing(c) PROVE RTMPInv'
  <2>1. CASE RTMP!Return(c)
    BY <2>1, <1>15, <1>7 DEF RTMP!StartPublishing
  <2>2. CASE RTMP!Set(c, [rtmpConn[c] EXCEPT !.reader = "active"])
    <3>1. rtmpConn' = [rtmpConn EXCEPT ![c] = [rtmpConn[c] EXCEPT !.reader = "active",
             !.role = rtmpConn[c].role, !.attached = rtmpConn[c].attached,
             !.reading = rtmpConn[c].reading]]
      BY <2>2, <1>15, <1>f DEF RTMP!Set, RTMP!StartPublishing
    <3> QED
      BY <3>1, <1>15, <1>11, <1>f DEF RTMP!StartPublishing
  <2> QED
    BY <2>1, <2>2, <1>15 DEF RTMP!StartPublishing
<1>16. ASSUME NEW c \in Conns,
              RTMP!PauseEnds(c) \/ RTMP!SessionStops(c) \/ RTMP!SessionFails(c)
       PROVE  RTMPInv'
  BY <1>16, <1>7 DEF RTMP!PauseEnds, RTMP!SessionStops, RTMP!SessionFails
<1>17. CASE UNCHANGED rtmpVars
  BY <1>17 DEF rtmpVars, RTMPInv, RTMP!TypeOK, RTMP!LiveConnsAreListed, RTMP!Done
<1> QED
  BY <1>2, <1>3, <1>4, <1>5, <1>8, <1>9, <1>10, <1>12, <1>13, <1>14, <1>15, <1>16, <1>17
  DEF RTMP!Next, RTMP!ConnStep

LEMMA RTMPInvImplies ==
    RTMPInv => RTMP!TypeOK /\ RTMP!EndedIsClean /\ RTMP!LiveConnsAreListed
BY DEF RTMPInv, RTMP!EndedIsClean, GoodRTMPConn

-----------------------------------------------------------------------------
(* SRT.                                                                     *)

\* A connection is on the path, runs a hook or has a reader only from the
\* moment the path admitted it until its deferred calls.
GoodSRTConn(r) ==
    /\ r \in SRT!ConnState
    /\ r.run \notin {"attached", "exchange", "active", "waitReader"} =>
        ~r.attached /\ ~r.reading /\ r.reader = "none"

\* The map of a running server has the connections that live, and only those
\* whose run() has not ended.
SRTInv ==
    /\ SRT!TypeOK
    /\ srtServer.loop = "ended" => srtServer.closed
    /\ \A c \in Conns : GoodSRTConn(srtConn[c])
    /\ ~srtServer.closed => \A c \in srtConns : srtConn[c].run # "unused"
    /\ SRT!LiveConnsAreListed

\* The listener has a connection from the moment the loop gives it one until it
\* accepts again or fails.
GoodListener(x) ==
    /\ x \in [at: {"accept", "new", "answer", "setConn", "error", "ended"},
             conn: Conns \cup {"none"}]
    /\ x.conn = "none" <=> x.at \in {"accept", "error", "ended"}

LEMMA SRTInit == SRT!Init => SRTInv
<1> SUFFICES ASSUME SRT!Init PROVE SRTInv
  OBVIOUS
<1>1. SRT!Unused \in SRT!ConnState /\ GoodSRTConn(SRT!Unused)
  BY DEF SRT!Unused, SRT!ConnState, SRT!None, GoodSRTConn
<1>2. \A c \in Conns : srtConn[c] = SRT!Unused
  BY DEF SRT!Init
<1>3. SRT!TypeOK
  BY <1>1 DEF SRT!Init, SRT!TypeOK, SRT!None
<1>4. SRT!Unused.run = "unused"
  BY DEF SRT!Unused
<1> QED
  BY <1>1, <1>2, <1>3, <1>4 DEF SRT!Init, SRTInv, SRT!LiveConnsAreListed

LEMMA SRTConnChange ==
    ASSUME SRTInv, NEW c \in Conns, NEW r, GoodSRTConn(r),
           srtConn' = [srtConn EXCEPT ![c] = r], srtServer' = srtServer,
           GoodListener(srtListener'),
           srtConns' \in {srtConns, srtConns \ {c}, srtConns \cup {c}},
           ~srtServer.closed /\ c \in srtConns' => r.run # "unused",
           r.run \notin {"unused", "returned", "closing"} /\ ~r.cancelled
               /\ ~srtServer.closed => c \in srtConns'
    PROVE  SRTInv'
<1>1. srtConn'[c] = r /\ \A d \in Conns \ {c} : srtConn'[d] = srtConn[d]
  BY DEF SRTInv, SRT!TypeOK
<1>2. \A d \in Conns \ {c} : d \in srtConns' <=> d \in srtConns
  OBVIOUS
<1>3. SRT!TypeOK'
  BY DEF SRTInv, SRT!TypeOK, GoodSRTConn, GoodListener, SRT!None
<1>4. \A d \in Conns : GoodSRTConn(srtConn'[d])
  BY <1>1 DEF SRTInv
<1>5. ~srtServer.closed => \A d \in srtConns' : srtConn'[d].run # "unused"
  BY <1>1, <1>2, <1>3 DEF SRTInv, SRT!TypeOK
<1>6. SRT!LiveConnsAreListed'
  BY <1>1, <1>2 DEF SRTInv, SRT!LiveConnsAreListed, SRT!Done
<1> QED
  BY <1>3, <1>4, <1>5, <1>6 DEF SRTInv

LEMMA SRTNext == SRTInv /\ [SRT!Next]_srtVars => SRTInv'
<1> SUFFICES ASSUME SRTInv, [SRT!Next]_srtVars PROVE SRTInv'
  OBVIOUS
<1> USE DEF SRT!None
<1> DEFINE Servers == [closed: BOOLEAN, loop: {"select", "ended"}]
<1>t. /\ srtServer \in Servers
      /\ srtConns \subseteq Conns /\ GoodListener(srtListener)
      /\ srtServer.loop = "ended" => srtServer.closed
  BY DEF SRTInv, SRT!TypeOK, GoodListener
<1>g. \A c \in Conns : GoodSRTConn(srtConn[c])
  BY DEF SRTInv
<1>l. ASSUME NEW c \in Conns, srtConn[c].run \notin {"unused", "returned", "closing"},
             ~srtConn[c].cancelled, ~srtServer.closed
      PROVE  c \in srtConns
  BY <1>l DEF SRTInv, SRT!LiveConnsAreListed, SRT!Done
<1>a. /\ GoodListener(SRT!Accepting) /\ GoodListener(SRT!Failing)
      /\ \A c \in Conns, at \in {"new", "answer", "setConn"} :
            GoodListener([at |-> at, conn |-> c])
  BY ServersAssumption DEF GoodListener, SRT!Accepting, SRT!Failing
<1>u. GoodSRTConn(SRT!Unused) /\ SRT!Unused.run = "unused"
  BY DEF SRT!Unused, SRT!ConnState, GoodSRTConn
<1>1. ASSUME UNCHANGED <<srtConns, srtConn>>, GoodListener(srtListener'),
             srtServer' = srtServer \/ (srtServer' \in Servers /\ srtServer'.closed)
      PROVE  SRTInv'
  BY <1>1 DEF SRTInv, SRT!TypeOK, SRT!LiveConnsAreListed, SRT!Done, GoodListener
<1>2. CASE SRT!Close
  <2>1. srtServer' \in Servers /\ srtServer'.closed
    BY <1>2, <1>t DEF SRT!Close
  <2> QED
    BY <2>1, <1>1, <1>2, <1>t DEF SRT!Close
<1>3. CASE SRT!LoopEnds
  <2>1. srtServer' \in Servers /\ srtServer'.closed
    BY <1>3, <1>t DEF SRT!LoopEnds
  <2> QED
    BY <2>1, <1>1, <1>3, <1>t DEF SRT!LoopEnds
<1>4. CASE SRT!ListenerEnds
  <2>1. GoodListener(srtListener')
    BY <1>4, <1>t DEF SRT!ListenerEnds, GoodListener
  <2> QED
    BY <2>1, <1>1, <1>4 DEF SRT!ListenerEnds
<1>5. ASSUME NEW c \in Conns, SRT!NewConnRequest(c) PROVE SRTInv'
  <2> DEFINE r == [SRT!Unused EXCEPT !.run = "waitNew"]
  <2>1. GoodSRTConn(r) /\ r.run = "waitNew"
    BY DEF SRT!Unused, SRT!ConnState, GoodSRTConn
  <2>2. /\ srtConn' = [srtConn EXCEPT ![c] = r] /\ srtServer' = srtServer
        /\ srtConns' = srtConns \cup {c}
    BY <1>5 DEF SRT!NewConnRequest, SRT!Set
  <2>3. GoodListener(srtListener')
    BY <1>5, <1>a DEF SRT!NewConnRequest
  <2> HIDE DEF r
  <2> QED
    BY <2>1, <2>2, <2>3, SRTConnChange
<1>6. ASSUME NEW c \in Conns, SRT!CloseConn(c) PROVE SRTInv'
  <2> DEFINE r == [SRT!Unused EXCEPT !.cancelled = TRUE]
  <2>1. GoodSRTConn(r) /\ r.run = "unused"
    BY DEF SRT!Unused, SRT!ConnState, GoodSRTConn
  <2>2. /\ srtConn' = [srtConn EXCEPT ![c] = r] /\ UNCHANGED <<srtServer, srtListener>>
        /\ srtConns' = srtConns \ {c} \/ (srtServer.closed /\ srtConns' = srtConns)
    BY <1>6 DEF SRT!CloseConn, SRT!Set
  <2> HIDE DEF r
  <2> QED
    BY <2>1, <2>2, <1>t, SRTConnChange
<1>7. ASSUME NEW c \in Conns, SRT!Kick(c) PROVE SRTInv'
  <2> DEFINE r == [srtConn[c] EXCEPT !.cancelled = TRUE]
  <2>1. GoodSRTConn(r) /\ r.cancelled
    BY <1>g DEF SRT!ConnState, GoodSRTConn
  <2>2. /\ srtConn' = [srtConn EXCEPT ![c] = r] /\ UNCHANGED <<srtServer, srtListener>>
        /\ srtConns' = srtConns \ {c}
    BY <1>7 DEF SRT!Kick
  <2> HIDE DEF r
  <2> QED
    BY <2>1, <2>2, <1>t, SRTConnChange
\* A step of a connection that stays in the map as it was.
<1>8. ASSUME NEW c \in Conns, NEW r, GoodSRTConn(r), r.run # "unused",
             srtConn' = [srtConn EXCEPT ![c] = r], UNCHANGED <<srtServer, srtConns>>,
             GoodListener(srtListener'),
             srtConn[c].run \in {"unused", "returned", "closing"} => r.run = "closing",
             srtConn[c].cancelled => r.cancelled
      PROVE  SRTInv'
  <2>1. r.cancelled \in BOOLEAN /\ srtConn[c].cancelled \in BOOLEAN
    BY <1>g, <1>8 DEF GoodSRTConn, SRT!ConnState
  <2>2. r.run \notin {"unused", "returned", "closing"} /\ ~r.cancelled
            /\ ~srtServer.closed => c \in srtConns'
    BY <1>8, <1>l, <2>1
  <2> QED
    BY <1>8, <2>2, SRTConnChange
<1>9. ASSUME NEW c \in Conns, SRT!Return(c), UNCHANGED <<srtServer, srtConns>>,
             srtConn[c].run \notin {"unused", "returned", "closing"},
             GoodListener(srtListener')
      PROVE  SRTInv'
  <2> DEFINE r == [srtConn[c] EXCEPT !.run = "returned", !.reader = "none",
                                     !.attached = FALSE, !.reading = FALSE]
  <2>1. GoodSRTConn(r) /\ r.run = "returned" /\ r.cancelled = srtConn[c].cancelled
    BY <1>g DEF SRT!ConnState, GoodSRTConn
  <2>2. srtConn' = [srtConn EXCEPT ![c] = r]
    BY <1>9 DEF SRT!Return, SRT!Set
  <2> HIDE DEF r
  <2> QED
    BY <2>1, <2>2, <1>8, <1>9
<1>10. ASSUME NEW c \in Conns, SRT!New(c) PROVE SRTInv'
  <2>1. CASE srtConn[c].run = "waitNew" /\ SRT!Set(c, [srtConn[c] EXCEPT !.run = "adding"])
             /\ srtListener' = [at |-> "answer", conn |-> c]
    <3> DEFINE r == [srtConn[c] EXCEPT !.run = "adding"]
    <3>1. GoodSRTConn(r) /\ r.run = "adding" /\ r.cancelled = srtConn[c].cancelled
      BY <1>g, <2>1 DEF SRT!ConnState, GoodSRTConn
    <3>2. /\ srtConn' = [srtConn EXCEPT ![c] = r] /\ UNCHANGED <<srtServer, srtConns>>
          /\ GoodListener(srtListener')
      BY <2>1, <1>10, <1>a DEF SRT!New, SRT!Set
    <3> HIDE DEF r
    <3> QED
      BY <3>1, <3>2, <2>1, <1>8
  <2>2. CASE srtListener' = SRT!Accepting /\ UNCHANGED srtConn
    BY <2>2, <1>a, <1>10, <1>1 DEF SRT!New
  <2> QED
    BY <2>1, <2>2, <1>10 DEF SRT!New
<1>11. ASSUME NEW c \in Conns, SRT!NewCancelled(c) PROVE SRTInv'
  <2> DEFINE r == [srtConn[c] EXCEPT !.run = "closing", !.cancelled = TRUE]
  <2>1. GoodSRTConn(r) /\ r.run = "closing" /\ r.cancelled
    BY <1>g, <1>11 DEF SRT!ConnState, GoodSRTConn, SRT!NewCancelled
  <2>2. srtConn' = [srtConn EXCEPT ![c] = r] /\ UNCHANGED <<srtServer, srtConns, srtListener>>
    BY <1>11 DEF SRT!NewCancelled, SRT!Set
  <2> HIDE DEF r
  <2> QED
    BY <2>1, <2>2, <1>t, <1>8
<1>12. ASSUME NEW c \in Conns, SRT!PathAnswers(c) PROVE SRTInv'
  <2>u. /\ UNCHANGED <<srtServer, srtConns, srtListener>> /\ srtConn[c].run = "adding"
        /\ GoodListener(srtListener')
    BY <1>12, <1>t DEF SRT!PathAnswers
  <2>1. CASE SRT!Return(c)
    BY <2>1, <2>u, <1>9
  <2>2. CASE SRT!Set(c, [srtConn[c] EXCEPT !.run = "pause"])
    <3> DEFINE r == [srtConn[c] EXCEPT !.run = "pause"]
    <3>1. GoodSRTConn(r) /\ r.run = "pause" /\ r.cancelled = srtConn[c].cancelled
      BY <1>g, <2>u DEF SRT!ConnState, GoodSRTConn
    <3>2. srtConn' = [srtConn EXCEPT ![c] = r]
      BY <2>2 DEF SRT!Set
    <3> HIDE DEF r
    <3> QED
      BY <3>1, <3>2, <2>u, <1>8
  <2>3. ASSUME NEW role \in {"read", "publish"},
               SRT!Set(c, [srtConn[c] EXCEPT !.run = "attached", !.role = role,
                                             !.attached = TRUE])
        PROVE  SRTInv'
    <3> DEFINE r == [srtConn[c] EXCEPT !.run = "attached", !.role = role,
                                       !.attached = TRUE]
    <3>1. GoodSRTConn(r) /\ r.run = "attached" /\ r.cancelled = srtConn[c].cancelled
      BY <1>g, <2>u DEF SRT!ConnState, GoodSRTConn
    <3>2. srtConn' = [srtConn EXCEPT ![c] = r]
      BY <2>3 DEF SRT!Set
    <3> HIDE DEF r
    <3> QED
      BY <3>1, <3>2, <2>u, <1>8
  <2> QED
    BY <2>1, <2>2, <2>3, <1>12 DEF SRT!PathAnswers
<1>13. ASSUME NEW c \in Conns,
              SRT!PauseEnds(c) \/ SRT!ExchangeCancelled(c) \/ SRT!ReadingStops(c)
                \/ SRT!ReadingFails(c) \/ SRT!ReaderEnds(c)
       PROVE  SRTInv'
  <2>1. /\ SRT!Return(c) /\ UNCHANGED <<srtServer, srtConns, srtListener>>
        /\ srtConn[c].run \notin {"unused", "returned", "closing"}
    BY <1>13 DEF SRT!PauseEnds, SRT!ExchangeCancelled, SRT!ReadingStops, SRT!ReadingFails,
                 SRT!ReaderEnds
  <2> QED
    BY <2>1, <1>9, <1>t
<1>14. ASSUME NEW c \in Conns, SRT!Exchange(c) PROVE SRTInv'
  <2>u. UNCHANGED <<srtServer, srtConns>> /\ srtConn[c].run = "attached"
    BY <1>14 DEF SRT!Exchange
  <2>1. CASE SRT!Return(c) /\ UNCHANGED srtListener
    BY <2>1, <2>u, <1>9, <1>t
  <2>2. CASE /\ srtListener' = [at |-> "setConn", conn |-> c]
             /\ SRT!Set(c, [srtConn[c] EXCEPT !.run = "exchange", !.answered = TRUE])
    <3> DEFINE r == [srtConn[c] EXCEPT !.run = "exchange", !.answered = TRUE]
    <3>1. GoodSRTConn(r) /\ r.run = "exchange" /\ r.cancelled = srtConn[c].cancelled
      BY <1>g, <2>u DEF SRT!ConnState, GoodSRTConn
    <3>2. srtConn' = [srtConn EXCEPT ![c] = r] /\ GoodListener(srtListener')
      BY <2>2, <1>a DEF SRT!Set
    <3> HIDE DEF r
    <3> QED
      BY <3>1, <3>2, <2>u, <1>8
  <2> QED
    BY <2>1, <2>2, <1>14 DEF SRT!Exchange
<1>15. ASSUME NEW c \in Conns, SRT!SetConn(c) PROVE SRTInv'
  <2>u. UNCHANGED <<srtServer, srtConns>> /\ GoodListener(srtListener')
    BY <1>15, <1>a DEF SRT!SetConn
  <2>1. CASE UNCHANGED srtConn
    BY <2>1, <2>u, <1>1
  <2>2. ASSUME NEW reader \in {"setup", "none"}, srtConn[c].run = "exchange",
               srtConn' = [srtConn EXCEPT ![c] =
                   [srtConn[c] EXCEPT !.run = "active", !.reader = reader]]
        PROVE  SRTInv'
    <3> DEFINE r == [srtConn[c] EXCEPT !.run = "active", !.reader = reader]
    <3>1. GoodSRTConn(r) /\ r.run = "active" /\ r.cancelled = srtConn[c].cancelled
      BY <1>g DEF SRT!ConnState, GoodSRTConn
    <3>2. srtConn' = [srtConn EXCEPT ![c] = r]
      BY <2>2
    <3> HIDE DEF r
    <3> QED
      BY <3>1, <3>2, <2>2, <2>u, <1>8
  <2> QED
    BY <2>1, <2>2, <1>15 DEF SRT!SetConn, SRT!Set
<1>23. ASSUME NEW c \in Conns, SRT!NoSocket(c) PROVE SRTInv'
  <2> DEFINE r == [srtConn[c] EXCEPT !.noSocket = TRUE]
  <2>1. /\ GoodSRTConn(r) /\ r.run = srtConn[c].run /\ r.cancelled = srtConn[c].cancelled
    BY <1>g DEF SRT!ConnState, GoodSRTConn
  <2>2. /\ srtConn' = [srtConn EXCEPT ![c] = r] /\ UNCHANGED <<srtServer, srtConns>>
        /\ GoodListener(srtListener')
    BY <1>23, <1>a DEF SRT!NoSocket, SRT!Set
  <2>3. ~srtServer.closed /\ c \in srtConns => r.run # "unused"
    BY <2>1 DEF SRTInv
  <2>4. r.run \notin {"unused", "returned", "closing"} /\ ~r.cancelled
            /\ ~srtServer.closed => c \in srtConns
    BY <2>1 DEF SRTInv, SRT!LiveConnsAreListed, SRT!Done
  <2> HIDE DEF r
  <2> QED
    BY <2>1, <2>2, <2>3, <2>4, SRTConnChange
<1>16. ASSUME NEW c \in Conns, SRT!Reject(c) PROVE SRTInv'
  <2> DEFINE r == [srtConn[c] EXCEPT !.run = "closing", !.cancelled = TRUE]
  <2>1. GoodSRTConn(r) /\ r.run = "closing" /\ r.cancelled
    BY <1>g, <1>16 DEF SRT!ConnState, GoodSRTConn, SRT!Reject
  <2>2. srtConn' = [srtConn EXCEPT ![c] = r] /\ UNCHANGED <<srtServer, srtConns>>
    BY <1>16 DEF SRT!Reject, SRT!Set
  <2>3. GoodListener(srtListener')
    BY <1>16, <1>a, <1>t DEF SRT!Reject
  <2> HIDE DEF r
  <2> QED
    BY <2>1, <2>2, <2>3, <1>8
<1>17. ASSUME NEW c \in Conns, SRT!PathCloses(c) PROVE SRTInv'
  <2> DEFINE r == [srtConn[c] EXCEPT !.attached = FALSE, !.cancelled = TRUE]
  <2>1. /\ GoodSRTConn(r) /\ r.run = srtConn[c].run /\ r.cancelled
        /\ r.run \notin {"unused", "returned", "closing"}
    BY <1>g, <1>17 DEF SRT!ConnState, GoodSRTConn, SRT!PathCloses
  <2>2. srtConn' = [srtConn EXCEPT ![c] = r] /\ UNCHANGED <<srtServer, srtConns, srtListener>>
    BY <1>17 DEF SRT!PathCloses, SRT!Set
  <2> HIDE DEF r
  <2> QED
    BY <2>1, <2>2, <1>t, <1>8
<1>18. ASSUME NEW c \in Conns, SRT!StartReading(c) PROVE SRTInv'
  <2>u. /\ UNCHANGED <<srtServer, srtConns, srtListener>> /\ srtConn[c].run = "active"
        /\ GoodListener(srtListener')
    BY <1>18, <1>t DEF SRT!StartReading
  <2>1. CASE SRT!Return(c)
    BY <2>1, <2>u, <1>9
  <2>2. CASE SRT!Set(c, [srtConn[c] EXCEPT !.reading = TRUE])
    <3> DEFINE r == [srtConn[c] EXCEPT !.reading = TRUE]
    <3>1. GoodSRTConn(r) /\ r.run = "active" /\ r.cancelled = srtConn[c].cancelled
      BY <1>g, <2>u DEF SRT!ConnState, GoodSRTConn
    <3>2. srtConn' = [srtConn EXCEPT ![c] = r]
      BY <2>2 DEF SRT!Set
    <3> HIDE DEF r
    <3> QED
      BY <3>1, <3>2, <2>u, <1>8
  <2> QED
    BY <2>1, <2>2, <1>18 DEF SRT!StartReading
<1>19. ASSUME NEW c \in Conns, NEW reader \in {"started", "returned"},
              srtConn[c].reader \in {"setup", "started"},
              SRT!Set(c, [srtConn[c] EXCEPT !.reader = reader]),
              UNCHANGED <<srtServer, srtConns, srtListener>>
       PROVE  SRTInv'
  <2> DEFINE r == [srtConn[c] EXCEPT !.reader = reader]
  <2>1. /\ GoodSRTConn(r) /\ r.run = srtConn[c].run /\ r.cancelled = srtConn[c].cancelled
        /\ r.run \notin {"unused", "returned", "closing"}
    BY <1>g, <1>19 DEF SRT!ConnState, GoodSRTConn
  <2>2. srtConn' = [srtConn EXCEPT ![c] = r]
    BY <1>19 DEF SRT!Set
  <2> HIDE DEF r
  <2> QED
    BY <2>1, <2>2, <1>19, <1>t, <1>8
<1>20. ASSUME NEW c \in Conns, SRT!StartPublishing(c) \/ SRT!PublishingFails(c)
       PROVE  SRTInv'
  BY <1>20, <1>19 DEF SRT!StartPublishing, SRT!PublishingFails
<1>21. ASSUME NEW c \in Conns, SRT!PublishingStops(c) PROVE SRTInv'
  <2> DEFINE r == [srtConn[c] EXCEPT !.run = "waitReader"]
  <2>1. GoodSRTConn(r) /\ r.run = "waitReader" /\ r.cancelled = srtConn[c].cancelled
    BY <1>g DEF SRT!ConnState, GoodSRTConn
  <2>2. /\ srtConn' = [srtConn EXCEPT ![c] = r] /\ srtConn[c].run = "active"
        /\ UNCHANGED <<srtServer, srtConns, srtListener>>
    BY <1>21 DEF SRT!PublishingStops, SRT!Set
  <2> HIDE DEF r
  <2> QED
    BY <2>1, <2>2, <1>t, <1>8
<1>22. CASE UNCHANGED srtVars
  BY <1>22, <1>1, <1>t DEF srtVars
<1> QED
  BY <1>2, <1>3, <1>4, <1>5, <1>6, <1>7, <1>10, <1>11, <1>12, <1>13, <1>14, <1>15, <1>16,
     <1>17, <1>18, <1>20, <1>21, <1>22, <1>23
  DEF SRT!Next, SRT!ConnStep

LEMMA SRTInvImplies ==
    SRTInv => SRT!TypeOK /\ SRT!EndedIsClean /\ SRT!LiveConnsAreListed
BY DEF SRTInv, SRT!EndedIsClean, GoodSRTConn, SRT!None

-----------------------------------------------------------------------------
(* RTSP.                                                                    *)

\* A request is handled in a state in which gortsplib allows it, because no
\* other handler runs meanwhile; a connection that used up its failures is
\* closed, and asks for nothing more.  Unless the API kicks the session, it
\* has a path exactly when it was set up, and its hooks follow its state.
GoodRTSPSession(r) ==
    /\ r \in RTSP!SessionState
    /\ r.request # "none" => r.state \in RTSP!Legal(r.request)
    /\ r.request # "none" => r.authFailures <= MaxAuthFailures
    /\ r.authFailures <= MaxAuthFailures \/ r.closed \/ r.state = "none"
    /\ r.kick = "none" =>
        /\ ~r.crashed
        /\ r.unread <=> r.state = "play"
        /\ r.state \in {"none", "initial"} => r.attached = "none"
        /\ r.state \notin {"none", "initial"} => r.path

\* The map has a session as long as gortsplib does, unless the API removed it.
RTSPInv ==
    /\ rtspSessions \subseteq Sessions
    /\ rtspSession \in [Sessions -> RTSP!SessionState]
    /\ \A s \in Sessions : GoodRTSPSession(rtspSession[s])
    /\ \A s \in Sessions : rtspSession[s].kick = "none" =>
        (s \in rtspSessions <=> rtspSession[s].state # "none")
    /\ \A s \in Sessions : rtspSession[s].kick = "done" => s \notin rtspSessions

LEMMA RTSPInit == RTSP!Init => RTSPInv
<1> SUFFICES ASSUME RTSP!Init PROVE RTSPInv
  OBVIOUS
<1>1. GoodRTSPSession(RTSP!NoSession)
  BY ServersAssumption DEF RTSP!NoSession, RTSP!SessionState, RTSP!None, GoodRTSPSession
<1>2. /\ \A s \in Sessions : rtspSession[s] = RTSP!NoSession
      /\ rtspSession = [s \in Sessions |-> RTSP!NoSession] /\ rtspSessions = {}
  BY DEF RTSP!Init
<1>3. RTSP!NoSession.kick = "none" /\ RTSP!NoSession.state = "none"
  BY DEF RTSP!NoSession, RTSP!None
<1>4. rtspSession \in [Sessions -> RTSP!SessionState]
  BY <1>1, <1>2 DEF GoodRTSPSession
<1> QED
  BY <1>1, <1>2, <1>3, <1>4 DEF RTSPInv

LEMMA RTSPSessionChange ==
    ASSUME RTSPInv, NEW s \in Sessions, NEW r, GoodRTSPSession(r),
           rtspSession' = [rtspSession EXCEPT ![s] = r],
           rtspSessions' \in {rtspSessions, rtspSessions \ {s}, rtspSessions \cup {s}},
           r.kick = "none" => (s \in rtspSessions' <=> r.state # "none"),
           r.kick = "done" => s \notin rtspSessions'
    PROVE  RTSPInv'
<1>1. rtspSession'[s] = r /\ \A d \in Sessions \ {s} : rtspSession'[d] = rtspSession[d]
  BY DEF RTSPInv
<1>2. \A d \in Sessions \ {s} : d \in rtspSessions' <=> d \in rtspSessions
  OBVIOUS
<1>3. rtspSessions' \subseteq Sessions /\ rtspSession' \in [Sessions -> RTSP!SessionState]
  BY DEF RTSPInv, GoodRTSPSession
<1>4. \A d \in Sessions : GoodRTSPSession(rtspSession'[d])
  BY <1>1 DEF RTSPInv
<1>5. \A d \in Sessions : rtspSession'[d].kick = "none" =>
          (d \in rtspSessions' <=> rtspSession'[d].state # "none")
  BY <1>1, <1>2 DEF RTSPInv
<1>6. \A d \in Sessions : rtspSession'[d].kick = "done" => d \notin rtspSessions'
  BY <1>1, <1>2 DEF RTSPInv
<1> QED
  BY <1>3, <1>4, <1>5, <1>6 DEF RTSPInv

LEMMA RTSPNext == RTSPInv /\ [RTSP!Next]_rtspVars => RTSPInv'
<1> SUFFICES ASSUME RTSPInv, [RTSP!Next]_rtspVars PROVE RTSPInv'
  OBVIOUS
<1> USE DEF RTSP!None
<1>g. \A s \in Sessions : GoodRTSPSession(rtspSession[s])
  BY DEF RTSPInv
<1>t. rtspSessions \subseteq Sessions
  BY DEF RTSPInv
<1>l. ASSUME NEW s \in Sessions
      PROVE  /\ rtspSession[s].kick = "none" =>
                    (s \in rtspSessions <=> rtspSession[s].state # "none")
             /\ rtspSession[s].kick = "done" => s \notin rtspSessions
  BY DEF RTSPInv
\* A step that neither opens nor ends a session.
<1>1. ASSUME NEW s \in Sessions, NEW r, GoodRTSPSession(r), r.kick = rtspSession[s].kick,
             r.state = "none" <=> rtspSession[s].state = "none",
             rtspSession' = [rtspSession EXCEPT ![s] = r], UNCHANGED rtspSessions
      PROVE  RTSPInv'
  BY <1>1, <1>l, RTSPSessionChange
<1>2. ASSUME NEW s \in Sessions, RTSP!OnSessionOpen(s) PROVE RTSPInv'
  <2> DEFINE r == [RTSP!NoSession EXCEPT !.state = "initial"]
  <2>0. /\ RTSP!NoSession \in RTSP!SessionState /\ RTSP!NoSession.request = "none"
        /\ RTSP!NoSession.authFailures = 0 /\ RTSP!NoSession.kick = "none"
        /\ ~RTSP!NoSession.crashed /\ ~RTSP!NoSession.unread
        /\ RTSP!NoSession.attached = "none"
    BY ServersAssumption DEF RTSP!NoSession, RTSP!SessionState
  <2>3. /\ r \in RTSP!SessionState /\ r.state = "initial" /\ r.request = "none"
        /\ r.authFailures = 0 /\ r.kick = "none" /\ ~r.crashed /\ ~r.unread
        /\ r.attached = "none"
    BY <2>0 DEF RTSP!SessionState
  <2>1. GoodRTSPSession(r)
    <3> HIDE DEF r
    <3> QED
      BY <2>3, ServersAssumption DEF GoodRTSPSession
  <2>2. /\ rtspSession' = [rtspSession EXCEPT ![s] = r]
        /\ rtspSessions' = rtspSessions \cup {s}
    BY <1>2 DEF RTSP!OnSessionOpen, RTSP!Set
  <2> HIDE DEF r
  <2> QED
    BY <2>1, <2>2, <2>3, RTSPSessionChange
<1>3. ASSUME NEW s \in Sessions, RTSP!Request(s) PROVE RTSPInv'
  <2>1. PICK m \in RTSP!Methods :
            /\ rtspSession[s].state \in RTSP!Legal(m)
            /\ RTSP!Set(s, [rtspSession[s] EXCEPT !.request = m])
    BY <1>3 DEF RTSP!Request
  <2>2. rtspSession[s].state # "none"
    BY <2>1 DEF RTSP!Legal, RTSP!Methods
  <2>3. ~rtspSession[s].closed /\ UNCHANGED rtspSessions
    BY <1>3 DEF RTSP!Request
  <2> DEFINE r == [rtspSession[s] EXCEPT !.request = m]
  <2>4. r \in RTSP!SessionState /\ r.request = m
    BY <1>g DEF RTSP!SessionState, GoodRTSPSession
  <2>5. /\ r.state = rtspSession[s].state /\ r.closed = rtspSession[s].closed
        /\ r.kick = rtspSession[s].kick /\ r.authFailures = rtspSession[s].authFailures
        /\ r.crashed = rtspSession[s].crashed /\ r.unread = rtspSession[s].unread
        /\ r.attached = rtspSession[s].attached /\ r.path = rtspSession[s].path
    BY <1>g DEF RTSP!SessionState, GoodRTSPSession
  <2>6. rtspSession' = [rtspSession EXCEPT ![s] = r]
    BY <2>1 DEF RTSP!Set
  <2> HIDE DEF r
  <2>7. GoodRTSPSession(r)
    BY <2>1, <2>2, <2>3, <2>4, <2>5, <1>g DEF GoodRTSPSession
  <2> QED
    BY <2>3, <2>5, <2>6, <2>7, <1>1
<1>4. ASSUME NEW s \in Sessions, RTSP!AuthError(s) PROVE RTSPInv'
  <2> DEFINE x == rtspSession[s]
             n == x.authFailures + 1
             r == [x EXCEPT !.authFailures = n, !.closed = x.closed \/ n > MaxAuthFailures,
                            !.request = "none"]
  <2>1. x.request # "none" /\ UNCHANGED rtspSessions
    BY <1>4 DEF RTSP!AuthError
  <2>2. rtspSession' = [rtspSession EXCEPT ![s] = r]
    BY <1>4, <1>g DEF RTSP!AuthError, RTSP!Handled, RTSP!Set, GoodRTSPSession, RTSP!SessionState
  <2>3. /\ x \in RTSP!SessionState /\ x.authFailures \in 0..MaxAuthFailures
        /\ GoodRTSPSession(x) /\ x.closed \in BOOLEAN
    BY <1>g, <2>1, ServersAssumption DEF GoodRTSPSession, RTSP!SessionState
  <2>4. n \in 0..(MaxAuthFailures + 1)
    BY <2>3, ServersAssumption
  <2>5. r \in RTSP!SessionState
    BY <2>3, <2>4 DEF RTSP!SessionState
  <2>6. /\ r.state = x.state /\ r.kick = x.kick /\ r.crashed = x.crashed
        /\ r.unread = x.unread /\ r.attached = x.attached /\ r.path = x.path
        /\ r.request = "none" /\ r.authFailures = n
        /\ r.closed <=> x.closed \/ n > MaxAuthFailures
    BY <2>3 DEF RTSP!SessionState
  <2>7. r.authFailures <= MaxAuthFailures \/ r.closed
    BY <2>6, <2>4, ServersAssumption
  <2> HIDE DEF r, n, x
  <2>8. GoodRTSPSession(r)
    BY <2>3, <2>5, <2>6, <2>7 DEF GoodRTSPSession
  <2> QED
    BY <2>1, <2>2, <2>6, <2>8, <1>1 DEF x
\* A handler that returns r, which it made out of the session.
<1>5. ASSUME NEW s \in Sessions, NEW x \in RTSP!SessionState, RTSP!Handled(s, x),
             UNCHANGED rtspSessions, rtspSession[s].request # "none",
             x.authFailures = rtspSession[s].authFailures, x.kick = rtspSession[s].kick,
             x.state = "none" <=> rtspSession[s].state = "none",
             x.kick = "none" =>
                /\ ~x.crashed
                /\ x.unread <=> x.state = "play"
                /\ x.state \in {"none", "initial"} => x.attached = "none"
                /\ x.state \notin {"none", "initial"} => x.path
      PROVE  RTSPInv'
  <2> DEFINE r == [x EXCEPT !.request = "none"]
  <2>1. rtspSession' = [rtspSession EXCEPT ![s] = r]
    BY <1>5 DEF RTSP!Handled, RTSP!Set
  <2>2. /\ r \in RTSP!SessionState
        /\ r.state = x.state /\ r.kick = x.kick /\ r.crashed = x.crashed
        /\ r.unread = x.unread /\ r.attached = x.attached /\ r.path = x.path
        /\ r.request = "none" /\ r.authFailures = x.authFailures
    BY DEF RTSP!SessionState
  <2>3. rtspSession[s].authFailures <= MaxAuthFailures
    BY <1>g, <1>5 DEF GoodRTSPSession
  <2> HIDE DEF r
  <2>4. GoodRTSPSession(r)
    BY <2>2, <2>3, <1>5 DEF GoodRTSPSession
  <2> QED
    BY <2>1, <2>2, <2>4, <1>5, <1>1
\* What the handlers know of the session.
<1>h. ASSUME NEW s \in Sessions, rtspSession[s].request # "none"
      PROVE  /\ rtspSession[s] \in RTSP!SessionState
             /\ rtspSession[s].state \in RTSP!Legal(rtspSession[s].request)
             /\ rtspSession[s].state # "none"
             /\ rtspSession[s].kick = "none" =>
                /\ ~rtspSession[s].crashed
                /\ rtspSession[s].unread <=> rtspSession[s].state = "play"
                /\ rtspSession[s].state = "initial" => rtspSession[s].attached = "none"
                /\ rtspSession[s].state # "initial" => rtspSession[s].path
  <2>1. /\ rtspSession[s] \in RTSP!SessionState
        /\ rtspSession[s].state \in RTSP!Legal(rtspSession[s].request)
        /\ rtspSession[s].request \in RTSP!Methods
    BY <1>h, <1>g DEF GoodRTSPSession, RTSP!SessionState
  <2>2. rtspSession[s].state # "none"
    BY <2>1 DEF RTSP!Legal, RTSP!Methods
  <2> QED
    BY <2>1, <2>2, <1>g DEF GoodRTSPSession
<1>6. ASSUME NEW s \in Sessions, RTSP!NoChange(s) PROVE RTSPInv'
  <2>1. rtspSession[s].request # "none" /\ UNCHANGED rtspSessions /\ RTSP!Handled(s, rtspSession[s])
    BY <1>6 DEF RTSP!NoChange
  <2> QED
    BY <2>1, <1>h, <1>5
<1>7. ASSUME NEW s \in Sessions, RTSP!OnAnnounce(s) PROVE RTSPInv'
  <2> DEFINE x == [rtspSession[s] EXCEPT !.state = "preRecord", !.path = TRUE,
                                         !.attached = "publisher"]
  <2>1. rtspSession[s].request = "announce" /\ UNCHANGED rtspSessions /\ RTSP!Handled(s, x)
    BY <1>7 DEF RTSP!OnAnnounce
  <2>2. rtspSession[s].state = "initial"
    BY <2>1, <1>h DEF RTSP!Legal
  <2>3. /\ x \in RTSP!SessionState /\ x.state = "preRecord" /\ x.path
        /\ x.unread = rtspSession[s].unread /\ x.crashed = rtspSession[s].crashed
        /\ x.authFailures = rtspSession[s].authFailures /\ x.kick = rtspSession[s].kick
    BY <2>1, <1>h DEF RTSP!SessionState
  <2> HIDE DEF x
  <2> QED
    BY <2>1, <2>2, <2>3, <1>h, <1>5
<1>8. ASSUME NEW s \in Sessions, RTSP!OnSetup(s) PROVE RTSPInv'
  <2> DEFINE x == [rtspSession[s] EXCEPT !.state = "prePlay", !.path = TRUE,
                                         !.attached = "reader"]
  <2>1. /\ rtspSession[s].request = "setup" /\ UNCHANGED rtspSessions /\ RTSP!Handled(s, x)
        /\ rtspSession[s].state \in {"initial", "prePlay"}
    BY <1>8 DEF RTSP!OnSetup
  <2>3. /\ x \in RTSP!SessionState /\ x.state = "prePlay" /\ x.path
        /\ x.unread = rtspSession[s].unread /\ x.crashed = rtspSession[s].crashed
        /\ x.authFailures = rtspSession[s].authFailures /\ x.kick = rtspSession[s].kick
    BY <2>1, <1>h DEF RTSP!SessionState
  <2> HIDE DEF x
  <2> QED
    BY <2>1, <2>3, <1>h, <1>5
\* The handlers that use the path: without it, they crash, which happens only
\* to a session that is being kicked.
<1>9. ASSUME NEW s \in Sessions, rtspSession[s].request # "none",
             rtspSession[s].state # "initial",
             NEW x \in RTSP!SessionState, RTSP!UsesPath(s, x),
             UNCHANGED rtspSessions, x.path = rtspSession[s].path,
             x.authFailures = rtspSession[s].authFailures, x.kick = rtspSession[s].kick,
             x.crashed = rtspSession[s].crashed,
             x.state \notin {"none", "initial"},
             x.kick = "none" => (x.unread <=> x.state = "play")
      PROVE  RTSPInv'
  <2>1. CASE rtspSession[s].path
    <3>1. RTSP!Handled(s, x)
      BY <1>9, <2>1 DEF RTSP!UsesPath
    <3> QED
      BY <3>1, <2>1, <1>9, <1>h, <1>5
  <2>2. CASE ~rtspSession[s].path
    <3> DEFINE y == [x EXCEPT !.crashed = TRUE]
    <3>1. RTSP!Handled(s, y)
      BY <1>9, <2>2 DEF RTSP!UsesPath
    <3>2. /\ y \in RTSP!SessionState /\ y.state = x.state /\ y.kick = x.kick
          /\ y.authFailures = x.authFailures
      BY DEF RTSP!SessionState
    <3>3. rtspSession[s].kick # "none"
      BY <2>2, <1>9, <1>h
    <3> HIDE DEF y
    <3> QED
      BY <3>1, <3>2, <3>3, <1>9, <1>h, <1>5
  <2> QED
    BY <2>1, <2>2
<1>10. ASSUME NEW s \in Sessions, RTSP!OnPlay(s) PROVE RTSPInv'
  <2> DEFINE x == [rtspSession[s] EXCEPT !.state = "play", !.unread = TRUE]
  <2>1. /\ rtspSession[s].request = "play" /\ UNCHANGED rtspSessions /\ RTSP!UsesPath(s, x)
        /\ rtspSession[s].state = "prePlay"
    BY <1>10 DEF RTSP!OnPlay
  <2>2. /\ x \in RTSP!SessionState /\ x.state = "play" /\ x.unread
        /\ x.path = rtspSession[s].path /\ x.crashed = rtspSession[s].crashed
        /\ x.authFailures = rtspSession[s].authFailures /\ x.kick = rtspSession[s].kick
    BY <2>1, <1>h DEF RTSP!SessionState
  <2> HIDE DEF x
  <2> QED
    BY <2>1, <2>2, <1>9
<1>11. ASSUME NEW s \in Sessions, RTSP!OnRecord(s) PROVE RTSPInv'
  <2>1. rtspSession[s].request = "record" /\ UNCHANGED rtspSessions
    BY <1>11 DEF RTSP!OnRecord
  <2>2. rtspSession[s].state = "preRecord"
    BY <2>1, <1>h DEF RTSP!Legal
  <2>3. CASE RTSP!UsesPath(s, rtspSession[s])
    BY <2>1, <2>2, <2>3, <1>h, <1>9
  <2>4. CASE RTSP!UsesPath(s, [rtspSession[s] EXCEPT !.state = "record"])
    <3> DEFINE x == [rtspSession[s] EXCEPT !.state = "record"]
    <3>1. /\ x \in RTSP!SessionState /\ x.state = "record" /\ x.unread = rtspSession[s].unread
          /\ x.path = rtspSession[s].path /\ x.crashed = rtspSession[s].crashed
          /\ x.authFailures = rtspSession[s].authFailures /\ x.kick = rtspSession[s].kick
      BY <2>1, <1>h DEF RTSP!SessionState
    <3>2. RTSP!UsesPath(s, x)
      BY <2>4
    <3> HIDE DEF x
    <3> QED
      BY <3>1, <3>2, <2>1, <2>2, <1>h, <1>9
  <2> QED
    BY <1>11, <2>3, <2>4 DEF RTSP!OnRecord
<1>12. ASSUME NEW s \in Sessions, RTSP!OnPause(s) PROVE RTSPInv'
  <2>1. rtspSession[s].request = "pause" /\ UNCHANGED rtspSessions
    BY <1>12 DEF RTSP!OnPause
  <2>2. CASE /\ rtspSession[s].state = "play"
             /\ RTSP!Handled(s, [rtspSession[s] EXCEPT !.state = "prePlay", !.unread = FALSE])
    <3> DEFINE x == [rtspSession[s] EXCEPT !.state = "prePlay", !.unread = FALSE]
    <3>1. /\ x \in RTSP!SessionState /\ x.state = "prePlay" /\ ~x.unread
          /\ x.path = rtspSession[s].path /\ x.crashed = rtspSession[s].crashed
          /\ x.authFailures = rtspSession[s].authFailures /\ x.kick = rtspSession[s].kick
      BY <2>1, <1>h DEF RTSP!SessionState
    <3>2. RTSP!Handled(s, x)
      BY <2>2
    <3> HIDE DEF x
    <3> QED
      BY <3>1, <3>2, <2>1, <2>2, <1>h, <1>5
  <2>3. CASE /\ rtspSession[s].state = "record"
             /\ RTSP!UsesPath(s, [rtspSession[s] EXCEPT !.state = "preRecord"])
    <3> DEFINE x == [rtspSession[s] EXCEPT !.state = "preRecord"]
    <3>1. /\ x \in RTSP!SessionState /\ x.state = "preRecord"
          /\ x.unread = rtspSession[s].unread
          /\ x.path = rtspSession[s].path /\ x.crashed = rtspSession[s].crashed
          /\ x.authFailures = rtspSession[s].authFailures /\ x.kick = rtspSession[s].kick
      BY <2>1, <1>h DEF RTSP!SessionState
    <3>2. RTSP!UsesPath(s, x)
      BY <2>3
    <3> HIDE DEF x
    <3> QED
      BY <3>1, <3>2, <2>1, <2>3, <1>h, <1>9
  <2> QED
    BY <1>12, <2>2, <2>3 DEF RTSP!OnPause
\* session.onClose().
<1>c. ASSUME NEW s \in Sessions, NEW y, y = RTSP!OnClose(rtspSession[s])
      PROVE  /\ y \in RTSP!SessionState /\ ~y.path
             /\ y.state = rtspSession[s].state /\ y.request = rtspSession[s].request
             /\ y.authFailures = rtspSession[s].authFailures
             /\ y.closed = rtspSession[s].closed /\ y.kick = rtspSession[s].kick
             /\ rtspSession[s].kick = "none" /\ rtspSession[s].state # "none" =>
                    ~y.crashed /\ ~y.unread /\ y.attached = "none"
  <2> DEFINE x == rtspSession[s]
  <2>1. x \in RTSP!SessionState /\ GoodRTSPSession(x)
    BY <1>g DEF GoodRTSPSession
  <2> DEFINE unread == IF x.state = "play" THEN FALSE ELSE x.unread
             attached == IF x.state = "initial" THEN x.attached ELSE "none"
             crashed == x.crashed \/ (x.state # "initial" /\ ~x.path)
  <2>2. y = [x EXCEPT !.unread = unread, !.attached = attached, !.path = FALSE,
                      !.crashed = crashed]
    BY <1>c, <2>1 DEF RTSP!OnClose, RTSP!SessionState
  <2>6. /\ unread \in BOOLEAN /\ attached \in {"none", "reader", "publisher"}
        /\ crashed \in BOOLEAN
    BY <2>1 DEF RTSP!SessionState
  <2> HIDE DEF unread, attached, crashed
  <2>3. /\ y \in RTSP!SessionState /\ ~y.path
        /\ y.state = x.state /\ y.request = x.request /\ y.authFailures = x.authFailures
        /\ y.closed = x.closed /\ y.kick = x.kick
    BY <2>1, <2>2, <2>6 DEF RTSP!SessionState
  <2>4. y.crashed = crashed /\ y.unread = unread /\ y.attached = attached
    BY <2>1, <2>2 DEF RTSP!SessionState
  <2> HIDE DEF x
  <2>5. x.kick = "none" /\ x.state # "none" => ~y.crashed /\ ~y.unread /\ y.attached = "none"
    BY <2>1, <2>4 DEF GoodRTSPSession, unread, attached, crashed
  <2> QED
    BY <2>3, <2>5 DEF x
<1>13. ASSUME NEW s \in Sessions, RTSP!OnSessionClose(s) PROVE RTSPInv'
  <2> DEFINE y == IF s \in rtspSessions THEN RTSP!OnClose(rtspSession[s]) ELSE rtspSession[s]
             r == [y EXCEPT !.state = "none", !.closed = FALSE]
  <2>1. /\ rtspSession[s].state # "none" /\ rtspSession[s].request = "none"
        /\ rtspSession' = [rtspSession EXCEPT ![s] = r]
        /\ rtspSessions' = rtspSessions \ {s}
    BY <1>13 DEF RTSP!OnSessionClose, RTSP!Set
  <2>2. /\ y \in RTSP!SessionState /\ y.request = "none" /\ y.kick = rtspSession[s].kick
        /\ y.kick = "none" => ~y.crashed /\ ~y.unread /\ y.attached = "none"
    <3>1. CASE s \in rtspSessions
      BY <3>1, <2>1, <1>c
    <3>2. CASE s \notin rtspSessions
      BY <3>2, <2>1, <1>l, <1>g DEF GoodRTSPSession
    <3> QED
      BY <3>1, <3>2
  <2> HIDE DEF y
  <2>3. /\ r \in RTSP!SessionState /\ r.state = "none" /\ r.request = "none"
        /\ r.kick = y.kick /\ r.crashed = y.crashed /\ r.unread = y.unread
        /\ r.attached = y.attached
    BY <2>2 DEF RTSP!SessionState
  <2> HIDE DEF r
  <2>4. GoodRTSPSession(r)
    BY <2>2, <2>3 DEF GoodRTSPSession
  <2> QED
    BY <2>1, <2>3, <2>4, RTSPSessionChange
<1>14. ASSUME NEW s \in Sessions, RTSP!PathCloses(s) PROVE RTSPInv'
  <2> DEFINE r == [rtspSession[s] EXCEPT !.attached = "none", !.closed = TRUE]
  <2>1. rtspSession' = [rtspSession EXCEPT ![s] = r] /\ UNCHANGED rtspSessions
    BY <1>14 DEF RTSP!PathCloses, RTSP!Set
  <2>2. /\ r \in RTSP!SessionState /\ r.state = rtspSession[s].state
        /\ r.request = rtspSession[s].request /\ r.closed /\ r.attached = "none"
        /\ r.kick = rtspSession[s].kick /\ r.authFailures = rtspSession[s].authFailures
        /\ r.crashed = rtspSession[s].crashed /\ r.unread = rtspSession[s].unread
        /\ r.path = rtspSession[s].path
    BY <1>g DEF GoodRTSPSession, RTSP!SessionState
  <2> HIDE DEF r
  <2>3. GoodRTSPSession(r)
    BY <2>2, <1>g DEF GoodRTSPSession
  <2> QED
    BY <2>1, <2>2, <2>3, <1>1
<1>15. ASSUME NEW s \in Sessions, RTSP!KickFinds(s) PROVE RTSPInv'
  <2> DEFINE r == [rtspSession[s] EXCEPT !.kick = "closing", !.closed = TRUE]
  <2>1. rtspSession' = [rtspSession EXCEPT ![s] = r] /\ UNCHANGED rtspSessions
    BY <1>15 DEF RTSP!KickFinds, RTSP!Set
  <2>2. /\ r \in RTSP!SessionState /\ r.state = rtspSession[s].state
        /\ r.request = rtspSession[s].request /\ r.closed /\ r.kick = "closing"
        /\ r.authFailures = rtspSession[s].authFailures
    BY <1>g DEF GoodRTSPSession, RTSP!SessionState
  <2> HIDE DEF r
  <2>3. GoodRTSPSession(r)
    BY <2>2, <1>g DEF GoodRTSPSession
  <2> QED
    BY <2>1, <2>2, <2>3, RTSPSessionChange
<1>16. ASSUME NEW s \in Sessions, RTSP!KickCloses(s) PROVE RTSPInv'
  <2> DEFINE y == RTSP!OnClose(rtspSession[s])
             r == [y EXCEPT !.kick = "done"]
  <2>1. rtspSession' = [rtspSession EXCEPT ![s] = r] /\ rtspSessions' = rtspSessions \ {s}
    BY <1>16 DEF RTSP!KickCloses, RTSP!Set
  <2>2. /\ y \in RTSP!SessionState
        /\ y.state = rtspSession[s].state /\ y.request = rtspSession[s].request
        /\ y.authFailures = rtspSession[s].authFailures /\ y.closed = rtspSession[s].closed
    BY <1>c
  <2> HIDE DEF y
  <2>3. /\ r \in RTSP!SessionState /\ r.kick = "done" /\ r.state = y.state
        /\ r.request = y.request /\ r.closed = y.closed /\ r.authFailures = y.authFailures
    BY <2>2 DEF RTSP!SessionState
  <2> HIDE DEF r
  <2>4. GoodRTSPSession(r)
    BY <2>2, <2>3, <1>g DEF GoodRTSPSession
  <2> QED
    BY <2>1, <2>3, <2>4, RTSPSessionChange
<1>17. CASE UNCHANGED rtspVars
  BY <1>17 DEF rtspVars, RTSPInv
<1> QED
  BY <1>2, <1>3, <1>4, <1>6, <1>7, <1>8, <1>10, <1>11, <1>12, <1>13, <1>14, <1>15, <1>16,
     <1>17
  DEF RTSP!Next

LEMMA RTSPInvImplies == RTSPInv => RTSP!TypeOK /\ RTSP!EndedIsClean
BY DEF RTSPInv, RTSP!TypeOK, RTSP!EndedIsClean, GoodRTSPSession, RTSP!None

-----------------------------------------------------------------------------
(* WebRTC.                                                                  *)

\* A session is on the path, runs a hook or has an open peer connection only
\* between the answer of the path and its deferred calls.
GoodWebRTCSession(r) ==
    /\ r \in WebRTC!SessionState
    /\ r.run \in {"unused", "waitNew", "adding", "pause", "returned", "closing"} =>
        ~r.attached /\ ~r.reading /\ r.pc \in {"none", "closed"}

\* The maps of a running server have the sessions that live, and only those
\* whose run() has not ended.
WebRTCInv ==
    /\ WebRTC!TypeOK
    /\ webrtcServer.loop # "select" => webrtcServer.closed
    /\ \A s \in Sessions : GoodWebRTCSession(webrtcSession[s])
    /\ ~webrtcServer.closed =>
        \A s \in webrtcSessions : webrtcSession[s].run # "unused"
    /\ WebRTC!LiveSessionsAreListed

LEMMA WebRTCInit == WebRTC!Init => WebRTCInv
<1> SUFFICES ASSUME WebRTC!Init PROVE WebRTCInv
  OBVIOUS
<1>1. WebRTC!Unused \in WebRTC!SessionState /\ GoodWebRTCSession(WebRTC!Unused)
  BY DEF WebRTC!Unused, WebRTC!SessionState, WebRTC!None, GoodWebRTCSession
<1>2. \A s \in Sessions : webrtcSession[s] = WebRTC!Unused
  BY DEF WebRTC!Init
<1>3. WebRTC!TypeOK
  BY <1>1 DEF WebRTC!Init, WebRTC!TypeOK, WebRTC!None
<1>4. WebRTC!Unused.run = "unused"
  BY DEF WebRTC!Unused
<1> QED
  BY <1>1, <1>2, <1>3, <1>4 DEF WebRTC!Init, WebRTCInv, WebRTC!LiveSessionsAreListed

\* What is left of the type invariant besides the sessions: the HTTP requests.
WebRTCRequests(posts, patches) ==
    /\ posts \in [Sessions -> {"none", "new", "answer"}]
    /\ patches \in [Sessions -> {"none", "calling"}]

LEMMA WebRTCSessionChange ==
    ASSUME WebRTCInv, NEW s \in Sessions, NEW r, GoodWebRTCSession(r),
           webrtcSession' = [webrtcSession EXCEPT ![s] = r],
           webrtcServer' = webrtcServer, WebRTCRequests(webrtcPost', webrtcPatch'),
           webrtcSessions' \in {webrtcSessions, webrtcSessions \ {s},
                                webrtcSessions \cup {s}},
           ~webrtcServer.closed /\ s \in webrtcSessions' => r.run # "unused",
           r.run \notin {"unused", "returned", "closing"} /\ ~r.cancelled
               /\ ~webrtcServer.closed => s \in webrtcSessions'
    PROVE  WebRTCInv'
<1>1. /\ webrtcSession'[s] = r
      /\ \A d \in Sessions \ {s} : webrtcSession'[d] = webrtcSession[d]
  BY DEF WebRTCInv, WebRTC!TypeOK
<1>2. \A d \in Sessions \ {s} : d \in webrtcSessions' <=> d \in webrtcSessions
  OBVIOUS
<1>3. WebRTC!TypeOK'
  BY DEF WebRTCInv, WebRTC!TypeOK, GoodWebRTCSession, WebRTCRequests, WebRTC!None
<1>4. \A d \in Sessions : GoodWebRTCSession(webrtcSession'[d])
  BY <1>1 DEF WebRTCInv
<1>5. ~webrtcServer.closed => \A d \in webrtcSessions' : webrtcSession'[d].run # "unused"
  BY <1>1, <1>2, <1>3 DEF WebRTCInv, WebRTC!TypeOK
<1>6. WebRTC!LiveSessionsAreListed'
  BY <1>1, <1>2 DEF WebRTCInv, WebRTC!LiveSessionsAreListed, WebRTC!Done
<1> QED
  BY <1>3, <1>4, <1>5, <1>6 DEF WebRTCInv

LEMMA WebRTCNext == WebRTCInv /\ [WebRTC!Next]_webrtcVars => WebRTCInv'
<1> SUFFICES ASSUME WebRTCInv, [WebRTC!Next]_webrtcVars PROVE WebRTCInv'
  OBVIOUS
<1> USE DEF WebRTC!None
<1> DEFINE Servers == [closed: BOOLEAN, loop: {"select", "waitSessions", "ended"}]
           RequestsOK == WebRTCRequests(webrtcPost', webrtcPatch')
<1>t. /\ webrtcServer \in Servers
      /\ webrtcSessions \subseteq Sessions /\ WebRTCRequests(webrtcPost, webrtcPatch)
      /\ webrtcServer.loop # "select" => webrtcServer.closed
  BY DEF WebRTCInv, WebRTC!TypeOK, WebRTCRequests
<1>g. \A s \in Sessions : GoodWebRTCSession(webrtcSession[s])
  BY DEF WebRTCInv
<1>l. ASSUME NEW s \in Sessions, webrtcSession[s].run \notin {"unused", "returned", "closing"},
             ~webrtcSession[s].cancelled, ~webrtcServer.closed
      PROVE  s \in webrtcSessions
  BY <1>l DEF WebRTCInv, WebRTC!LiveSessionsAreListed, WebRTC!Done
<1>p. ASSUME NEW s \in Sessions
      PROVE  /\ \A a \in {"none", "new", "answer"} :
                    WebRTCRequests([webrtcPost EXCEPT ![s] = a], webrtcPatch)
             /\ \A a \in {"none", "calling"} :
                    WebRTCRequests(webrtcPost, [webrtcPatch EXCEPT ![s] = a])
  BY <1>t DEF WebRTCRequests
<1>1. ASSUME UNCHANGED <<webrtcSessions, webrtcSession>>, RequestsOK,
             \/ webrtcServer' = webrtcServer
             \/ webrtcServer' \in Servers /\ webrtcServer'.closed
      PROVE  WebRTCInv'
  BY <1>1 DEF WebRTCInv, WebRTC!TypeOK, WebRTC!LiveSessionsAreListed, WebRTC!Done,
              WebRTCRequests
<1>2. CASE WebRTC!Close
  <2>1. webrtcServer' \in Servers /\ webrtcServer'.closed
    BY <1>2, <1>t DEF WebRTC!Close
  <2> QED
    BY <2>1, <1>1, <1>2, <1>t DEF WebRTC!Close
<1>3. CASE WebRTC!LoopEnds
  <2>1. webrtcServer' \in Servers /\ webrtcServer'.closed
    BY <1>3, <1>t DEF WebRTC!LoopEnds
  <2> QED
    BY <2>1, <1>1, <1>3, <1>t DEF WebRTC!LoopEnds
<1>4. CASE WebRTC!ListenersClose
  <2>1. webrtcServer' \in Servers /\ webrtcServer'.closed
    BY <1>4, <1>t DEF WebRTC!ListenersClose
  <2> QED
    BY <2>1, <1>1, <1>4, <1>t DEF WebRTC!ListenersClose
<1>5. ASSUME NEW s \in Sessions, WebRTC!NewSession(s) PROVE WebRTCInv'
  <2> DEFINE r == [WebRTC!Unused EXCEPT !.run = "waitNew"]
  <2>u. /\ WebRTC!Unused \in WebRTC!SessionState /\ ~WebRTC!Unused.attached
        /\ ~WebRTC!Unused.reading /\ WebRTC!Unused.pc = "none"
    BY DEF WebRTC!Unused, WebRTC!SessionState
  <2>r. /\ r \in WebRTC!SessionState /\ ~r.attached /\ ~r.reading /\ r.pc = "none"
        /\ r.run = "waitNew"
    BY <2>u DEF WebRTC!SessionState
  <2>1. GoodWebRTCSession(r) /\ r.run = "waitNew"
    <3> HIDE DEF r
    <3> QED
      BY <2>r DEF GoodWebRTCSession
  <2>2. /\ webrtcSession' = [webrtcSession EXCEPT ![s] = r] /\ webrtcServer' = webrtcServer
        /\ webrtcSessions' = webrtcSessions \cup {s}
    BY <1>5 DEF WebRTC!NewSession, WebRTC!Set
  <2>3. RequestsOK
    BY <1>5, <1>p DEF WebRTC!NewSession
  <2> HIDE DEF r
  <2> QED
    BY <2>1, <2>2, <2>3, WebRTCSessionChange
<1>6. ASSUME NEW s \in Sessions, WebRTC!CloseSession(s) PROVE WebRTCInv'
  <2> DEFINE r == [webrtcSession[s] EXCEPT !.run = "unused"]
  <2>1. GoodWebRTCSession(r) /\ r.run = "unused"
    BY <1>g, <1>6 DEF WebRTC!SessionState, GoodWebRTCSession, WebRTC!CloseSession
  <2>2. /\ webrtcSession' = [webrtcSession EXCEPT ![s] = r]
        /\ UNCHANGED <<webrtcServer, webrtcPost, webrtcPatch>>
        /\ \/ webrtcSessions' = webrtcSessions \ {s}
           \/ webrtcServer.closed /\ webrtcSessions' = webrtcSessions
    BY <1>6 DEF WebRTC!CloseSession, WebRTC!Set
  <2> HIDE DEF r
  <2> QED
    BY <2>1, <2>2, <1>t, WebRTCSessionChange
<1>7. ASSUME NEW s \in Sessions, WebRTC!DeleteSession(s) \/ WebRTC!Kick(s) PROVE WebRTCInv'
  <2> DEFINE r == [webrtcSession[s] EXCEPT !.cancelled = TRUE]
  <2>1. GoodWebRTCSession(r) /\ r.cancelled
    BY <1>g DEF WebRTC!SessionState, GoodWebRTCSession
  <2>2. /\ webrtcSession' = [webrtcSession EXCEPT ![s] = r]
        /\ UNCHANGED <<webrtcServer, webrtcPost, webrtcPatch>>
        /\ webrtcSessions' = webrtcSessions \ {s}
    BY <1>7 DEF WebRTC!DeleteSession, WebRTC!Kick
  <2> HIDE DEF r
  <2> QED
    BY <2>1, <2>2, <1>t, WebRTCSessionChange
\* A step of a session that stays in the map as it was.
<1>8. ASSUME NEW s \in Sessions, NEW r, GoodWebRTCSession(r),
             r.run = "unused" => webrtcSession[s].run = "unused",
             webrtcSession' = [webrtcSession EXCEPT ![s] = r],
             UNCHANGED <<webrtcServer, webrtcSessions>>, RequestsOK,
             webrtcSession[s].run \in {"unused", "returned", "closing"} =>
                 r.run = "closing" \/ r.run = webrtcSession[s].run,
             webrtcSession[s].cancelled => r.cancelled
      PROVE  WebRTCInv'
  <2>1. r.cancelled \in BOOLEAN /\ webrtcSession[s].cancelled \in BOOLEAN
    BY <1>g, <1>8 DEF GoodWebRTCSession, WebRTC!SessionState
  <2>2. r.run \notin {"unused", "returned", "closing"} /\ ~r.cancelled
            /\ ~webrtcServer.closed => s \in webrtcSessions'
    BY <1>8, <1>l, <2>1
  <2>3. ~webrtcServer.closed /\ s \in webrtcSessions' => r.run # "unused"
    BY <1>8 DEF WebRTCInv
  <2> QED
    BY <1>8, <2>2, <2>3, WebRTCSessionChange
<1>9. ASSUME NEW s \in Sessions, WebRTC!Return(s), UNCHANGED <<webrtcServer, webrtcSessions>>,
             webrtcSession[s].run \notin {"unused", "returned", "closing"}, RequestsOK
      PROVE  WebRTCInv'
  <2> DEFINE pc == IF webrtcSession[s].pc = "none" THEN "none" ELSE "closed"
             r == [webrtcSession[s] EXCEPT !.run = "returned", !.attached = FALSE,
                      !.reading = FALSE, !.pc = pc, !.count = 0, !.tracks = 0]
  <2>1. pc \in {"none", "closed"} /\ 0 \in 0..2 /\ 0 \in 0..1
    OBVIOUS
  <2>2. webrtcSession' = [webrtcSession EXCEPT ![s] = r]
    BY <1>9, <1>g DEF WebRTC!Return, WebRTC!Set, GoodWebRTCSession, WebRTC!SessionState
  <2> HIDE DEF pc
  <2>r. /\ r \in WebRTC!SessionState /\ r.run = "returned" /\ ~r.attached /\ ~r.reading
        /\ r.pc = pc /\ r.cancelled = webrtcSession[s].cancelled
    <3>1. webrtcSession[s] \in WebRTC!SessionState
      BY <1>g DEF GoodWebRTCSession
    <3> QED
      BY <2>1, <3>1 DEF WebRTC!SessionState
  <2>3. GoodWebRTCSession(r) /\ r.run = "returned" /\ r.cancelled = webrtcSession[s].cancelled
    <3> HIDE DEF r
    <3> QED
      BY <2>r, <2>1 DEF GoodWebRTCSession
  <2> HIDE DEF r
  <2> QED
    BY <2>2, <2>3, <1>8, <1>9
<1>10. ASSUME NEW s \in Sessions, WebRTC!New(s) PROVE WebRTCInv'
  <2>u. UNCHANGED <<webrtcServer, webrtcSessions, webrtcPatch>> /\ RequestsOK
    BY <1>10, <1>p DEF WebRTC!New
  <2>1. CASE UNCHANGED webrtcSession
    BY <2>1, <2>u, <1>1
  <2>2. CASE /\ webrtcSession[s].run = "waitNew"
             /\ WebRTC!Set(s, [webrtcSession[s] EXCEPT !.run = "adding"])
    <3> DEFINE r == [webrtcSession[s] EXCEPT !.run = "adding"]
    <3>1. GoodWebRTCSession(r) /\ r.run = "adding" /\ r.cancelled = webrtcSession[s].cancelled
      BY <1>g, <2>2 DEF WebRTC!SessionState, GoodWebRTCSession
    <3>2. webrtcSession' = [webrtcSession EXCEPT ![s] = r]
      BY <2>2 DEF WebRTC!Set
    <3> HIDE DEF r
    <3> QED
      BY <3>1, <3>2, <2>u, <2>2, <1>8
  <2> QED
    BY <2>1, <2>2, <1>10 DEF WebRTC!New
<1>11. ASSUME NEW s \in Sessions, WebRTC!NewCancelled(s) PROVE WebRTCInv'
  <2> DEFINE r == [webrtcSession[s] EXCEPT !.run = "closing", !.cancelled = TRUE]
  <2>1. GoodWebRTCSession(r) /\ r.run = "closing" /\ r.cancelled
    BY <1>g, <1>11, ZenonT(40) DEF WebRTC!SessionState, GoodWebRTCSession, WebRTC!NewCancelled
  <2>2. /\ webrtcSession' = [webrtcSession EXCEPT ![s] = r]
        /\ UNCHANGED <<webrtcServer, webrtcSessions>>
    BY <1>11 DEF WebRTC!Set, WebRTC!NewCancelled
  <2>3. RequestsOK
    BY <1>11, <1>t DEF WebRTC!NewCancelled
  <2> HIDE DEF r
  <2> QED
    BY <2>1, <2>2, <2>3, <1>8
<1>12. ASSUME NEW s \in Sessions, WebRTC!PathAnswers(s) PROVE WebRTCInv'
  <2>u. /\ UNCHANGED <<webrtcServer, webrtcSessions>> /\ RequestsOK
        /\ webrtcSession[s].run = "adding"
    BY <1>12, <1>t DEF WebRTC!PathAnswers
  <2>1. CASE WebRTC!Return(s)
    BY <2>1, <2>u, <1>9
  <2>2. CASE WebRTC!Set(s, [webrtcSession[s] EXCEPT !.run = "pause"])
    <3> DEFINE r == [webrtcSession[s] EXCEPT !.run = "pause"]
    <3>1. GoodWebRTCSession(r) /\ r.run = "pause" /\ r.cancelled = webrtcSession[s].cancelled
      BY <1>g, <2>u DEF WebRTC!SessionState, GoodWebRTCSession
    <3>2. webrtcSession' = [webrtcSession EXCEPT ![s] = r]
      BY <2>2 DEF WebRTC!Set
    <3> HIDE DEF r
    <3> QED
      BY <3>1, <3>2, <2>u, <1>8
  <2>3. ASSUME NEW role \in {"read", "publish"},
               WebRTC!Set(s, [webrtcSession[s] EXCEPT !.run = "setup", !.role = role,
                                                      !.attached = TRUE])
        PROVE  WebRTCInv'
    <3> DEFINE r == [webrtcSession[s] EXCEPT !.run = "setup", !.role = role, !.attached = TRUE]
    <3>1. GoodWebRTCSession(r) /\ r.run = "setup" /\ r.cancelled = webrtcSession[s].cancelled
      BY <1>g, <2>u, ZenonT(40) DEF WebRTC!SessionState, GoodWebRTCSession
    <3>2. webrtcSession' = [webrtcSession EXCEPT ![s] = r]
      BY <2>3 DEF WebRTC!Set
    <3> HIDE DEF r
    <3> QED
      BY <3>1, <3>2, <2>u, <1>8
  <2> QED
    BY <2>1, <2>2, <2>3, <1>12 DEF WebRTC!PathAnswers
<1>13. ASSUME NEW s \in Sessions,
              \/ WebRTC!PauseEnds(s) \/ WebRTC!SetupFails(s) \/ WebRTC!AnswerFails(s)
              \/ WebRTC!ConnectFails(s) \/ WebRTC!GatherFails(s) \/ WebRTC!SessionFails(s)
              \/ WebRTC!PeerGone(s) \/ WebRTC!SessionStops(s)
       PROVE  WebRTCInv'
  <2>1. /\ WebRTC!Return(s) /\ UNCHANGED <<webrtcServer, webrtcSessions, webrtcPost, webrtcPatch>>
        /\ webrtcSession[s].run \notin {"unused", "returned", "closing"}
    BY <1>13 DEF WebRTC!PauseEnds, WebRTC!SetupFails, WebRTC!AnswerFails, WebRTC!ConnectFails, WebRTC!GatherFails, WebRTC!SessionFails, WebRTC!PeerGone, WebRTC!SessionStops
  <2> QED
    BY <2>1, <1>9, <1>t
<1>14. ASSUME NEW s \in Sessions, WebRTC!StartPeer(s) PROVE WebRTCInv'
  <2>u. /\ UNCHANGED <<webrtcServer, webrtcSessions>> /\ RequestsOK
        /\ webrtcSession[s].run = "setup"
    BY <1>14, <1>t DEF WebRTC!StartPeer
  <2>1. PICK count \in 0..2 :
            WebRTC!Set(s, [webrtcSession[s] EXCEPT !.run = "gathering", !.pc = "new",
                                                   !.count = count])
    <3>1. {0} \subseteq 0..2
      OBVIOUS
    <3> QED
      BY <1>14, <3>1 DEF WebRTC!StartPeer, WebRTC!TrackCounts
  <2> DEFINE r == [webrtcSession[s] EXCEPT !.run = "gathering", !.pc = "new",
                                           !.count = count]
  <2>2. GoodWebRTCSession(r) /\ r.run = "gathering" /\ r.cancelled = webrtcSession[s].cancelled
    BY <1>g, ZenonT(40) DEF WebRTC!SessionState, GoodWebRTCSession
  <2>3. webrtcSession' = [webrtcSession EXCEPT ![s] = r]
    BY <2>1 DEF WebRTC!Set
  <2> HIDE DEF r
  <2> QED
    BY <2>2, <2>3, <2>u, <1>8
<1>15. ASSUME NEW s \in Sessions, WebRTC!WriteAnswer(s) PROVE WebRTCInv'
  <2> DEFINE r == [webrtcSession[s] EXCEPT !.run = "connecting", !.answered = TRUE,
                                           !.candidates = "select"]
  <2>1. GoodWebRTCSession(r) /\ r.run = "connecting"
        /\ r.cancelled = webrtcSession[s].cancelled
    BY <1>g, <1>15, ZenonT(40) DEF WebRTC!SessionState, GoodWebRTCSession, WebRTC!WriteAnswer
  <2>2. /\ webrtcSession' = [webrtcSession EXCEPT ![s] = r]
        /\ UNCHANGED <<webrtcServer, webrtcSessions>>
    BY <1>15 DEF WebRTC!Set, WebRTC!WriteAnswer
  <2>3. RequestsOK
    BY <1>15, <1>p DEF WebRTC!WriteAnswer
  <2> HIDE DEF r
  <2> QED
    BY <2>1, <2>2, <2>3, <1>8, <1>15 DEF WebRTC!WriteAnswer
<1>16. ASSUME NEW s \in Sessions, WebRTC!PeerChanges(s) PROVE WebRTCInv'
  <2>1. PICK pc \in {"connected", "disconnected"} :
            WebRTC!Set(s, [webrtcSession[s] EXCEPT !.pc = pc])
    BY <1>16 DEF WebRTC!PeerChanges
  <2>u. /\ UNCHANGED <<webrtcServer, webrtcSessions>> /\ RequestsOK
        /\ webrtcSession[s].pc \in {"new", "connected"}
    BY <1>16, <1>t DEF WebRTC!PeerChanges
  <2> DEFINE r == [webrtcSession[s] EXCEPT !.pc = pc]
  <2>2. /\ GoodWebRTCSession(r) /\ r.run = webrtcSession[s].run
        /\ r.cancelled = webrtcSession[s].cancelled
    BY <1>g, <2>u DEF WebRTC!SessionState, GoodWebRTCSession
  <2>3. webrtcSession' = [webrtcSession EXCEPT ![s] = r]
    BY <2>1 DEF WebRTC!Set
  <2> HIDE DEF r
  <2> QED
    BY <2>2, <2>3, <2>u, <1>8
<1>17. ASSUME NEW s \in Sessions, WebRTC!WaitUntilConnected(s) PROVE WebRTCInv'
  <2>u. /\ UNCHANGED <<webrtcServer, webrtcSessions>> /\ RequestsOK
        /\ webrtcSession[s].run = "connecting"
    BY <1>17, <1>t DEF WebRTC!WaitUntilConnected
  <2>1. CASE WebRTC!Set(s, [webrtcSession[s] EXCEPT !.run = "active", !.reading = TRUE])
    <3> DEFINE r == [webrtcSession[s] EXCEPT !.run = "active", !.reading = TRUE]
    <3>1. GoodWebRTCSession(r) /\ r.run = "active" /\ r.cancelled = webrtcSession[s].cancelled
      BY <1>g, <2>u, ZenonT(40) DEF WebRTC!SessionState, GoodWebRTCSession
    <3>2. webrtcSession' = [webrtcSession EXCEPT ![s] = r]
      BY <2>1 DEF WebRTC!Set
    <3> HIDE DEF r
    <3> QED
      BY <3>1, <3>2, <2>u, <1>8
  <2>2. CASE WebRTC!Set(s, [webrtcSession[s] EXCEPT !.run = "tracks"])
    <3> DEFINE r == [webrtcSession[s] EXCEPT !.run = "tracks"]
    <3>1. GoodWebRTCSession(r) /\ r.run = "tracks" /\ r.cancelled = webrtcSession[s].cancelled
      BY <1>g, <2>u DEF WebRTC!SessionState, GoodWebRTCSession
    <3>2. webrtcSession' = [webrtcSession EXCEPT ![s] = r]
      BY <2>2 DEF WebRTC!Set
    <3> HIDE DEF r
    <3> QED
      BY <3>1, <3>2, <2>u, <1>8
  <2> QED
    BY <2>1, <2>2, <1>17 DEF WebRTC!WaitUntilConnected
<1>18. ASSUME NEW s \in Sessions, WebRTC!StartPublisher(s), webrtcSession[s].run = "tracks",
              UNCHANGED <<webrtcServer, webrtcSessions>>, RequestsOK
       PROVE  WebRTCInv'
  <2>u. /\ UNCHANGED <<webrtcServer, webrtcSessions>> /\ RequestsOK
        /\ webrtcSession[s].run = "tracks"
    BY <1>18
  <2>1. CASE WebRTC!Return(s)
    BY <2>1, <2>u, <1>9
  <2>2. CASE WebRTC!Set(s, [webrtcSession[s] EXCEPT !.run = "active", !.count = 0,
                                                    !.tracks = 0])
    <3> DEFINE r == [webrtcSession[s] EXCEPT !.run = "active", !.count = 0, !.tracks = 0]
    <3>0. webrtcSession[s] \in WebRTC!SessionState /\ 0 \in 0..2 /\ 0 \in 0..1
      BY <1>g DEF GoodWebRTCSession
    <3>r. r \in WebRTC!SessionState
      BY <3>0 DEF WebRTC!SessionState
    <3>1. GoodWebRTCSession(r) /\ r.run = "active" /\ r.cancelled = webrtcSession[s].cancelled
      BY <3>0, <3>r DEF WebRTC!SessionState, GoodWebRTCSession
    <3>2. webrtcSession' = [webrtcSession EXCEPT ![s] = r]
      BY <2>2 DEF WebRTC!Set
    <3> HIDE DEF r
    <3> QED
      BY <3>1, <3>2, <2>u, <1>8
  <2> QED
    BY <2>1, <2>2, <1>18 DEF WebRTC!StartPublisher
<1>19. ASSUME NEW s \in Sessions, WebRTC!IncomingTrack(s) PROVE WebRTCInv'
  <2>u. /\ UNCHANGED <<webrtcServer, webrtcSessions>> /\ RequestsOK
        /\ webrtcSession[s].run = "tracks" /\ webrtcSession[s].tracks \in 0..1
    BY <1>19, <1>t, <1>g DEF WebRTC!IncomingTrack, GoodWebRTCSession, WebRTC!SessionState
  <2>1. CASE WebRTC!StartPublisher(s)
    BY <2>1, <2>u, <1>18
  <2>2. CASE /\ webrtcSession[s].tracks + 1 \notin {webrtcSession[s].count, 2}
             /\ WebRTC!Set(s, [webrtcSession[s] EXCEPT !.tracks = @ + 1])
    <3>0. webrtcSession[s].tracks + 1 = 1
      BY <2>2, <2>u
    <3> DEFINE r == [webrtcSession[s] EXCEPT !.tracks = 1]
    <3>1. GoodWebRTCSession(r) /\ r.run = "tracks" /\ r.cancelled = webrtcSession[s].cancelled
      BY <1>g, <2>u DEF WebRTC!SessionState, GoodWebRTCSession
    <3>2. webrtcSession' = [webrtcSession EXCEPT ![s] = r]
      BY <2>2, <3>0, <1>g DEF WebRTC!Set, GoodWebRTCSession, WebRTC!SessionState
    <3> HIDE DEF r
    <3> QED
      BY <3>1, <3>2, <2>u, <1>8
  <2> QED
    BY <2>1, <2>2, <1>19 DEF WebRTC!IncomingTrack
<1>20. ASSUME NEW s \in Sessions, WebRTC!GatherTimeout(s) PROVE WebRTCInv'
  <2>u. /\ UNCHANGED <<webrtcServer, webrtcSessions>> /\ RequestsOK
        /\ webrtcSession[s].run = "tracks"
    BY <1>20, <1>t DEF WebRTC!GatherTimeout
  <2> QED
    BY <2>u, <1>9, <1>18, <1>20 DEF WebRTC!GatherTimeout
<1>21. ASSUME NEW s \in Sessions, WebRTC!Reject(s) PROVE WebRTCInv'
  <2> DEFINE r == [webrtcSession[s] EXCEPT !.run = "closing", !.cancelled = TRUE]
  <2>1. GoodWebRTCSession(r) /\ r.run = "closing" /\ r.cancelled
    BY <1>g, <1>21, ZenonT(40) DEF WebRTC!SessionState, GoodWebRTCSession, WebRTC!Reject
  <2>2. /\ webrtcSession' = [webrtcSession EXCEPT ![s] = r]
        /\ UNCHANGED <<webrtcServer, webrtcSessions>>
    BY <1>21 DEF WebRTC!Set, WebRTC!Reject
  <2>3. RequestsOK
    BY <1>21, <1>p, <1>t DEF WebRTC!Reject
  <2> HIDE DEF r
  <2> QED
    BY <2>1, <2>2, <2>3, <1>8
<1>22. ASSUME NEW s \in Sessions, WebRTC!PathCloses(s) PROVE WebRTCInv'
  <2> DEFINE r == [webrtcSession[s] EXCEPT !.attached = FALSE, !.cancelled = TRUE]
  <2>1. GoodWebRTCSession(r) /\ r.run = webrtcSession[s].run /\ r.cancelled
    BY <1>g, <1>22, ZenonT(40) DEF WebRTC!SessionState, GoodWebRTCSession, WebRTC!PathCloses
  <2>2. /\ webrtcSession' = [webrtcSession EXCEPT ![s] = r]
        /\ UNCHANGED <<webrtcServer, webrtcSessions>>
    BY <1>22 DEF WebRTC!Set, WebRTC!PathCloses
  <2>3. RequestsOK
    BY <1>22, <1>t DEF WebRTC!PathCloses
  <2> HIDE DEF r
  <2> QED
    BY <2>1, <2>2, <2>3, <1>8
<1>23. ASSUME NEW s \in Sessions, WebRTC!TakeCandidates(s) \/ WebRTC!CandidatesEnd(s)
       PROVE  WebRTCInv'
  <2>1. PICK c \in {"none", "select", "stuck"} :
            WebRTC!Set(s, [webrtcSession[s] EXCEPT !.candidates = c])
    BY <1>23 DEF WebRTC!TakeCandidates, WebRTC!CandidatesEnd
  <2>u. UNCHANGED <<webrtcServer, webrtcSessions>> /\ RequestsOK
    BY <1>23, <1>t, <1>p DEF WebRTC!TakeCandidates, WebRTC!CandidatesEnd
  <2> DEFINE r == [webrtcSession[s] EXCEPT !.candidates = c]
  <2>2. /\ GoodWebRTCSession(r) /\ r.run = webrtcSession[s].run
        /\ r.cancelled = webrtcSession[s].cancelled
    BY <1>g DEF WebRTC!SessionState, GoodWebRTCSession
  <2>3. webrtcSession' = [webrtcSession EXCEPT ![s] = r]
    BY <2>1 DEF WebRTC!Set
  <2> HIDE DEF r
  <2> QED
    BY <2>2, <2>3, <2>u, <1>8
<1>24. ASSUME NEW s \in Sessions, WebRTC!AddSessionCandidates(s) \/ WebRTC!PatchCancelled(s)
       PROVE  WebRTCInv'
  <2>1. UNCHANGED <<webrtcServer, webrtcSessions, webrtcSession>> /\ RequestsOK
    BY <1>24, <1>p DEF WebRTC!AddSessionCandidates, WebRTC!PatchCancelled
  <2> QED
    BY <2>1, <1>1
<1>25. CASE UNCHANGED webrtcVars
  BY <1>25, <1>1, <1>t DEF webrtcVars
<1> QED
  BY <1>2, <1>3, <1>4, <1>5, <1>6, <1>7, <1>10, <1>11, <1>12, <1>13, <1>14, <1>15, <1>16,
     <1>17, <1>19, <1>20, <1>21, <1>22, <1>23, <1>24, <1>25
  DEF WebRTC!Next, WebRTC!SessionStep

LEMMA WebRTCInvImplies ==
    WebRTCInv => WebRTC!TypeOK /\ WebRTC!EndedIsClean /\ WebRTC!LiveSessionsAreListed
BY DEF WebRTCInv, WebRTC!EndedIsClean, GoodWebRTCSession, WebRTC!None
=============================================================================
