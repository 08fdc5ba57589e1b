------------------------------ MODULE MCServers ------------------------------
(***************************************************************************)
(* The five servers for TLC.  They share nothing but the path manager, which *)
(* each of their modules describes by its answers: a behaviour follows one   *)
(* of them (kind) while the others stay in their initial states, so that the *)
(* states of the servers add up instead of multiplying.                      *)
(***************************************************************************)
EXTENDS Naturals, TLC

CONSTANTS
    Muxers, Requests, Conns, Sessions, MaxAuthFailures,
    HLSFormats, RTMPFormats, SRTFormats, WebRTCFormats

\* "none" stands for no muxer and no connection in the servers' modules.
ASSUME ServersAssumption ==
    MaxAuthFailures \in Nat /\ "none" \notin Muxers /\ "none" \notin Conns

VARIABLES
    kind,
    hlsRemux, hlsServer, hlsListed, hlsMuxer, hlsRequest, hlsPath,
    rtmpServer, rtmpConns, rtmpConn,
    srtServer, srtListener, srtConns, srtConn,
    rtspSessions, rtspSession,
    webrtcServer, webrtcSessions, webrtcSession, webrtcPost, webrtcPatch

HLS == INSTANCE HLSServer WITH
    StreamFormats <- HLSFormats, remux <- hlsRemux, server <- hlsServer,
    listed <- hlsListed, muxer <- hlsMuxer, request <- hlsRequest, path <- hlsPath

RTMP == INSTANCE RTMPServer WITH
    StreamFormats <- RTMPFormats, server <- rtmpServer, conns <- rtmpConns,
    conn <- rtmpConn

SRT == INSTANCE SRTServer WITH
    StreamFormats <- SRTFormats, server <- srtServer, listener <- srtListener,
    conns <- srtConns, conn <- srtConn

RTSP == INSTANCE RTSPServer WITH sessions <- rtspSessions, session <- rtspSession

WebRTC == INSTANCE WebRTCServer WITH
    StreamFormats <- WebRTCFormats, server <- webrtcServer,
    sessions <- webrtcSessions, session <- webrtcSession, post <- webrtcPost,
    patch <- webrtcPatch

hlsVars == <<hlsRemux, hlsServer, hlsListed, hlsMuxer, hlsRequest, hlsPath>>
rtmpVars == <<rtmpServer, rtmpConns, rtmpConn>>
srtVars == <<srtServer, srtListener, srtConns, srtConn>>
rtspVars == <<rtspSessions, rtspSession>>
webrtcVars == <<webrtcServer, webrtcSessions, webrtcSession, webrtcPost, webrtcPatch>>
vars == <<kind, hlsVars, rtmpVars, srtVars, rtspVars, webrtcVars>>

Init ==
    /\ kind \in {"hls", "rtmp", "srt", "rtsp", "webrtc"}
    /\ HLS!Init /\ (kind # "hls" => ~hlsRemux)
    /\ RTMP!Init /\ SRT!Init /\ RTSP!Init /\ WebRTC!Init

Next ==
    /\ UNCHANGED kind
    /\ \/ /\ kind = "hls" /\ HLS!Next
          /\ UNCHANGED <<rtmpVars, srtVars, rtspVars, webrtcVars>>
       \/ /\ kind = "rtmp" /\ RTMP!Next
          /\ UNCHANGED <<hlsVars, srtVars, rtspVars, webrtcVars>>
       \/ /\ kind = "srt" /\ SRT!Next
          /\ UNCHANGED <<hlsVars, rtmpVars, rtspVars, webrtcVars>>
       \/ /\ kind = "rtsp" /\ RTSP!Next
          /\ UNCHANGED <<hlsVars, rtmpVars, srtVars, webrtcVars>>
       \/ /\ kind = "webrtc" /\ WebRTC!Next
          /\ UNCHANGED <<hlsVars, rtmpVars, srtVars, rtspVars>>

Spec == Init /\ [][Next]_vars

\* Sessions differ in nothing but their identity.
Symmetry == Permutations(Sessions)

\* A goroutine of HLS that can run does run, and timers fire; a goroutine that
\* waits for a select is taken in the end, since select chooses evenly among the
\* cases that are ready (strong fairness).  Nothing is assumed of the stream,
\* the writer or the requests that arrive.
HLSFairness ==
    /\ SF_hlsVars(HLS!LoopEnds) /\ WF_hlsVars(HLS!PathClosesReaders)
    /\ SF_hlsVars(HLS!Announce)
    /\ \A r \in Requests : WF_hlsVars(HLS!Forward(r))
    /\ \A m \in Muxers : SF_hlsVars(HLS!MuxerStep(m)) /\ SF_hlsVars(HLS!MuxerStops(m))

\* The HLS server alone, with the fairness of its goroutines.
HLSSpec == Init /\ kind = "hls" /\ [][Next]_vars /\ HLSFairness

-----------------------------------------------------------------------------
(* Properties: those of the server modules, which say what they mean.       *)

\* The state of each server has its type.
TypeOK ==
    /\ kind = "hls" => HLS!TypeOK
    /\ kind = "rtmp" => RTMP!TypeOK
    /\ kind = "srt" => SRT!TypeOK
    /\ kind = "rtsp" => RTSP!TypeOK
    /\ kind = "webrtc" => WebRTC!TypeOK

\* A session that has ended, in whatever way and order, leaves no reader or
\* publisher on a path, no command of a hook that still runs and no entry in
\* the map of its server; a session that the API kicks from RTSP is the
\* exception (see the README).
EndedSessionsAreClean ==
    /\ HLS!EndedMuxerIsDetached /\ RTMP!EndedIsClean /\ SRT!EndedIsClean
    /\ RTSP!EndedIsClean /\ WebRTC!EndedIsClean

\* A session that nobody closed is in the map of its server, which can list,
\* kick and close it; HLS has one such muxer for a path.
LiveSessionsAreListed ==
    /\ HLS!OneLiveMuxer /\ RTMP!LiveConnsAreListed /\ SRT!LiveConnsAreListed
    /\ WebRTC!LiveSessionsAreListed

\* The goroutines of a server, which wait for each other on unbuffered
\* channels, never leave a client, a request or each other waiting; an HLS
\* request is answered with a muxer that was started, and does not stay in the
\* queue of one that has ended.  An SRT session that was granted and whose
\* socket Accept() has not given is the exception.
NobodyLeftWaiting ==
    /\ kind = "hls" => HLS!NobodyLeftWaiting /\ HLS!ServedByStartedMuxer
    /\ kind = "rtmp" => RTMP!NobodyLeftWaiting
    /\ kind = "srt" => SRT!NobodyLeftWaiting
    /\ kind = "webrtc" => WebRTC!NobodyLeftWaiting

\* No automatic HLS muxer outlives the readiness of its path.
NoAutomaticMuxerWhenNotReady == HLS!NoAutomaticMuxerWhenNotReady

\* Close() of the HLS server returns.
HLSCloseReturns == HLS!CloseReturns
=============================================================================
