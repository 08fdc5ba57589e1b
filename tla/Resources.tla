------------------------------ MODULE Resources ------------------------------
(***************************************************************************)
(* The resources of the core (internal/core/core.go) and how a change of   *)
(* configuration replaces them: closeResources() closes what depends on a  *)
(* parameter that has changed or on a resource that it closes, and         *)
(* createResources() creates what is missing.  The value of a parameter is *)
(* abstracted to whether a resource was built from the current one.        *)
(***************************************************************************)
EXTENDS Naturals, Sequences, SequencesExt, FiniteSetsExt

CONSTANTS
    Toggled     \* switches of the configuration that a reload may flip (a bound)

VARIABLES
    conf,       \* the switches of Core.conf that are on
    alive,      \* the resources that Core points to
    refs,       \* <<holder, resource>>: holder points to the running resource
    stale,      \* <<holder, resource>>: holder points to one that was closed
    outdated,   \* <<resource, parameter>>: built from a value that has changed
    core,       \* Core.run(): its position and the reload that it is doing
    answer      \* what the API said last

vars == <<conf, alive, refs, stale, outdated, core, answer>>

-----------------------------------------------------------------------------
(* createResources(): the order of the resources, the switch of each, the    *)
(* parameters that each is built from and the resources it points to.        *)

Order == <<"logger", "metrics", "pprof", "recordCleaner", "playbackServer",
           "pathManager", "rtspServer", "rtspsServer", "rtmpServer", "rtmpsServer",
           "hlsServer", "webRTCServer", "srtServer", "api">>

Resources == ToSet(Order)
Servers == {"rtspServer", "rtspsServer", "rtmpServer", "rtmpsServer",
            "hlsServer", "webRTCServer", "srtServer"}

\* Encryption has three values: "no" is neither switch, "optional" is the first,
\* "strict" both.  A server that encryption excludes has no switch set.
Switches == {"Metrics", "PPROF", "Record", "Playback", "RTSP", "Encryption",
             "EncryptionStrict", "RTMP", "RTMPEncryption", "RTMPEncryptionStrict",
             "HLS", "WebRTC", "SRT", "API"}

IsConf(c) ==
    /\ "EncryptionStrict" \in c => "Encryption" \in c
    /\ "RTMPEncryptionStrict" \in c => "RTMPEncryption" \in c

Enabled(r, c) ==
    CASE r \in {"logger", "pathManager"} -> TRUE
      [] r = "metrics" -> "Metrics" \in c
      [] r = "pprof" -> "PPROF" \in c
      [] r = "recordCleaner" -> "Record" \in c
      [] r = "playbackServer" -> "Playback" \in c
      [] r = "rtspServer" -> "RTSP" \in c /\ "EncryptionStrict" \notin c
      [] r = "rtspsServer" -> "RTSP" \in c /\ "Encryption" \in c
      [] r = "rtmpServer" -> "RTMP" \in c /\ "RTMPEncryptionStrict" \notin c
      [] r = "rtmpsServer" -> "RTMP" \in c /\ "RTMPEncryption" \in c
      [] r = "hlsServer" -> "HLS" \in c
      [] r = "webRTCServer" -> "WebRTC" \in c
      [] r = "srtServer" -> "SRT" \in c
      [] r = "api" -> "API" \in c

RunOn == {"RunOnConnect", "RunOnConnectRestart", "RunOnDisconnect"}
Timeouts == {"ReadTimeout", "WriteTimeout", "WriteQueueSize"}

LoggerParams == {"LogLevel", "LogDestinations", "LogFile"}

PathManagerParams ==
    {"LogLevel", "ExternalAuthenticationURL", "RTSPAddress", "AuthMethods",
     "UDPMaxPayloadSize"} \cup Timeouts

RTSPParams ==
    {"RTSPAddress", "AuthMethods", "Protocols", "RTPAddress", "RTCPAddress",
     "MulticastIPRange", "MulticastRTPPort", "MulticastRTCPPort"} \cup Timeouts \cup RunOn

RTSPSParams ==
    {"RTSPSAddress", "AuthMethods", "ServerCert", "ServerKey", "RTSPAddress",
     "Protocols"} \cup Timeouts \cup RunOn

RTMPParams == {"RTMPAddress", "RTSPAddress"} \cup Timeouts \cup RunOn

RTMPSParams ==
    {"RTMPSAddress", "RTMPServerCert", "RTMPServerKey", "RTSPAddress"}
        \cup Timeouts \cup RunOn

HLSParams ==
    {"HLSAddress", "HLSEncryption", "HLSServerKey", "HLSServerCert",
     "ExternalAuthenticationURL", "HLSAlwaysRemux", "HLSVariant", "HLSSegmentCount",
     "HLSSegmentDuration", "HLSPartDuration", "HLSSegmentMaxSize", "HLSAllowOrigin",
     "HLSTrustedProxies", "HLSDirectory", "ReadTimeout", "WriteQueueSize"}

WebRTCParams ==
    {"WebRTCAddress", "WebRTCEncryption", "WebRTCServerKey", "WebRTCServerCert",
     "WebRTCAllowOrigin", "WebRTCTrustedProxies", "ReadTimeout", "WriteQueueSize",
     "WebRTCLocalUDPAddress", "WebRTCLocalTCPAddress", "WebRTCIPsFromInterfaces",
     "WebRTCIPsFromInterfacesList", "WebRTCAdditionalHosts", "WebRTCICEServers2"}

SRTParams ==
    {"SRTAddress", "RTSPAddress", "UDPMaxPayloadSize"} \cup Timeouts \cup RunOn

BuiltFrom(r) ==
    CASE r = "logger" -> LoggerParams
      [] r = "metrics" -> {"MetricsAddress", "ReadTimeout"}
      [] r = "pprof" -> {"PPROFAddress", "ReadTimeout"}
      [] r = "recordCleaner" -> {"CleanerEntries"}
      [] r = "playbackServer" -> {"PlaybackAddress", "ReadTimeout", "Paths"}
      [] r = "pathManager" -> PathManagerParams \cup {"Paths"}
      [] r = "rtspServer" -> RTSPParams
      [] r = "rtspsServer" -> RTSPSParams
      [] r = "rtmpServer" -> RTMPParams
      [] r = "rtmpsServer" -> RTMPSParams
      [] r = "hlsServer" -> HLSParams
      [] r = "webRTCServer" -> WebRTCParams
      [] r = "srtServer" -> SRTParams
      [] r = "api" -> {"APIAddress", "ReadTimeout"}

Params == UNION {BuiltFrom(r) : r \in Resources}

\* The pointers that a resource gets when it is created, or with a setter of
\* the metrics or setHLSServer() of the path manager once the other exists.
\* Every resource writes to the logger.
PointsTo(r) ==
    (IF r = "logger" THEN {} ELSE {"logger"}) \cup
    (CASE r = "metrics" -> Servers \cup {"pathManager"}
       [] r = "pathManager" -> {"hlsServer"}
       [] r \in Servers -> {"pathManager"}
       [] r = "api" -> Servers \cup {"pathManager"}
       [] OTHER -> {})

-----------------------------------------------------------------------------
(* closeResources(): the parameters and switches that are compared for each  *)
(* resource, and the resources whose close implies its own.                  *)

ComparedSwitches(r) ==
    CASE r = "metrics" -> {"Metrics"}
      [] r = "pprof" -> {"PPROF"}
      [] r = "recordCleaner" -> {"Record"}
      [] r = "playbackServer" -> {"Playback"}
      [] r \in {"rtspServer", "rtspsServer"} -> {"RTSP", "Encryption", "EncryptionStrict"}
      [] r \in {"rtmpServer", "rtmpsServer"} ->
            {"RTMP", "RTMPEncryption", "RTMPEncryptionStrict"}
      [] r = "hlsServer" -> {"HLS"}
      [] r = "webRTCServer" -> {"WebRTC"}
      [] r = "srtServer" -> {"SRT"}
      [] r = "api" -> {"API"}
      [] OTHER -> {}

ComparedByServer(r) ==
    CASE r = "rtspServer" ->
            {"RTSPAddress", "AuthMethods", "Protocols", "RTPAddress", "RTCPAddress",
             "MulticastIPRange", "MulticastRTPPort", "MulticastRTCPPort"}
                \cup Timeouts \cup RunOn
      [] r = "rtspsServer" ->
            {"RTSPSAddress", "AuthMethods", "ServerCert", "ServerKey", "RTSPAddress",
             "Protocols"} \cup Timeouts \cup RunOn
      [] r = "rtmpServer" -> {"RTMPAddress", "RTSPAddress"} \cup Timeouts \cup RunOn
      [] r = "rtmpsServer" ->
            {"RTMPSAddress", "RTMPServerCert", "RTMPServerKey", "RTSPAddress"}
                \cup Timeouts \cup RunOn
      [] r = "hlsServer" ->
            {"HLSAddress", "HLSEncryption", "HLSServerKey", "HLSServerCert",
             "ExternalAuthenticationURL", "HLSAlwaysRemux", "HLSVariant",
             "HLSSegmentCount", "HLSSegmentDuration", "HLSPartDuration",
             "HLSSegmentMaxSize", "HLSAllowOrigin", "HLSTrustedProxies",
             "HLSDirectory", "ReadTimeout", "WriteQueueSize"}
      [] r = "webRTCServer" ->
            {"WebRTCAddress", "WebRTCEncryption", "WebRTCServerKey", "WebRTCServerCert",
             "WebRTCAllowOrigin", "WebRTCTrustedProxies", "ReadTimeout",
             "WriteQueueSize", "WebRTCLocalUDPAddress", "WebRTCLocalTCPAddress",
             "WebRTCIPsFromInterfaces", "WebRTCIPsFromInterfacesList",
             "WebRTCAdditionalHosts", "WebRTCICEServers2"}
      [] r = "srtServer" ->
            {"SRTAddress", "RTSPAddress", "UDPMaxPayloadSize"} \cup Timeouts \cup RunOn

Compared(r) ==
    IF r \in Servers THEN ComparedByServer(r)
    ELSE CASE r = "logger" -> {"LogLevel", "LogDestinations", "LogFile"}
           [] r = "metrics" -> {"MetricsAddress", "ReadTimeout"}
           [] r = "pprof" -> {"PPROFAddress", "ReadTimeout"}
           [] r = "recordCleaner" -> {"CleanerEntries"}
           [] r = "playbackServer" -> {"PlaybackAddress", "ReadTimeout"}
           [] r = "pathManager" ->
                {"LogLevel", "ExternalAuthenticationURL", "RTSPAddress", "AuthMethods",
                 "UDPMaxPayloadSize"} \cup Timeouts
           [] r = "api" -> {"APIAddress", "ReadTimeout"}

ClosedWith(r) ==
    CASE r = "logger" -> {}
      [] r = "pathManager" -> {"metrics", "logger"}
      [] r = "srtServer" -> {"pathManager", "logger"}
      [] r \in Servers -> {"metrics", "pathManager", "logger"}
      [] r = "api" -> (Servers \ {"rtmpsServer"}) \cup {"pathManager", "logger"}
      [] OTHER -> {"logger"}

\* The flags depend on each other in the order in which they are computed, at
\* most four deep: logger, metrics, path manager, servers, API.
CloseFlags(changed) ==
    LET Widen(s) == s \cup {r \in Resources : ClosedWith(r) \cap s # {}}
    IN  Widen(Widen(Widen(Widen({r \in Resources :
                (Compared(r) \cup ComparedSwitches(r)) \cap changed # {}}))))

-----------------------------------------------------------------------------

\* New(): the configuration has been loaded and createResources(true) begins.
Init ==
    /\ conf \in {c \in SUBSET Switches : IsConf(c) /\ Switches \ Toggled \subseteq c}
    /\ alive = {} /\ refs = {} /\ stale = {} /\ outdated = {}
    /\ core = [pc |-> "creating", initial |-> TRUE, flags |-> {}, next |-> {}]
    /\ answer = [of |-> "nothing", ok |-> TRUE]

\* A new configuration, from the file or from the API: the flags are computed,
\* and ReloadPathConfs() is called where the paths are all that has changed.
Reload(next, values) ==
    LET paths == IF "CleanerEntries" \in values THEN {"Paths"} ELSE {}
        changed == values \cup paths \cup (next \ conf) \cup (conf \ next)
        flags == CloseFlags(changed)
        told == {"pathManager", "playbackServer"} \ flags
    IN  /\ core.pc = "run"
        /\ core' = [core EXCEPT !.pc = "closing", !.flags = flags, !.next = next]
        /\ outdated' = outdated \cup
            {o \in alive \X changed :
                o[2] \in BuiltFrom(o[1]) /\ ~(o[2] = "Paths" /\ o[1] \in told)}
        /\ answer' = [of |-> "nothing", ok |-> TRUE]
        /\ UNCHANGED <<conf, alive, refs, stale>>

\* An interrupt or Close(): closeResources(nil) closes everything.
Shutdown ==
    /\ core.pc = "run"
    /\ core' = [core EXCEPT !.pc = "stopping", !.flags = Resources]
    /\ UNCHANGED <<conf, alive, refs, stale, outdated, answer>>

IndicesOf(s) == {i \in DOMAIN Order : Order[i] \in s}
FirstOf(s) == Order[Min(IndicesOf(s))]
LastOf(s) == Order[Max(IndicesOf(s))]

\* Mutant of ToldOf: a path manager that is not told of the HLS server.
ToldOfMetricsOnly(r) == {"metrics"}

\* The metrics and the path manager are told before a server is closed.
ToldOf(r) == {"metrics"} \cup IF r = "hlsServer" THEN {"pathManager"} ELSE {}

\* The resources are closed in the order opposite to that of their creation.
CloseResource ==
    LET r == LastOf(core.flags \cap alive)
    IN  /\ core.pc \in {"closing", "stopping"} /\ core.flags \cap alive # {}
        /\ alive' = alive \ {r}
        /\ refs' = {p \in refs : r \notin {p[1], p[2]}}
        /\ stale' = {p \in stale : p[1] # r} \cup
            {p \in refs : p[2] = r /\ p[1] \notin ToldOf(r)}
        /\ outdated' = {p \in outdated : p[1] # r}
        /\ UNCHANGED <<conf, core, answer>>

\* reloadConf() takes the new configuration; run() returns.
Closed ==
    /\ core.pc \in {"closing", "stopping"} /\ core.flags \cap alive = {}
    /\ IF core.pc = "closing"
       THEN conf' = core.next /\ core' = [core EXCEPT !.pc = "creating", !.flags = {}, !.next = {}]
       ELSE core' = [core EXCEPT !.pc = "ended"] /\ UNCHANGED conf
    /\ UNCHANGED <<alive, refs, stale, outdated, answer>>

Missing == {r \in Resources \ alive : Enabled(r, conf)}

CreateResource ==
    LET r == FirstOf(Missing)
    IN  /\ core.pc = "creating" /\ Missing # {}
        /\ alive' = alive \cup {r}
        /\ refs' = refs \cup {<<r, q>> : q \in PointsTo(r) \cap alive}
                        \cup {<<q, r>> : q \in {q \in alive \cap {"metrics", "pathManager"} :
                                                r \in PointsTo(q)}}
        /\ UNCHANGED <<conf, stale, outdated, core, answer>>

Created ==
    /\ core.pc = "creating" /\ Missing = {}
    /\ core' = [core EXCEPT !.pc = "run", !.initial = FALSE]
    /\ UNCHANGED <<conf, alive, refs, stale, outdated, answer>>

\* An Initialize() fails, for instance because its port is taken: everything is
\* closed again.  Without a logger the error is printed by New(), but run()
\* calls the logger that could not be created.
CreateFails ==
    LET r == FirstOf(Missing)
    IN  /\ core.pc = "creating" /\ Missing # {}
        /\ r \notin {"recordCleaner", "pathManager"}
        /\ core' = [core EXCEPT !.flags = Resources,
            !.pc = IF r = "logger" /\ ~core.initial THEN "panic" ELSE "stopping"]
        /\ UNCHANGED <<conf, alive, refs, stale, outdated, answer>>

\* A list, get or kick request of the API, which has a route for a server that
\* it points to: a server that is closed answers "terminated".
APIRequest(r) ==
    /\ core.pc = "run" /\ "api" \in alive /\ r \in Servers \cup {"pathManager"}
    /\ <<"api", r>> \in refs \cup stale
    /\ answer' = [of |-> r, ok |-> <<"api", r>> \in refs]
    /\ UNCHANGED <<conf, alive, refs, stale, outdated, core>>

\* A reload changes at most one value and one switch: the flags of several
\* changes are the union of the flags of each.
Next ==
    \/ \E s \in {{}} \cup {{t} : t \in Toggled}, values \in {{}} \cup {{p} : p \in Params} :
        LET next == (conf \cup s) \ (conf \cap s)
        IN  IsConf(next) /\ Reload(next, values)
    \/ Shutdown \/ CloseResource \/ Closed \/ CreateResource \/ Created \/ CreateFails
    \/ \E r \in Resources : APIRequest(r)

Spec == Init /\ [][Next]_vars

-----------------------------------------------------------------------------
(* Properties.                                                              *)

TypeOK ==
    /\ conf \subseteq Switches /\ IsConf(conf) /\ alive \subseteq Resources
    /\ refs \subseteq alive \X alive /\ stale \subseteq alive \X Resources
    /\ outdated \subseteq alive \X Params
    /\ core \in [pc: {"creating", "run", "closing", "stopping", "ended", "panic"},
                 initial: BOOLEAN, flags: SUBSET Resources, next: SUBSET Switches]

\* After a reload every resource that the configuration asks for runs, no
\* other does, and none was built from a value that has changed since.
RunningMatchesConf ==
    core.pc = "run" =>
        alive = {r \in Resources : Enabled(r, conf)} /\ outdated = {}

\* At no moment, in the middle of a reload too, does a running resource point
\* to one that was closed (and wait for it, or be answered "terminated"); and
\* once the reload is over it points to all that it should.  The pointer of the
\* API to the RTMPS server is the exception, see APIAnswersForRunning.
PointersAreCurrent ==
    /\ stale \subseteq {<<"api", "rtmpsServer">>}
    /\ core.pc = "run" =>
        \A r \in alive : \A q \in PointsTo(r) \cap alive :
            <<r, q>> \in refs \/ <<r, q>> \in {<<"api", "rtmpsServer">>}

\* The API answers for a server that it offers routes for.
APIAnswersForRunning == answer.ok
=============================================================================
