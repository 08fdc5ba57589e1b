SPECIFICATION Spec
CONSTANTS
    Muxers = {m1, m2}
    Requests = {r1, r2}
    Conns = {c1, c2}
    Sessions = {s1, s2}
    MaxAuthFailures = 1
    HLSFormats = {{"H264", "Opus"}, {"MJPEG"}}
    RTMPFormats = {{"H264", "MPEG4Audio"}, {"Opus"}}
    SRTFormats = {{"H264", "Opus"}, {"AV1"}}
    WebRTCFormats = {{"VP8", "Opus"}, {"H265"}}
SYMMETRY Symmetry
CHECK_DEADLOCK FALSE
INVARIANTS
    TypeOK
    EndedSessionsAreClean
    LiveSessionsAreListed
    NobodyLeftWaiting
    NoAutomaticMuxerWhenNotReady
