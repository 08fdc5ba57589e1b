SPECIFICATION HLSSpec
CONSTANTS
    Muxers = {m1, m2}
    Requests = {r1}
    Conns = {c1, c2}
    Sessions = {s1, s2}
    MaxAuthFailures = 1
    HLSFormats = {{"H264", "Opus"}, {"MJPEG"}}
    RTMPFormats = {{"H264", "MPEG4Audio"}, {"Opus"}}
    SRTFormats = {{"H264", "Opus"}, {"AV1"}}
    WebRTCFormats = {{"VP8", "Opus"}, {"H265"}}
CHECK_DEADLOCK FALSE
PROPERTY HLSCloseReturns
