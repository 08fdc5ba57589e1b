SPECIFICATION Spec
CONSTANTS
    Toggled = {"Metrics", "RTMPEncryption", "RTMPEncryptionStrict", "HLS", "API"}
    Handlers = {h1, h2, h3}
    GlobalHandlers = {h3}
    MaxWrites = 2
    MaxAPIs = 2
    Formats = {"fmp4", "mpegts"}
    VideoCodecs = {"H264", "MPEG4Video"}
    AudioCodecs = {"MPEG4Audio", "AC3"}
    MaxSamples = 4
    MaxDTS = 3
    MaxParams = 1
    MaxFailures = 1
    QueueSize = 1
    PartDuration = 1
    SegmentDuration = 1
    MaxTime = 4
    MaxSegments = 3
    MaxParts = 2
    Tolerance = 1
    Word64 = 64
    ChunkStreams = {2, 4}
    ControlChunkStream = 2
    MessageStreams = {0, 1}
    Steps = {0, 5}
    BodyLens = {1, 3}
    InitialChunkSize = 2
    NewChunkSize = 3
    Word32 = 8
    Extended = 4
    MaxMessages = 3
    Ids = {i1, i2}
CHECK_DEADLOCK FALSE
INVARIANTS
    TypeOK
    ResourcesMatchConf
    NobodyLeftWaiting
    APIShowsWhatRuns
    WritesAreSeen
    PlaybackIsRight
    ReceivedAsSent
    RecordingIsRight
    RecorderStops
