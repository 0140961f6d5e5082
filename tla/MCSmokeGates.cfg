SPECIFICATION FairSpec
CONSTANTS
    Stream <- MCStream
    Pipes <- MCPipes
    MaxWritten <- MCMaxWritten
    PipeSize = 1
    Retained = 1
    Deadline = 0
    Grace = 1
    KillSettle = 1
    Steps = 3
    MaxAttempts = 2
    MinRepeats = 2
    Repeats = 2
    MaxBuilds = 2
    Kinds = {"dmg", "tar", "deb", "rootdeb"}
INVARIANTS
    PassedIsTrue
    EvidenceIsOwn
PROPERTIES ReapedMeansGone SupervisionEnds
CHECK_DEADLOCK FALSE
