CONSTANTS
    Servers = {"s1", "s2"}
    Timeout = 3
    MaxPoll = 2
    Count = 2
    WordMod = 16
    Deadline = 2
    MaxRuns = 2
SPECIFICATION Spec
INVARIANTS FrameReadsInside LeaseIsAcked GenuineReply
PROPERTIES   PingEnds
