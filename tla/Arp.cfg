CONSTANTS
    Hosts = {"h1", "h2", "h3"}
    MaxCache = 2
    Timeout = 3
    ProbeGap = 2
SPECIFICATION ArpSpec
INVARIANTS CacheTrue ProbesSpaced
PROPERTY ResolveEnds
