CONSTANTS
    Instances = {a, b}
    TTL = 9
    Beat = 3
    StartTimeout = 6
    Latency = 1
    MaxBoots = 2
    MaxStalls = 2
    MaxFaults = 1
SPECIFICATION FairSpec
INVARIANTS OneClient MissedBeatIsSurvived
PROPERTIES FencedStops
CHECK_DEADLOCK FALSE
