SPECIFICATION FairSpec
CONSTANTS
    Row = {r1}
    Click = {c1}
    MaxSchema = 2
    Intervals = {1, 2}
    DefaultInterval = 1
    MaxInterval = 3
    MaxBundles = 1
    MaxFaults = 1
INVARIANT OneRun
PROPERTIES Delivers BackOff Arrives
