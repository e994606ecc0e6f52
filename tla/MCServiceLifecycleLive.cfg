CONSTANTS
    Connections = {c1}
    Plans <- MCPlans
    HeaderTimeout = 5
    Longest <- CodesLongest
    DrainTimeout = 5
    RestartSec = 5
    MaxMishaps = 2
SPECIFICATION Spec
PROPERTIES
    EveryStopEnds
    EveryConnectionEnds
    ComesBack
