CONSTANTS
    Connections = {c1, c2}
    Plans <- MCPlans
    HeaderTimeout = 5
    Longest <- CodesLongest
    DrainTimeout = 5
    RestartSec = 5
    MaxMishaps = 1
SYMMETRY Symmetry
SPECIFICATION Spec
INVARIANTS
    ServesOnlyWhenWhole
    ShortRequestsSurviveAStop
