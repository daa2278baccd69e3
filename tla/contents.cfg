SPECIFICATION MCSpec
CONSTANTS
    w1 = w1
    w2 = w2
    r1 = r1
    r2 = r2
    Worker = {w1, w2}
    Role = {r1}
    Targets <- MCTargets
    MaxFail = 2
    MaxNew = 2
    MaxRound = 4
    MaxVersion = 2
INVARIANTS ContentsTypeOK SuccessMeansUploaded IgnitionsComplete 
 
CHECK_DEADLOCK FALSE
