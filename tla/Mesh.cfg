SPECIFICATION Spec
CONSTANTS
    v1 = v1
    v2 = v2
    Node = {A, B}
    Deployments = {{A}, {A, B}}
    Name = {g, h}
    Field = {f}
    Value = {v1, v2}
    Absent = Absent
    Local = {}
    None = None
    Applied = Applied
    Stale = 2
    MaxTime = 3
    MaxActs = 2
    MaxFrames = 1
CONSTANT Render <- PrintOrder
INVARIANT TypeOK
INVARIANT NoStaleRevival
INVARIANT MergeSymmetric
CHECK_DEADLOCK FALSE
PROPERTY AnswersMirrored
PROPERTY FollowerMirrors
