SPECIFICATION Spec
CONSTANTS
    Line <- MCLine
INVARIANTS TypeOK InputOnlyWhenSealed VerdictByScoredStreams FullGpuCondemnsNobody
PROPERTIES LeftOnlyForCause
