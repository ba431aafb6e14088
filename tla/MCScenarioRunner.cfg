SPECIFICATION FairSpec
CONSTANTS
    k1 = k1
    k2 = k2
    Steps <- ForkSteps
    AssessSteps = {"a"}
    Requires <- ForkRequires
    Gateways <- ForkGateways
    Then <- ForkThen
    Else <- ForkElse
    CompOf <- ForkComp
    Ackers = {k1, k2}
    OnTimeout = "p"
    Slow = {"a", "t", "e"}
    MaxRuns = 2
CHECK_DEADLOCK FALSE
INVARIANTS
    NoBothArms
    RequiresRespected
    CompletedMeansDone
    FirstRunReadsAssess
PROPERTIES
    SettledStepsStay
    RunEnds
    FailuresAreListed
    AckNeverRevives
