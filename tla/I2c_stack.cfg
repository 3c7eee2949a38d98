SPECIFICATION Spec
CONSTANTS
    MaxRespFrags = 2
    MaxRetry = 1
    MaxPolls = 1
    MaxFaults = 1
    TransRepeat = 1
    MaxCalls = 2
    MaxFrags = 2
    Sizes <- MCSizes
CHECK_DEADLOCK FALSE
INVARIANTS RunAndAnsweredOnce 
PROPERTIES Answered ImplementsService
