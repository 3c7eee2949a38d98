SPECIFICATION Spec
CONSTANTS
    Calls <- MCCalls
    Meanwhile <- MCMeanwhile
    Updates <- MCUpdates
    MessageLen <- MCMessageLen
    MaxFed = 760
    DeviceMax = 300
    ObjectSize = 700
    MaxTries = 2
INVARIANTS
    
    PiecesAddUp
PROPERTY CallsReturn
