SPECIFICATION Spec
CONSTANTS
    Probes <- MCProbes
    Filters <- MCFilters
    Topics <- MCTopics
    MAX_MESSAGE_HANDLERS = 1
    MaxEvents = 3
INVARIANTS
    PacketFunctions
    SuccessIsTheServers
    AckedWasDelivered
PROPERTY ReturnsAndNotices
CHECK_DEADLOCK FALSE
