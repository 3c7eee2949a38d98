SPECIFICATION SpecSilent
CONSTANTS
    Probes <- MCProbes
    Filters <- MCFilters
    Topics <- MCTopics
    MAX_MESSAGE_HANDLERS = 1
    MaxEvents = 2
PROPERTIES
    YieldReturns
CHECK_DEADLOCK FALSE
