SPECIFICATION Spec
CONSTANTS
    maxInt = 31
    maxLargestInt = 127
    stackLimit_g = 3
    Documents <- MCDocuments
INVARIANTS
    ReadsWhatWasWritten
    AcceptedOrRefused
    IntegersAreExact
PROPERTY ParseAdvances
