SPECIFICATION Spec
CONSTANTS
  WindowSize = 4
  MaxSeq = 60
  Pieces <- MCPieces
  MaxCount = 2
  HasCertificate = TRUE
  DefaultTimeout = 32
  Packing <- MCPacking
  MaxExtra = 1
  MaxOwn = 2
  MaxFaults = 1
INVARIANTS
  RecordsOnce
  FlightsAgree
  
PROPERTY CallsEnd
\* the session ends
CHECK_DEADLOCK FALSE
