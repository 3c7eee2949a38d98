CONSTANTS
  Keys = {1, 2}
  Serials = {1, 2, 3}
  MaxCrashes = 2
  MaxFaults = 1
SPECIFICATION FairSpec
INVARIANTS TypeOK CertMatchesKey ConfigComplete
PROPERTY GetsOnline
