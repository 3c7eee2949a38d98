CONSTANTS MaxFailed = 2 CounterSize = 4
SPECIFICATION FairSpec
INVARIANTS PublishInLiveClient ConnectedMeansSubscribed
PROPERTY Recovers
