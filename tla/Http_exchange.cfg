CONSTANTS
    ContentLength <- MCContentLength
    TransferEncoding <- MCTransferEncoding
    Connection <- MCConnection
    ProxyConnection <- MCProxyConnection
    UpgradeField <- MCUpgradeField
    Chunked <- MCChunked
    KeepAlive <- MCKeepAlive
    Close <- MCClose
    UpgradeToken <- MCUpgradeToken
    Http <- MCHttpSchema
    Https <- MCHttpsSchema
    Exchanges <- MCExchanges
    MaxHeader = 60
    MaxLength = 1000
    MaxPort = 65535
    MaxPiece = 3
SPECIFICATION HttpSpec
INVARIANTS AssertionsHold AnswerIsFaithful UrlTakenApart
PROPERTY SendReturns
CHECK_DEADLOCK FALSE
