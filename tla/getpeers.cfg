SPECIFICATION GpFairSpec
CONSTANTS
  HashLen = 2
  MAXPEERS_SENT = 2
  IntMod = 8
  Texts <- MCTexts
  Known <- MCKnown
  TorrentId <- MCTorrentId
  ErrorCodes <- MCErrorCodes
  NumwantArgs <- MCNumwant
  RowLists <- MCRowLists
  MaxMoves = 2
  Lossy = TRUE
  Commands <- MCCommands
  Addresses = 2
  RequestLen = 3
  MAX_SEND_RETRY_COUNT = 2
  Chunk = 3
INVARIANTS
  ParamFits
  CompactFits
  ListComplete
  BodyWhole
  ScrapeOff
  GpTypeOK
  AsksForTyped
  UrlResolved
  PeersOfTyped
  TerminatorInBuffer
  SocketReleased
PROPERTY
  ClientEnds
