SPECIFICATION FairSpec
CONSTANTS
  PktSpace = 16
  Ring = 4
  MaxWindow = 3
  LocalWindow = 2
  MaxData = 1
  MaxConns = 1
  UniqSpace = 4
  InitialPktNum = 14
  NumStride = 8
  PeerWindow = 2
  PeerFirst = 15
  PacketBytes = 2
  InBuf = 1
  OutBuf = 2
  Scopes <- MCScopes
  Requests = {"RFC", "bad"}
CHECK_DEADLOCK FALSE
INVARIANTS
  TypeOK
  RingsHold
  SlotsAreOwned
  PeerReadsInOrder
  ClientReadsInOrder
  NeverOverruns
PROPERTIES
  FinishedIsRead
  ClosesAfterDelivery
  WaitsEnd
  NoHalfOpen
