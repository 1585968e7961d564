SPECIFICATION Spec
CONSTANTS
  SafeChains = {"gnosis", "mainnet", "arbitrum", "huge"}
  Oracles <- MCOracles
  ProposalLogs <- MCProposalLogs
  Times = {0, 1, 2}
  MaxHeight = 2
  Entries = {"a", "b", "c"}
  MaxListLength = 2
  Storages <- MCStorages
  W = 8
  ScanRequests <- MCScanRequests
  Flags <- MCFlags
  ScanChains <- MCScanChains
  Requests <- MCRequests
  Networks = {"mainnet", "gnosis"}
  AccountAt <- MCAccountAt
  Call <- MCCall
  Nesting <- MCNesting
  DeepestBatch = 3
  MaxUint256 = 2
  Txs <- MCTxs
  Safe = "safe"
  Chain = "gnosis"
  Covered = TRUE
  HasCode = {"safe", "multiSend", "token"}
  Fields = {"A", "B"}
  Shapes <- MCShapes
  FirstNonce = 0
  MaxTxs = 2
  HasService = TRUE
  Names = {"charter", "previous"}
  Default = "charter"
  Records <- MCRecords
  Uses <- MCUses
  Questions <- MCQuestions
  Histories <- MCHistories
  ABIs <- MCABIs
  Receipts <- MCReceipts
  WellKnown <- MCWellKnown
  Bytes = {0, 1, 2, 4, 6, 30, 31}
  Numbers = 32
  MaxUint8 = 3
  MaxDepth = 2
CHECK_DEADLOCK FALSE
INVARIANTS
  ProposalIsRequests
  BlocksStayLast
  ListsOrCause
  ListsEachOnce
  VerdictIsCharters
  DecodesCalls
  ReportsWhatItRead
  ReportsWhatWasLogged
  TakenFromFirst
  CharterAsOfBlock
  EvidenceOfTheBlock
