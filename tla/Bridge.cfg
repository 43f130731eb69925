CONSTANTS
  NUM_RX_XFERS = 2
  NUM_TX_XFERS = 1
  BATCH = 1
  MAX_ARP = 1
SPECIFICATION FairSpec
INVARIANTS
  TypeOK
  Accounting
  RxFreeSafe
  RxMissedBound
  QuietAtClose
PROPERTIES
  PoolSpec
  SessionSpec
  StopEnds
  UnplugEnds
  TxRecycled
