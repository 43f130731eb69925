CONSTANTS
  NUM_RX_XFERS = 1
  NUM_TX_XFERS = 1
  BATCH = 1
  MAX_ARP = 0
SPECIFICATION Spec
INVARIANT StopWasRequested
