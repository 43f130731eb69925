CONSTANTS
  MAX_CLIENTS = 1
  BACKLOG = 1
  MAX_CONNS = 2
  QLEN = 2
  Modes <- BothModes
  RETRIES = 1
  MAX_STARTS = 2
  MAX_CLICKS = 1
  MAX_OTHERS = 0
  OtherCommands = {}
SPECIFICATION FairSpec
INVARIANTS
  TypeOK
  NetClean
  OneSocket
  AppShowsTold
PROPERTIES
  Reconnects
  AppIsServed
  Terminates
  TriggerStops
