CONSTANTS
  MAX_CLIENTS = 2
  BACKLOG = 1
  MAX_CONNS = 3
  QLEN = 1
  Modes <- BothBare
  RETRIES = 1
  MAX_STARTS = 1
  MAX_CLICKS = 0
  MAX_OTHERS = 1
  OtherCommands = {"disable"}
SPECIFICATION FairSpec
INVARIANT ClientSlots
PROPERTY StopHonoured
