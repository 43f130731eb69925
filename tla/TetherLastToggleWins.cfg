CONSTANTS
  MAX_CLIENTS = 1
  BACKLOG = 1
  MAX_CONNS = 2
  QLEN = 2
  Modes <- Watch
  RETRIES = 1
  MAX_STARTS = 1
  MAX_CLICKS = 2
  MAX_OTHERS = 0
  OtherCommands = {}
SPECIFICATION Spec
INVARIANT LastToggleWins
