CONSTANTS
  Servers = {1, 2}
  Hosts = {1, 2}
  ATTEMPTS = 2
  MAX_CALLS = 2
  QLEN = 2
SPECIFICATION FairSpec
INVARIANTS
  TypeOK
  RequestConsistent
  LeaseWasAcked
  LeaseIsRequested
PROPERTY Returns
