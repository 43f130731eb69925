CONSTANTS
  Buses <- MCBuses
  MAX_LAG = 2
SPECIFICATION FairSpec
INVARIANTS
  TypeOK
  EndpointsOwn
  DriverBack
  PromptMac
  LinkIsUp
PROPERTIES
  HeldSpec
  SetupEnds
