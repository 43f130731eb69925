CONSTANTS
  WORD = 65536
  Messages <- MCMessages
  TunPackets <- MCTunPackets
  MAX_MSGS = 3
  MAX_HEADERS = 5
  Slacks <- MCSlacks
  OurMac = ourMac
  OurIp = ourIp
  Gateway = gateway
SPECIFICATION FairSpec
INVARIANTS
  FramesInside
  AllDelivered
  ArpAnswered
  RoundTrip
PROPERTY UnwrapEnds
