CONSTANTS
  PktLimit = 2
  RememberedIndexCount = 3
  InvalidThreshold = 2
  MaxFed <- MCMaxFed
  IsTrojanSeq <- Falls
  OpenVPNPackets <- MCOpenVPNPackets
  WireGuardPackets <- MCWireGuardPackets
  TrojanChunks <- MCTrojanChunks
  QUICPackets <- MCQUICPackets
  QUICHellos <- MCQUICHellos
  DNSPackets <- MCDNSPackets
  DNSArgs <- MCDNSArgs
  FETChunks <- MCFETChunks
SPECIFICATION MCSpec
INVARIANT StopsIfNotTLS
CHECK_DEADLOCK FALSE
