CONSTANTS
  MinPktLen = 2
  PktLimit = 2
  HTTPTalks <- MCHTTPTalks
  TLSTalks <- MCTLSTalks
  SSHTalks <- MCSSHTalks
  SOCKSTalks <- MCSOCKSTalks
  OpenVPNTalks <- MCOpenVPNTalks
  DNSTalks <- MCDNSTalks
SPECIFICATION MCSpec
INVARIANTS
  ReportsWhatWasSent ShowsTheHello ReadsVersionLines KnowsWhatWasSaid
  EveryPacketCountedOnce ReadsOnUntilGarbage
PROPERTY ShowsTheLastMessage
CHECK_DEADLOCK FALSE
