CONSTANTS
  dns = dns
  quic = quic
  any = any
  m = m
  f1 = f1
  f2 = f2
  f3 = f3
  f4 = f4
  i1 = i1
  i2 = i2
  i3 = i3
  Flows <- MCFlows
  IDs <- MCIDs
  IDOf <- MCIDOf
  MaxStreams = 2
  Analyzers <- MCAnalyzers
  Limit <- MCLimit
  Rulesets <- MCRulesets
  RuleAnalyzers <- MCRuleAnalyzers
  Marks <- MCMarks
  Updates <- MCUpdates
  CloseUpdates <- MCCloseUpdates
  Match <- MCMatch
  MaxData = 2
SPECIFICATION MCSpec
INVARIANTS TypeOK EntryProtocol NothingMissed DirectionKept Isolation
PROPERTY StickyVerdict
