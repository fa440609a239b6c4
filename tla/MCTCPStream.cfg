\* One flow, two analyzers, three kinds of rules.
CONSTANTS
  sni = sni
  ssh = ssh
  m = m
  Flows = {f1}
  Analyzers <- MCAnalyzers
  Limit <- MCLimit
  Rulesets <- MCRulesets
  RuleAnalyzers <- MCRuleAnalyzers
  Marks <- MCMarks
  Updates <- MCUpdates
  CloseUpdates <- MCCloseUpdates
  Match <- MCMatch
  MaxData = 2
SPECIFICATION Spec
INVARIANTS TypeOK EntryProtocol LimitRespected NothingMissed
PROPERTIES StickyVerdict ImplementsStreamVerdict
