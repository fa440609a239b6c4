CONSTANTS
  Analyzers <- MCAnalyzers
  Modifiers <- MCModifiers
  RuleLists <- MCRuleLists
  Bits <- MCBits
  Conditions <- MCConditions
  Regex <- MCRegex
  Sites <- MCSites
  IPs <- MCIPs
  SiteMaps <- MCSiteMaps
  IPMaps <- MCIPMaps
SPECIFICATION MCSpec
INVARIANTS FirstTrueRuleDecides NoLoadInMatch SitesByTheList AddressesByTheList
CHECK_DEADLOCK FALSE
