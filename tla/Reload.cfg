\* Two workers, that is four factories, and two edits, the second of which can
\* come at any moment of the reload of the first.
CONSTANTS
  N = 2
  MaxEdits = 2
SPECIFICATION FairSpec
INVARIANTS OnlyGoodRules OneReloadAtATime
PROPERTIES ReloadsLastEdit Recovers
