SPECIFICATION CompressSpec
CONSTANTS
  NoProvider = NoProvider
  Provider <- Iids
  RuleSets <- TreeRuleSets
  Packets <- AllPackets
INVARIANTS ShortestOfAll ErrorsTellWhy NeverWorseThanWrapping
CHECK_DEADLOCK FALSE
