SPECIFICATION CompressSpec
CONSTANTS
  NoProvider = NoProvider
  Provider <- Iids
  RuleSets <- FragmentFirst
  Packets <- AllPackets
INVARIANTS RefusedOnlyForFragmentation
CHECK_DEADLOCK FALSE
