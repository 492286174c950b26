SPECIFICATION DecompressSpec
CONSTANTS
  NoProvider = NoProvider
  Provider <- Iids
  RuleSets <- MixedRuleSets
  Datagrams <- Arrivals
INVARIANTS NeverAmbiguous OneRulePerDatagram ComputedChecksumVerifies
CHECK_DEADLOCK FALSE
