SPECIFICATION TransferSpec
CONSTANTS
  NoProvider = NoProvider
  Provider <- Iids
  RuleSets <- ShortRuleSets
  Packets <- TransferPackets
  Datagrams <- NoDatagrams
INVARIANTS CarriedRulesRestore
CHECK_DEADLOCK FALSE
