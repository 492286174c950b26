SPECIFICATION TransferSpec
CONSTANTS
  NoProvider = NoProvider
  Provider <- Iids
  RuleSets <- TransferRuleSets
  Packets <- TransferPackets
  Datagrams <- NoDatagrams
INVARIANTS WrappingIsTransparent
CHECK_DEADLOCK FALSE
