SPECIFICATION TransferSpec
CONSTANTS
  NoProvider = NoProvider
  Provider <- Iids
  RuleSets <- TransferRuleSets
  Packets <- TransferPackets
  Datagrams <- NoDatagrams
INVARIANTS Restored FieldsAsExtracted
CHECK_DEADLOCK FALSE
