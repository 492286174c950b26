SPECIFICATION Spec
CONSTANTS
  NoProvider = NoProvider
  Provider <- Iids
  Entries <- AllEntries
  Values <- AllValues
  Earlier <- LengthFields
  Tails <- Followers
  Cuts = {1, 5}
INVARIANTS RoundTrip SelfDelimiting TruncationDetected
CHECK_DEADLOCK FALSE
