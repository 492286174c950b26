SPECIFICATION Spec
CONSTANTS
  NoProvider = NoProvider
  Provider <- Iids
  Entries <- ShortTargets
  Values <- OptionValues
  Earlier <- LengthFields
  Tails <- Followers
  Cuts = {1, 5}
INVARIANTS EqualMeansEqual
CHECK_DEADLOCK FALSE
