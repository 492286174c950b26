SPECIFICATION FilesSpec
CONSTANTS
  Absent = Absent
  Identifiers <- MCIdentifiers
  Sids <- MCSids
  SidFile <- MCSidFile
  Revised <- MCRevised
  MaxItems = 34
  Documents <- MCDocuments
INVARIANTS MapsAgree LatestWins JsonLoadsWhatIsWritten CborLoadsWhatIsWritten OnlySoundRulesLoad
CHECK_DEADLOCK FALSE
