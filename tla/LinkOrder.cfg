SPECIFICATION Spec
CONSTANTS
  g1 = g1
  g2 = g2
  g3 = g3
  bad = bad
  NoPacket = NoPacket
  NoLimit = NoLimit
  Packets = {g1, g2, bad}
  Class <- OneBadOutput
  Offers <- DeviceOffersMost
  Replayed <- NobodyReplayed
  Mode <- DeviceOnTun
  Limit <- CoreStopsAtTwo
  QueueCap = 2
  IoFaults = {"WouldBlock", "Other", "Short"}
  NetFaults = {"lose", "kill"}
  MaxNetFaults = 2
  MaxRestarts = 1
INVARIANTS InOrder AtMostOnce LimitRespected SuccessesCoverTraffic
PROPERTIES ImplementsService
CHECK_DEADLOCK FALSE
