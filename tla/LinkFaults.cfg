SPECIFICATION Spec
CONSTANTS
  g1 = g1
  g2 = g2
  g3 = g3
  bad = bad
  NoPacket = NoPacket
  NoLimit = NoLimit
  Packets = {g1, g3, bad}
  Class <- OneUndecodable
  Offers <- DeviceOffersMost
  Replayed <- BothDisturbed
  Mode <- DeviceOnTun
  Limit <- Unlimited
  QueueCap = 2
  IoFaults = {"WouldBlock"}
  NetFaults = {"lose", "duplicate", "reorder", "stranger"}
  MaxNetFaults = 2
  MaxRestarts = 0
INVARIANTS TypeOK Integrity
PROPERTIES ImplementsService TransientErrorsKeepRunning
CHECK_DEADLOCK FALSE
