SPECIFICATION FairSpec
CONSTANTS
  g1 = g1
  g2 = g2
  g3 = g3
  bad = bad
  NoPacket = NoPacket
  NoLimit = NoLimit
  Packets = {g1, g2, g3, bad}
  Class <- TwoRefused
  Offers <- CoreOffersMost
  Replayed <- CoreFlooded
  Mode <- BothUdp
  Limit <- Unlimited
  QueueCap = 3
  IoFaults = {}
  NetFaults = {"stranger"}
  MaxNetFaults = 0
  MaxRestarts = 0
PROPERTIES Delivered
