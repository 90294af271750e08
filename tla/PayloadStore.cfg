CONSTANTS
  PacketCount = 4
  Marked = {2}
  Cores = {"k1", "k2"}
SPECIFICATION FairSpec
INVARIANTS
  OnePayload
  DeparserReady
PROPERTIES
  EveryPacketLeaves
CHECK_DEADLOCK FALSE
