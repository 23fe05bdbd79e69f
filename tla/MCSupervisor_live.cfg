SPECIFICATION FairSpec
CONSTANTS
  c1 = c1
  c2 = c2
  s1 = s1
  s2 = s2
  NoConn = NoConn
  Conns = {c1, c2}
  Samplers = {s1}
  MaxSessions = 1
  Frames = {"Spawn", "WriteBytes"}
  ChanCap = 1
  InputCap = 1
PROPERTIES StolenClosesIfRead ReaperFreed TabCloses SlotFairSpec
