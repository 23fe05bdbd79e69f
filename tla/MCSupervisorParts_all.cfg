SPECIFICATION PartsSpec
CONSTANTS
  c1 = c1
  c2 = c2
  s1 = s1
  s2 = s2
  NoConn = NoConn
  Conns = {c1, c2}
  Samplers = {s1, s2}
  MaxSessions = 2
  Frames = {"Spawn", "Kill", "Attach", "SubscribeUsage", "UnsubscribeUsage"}
  ChanCap = 1
  InputCap = 1
SYMMETRY Symmetry
INVARIANTS TypeOK ExitNotMissed SpawnedFirst OneSampler NoLostSampler StolenIsCancelled
