SPECIFICATION Spec
CONSTANTS
  c1 = c1
  c2 = c2
  NoConn = NoConn
  Conns = {c1, c2}
  MaxChunks = 3
  LogCap = 1
  ChanCap = 1
SYMMETRY Symmetry
INVARIANTS TypeOK FeedComplete
