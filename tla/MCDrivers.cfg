SPECIFICATION MCSpec
CONSTANTS
  d1 = d1
  d2 = d2
  Dev = {d1, d2}
  NumBoards = 1
  MaxPortals = 3
  Portals <- MCPortals
  File = {f1, f2}
  MaxProbes <- MCMaxProbes
  Wrap = 2
  NumPortals = 2
  MaxNumPortals = 3
  Proc = {q1, q2}
  MaxGen = 2
  Orders <- MCOrders
  Lengths = {0, 3, 7}
  Caller = {c1, c2}
  MaxPages = 9
  MaxAsks = 2
INVARIANTS BoardsKept FilesKept PortalsReplaced PagesExact BuffersKept
CHECK_DEADLOCK FALSE
