SPECIFICATION HubSessionSpec
CONSTANTS
  c1 = c1
  c2 = c2
  Client = {c1, c2}
  h0 = h0
  h1 = h1
  h2 = h2
  Hub = {h0, h1, h2}
  Outdated = {h0}
  Manual = {h2}
  MayMiss = TRUE
  MayStall = TRUE
  Nobody = Nobody
  s1 = s1
  s2 = s2
  s3 = s3
  Socket = {s1, s2, s3}
  q1 = q1
  Request = {q1}
  Attempts = 2
  MaxLoads = 3
  r1 = r1
  r2 = r2
  Root = {r1, r2}
  Dispatcher = {r1}
  MaxRefresh = 3
  MaxFetch = 2
  MaxEdit = 1
  Nowhere = Nowhere
  w1 = w1
  w2 = w2
  Stream = {w1, w2}
  n1 = n1
  n2 = n2
  Slug = {n1, n2}
  NoSlug = NoSlug
  e1 = e1
  e2 = e2
  Revision = {e1, e2}
  z1 = z1
  Seat = {z1}
  MaxSlugAttempts = 2
  NoSocket = NoSocket
INVARIANTS   PageKeepsGoing WorkstreamsHold
PROPERTIES OnlyTerminateTakesPath  RequestSettles
SYMMETRY Symmetry
CHECK_DEADLOCK FALSE
