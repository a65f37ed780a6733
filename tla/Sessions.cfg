SPECIFICATION SessionsSpec
CONSTANTS
  t1 = t1
  t2 = t2
  Token = {t1, t2}
  h1 = h1
  Handle = {h1}
  Attempts = 2
  MaxCrash = 2
  MayAge = TRUE
  None = None
  s1 = s1
  s2 = s2
  Session = {s1, s2}
  l1 = l1
  l2 = l2
  Label = {l1, l2}
  Legacy = {l1}
  b1 = b1
  b2 = b2
  Branch = {b1, b2}
  NoBranch = NoBranch
  MaxUses = 2
  p1 = p1
  p2 = p2
  Pane = {p1, p2}
  n1 = n1
  Note = {n1}
  a1 = a1
  Annotation = {a1}
  e1 = e1
  e2 = e2
  Base = {e1, e2}
  MaxCommits = 2
  Missing = Missing
  r1 = r1
  Remark = {r1}
  u1 = u1
  UserNote = {u1}
  MaxEntries = 3
  Line = {"++", "--"}
  MaxLen = 2
  Context = 0
  MaxEdits = 1
  MaxNotes = 1
  k1 = k1
  k2 = k2
  Chat = {k1, k2}
  NoChat = NoChat
  MaxStarts = 2
  d1 = d1
  d2 = d2
  Directory = {d1, d2}
  g1 = g1
  g2 = g2
  GitBranch = {g1, g2}
  Detached = Detached
  Null = Null
  MaxMoves = 1
  MaxGeneration = 5
  MaxSessions = 2
  c1 = c1
  c2 = c2
  Call = {c1, c2}
  x = x
  y = y
  Wording = {x, y}
  NoCall = NoCall
INVARIANTS CommittedWorkKept RunKeepsWorkspace UncommittedWorkKept ReviewLosesNothing ReviewIsTransactional ApprovedContentStarts HandoffSentOnce FrozenDiffIsExact FreshAnnotationIsShown  FooterIsCurrent
PROPERTIES FreshLockIsKept
SYMMETRY Symmetry
CHECK_DEADLOCK FALSE
