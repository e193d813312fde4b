SPECIFICATION LiveSpec
CONSTANTS
  Clients = {c1, c2}
  Workers = {w1, w2, w3, w4}
  m1 = m1
  p1 = p1
  Marathons = {m1}
  Participants = {p1}
  Home <- MCHome
  NoTag = NoTag
  NoClient = NoClient
  NoTopic = NoTopic
SYMMETRY MCSymmetry
VIEW MCView
INVARIANT CountedIsFed
CHECK_DEADLOCK FALSE
