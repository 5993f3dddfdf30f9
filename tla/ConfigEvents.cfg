SPECIFICATION Spec
CONSTANTS
  r1 = r1  r2 = r2  d1 = d1  d2 = d2  c1 = c1  a1 = a1
  Ready = Ready  None = None
  Requests = {r1, r2}
  Docs = {d1, d2}
  ChannelOf <- DocChannel
  Authors = {a1}
  Names = {n1, n2}
  MaxFaults = 1
INVARIANTS TypeOK FilterFollowsStore TagsFollowStore
SYMMETRY Symmetry
CHECK_DEADLOCK FALSE
