SPECIFICATION PartsFair
CONSTANTS
  Jobs = {j1, j2}
  NoJob = nojob
  MaxFiles = 2
  Polls = 2
  Users = {u1, u2, u3}
  FirstAdmin = u1
  Edits = {e1, e2}
  Records = {r1, r2, r3}
  Posts = {p1, p2}
  Exchanges = {x1, x2, x3}
  NoExchange = noexchange
INVARIANTS
  ProgressIsReal
  AnAdminRemains
  OneActive
  RefusedTwice
  FetchesAreDue
PROPERTIES
  JobsEnd
  RetiredForGood
CONSTRAINT NotRaced
CHECK_DEADLOCK FALSE
