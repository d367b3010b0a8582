SPECIFICATION Spec
CONSTANTS
  Requests = {r1}
  Calls = {c1, c2, c3}
  Users = {ana, bo, cy}
  Admins = {bo, cy}
  Nobody = Nobody
  NoRequest = NoRequest
  NoCall = NoCall
  Deduplicates = TRUE
INVARIANT AuthoriserSurvives
SYMMETRY Interchangeable
