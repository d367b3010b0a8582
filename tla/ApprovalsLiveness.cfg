SPECIFICATION FairSpec
CONSTANTS
  Requests = {r1}
  Calls = {c1, c2}
  Users = {ana, bo, cy}
  Admins = {bo, cy}
  Nobody = Nobody
  NoRequest = NoRequest
  NoCall = NoCall
  Deduplicates = TRUE
PROPERTY CallsEnd
