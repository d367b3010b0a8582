SPECIFICATION Spec
CONSTANTS
  NFiles = 2
  Texts = {a, b}
  NoText = none
  Ingesters = {worker, cli}
  PerFile = {worker}
  Nobody = nobody
  MaxRows = 3
INVARIANTS
  OneRevision
  NoTextTwice
  FollowsEdits
PROPERTIES
  NeverLost
  CorpusSpec
SYMMETRY Interchangeable
