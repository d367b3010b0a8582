SPECIFICATION Spec
CONSTANTS
  NFiles = 2
  Texts = {a, b}
  NoText = none
  Ingesters = {worker, cli}
  PerFile = {worker}
  Nobody = nobody
  MaxRows = 3
INVARIANT
  NobodyAnsweredFromStale
