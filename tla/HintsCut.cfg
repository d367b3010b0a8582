SPECIFICATION LiveSpec
CONSTANTS
  Devices = {d1, d2}
  Named = {d1, d2}
  Online = {d1}
  MaxValues = 1
  RowCaps = {1, 2}
  Preview = 1
INVARIANT HintsNeverCut
CHECK_DEADLOCK FALSE
