SPECIFICATION Spec
CONSTANTS
  Slots = {s1, s2}
  RateLimit = 2
  Window = 2
  DailyBudget = 2
  MaxBill = 2
  MaxPerTick = 2
  MaxOutages = 1
PROPERTY RefusedOnlyOverLimit
