SPECIFICATION AskSpec
CONSTANTS
  StoredSql = 2
  SafeSlugs = {"database", "sales"}
  Database = "database"
  MaxBilled = 2
INVARIANT EveryQueryRecorded
CHECK_DEADLOCK FALSE
