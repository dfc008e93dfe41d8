SPECIFICATION Spec
CONSTANTS
  NTables = 2
  glb_period_time = 2
  Threads = {e1}
  FirstTime = 0
  StartTime = 1
  CrashAt = {"loop", "read", "query", "advance"}
  MaxTime = 9
  MaxRows = 2
  MaxCrashes = 2
INVARIANT TypeOK
 
 
