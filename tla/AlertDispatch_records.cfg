SPECIFICATION AlertSpec
CONSTANTS
  Callers = {c1, c2}
  Other = other
  Reader = reader
  Nobody = nobody
  Severities = {"info", "critical"}
  Configs <- AllConfigs
  Retries = 2
  MaxAlerts = 1
  MaxFaults = 1
INVARIANTS
  RowsTellTheOutcome
  OnlyABusyWarehouseLosesAlerts
CHECK_DEADLOCK FALSE
