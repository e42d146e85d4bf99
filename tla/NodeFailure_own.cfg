SPECIFICATION Spec
CONSTANTS
  c1 = c1
  c2 = c2
  Clients = {c1, c2}
  IpOf <- MCOwnIp
  StartTime = 1
  MaxTime = 9
  Period = 3
  Lag = 1
  FAILURE_TIMELIMIT = 4
INVARIANTS NoFalseAlarm DeadDetected
CHECK_DEADLOCK FALSE
