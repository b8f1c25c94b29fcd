SPECIFICATION Spec
CONSTANTS
  Session = {s1, s2}
  Workspace <- MCWorkspace
  Owner <- MCOwner
  Born <- MCBorn
  MeterKey = {"k1", "k2", "k3"}
  TopupKey = {"t"}
  TopupCredits <- MCTopupCredits
  Renewal = {"inv"}
  Action <- MCAction
  ReadAction <- MCReadAction
  Cost <- MCCost
  Monthly <- MCMonthly
  Contract = 4
  WelcomeDays = 2
  Period = 3
  Day = 1
  WelcomeCeiling = 4
  DailyCap = 2
  Traffic <- AgentTraffic
  MaxClock = 5
  None = None
SYMMETRY SessionSymmetry
CHECK_DEADLOCK FALSE
INVARIANT AllowancePerPeriod
