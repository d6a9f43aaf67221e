SPECIFICATION Spec
CONSTANTS
  d1 = d1
  d2 = d2
  t1 = t1
  t2 = t2
  t3 = t3
  Batch = Batch
  Nobody = Nobody
  Never = Never
  Daemons = {d1, d2}
  Targets = {t1, t2}
  Triggers = {t1}
  Name <- MCName
  Interval <- MCInterval
  TickSecs = 2
  MaxWorkers = 1
  FullShare = 50
  MaxShift = 1
  MaxCycle = 3
  StaleAfter = 3
  LeaseTtl = 2
  MaxBusy = 1
  Quiet = FALSE
  Horizon = 7
  MaxFail = 1
  MaxFaults = 1
INVARIANTS TypeOK OneDaemon  
SYMMETRY Symmetry
