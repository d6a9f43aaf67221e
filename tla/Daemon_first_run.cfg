\* A target that has never run, beside two trigger targets, with the default budget.
SPECIFICATION Spec
CONSTANTS
  d1 = d1
  d2 = d2
  t1 = t1
  t2 = t2
  t3 = t3
  Batch = Batch
  Nobody = Nobody
  Never = Never
  Daemons = {d1}
  Targets = {t1, t2, t3}
  Triggers = {t1, t2}
  Name <- MCName
  Interval <- MCInterval
  TickSecs = 2
  MaxWorkers = 2
  FullShare = 100
  MaxShift = 1
  MaxCycle = 3
  StaleAfter = 3
  LeaseTtl = 2
  MaxBusy = 1
  Quiet = FALSE
  Horizon = 7
  MaxFail = 1
  MaxFaults = 0
INVARIANT FirstRunComes
SYMMETRY Symmetry
