\* One caller that waits for each Start, three starts, two records, one report of the lag.
SPECIFICATION LagSpec
CONSTANTS
  t1 = t1
  t2 = t2
  Callers = {t1}
  Patient = TRUE
  MaxStarts = 3
  MaxRecords = 2
  MaxPoll = 2
  MaxReports = 1
INVARIANTS EveryRecordAccounted OneStoppableLoop RunningMeansPolling LagNeverTooSmall
PROPERTY StoppedGoesQuiet
CHECK_DEADLOCK FALSE
