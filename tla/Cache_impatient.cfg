\* Two callers that do not wait.
SPECIFICATION Spec
CONSTANTS
  t1 = t1
  t2 = t2
  Callers = {t1, t2}
  Patient = FALSE
  MaxStarts = 2
  MaxRecords = 3
  MaxPoll = 2
PROPERTY NotStartableWhileStarted
CHECK_DEADLOCK FALSE
