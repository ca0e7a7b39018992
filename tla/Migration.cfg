\* Two runners, five runs, two faults, three files.
SPECIFICATION FairSpec
CONSTANTS
  r1 = r1
  r2 = r2
  Runners = {r1, r2}
  Nobody = Nobody
  Files <- MixedFiles
  MaxRuns = 5
  MaxFaults = 2
INVARIANTS RecordedMeansApplied NoGap AtMostOncePerUnawareRun
PROPERTY EventuallyMigrated
CHECK_DEADLOCK FALSE
