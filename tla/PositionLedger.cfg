\* Two services, two assets, amounts of 4 bits, three changes.
SPECIFICATION Spec
CONSTANTS
  s1 = s1
  s2 = s2
  Services = {s1, s2}
  AssetIDs = {"USD", "Bond"}
  Bits = 4
  Amounts = {2, 7}
  MaxChanges = 3
  MaxRecords = 1
INVARIANT RecordsComplete
PROPERTY TakesWhatIsThere
SYMMETRY Symmetric
CHECK_DEADLOCK FALSE
