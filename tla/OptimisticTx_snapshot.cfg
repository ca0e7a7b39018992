\* The update of a plain reader is overwritten by a TxPipelined reader.
SPECIFICATION Spec
CONSTANTS
  c1 = c1
  c2 = c2
  c3 = c3
  k1 = k1
  k2 = k2
  k3 = k3
  k4 = k4
  Clients = {c1, c2}
  Keys = {k1, k2}
  Footprint <- SharedFootprint
  SnapshotReaders = {c2}
  Bounded = {c1}
  MaxCalls = 1
  MaxFaults = 0
INVARIANT NoLostUpdate
CHECK_DEADLOCK FALSE
