\* Two plain readers, one with a timeout, and a TxPipelined reader without one.
SPECIFICATION FairSpec
CONSTANTS
  c1 = c1
  c2 = c2
  c3 = c3
  k1 = k1
  k2 = k2
  k3 = k3
  k4 = k4
  Clients = {c1, c2, c3}
  Keys = {k1, k2, k3, k4}
  Footprint <- OverlappingFootprint
  SnapshotReaders = {c3}
  Bounded = {c1}
  MaxCalls = 1
  MaxFaults = 1
INVARIANTS GuardedNeverLost OncePerSuccess SnapshotsAgree
PROPERTIES PlainNeverOverwrites ImplementsAtomicUpdates EveryCallReturns
CHECK_DEADLOCK FALSE
