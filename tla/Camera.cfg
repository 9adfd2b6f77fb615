SPECIFICATION FairSpec
CONSTANTS
  Tabs = {t1, t2}
  Snaps = {s1}
  Sockets = {k1, k2}
  NoSocket = NoSocket
  Base = 1
  Ceiling = 3
INVARIANTS
  RelayIsConsistent
  OneUpstream
PROPERTIES
  SnapshotsSettle
  CameraIsReleased
