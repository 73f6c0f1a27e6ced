\* Snapshots where the lookup by name is reliable and the list may fail.
SPECIFICATION Spec
SYMMETRY Symmetry
CONSTANTS
  n1 = n1  n2 = n2  v1 = v1  v2 = v2  s1 = s1  s2 = s2  na = na  nb = nb
  None = None
  MinVolumeSize = 2  DefaultVolumeSize = 3  MaxVolumeSize = 5
  Names = {n1, n2}
  VolumeIds = {v1, v2}
  SnapshotIds = {s1, s2}
  Nodes = {na, nb}
  Checks = {"DETACH_VOLUME"}
  Flaky <- WritesAndSnapshotLists
  Omits = {}
  EchoMarks = {}
  PageSize = 3
  Handlers = {h1, h2}
  Requests <- SnapshotCalls
  ClientModes = {TRUE}
  MaxLate = 0
INVARIANTS NoDuplicateSnapshot
