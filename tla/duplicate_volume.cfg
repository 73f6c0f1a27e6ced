\* CreateVolume when a lookup by name fails.
SPECIFICATION Spec
CONSTANTS
  n1 = n1  n2 = n2  v1 = v1  v2 = v2  s1 = s1  s2 = s2  na = na  nb = nb
  None = None
  MinVolumeSize = 2  DefaultVolumeSize = 3  MaxVolumeSize = 5
  Names = {n1}
  VolumeIds = {v1, v2}
  SnapshotIds = {}
  Nodes = {na, nb}
  Checks = {"DETACH_VOLUME"}
  Flaky = {"GET_VOLUME"}
  Omits = {}
  EchoMarks = {}
  PageSize = 3
  Handlers = {h1}
  Requests <- VolumeCalls
  ClientModes = {TRUE}
  MaxLate = 0
INVARIANTS NoDuplicateVolume
