\* A configured driver on a service that does as it is told.  Lookups are
\* reliable; every write may fail, or be done and its answer lost; the process
\* may crash.
SPECIFICATION Spec
SYMMETRY Symmetry
CONSTANTS
  n1 = n1  n2 = n2  v1 = v1  v2 = v2  s1 = s1  s2 = s2  na = na  nb = nb
  None = None
  MinVolumeSize = 2  DefaultVolumeSize = 3  MaxVolumeSize = 5
  Names = {n1}
  VolumeIds = {v1, v2}
  SnapshotIds = {}
  Nodes = {na, nb}
  Checks = {"DETACH_VOLUME"}
  Flaky <- Writes
  Omits = {}
  EchoMarks = {}
  PageSize = 3
  Handlers = {h1, h2, h3}
  Requests <- VolumeCalls
  ClientModes = {TRUE}
  MaxLate = 0
INVARIANTS NoDuplicateVolume PublishedStaysAttached
PROPERTIES ImplementsContract
