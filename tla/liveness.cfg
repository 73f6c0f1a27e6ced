\* Fair scheduling of the handlers, everything may fail, no bound on crashes.
SPECIFICATION FairSpec
CONSTANTS
  n1 = n1  n2 = n2  v1 = v1  v2 = v2  s1 = s1  s2 = s2  na = na  nb = nb
  None = None
  MinVolumeSize = 2  DefaultVolumeSize = 3  MaxVolumeSize = 5
  Names = {n1, n2}
  VolumeIds = {v1}
  SnapshotIds = {s1}
  Nodes = {na}
  Checks = {"DETACH_VOLUME"}
  Flaky <- Everything
  Omits = {"404", "id", "nodeId", "devicePath"}
  EchoMarks = {}
  PageSize = 3
  Handlers = {h1, h2}
  Requests <- LiveCalls
  ClientModes = {TRUE}
  MaxLate = 0
PROPERTIES LocksAreReleased
