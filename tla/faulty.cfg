\* Everything may fail, answers may be incomplete, a write may land after its
\* caller gave up, and a restart may lose the credentials.
SPECIFICATION Spec
SYMMETRY Symmetry
CONSTANTS
  n1 = n1  n2 = n2  v1 = v1  v2 = v2  s1 = s1  s2 = s2  na = na  nb = nb
  None = None
  MinVolumeSize = 2  DefaultVolumeSize = 3  MaxVolumeSize = 5
  Names = {n1, n2}
  VolumeIds = {v1, v2}
  SnapshotIds = {s1}
  Nodes = {na}
  Checks = {"CREATE_VOLUME", "DETACH_VOLUME"}
  Flaky <- Everything
  Omits = {"404", "id", "nodeId", "devicePath"}
  EchoMarks = {}
  PageSize = 3
  Handlers = {h1, h2}
  Requests <- MixedCalls
  ClientModes = {TRUE, FALSE}
  MaxLate = 1
INVARIANTS TypeOK LocksMatchHandlers AnsweredDeleteIsGone AnsweredUnpublishIsDetached RestoredFromSnapshot CreatedAsAsked
