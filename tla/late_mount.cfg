\* The calls of node, where a mount may outlast its timeout.
SPECIFICATION Spec
CONSTANTS
  v1 = v1  v2 = v2  t1 = t1  t2 = t2  t3 = t3  d1 = d1  h1 = h1  h2 = h2
  None = None
  Host = Host
  Volumes = {v1, v2}
  Targets = {t1, t2}
  VolumeAt <- OneEach
  Devices = {d1}
  FsTypes = {"ext4", "xfs"}
  Handlers = {h1, h2}
  Requests <- MountCalls
  MaxFaults = 1
  MaxSize = 1
  MountsHang = TRUE
SYMMETRY HandlerSymmetry
INVARIANTS AnsweredUndoIsUnmounted
