\* Two volumes, which get the same device path one after the other, a pod
\* for each, and one fault at any time.
SPECIFICATION Spec
CONSTANTS
  v1 = v1  v2 = v2  t1 = t1  t2 = t2  t3 = t3  d1 = d1  h1 = h1  h2 = h2
  None = None
  Host = Host
  Volumes = {v1, v2}
  Targets = {t1, t2}
  VolumeAt <- OneEach
  Devices = {d1}
  FsTypes = {"ext4", "xfs"}
  Handlers = {h1, h2}
  Requests <- AllCalls
  MaxFaults = 1
  MaxSize = 2
  MountsHang = FALSE
SYMMETRY HandlerSymmetry
INVARIANTS
  NodeTypeOK
  OneCallPerPath
  PublishedShowsVolume
  AnsweredUndoIsUnmounted
  NoDataLost
  ExpandedFills
PROPERTIES ImplementsContract
