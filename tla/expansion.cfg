\* A claim on one volume is edited while its pod comes and goes; every
\* lookup of the webhook may fail, and a write may land late.
SPECIFICATION FairExpansion
CONSTANTS
  n1 = n1  n2 = n2  v1 = v1  v2 = v2  s1 = s1  s2 = s2  na = na  nb = nb
  None = None
  MinVolumeSize = 2  DefaultVolumeSize = 3  MaxVolumeSize = 5
  Names = {n1}
  VolumeIds = {v1}
  SnapshotIds = {}
  Nodes = {na}
  Checks = {"ATTACH_VOLUME", "EXPAND_VOLUME"}
  Flaky = {}
  Omits = {}
  EchoMarks = {}
  PageSize = 3
  Handlers = {h1, h2}
  Requests <- ExpansionCalls
  ClientModes = {TRUE}
  MaxLate = 1
  Sizes = {3, 4}
  Driver = "vcloud.csi.vnetwork.dev"
  Reviewers = {w1}
  FlakyLookups = {"pv", "list", "each"}
INVARIANTS
  GrantedIsReal
  AttachedIsAllowed
  PassedForAReason
PROPERTIES
  AdmittedIsExpanded
