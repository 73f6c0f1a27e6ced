\* The claims of expansion under the name README.md and the plugin give the
\* driver; nothing fails.
SPECIFICATION SpecExpansion
CONSTANTS
  n1 = n1  n2 = n2  v1 = v1  v2 = v2  s1 = s1  s2 = s2  na = na  nb = nb
  None = None
  MinVolumeSize = 2  DefaultVolumeSize = 3  MaxVolumeSize = 5
  Names = {n1}
  VolumeIds = {v1}
  SnapshotIds = {}
  Nodes = {na}
  Checks = {"ATTACH_VOLUME", "EXPAND_VOLUME"}
  Flaky = {}
  Omits = {}
  EchoMarks = {}
  PageSize = 3
  Handlers = {h1, h2}
  Requests <- ExpansionCalls
  ClientModes = {TRUE}
  MaxLate = 0
  Sizes = {3, 4}
  Driver = "bs.csi.vnetwork.dev"
  Reviewers = {w1}
  FlakyLookups = {}
INVARIANTS DetachedIsRefused
