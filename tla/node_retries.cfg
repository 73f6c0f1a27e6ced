\* Two pods share a volume; one fault, which may be a mount that outlasts
\* its timeout, after which every call is retried.
SPECIFICATION FairSpec
CONSTANTS
  v1 = v1  v2 = v2  t1 = t1  t2 = t2  t3 = t3  d1 = d1  h1 = h1  h2 = h2
  None = None
  Host = Host
  Volumes = {v1}
  Targets = {t1, t3}
  VolumeAt <- Shared
  Devices = {d1}
  FsTypes = {"ext4"}
  Handlers = {h1, h2}
  Requests <- MountCalls
  MaxFaults = 1
  MaxSize = 1
  MountsHang = TRUE
PROPERTIES
  WantedIsMounted
  UnwantedIsGone
