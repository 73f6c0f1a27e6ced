--------------------------- MODULE NodeProperties ---------------------------
(***************************************************************************)
(* What is asked of the node service.                                      *)
(***************************************************************************)
EXTENDS NodeServer

VolumeOf(p) == IF p \in Targets THEN VolumeAt[p] ELSE CHOOSE v \in Volumes : p = Staging(v)

\* Every variable has its type; in particular a call that is being served
\* names a volume and a path (the argument checks of every handler).
NodeTypeOK ==
  /\ plugged \in [Devices -> Volumes \cup {None}]
  /\ disk \in [Volumes -> [fs : FsTypes \cup {None}, data : DataStates, size : 1..MaxSize,
                           room : 0..MaxSize, unread : BOOLEAN]]
  /\ mounts \in [Paths -> Seq([vol : Volumes \cup {Host}, dev : Devices \cup {Host}])]
  /\ dirs \subseteq Paths
  /\ pc \in [Handlers -> {"idle", "look", "blkid", "mkfs", "mount", "unmount", "remove",
                          "target", "bind", "device", "fstype", "resize"}]
  /\ DOMAIN req = Handlers
  /\ \A h \in Handlers : IF Busy(h) THEN req[h].volume \in Volumes /\ req[h].path \in Paths
                                    ELSE req[h] = NoRequest
  /\ locks \subseteq Volumes \X Paths /\ late \subseteq Requests
  /\ unheard \subseteq Handlers /\ faultsLeft \in 0..MaxFaults
  /\ wanted \subseteq Targets /\ open \cup told \subseteq Paths /\ filled \subseteq Volumes

\* No two calls that mount or unmount are at work on the same path at once
\* (the key "volume-path" of every handler but NodeExpandVolume).
OneCallPerPath ==
  \A h, g \in Handlers :
    (h # g /\ Busy(h) /\ Busy(g) /\ "expand" \notin {req[h].op, req[g].op})
      => req[h].path # req[g].path

\* As long as the orchestrator relies on the answer of NodeStageVolume or
\* NodePublishVolume, the path shows the volume that belongs there, through
\* retries, crashes of the driver and calls that were given up.
PublishedShowsVolume ==
  \A p \in told : Mounted(p) /\ Shown(p).vol = VolumeOf(p)

\* After the answer of NodeUnstageVolume or NodeUnpublishVolume nothing is
\* mounted on the path until the next call to mount there.
AnsweredUndoIsUnmounted == \A p \in Paths \ open : ~Mounted(p)

\* What a pod has written is never deleted with a mount point (RemoveAll), and
\* it is formatted over (Format, on a device path that is used again and again)
\* only after blkid could not read the device, which the code takes for blank.
NoDataLost ==
  \A v \in Volumes : /\ disk[v].data # "deleted"
                     /\ disk[v].data = "overwritten" => disk[v].unread

\* After NodeExpandVolume has answered a caller that waited for it, the
\* filesystem of the volume fills it, until it grows again, whatever handlers
\* of calls that were given up do.
ExpandedFills == \A v \in filled : disk[v].room = disk[v].size

\* The node service implements NodeContract: a target shows only what is
\* staged there and then, and a volume is detached when no path shows it.
Contract == INSTANCE NodeContract WITH
  staged <- {v \in Volumes : Mounted(Staging(v)) /\ Shown(Staging(v)).vol = v},
  shown <- [t \in Targets |-> IF Mounted(t) THEN Shown(t).vol ELSE None],
  attached <- {v \in Volumes : Attached(v)}
ImplementsContract == Contract!Spec

\* A pod that wants its volume for good has it mounted for good in the end,
\* whatever fails on the way a bounded number of times (retries find the
\* device formatted, the path mounted, the directory there).
WantedIsMounted ==
  \A t \in Targets :
    <>[](t \in wanted) => <>[](t \in told /\ Shown(t).vol = VolumeAt[t])

\* A volume that no pod wants any more is detached in the end (retries find the
\* path unmounted, the directory gone), and no path shows it any more, except
\* where a mount has outlasted its timeout.
UnwantedIsGone ==
  \A v \in Volumes :
    <>[](TargetsOf(v) \cap wanted = {})
      => /\ <>[]~Attached(v)
         /\ [](late = {}) => <>[]~InUse(v)
=============================================================================
