------------------------------ MODULE NodeHost ------------------------------
(***************************************************************************)
(* The node under the node service: device paths, the filesystems on the   *)
(* volumes, the mount table, and the directories that serve as mount       *)
(* points.  pkg/vcloud/mounter.go is a thin layer over the kernel and over *)
(* blkid, mkfs, mount and umount; what these do is external to the         *)
(* repository and modelled from how that file calls them.                  *)
(***************************************************************************)
EXTENDS Integers, Sequences, FiniteSets

CONSTANTS
  Volumes,    \* volume ids
  Targets,    \* target paths, one for each pod that uses a volume
  VolumeAt,   \* the volume that belongs at each target path
  Devices,    \* device paths, given anew once a volume is detached
  FsTypes,    \* filesystem types
  None,       \* an absent string
  Host        \* the node's own disk

VARIABLES
  plugged,    \* the volume behind each device path
  disk,       \* what is on each volume
  mounts,     \* the mount table: what is stacked on each path, last on top
  dirs        \* the paths that exist

host == <<plugged, disk, mounts, dirs>>

\* The orchestrator uses one staging path for a volume.
Staging(v) == <<"staging", v>>
Stagings == {Staging(v) : v \in Volumes}
Paths == Stagings \cup Targets
TargetsOf(v) == {t \in Targets : VolumeAt[t] = v}

ASSUME HostAssumption == /\ VolumeAt \in [Targets -> Volumes]
                         /\ {None, Host} \cap (Volumes \cup Devices \cup FsTypes) = {}
                         /\ None # Host
                         /\ Stagings \cap Targets = {}

\* A volume: its filesystem, what has become of a pod's data on it, its size
\* and how much of that the filesystem uses, and whether blkid has ever failed
\* to read it.
DataStates == {"none", "some", "overwritten", "deleted"}
Blank == [fs |-> None, data |-> "none", size |-> 1, room |-> 0, unread |-> FALSE]

\* An entry of the mount table: what is mounted, and its source device.
FromHost == [vol |-> Host, dev |-> Host]
Mounted(p) == mounts[p] # <<>>
Shown(p) == IF Mounted(p) THEN mounts[p][Len(mounts[p])] ELSE FromHost
InUse(v) == \E p \in Paths : \E i \in DOMAIN mounts[p] : mounts[p][i].vol = v
Behind(d) == IF d \in Devices THEN plugged[d] ELSE None
Attached(v) == \E d \in Devices : plugged[d] = v

-----------------------------------------------------------------------------
\* blkid: the filesystem it finds behind a device path; it ends alike (with
\* status 2) when there is none, when there is no device, and when it cannot
\* read the device, which NodeServer's FormatMisreads adds to this.
FsOn(d) == IF Behind(d) = None THEN None ELSE disk[Behind(d)].fs

\* mkfs -F: it refuses a device that is mounted.
Formattable(d) == Behind(d) # None /\ ~InUse(Behind(d))
Destroyed(data, how) == IF data = "some" THEN how ELSE data
Formatted(d, fs) ==
  disk' = [disk EXCEPT ![Behind(d)] = [fs |-> fs, data |-> Destroyed(@.data, "overwritten"),
                                       size |-> @.size, room |-> @.size, unread |-> @.unread]]

\* mount: the kernel wants the right type and an existing directory, and
\* refuses what is on top of that directory already.
Mountable(d, p, fs) ==
  /\ Behind(d) # None
  /\ disk[Behind(d)].fs = fs
  /\ p \in dirs
  /\ Shown(p).vol # Behind(d)
MountOn(p, entry) == mounts' = [mounts EXCEPT ![p] = Append(@, entry)]

\* umount takes the topmost mount away.
UnmountTop(p) == mounts' = [mounts EXCEPT ![p] = SubSeq(@, 1, Len(@) - 1)]

\* os.RemoveAll: on a path where something is mounted it deletes the files
\* of that, and only fails to remove the path itself.
RemovedAll(p) ==
  IF Mounted(p)
  THEN /\ disk' = IF Shown(p).vol = Host THEN disk
                  ELSE [disk EXCEPT ![Shown(p).vol].data = Destroyed(@, "deleted")]
       /\ UNCHANGED dirs
  ELSE dirs' = dirs \ {p} /\ UNCHANGED disk

\* resize2fs of a device, xfs_growfs of a mounted path: both need their own
\* kind of filesystem, mounted.
Resizable(d, p, fs) ==
  IF fs = "xfs" THEN Shown(p).vol # Host /\ disk[Shown(p).vol].fs = fs
  ELSE Behind(d) # None /\ InUse(Behind(d)) /\ disk[Behind(d)].fs = fs
Resized(d, p, fs) ==
  LET v == IF fs = "xfs" THEN Shown(p).vol ELSE Behind(d)
  IN disk' = [disk EXCEPT ![v].room = disk[v].size]

HostInit == /\ plugged = [d \in Devices |-> None]
            /\ disk = [v \in Volumes |-> Blank]
            /\ mounts = [p \in Paths |-> <<>>]
            /\ dirs = {}
=============================================================================
