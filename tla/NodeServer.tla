----------------------------- MODULE NodeServer -----------------------------
(***************************************************************************)
(* The CSI node service, pkg/vcloud/nodeserver.go: concurrent gRPC handlers*)
(* that format, mount and unmount, each holding one key "volume-path" of   *)
(* the lock table, NodeExpandVolume none.                                  *)
(*                                                                         *)
(* A handler takes one step for each look at the host or change of it; pc  *)
(* names the step it is about to take.  A mount that outlasts MountTimeout *)
(* is given up by its handler but goes on in a goroutine (late).           *)
(*                                                                         *)
(* The orchestrator is part of the model, as CSI prescribes it: it keeps   *)
(* the order stage, publish, unpublish, unstage for what it was told, and  *)
(* repeats a call whose answer it missed.                                  *)
(***************************************************************************)
EXTENDS VolumeLocks, NodeHost

CONSTANTS
  Handlers,      \* the goroutines serving calls
  Requests,      \* the calls the orchestrator may make
  MaxFaults,     \* bound on failures, lost answers, timeouts, given-up calls, ends
  MaxSize,       \* bound on the size of a volume
  MountsHang     \* a mount may outlast MountTimeout

VARIABLES
  pc,            \* what each handler does next
  req,           \* the call each handler serves
  late,          \* device mounts given up by their handler, still running
  unheard,       \* handlers serving a call that its caller has given up
  faultsLeft,    \* how many more faults there may be
  wanted,        \* target paths at which a pod wants its volume
  open,          \* paths at which something may be mounted, as far as is known
  told,          \* paths at which the volume is, as the driver has answered
  filled         \* volumes that, as the driver has answered, are fully used

known == <<open, told, filled>>
handling == <<locks, pc, req, unheard, faultsLeft, open, told, filled>>
vars == <<plugged, disk, mounts, dirs, locks, pc, req, late, unheard, faultsLeft,
          wanted, open, told, filled>>

Ops == {"stage", "unstage", "publish", "unpublish", "expand"}

\* A call: fs is the mount capability's filesystem type, DefaultFSType when
\* the capability names none, "block" for a block capability, None for no
\* capability.  path is the staging path in a call to stage or unstage and
\* the target path in the others.
RequestType ==
  [op : Ops, volume : Volumes \cup {None}, path : Paths \cup {None},
   device : Devices \cup {Host, None}, fs : FsTypes \cup {"block", None}]

NoRequest == [op |-> None, volume |-> None, path |-> None, device |-> None,
              fs |-> None]

PathsOf(v) == {Staging(v)} \cup TargetsOf(v)

\* The orchestrator derives the path of a call from its volume.
RightPath(r) ==
  (r.volume # None /\ r.path # None)
    => r.path \in IF r.op \in {"stage", "unstage"} THEN {Staging(r.volume)}
                  ELSE TargetsOf(r.volume)

ASSUME NodeAssumption == /\ Requests \subseteq RequestType
                         /\ MaxFaults \in Nat /\ MaxSize \in Nat \ {0}
                         /\ MountsHang \in BOOLEAN
                         /\ None \notin Ops \cup Paths /\ "block" # None
                         /\ \A r \in Requests : RightPath(r)

Busy(h) == pc[h] # "idle"
Serving(h, op, step) == pc[h] = step /\ req[h].op = op

\* The orchestrator waits for the answer of a call to expand at this path.
Expanding(t) == \E h \in Handlers \ unheard :
                  Busy(h) /\ req[h].op = "expand" /\ req[h].path = t

-----------------------------------------------------------------------------
\* Defect: no path is looked for in the arguments.
MalformedButPath(r) == r.volume = None \/ (r.op = "stage" /\ r.fs = None)

\* The argument checks before the lock.
Malformed(r) == \/ r.volume = None \/ r.path = None
                \/ r.op \in {"stage", "publish"} /\ r.fs = None

\* Defect: the volume alone is not locked, nor is anything else.
NoKeys(r) == {}

\* The key "volume-path" that a handler locks for the length of its call.
Keys(r) == IF r.op = "expand" THEN {} ELSE {<<r.volume, r.path>>}

FirstStep(r) == IF r.op = "expand" THEN "device" ELSE "look"

\* The orchestrator's side of a call that is being made and of its answer.
Makes(r) == CASE r.op \in {"stage", "publish"} ->
                   open' = open \cup {r.path} /\ UNCHANGED <<told, filled>>
              [] r.op \in {"unstage", "unpublish"} ->
                   told' = told \ {r.path} /\ UNCHANGED <<open, filled>>
              [] OTHER -> UNCHANGED known
Hears(r) == CASE r.op \in {"stage", "publish"} ->
                   told' = told \cup {r.path} /\ UNCHANGED <<open, filled>>
              [] r.op \in {"unstage", "unpublish"} ->
                   open' = open \ {r.path} /\ UNCHANGED <<told, filled>>
              [] OTHER -> filled' = filled \cup {r.volume} /\ UNCHANGED <<open, told>>

\* When the orchestrator makes a call: with the device path of now, and never
\* to take away what a call that it waits for rests on.  It may have given up
\* an earlier one that is still being served.
MayCall(r) ==
  LET v == r.volume IN
  \/ v = None
  \/ /\ r.op = "stage" /\ TargetsOf(v) \cap wanted # {}
     /\ Behind(r.device) = v \/ r.device = None
  \/ r.op = "publish" /\ r.path \in wanted \cup {None} /\ Staging(v) \in told
  \/ r.op = "expand" /\ r.path \in told \cap wanted
  \/ r.op = "unpublish" /\ r.path \in open \ wanted /\ ~Expanding(r.path)
  \/ /\ r.op = "unstage" /\ r.path \in open
     /\ TargetsOf(v) \cap (wanted \cup open) = {}

-----------------------------------------------------------------------------
Fault == faultsLeft > 0 /\ faultsLeft' = faultsLeft - 1

\* A handler goes on, or replies and releases its key.
GoTo(h, step) == pc' = [pc EXCEPT ![h] = step]
                 /\ UNCHANGED <<locks, req, unheard, faultsLeft, known>>
Return(h) == /\ pc' = [pc EXCEPT ![h] = "idle"]
             /\ req' = [req EXCEPT ![h] = NoRequest]
             /\ unheard' = unheard \ {h}
             /\ Release(Keys(req[h]))

\* An error that follows from what the handler found; one that a failing
\* operation causes; success, of which the answer may be lost.  A mount that
\* is made and then fails, as a bind mount may in its remount, is a success
\* whose answer is lost.
Refuse(h) == Return(h) /\ UNCHANGED <<faultsLeft, known>>
Fail(h) == Return(h) /\ Fault /\ UNCHANGED known
Succeed(h) == /\ Return(h)
              /\ \/ h \notin unheard /\ Hears(req[h]) /\ UNCHANGED faultsLeft
                 \/ h \in unheard /\ UNCHANGED <<faultsLeft, known>>
                 \/ Fault /\ UNCHANGED known

\* A call that arrives is refused for its arguments or for its lock, or served.
Reject(h, r) == /\ ~Busy(h)
                /\ Malformed(r) \/ ~Acquirable(Keys(r))
                /\ UNCHANGED vars
Accept(h, r) == /\ ~Busy(h)
                /\ ~Malformed(r) /\ Acquire(Keys(r))
                /\ pc' = [pc EXCEPT ![h] = FirstStep(r)]
                /\ req' = [req EXCEPT ![h] = r]
                /\ Makes(r)
                /\ UNCHANGED <<host, late, unheard, faultsLeft, wanted>>
Receive(h, r) == MayCall(r) /\ (Reject(h, r) \/ Accept(h, r))

-----------------------------------------------------------------------------
\* NodeStageVolume.
StageLooks(h) ==
  LET r == req[h] IN
  /\ Serving(h, "stage", "look")
  /\ \/ /\ Behind(r.device) = None \/ r.fs = "block"
        /\ Refuse(h) /\ UNCHANGED dirs
     \/ /\ Behind(r.device) # None /\ r.fs # "block"
        /\ \/ Mounted(r.path) /\ Succeed(h) /\ UNCHANGED dirs
           \/ /\ ~Mounted(r.path) /\ GoTo(h, "blkid")
              /\ dirs' = dirs \cup {r.path}
     \/ Fail(h) /\ UNCHANGED dirs
  /\ UNCHANGED <<plugged, disk, mounts, late, wanted>>

\* Defect: Format runs mkfs whatever is on the device.
FormatsAlways(h) == Serving(h, "stage", "blkid") /\ GoTo(h, "mkfs")
                    /\ UNCHANGED <<host, late, wanted>>

\* Format, up to mkfs: a device with a filesystem is left as it is.
FormatLooks(h) ==
  /\ Serving(h, "stage", "blkid")
  /\ \/ GoTo(h, IF FsOn(req[h].device) = None THEN "mkfs" ELSE "mount")
     \/ Fail(h)
  /\ UNCHANGED <<host, late, wanted>>

\* Of a device that blkid cannot read it says no more than of a blank one.
FormatMisreads(h) ==
  LET d == req[h].device IN
  /\ Serving(h, "stage", "blkid") /\ FsOn(d) # None
  /\ Fault /\ pc' = [pc EXCEPT ![h] = "mkfs"]
  /\ disk' = [disk EXCEPT ![Behind(d)].unread = TRUE]
  /\ UNCHANGED <<plugged, mounts, dirs, locks, req, known, unheard, late, wanted>>

FormatMakes(h) ==
  LET d == req[h].device IN
  /\ Serving(h, "stage", "mkfs")
  /\ \/ Formattable(d) /\ Formatted(d, req[h].fs) /\ GoTo(h, "mount")
     \/ ~Formattable(d) /\ Refuse(h) /\ UNCHANGED disk
     \/ Fail(h) /\ UNCHANGED disk
  /\ UNCHANGED <<plugged, mounts, dirs, late, wanted>>

DeviceMount(r) == [vol |-> Behind(r.device), dev |-> r.device]

\* Defect: the error of the mount is logged and no more.
MountsHopefully(h) ==
  LET r == req[h] IN
  /\ Serving(h, "stage", "mount")
  /\ \/ Mountable(r.device, r.path, r.fs) /\ MountOn(r.path, DeviceMount(r))
     \/ UNCHANGED mounts
  /\ Succeed(h)
  /\ UNCHANGED <<plugged, disk, dirs, late, wanted>>

\* WaitUntilTimeout around Mount.  The timeout is an error for the caller,
\* but nothing stops the mount.
StageMounts(h) ==
  LET r == req[h] IN
  /\ Serving(h, "stage", "mount")
  /\ \/ /\ Mountable(r.device, r.path, r.fs) /\ MountOn(r.path, DeviceMount(r))
        /\ Succeed(h) /\ UNCHANGED late
     \/ /\ ~Mountable(r.device, r.path, r.fs) /\ Refuse(h)
        /\ UNCHANGED <<mounts, late>>
     \/ Fail(h) /\ UNCHANGED <<mounts, late>>
     \/ /\ MountsHang /\ Fail(h) /\ late' = late \cup {r}
        /\ UNCHANGED mounts
  /\ UNCHANGED <<plugged, disk, dirs, wanted>>

\* Defect: a mount point is staged anew.
StageForgetsMounted(h) ==
  LET r == req[h] IN
  \/ /\ Serving(h, "stage", "look") /\ Behind(r.device) # None
     /\ GoTo(h, "blkid") /\ dirs' = dirs \cup {r.path}
     /\ UNCHANGED <<plugged, disk, mounts, late, wanted>>
  \/ FormatLooks(h) \/ FormatMisreads(h) \/ FormatMakes(h) \/ StageMounts(h)

NodeStageVolume(h) ==
  \/ StageLooks(h) \/ FormatLooks(h) \/ FormatMisreads(h)
  \/ FormatMakes(h) \/ StageMounts(h)

-----------------------------------------------------------------------------
\* NodeUnstageVolume and NodeUnpublishVolume do the same to different paths.

\* Defect: a path that does not exist is an error.
UndoWantsPath(h, op) ==
  LET p == req[h].path IN
  /\ Serving(h, op, "look")
  /\ \/ p \notin dirs /\ Refuse(h)
     \/ p \in dirs /\ ~Mounted(p) /\ Succeed(h)
     \/ Mounted(p) /\ GoTo(h, "unmount")
     \/ Fail(h)
  /\ UNCHANGED <<host, late, wanted>>

\* Defect: a failing look counts as not mounted.
UndoTrusts(h, op) ==
  LET p == req[h].path IN
  /\ Serving(h, op, "look")
  /\ (Mounted(p) /\ GoTo(h, "unmount")) \/ Succeed(h)
  /\ UNCHANGED <<host, late, wanted>>

\* A path that does not exist, or is no mount point, is done with.
UndoLooks(h, op) ==
  LET p == req[h].path IN
  /\ Serving(h, op, "look")
  /\ \/ ~Mounted(p) /\ Succeed(h)
     \/ Mounted(p) /\ GoTo(h, "unmount")
     \/ Fail(h)
  /\ UNCHANGED <<host, late, wanted>>

UndoUnmounts(h, op) ==
  LET p == req[h].path IN
  /\ Serving(h, op, "unmount")
  /\ \/ Mounted(p) /\ UnmountTop(p) /\ GoTo(h, "remove")
     \/ ~Mounted(p) /\ Refuse(h) /\ UNCHANGED mounts
     \/ Fail(h) /\ UNCHANGED mounts
  /\ UNCHANGED <<plugged, disk, dirs, late, wanted>>

\* A path that cannot be removed is only worth a warning.
UndoRemoves(h, op) ==
  /\ Serving(h, op, "remove")
  /\ \/ RemovedAll(req[h].path) /\ Succeed(h)
     \/ /\ Return(h) /\ Fault /\ Hears(req[h])
        /\ UNCHANGED <<disk, dirs>>
  /\ UNCHANGED <<plugged, mounts, late, wanted>>

NodeUnstageVolume(h) ==
  \/ UndoLooks(h, "unstage") \/ UndoUnmounts(h, "unstage") \/ UndoRemoves(h, "unstage")

\* Defect: the directory is removed with what is still mounted on it.
UnpublishForcesRemoval(h) ==
  \/ UndoLooks(h, "unpublish")
  \/ /\ Serving(h, "unpublish", "unmount") /\ GoTo(h, "remove")
     /\ UNCHANGED <<host, late, wanted>>
  \/ UndoRemoves(h, "unpublish")

NodeUnpublishVolume(h) ==
  \/ UndoLooks(h, "unpublish") \/ UndoUnmounts(h, "unpublish") \/ UndoRemoves(h, "unpublish")

-----------------------------------------------------------------------------
\* NodePublishVolume: only its target is locked.
PublishLooks(h) ==
  LET s == Staging(req[h].volume) IN
  /\ Serving(h, "publish", "look")
  /\ \/ ~Mounted(s) /\ Refuse(h)
     \/ Mounted(s) /\ GoTo(h, "target")
     \/ Fail(h)
  /\ UNCHANGED <<host, late, wanted>>

PublishLooksAtTarget(h) ==
  LET t == req[h].path IN
  /\ Serving(h, "publish", "target")
  /\ \/ Mounted(t) /\ Succeed(h) /\ UNCHANGED dirs
     \/ ~Mounted(t) /\ GoTo(h, "bind") /\ dirs' = dirs \cup {t}
     \/ Fail(h) /\ UNCHANGED dirs
  /\ UNCHANGED <<plugged, disk, mounts, late, wanted>>

\* The bind mount shows what the staging path shows by now, if only a
\* directory of the node's own disk.
PublishBinds(h) ==
  LET r == req[h]
      s == Staging(r.volume)
  IN /\ Serving(h, "publish", "bind")
     /\ \/ /\ {s, r.path} \subseteq dirs
           /\ MountOn(r.path, Shown(s)) /\ Succeed(h)
        \/ /\ ~({s, r.path} \subseteq dirs) /\ Refuse(h)
           /\ UNCHANGED mounts
        \/ Fail(h) /\ UNCHANGED mounts
     /\ UNCHANGED <<plugged, disk, dirs, late, wanted>>

NodePublishVolume(h) ==
  PublishLooks(h) \/ PublishLooksAtTarget(h) \/ PublishBinds(h)

-----------------------------------------------------------------------------
\* NodeExpandVolume, without a lock and without a look at its context: it
\* runs on when its caller gives the call up.  The device is the first entry
\* of /proc/mounts for the path: the one at the bottom.
getDeviceForMountPoint(h) ==
  LET p == req[h].path IN
  /\ Serving(h, "expand", "device")
  /\ \/ /\ Mounted(p)
        /\ req' = [req EXCEPT ![h].device = mounts[p][1].dev]
        /\ pc' = [pc EXCEPT ![h] = "fstype"]
        /\ UNCHANGED <<locks, unheard, faultsLeft, known>>
     \/ ~Mounted(p) /\ Refuse(h)
     \/ Fail(h)
  /\ UNCHANGED <<host, late, wanted>>

\* A device that blkid cannot read is one of an unsupported type here: an
\* error, like every other failure.
ExpandAsksFsType(h) ==
  LET fs == FsOn(req[h].device) IN
  /\ Serving(h, "expand", "fstype")
  /\ \/ /\ fs \in {"ext4", "ext3", "ext2", "xfs"}
        /\ req' = [req EXCEPT ![h].fs = fs]
        /\ pc' = [pc EXCEPT ![h] = "resize"]
        /\ UNCHANGED <<locks, unheard, faultsLeft, known>>
     \/ fs \notin {"ext4", "ext3", "ext2", "xfs"} /\ Refuse(h)
     \/ Fail(h)
  /\ UNCHANGED <<host, late, wanted>>

\* Defect: the output of the resize is logged, its status not looked at.
ExpandIgnoresStatus(h) ==
  LET r == req[h] IN
  /\ Serving(h, "expand", "resize")
  /\ \/ Resizable(r.device, r.path, r.fs) /\ Resized(r.device, r.path, r.fs)
     \/ UNCHANGED disk
  /\ Succeed(h)
  /\ UNCHANGED <<plugged, mounts, dirs, late, wanted>>

ExpandResizes(h) ==
  LET r == req[h]
      able == Resizable(r.device, r.path, r.fs)
  IN /\ Serving(h, "expand", "resize")
     /\ \/ able /\ Resized(r.device, r.path, r.fs) /\ Succeed(h)
        \/ ~able /\ Refuse(h) /\ UNCHANGED disk
        \/ Fail(h) /\ UNCHANGED disk
     /\ UNCHANGED <<plugged, mounts, dirs, late, wanted>>

NodeExpandVolume(h) ==
  getDeviceForMountPoint(h) \/ ExpandAsksFsType(h) \/ ExpandResizes(h)

Step(h) == \/ NodeStageVolume(h) \/ NodeUnstageVolume(h)
           \/ NodePublishVolume(h) \/ NodeUnpublishVolume(h)
           \/ NodeExpandVolume(h)

-----------------------------------------------------------------------------
\* The orchestrator waits no longer for the answer of a call to expand.
GiveUp(h) ==
  /\ Busy(h) /\ req[h].op = "expand" /\ h \notin unheard
  /\ Fault /\ unheard' = unheard \cup {h}
  /\ UNCHANGED <<host, locks, pc, req, late, wanted, known>>

\* A mount whose handler has timed out ends, well or not.
Land(r) ==
  /\ r \in late /\ late' = late \ {r}
  /\ \/ Mountable(r.device, r.path, r.fs) /\ MountOn(r.path, DeviceMount(r))
     \/ UNCHANGED mounts
  /\ UNCHANGED <<plugged, disk, dirs, handling, wanted>>

\* The process is killed and started again.
Die == /\ Fault
       /\ pc' = [h \in Handlers |-> "idle"]
       /\ req' = [h \in Handlers |-> NoRequest]
       /\ unheard' = {} /\ NewVolumeLocks
Crash == Die /\ UNCHANGED <<host, late, wanted, known>>

\* The node goes down and up: no mount survives, and the orchestrator knows.
Reboot == /\ Die
          /\ mounts' = [p \in Paths |-> <<>>]
          /\ late' = {} /\ told' = {}
          /\ UNCHANGED <<plugged, disk, dirs, wanted, open, filled>>

-----------------------------------------------------------------------------
\* The rest of the world: pods come and go and write, volumes are attached
\* to the node, grown, and detached.
Want(t) == /\ wanted' = wanted \cup {t} /\ t \notin wanted
           /\ UNCHANGED <<host, handling, late>>
Unwant(t) == /\ wanted' = wanted \ {t} /\ t \in wanted
             /\ UNCHANGED <<host, handling, late>>

PodWrites(t) ==
  LET v == Shown(t).vol IN
  /\ t \in told /\ v # Host
  /\ disk[v].data = "none" /\ disk' = [disk EXCEPT ![v].data = "some"]
  /\ UNCHANGED <<plugged, mounts, dirs, handling, late, wanted>>

Grow(v) ==
  /\ Attached(v) /\ disk[v].size < MaxSize
  /\ disk' = [disk EXCEPT ![v].size = @ + 1]
  /\ filled' = filled \ {v}
  /\ UNCHANGED <<plugged, mounts, dirs, locks, pc, req, unheard, faultsLeft,
                 open, told, late, wanted>>

Attach(v, d) ==
  /\ TargetsOf(v) \cap wanted # {} /\ ~Attached(v)
  /\ plugged[d] = None /\ plugged' = [plugged EXCEPT ![d] = v]
  /\ UNCHANGED <<disk, mounts, dirs, handling, late, wanted>>

Detach(v, d) ==
  /\ plugged[d] = v /\ plugged' = [plugged EXCEPT ![d] = None]
  /\ TargetsOf(v) \cap wanted = {} /\ PathsOf(v) \cap open = {}
  /\ UNCHANGED <<disk, mounts, dirs, handling, late, wanted>>

World == \/ \E t \in Targets : Want(t) \/ Unwant(t) \/ PodWrites(t)
         \/ \E v \in Volumes : \/ Grow(v)
                               \/ \E d \in Devices : Attach(v, d) \/ Detach(v, d)

Init == /\ HostInit
        /\ pc = [h \in Handlers |-> "idle"]
        /\ req = [h \in Handlers |-> NoRequest]
        /\ locks = {} /\ late = {} /\ unheard = {} /\ faultsLeft = MaxFaults
        /\ wanted = {} /\ open = {} /\ told = {} /\ filled = {}

Next == \/ \E h \in Handlers : \/ Step(h) \/ GiveUp(h)
                              \/ \E r \in Requests : Receive(h, r)
        \/ \E r \in late : Land(r)
        \/ Crash \/ Reboot \/ World

Spec == Init /\ [][Next]_vars

\* Handlers run; the orchestrator repeats a call for as long as it wants what
\* the call does; the controller attaches what is wanted, detaches the rest.
FairSpec ==
  /\ Spec
  /\ \A h \in Handlers : WF_vars(Step(h))
  /\ \A r \in Requests : SF_vars(\E h \in Handlers : Receive(h, r))
  /\ \A v \in Volumes : \A d \in Devices : SF_vars(Attach(v, d)) /\ WF_vars(Detach(v, d))
=============================================================================
