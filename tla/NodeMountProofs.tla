--------------------------- MODULE NodeMountProofs ---------------------------
(***************************************************************************)
(* Proofs about what the paths show and what becomes of the data on the    *)
(* volumes, on nodes where no mount outlasts MountTimeout.                 *)
(***************************************************************************)
EXTENDS NodeProofs

USE DEF host, known, handling

\* What a call that is being served rests on: what the orchestrator knows of
\* its path and of the other paths of its volume, the device, and what the
\* handler has looked at before its last step.
CallKnown(h) ==
  LET r == req[h] IN
  /\ r.op \in {"stage", "publish"} => r.path \in open
  /\ r.op \in {"unstage", "unpublish"} => r.path \notin told
  /\ r.op = "unstage" => TargetsOf(r.volume) \cap open = {}
  /\ r.op = "publish" => Staging(r.volume) \in told
CallDevice(h) ==
  LET r == req[h] IN
  r.op = "stage" => \/ r.device = None /\ pc[h] = "look"
                    \/ Behind(r.device) = r.volume
CallPath(h) ==
  LET r == req[h] IN
  /\ r.op = "stage" /\ pc[h] # "look" => ~Mounted(r.path)
  /\ r.op = "stage" /\ pc[h] = "mkfs" => disk[r.volume].fs = None \/ disk[r.volume].unread
  /\ pc[h] \in {"bind", "remove"} => ~Mounted(r.path)
CallInv(h) == CallKnown(h) /\ CallDevice(h) /\ CallPath(h)

\* What a path shows, and what the orchestrator knows of it.
PathInv(p) ==
  /\ Mounted(p) => /\ Len(mounts[p]) = 1
                   /\ p \in open
                   /\ Shown(p).vol = VolumeOf(p)
                   /\ Behind(Shown(p).dev) = VolumeOf(p)
                   /\ disk[VolumeOf(p)].fs # None
  /\ p \in told => Mounted(p)

\* A pod's data is, or was, on a filesystem.
DataInv(v) == /\ disk[v].data # "deleted"
              /\ disk[v].data = "overwritten" => disk[v].unread
              /\ disk[v].data # "none" => disk[v].fs # None

MountInv ==
  /\ LockInv
  /\ late = {}
  /\ \A h \in Handlers : Busy(h) => CallInv(h)
  /\ \A p \in Paths : PathInv(p)
  /\ \A v \in Volumes : DataInv(v)

-----------------------------------------------------------------------------
LEMMA VolumeOfPath ==
  ASSUME NEW v \in Volumes
  PROVE  /\ VolumeOf(Staging(v)) = v
         /\ \A t \in TargetsOf(v) : VolumeOf(t) = v
         /\ \A p \in PathsOf(v) : p \in Paths /\ VolumeOf(p) = v
<1>1. Staging(v) \notin Targets /\ \A w \in Volumes : Staging(w) = Staging(v) => w = v
  BY HostAssumption DEF Staging, Stagings
<1>2. VolumeOf(Staging(v)) = v
  BY <1>1 DEF VolumeOf
<1>3. \A t \in TargetsOf(v) : VolumeOf(t) = v
  BY DEF TargetsOf, VolumeOf
<1>4. QED
  BY <1>2, <1>3 DEF PathsOf, TargetsOf, Paths, Stagings

LEMMA PathOfVolume ==
  ASSUME NEW p \in Paths
  PROVE  VolumeOf(p) \in Volumes /\ p \in PathsOf(VolumeOf(p))
<1>1. CASE p \in Targets
  BY <1>1, HostAssumption DEF VolumeOf, PathsOf, TargetsOf
<1>2. CASE p \notin Targets
  <2>1. PICK v \in Volumes : p = Staging(v)
    BY <1>2 DEF Paths, Stagings
  <2>2. QED
    BY <2>1, VolumeOfPath DEF PathsOf
<1>3. QED
  BY <1>1, <1>2

\* A call that is being served, and its path.
LEMMA CallsPath ==
  ASSUME LockInv, NEW h \in Handlers, Busy(h)
  PROVE  LET r == req[h] IN
         /\ r.volume \in Volumes /\ r.path \in Paths /\ r.op \in Ops
         /\ r.path \in PathsOf(r.volume) /\ VolumeOf(r.path) = r.volume
         /\ r.op \in {"stage", "unstage"} => r.path = Staging(r.volume)
         /\ r.op \notin {"stage", "unstage"} => r.path \in TargetsOf(r.volume)
<1> DEFINE r == req[h]
<1>1. r.volume \in Volumes /\ r.path \in Paths /\ r.op \in Ops /\ RightPath(r)
  BY ServedCalls DEF LockInv, RightCalls
<1>2. /\ r.op \in {"stage", "unstage"} => r.path = Staging(r.volume)
      /\ r.op \notin {"stage", "unstage"} => r.path \in TargetsOf(r.volume)
  BY <1>1, HostAssumption, NodeAssumption DEF RightPath
<1>3. r.path \in PathsOf(r.volume) /\ VolumeOf(r.path) = r.volume
  BY <1>1, <1>2, VolumeOfPath DEF PathsOf
<1>4. QED
  BY <1>1, <1>2, <1>3

\* What a handler's step may change: its own path, what is known of it, and
\* by mkfs the filesystem of the volume that it stages.  That blkid could not
\* read a volume is not forgotten.
Bounded(h) ==
  LET p == req[h].path IN
  /\ \A q \in Paths \ {p} : mounts'[q] = mounts[q]
  /\ open' \subseteq open /\ open \ {p} \subseteq open'
  /\ told \subseteq told' /\ told' \subseteq told \cup {p}
  /\ UNCHANGED plugged
  /\ req[h].op = "expand" => UNCHANGED <<mounts, open, told>>
  /\ \A v \in Volumes :
       \/ disk'[v].fs = disk[v].fs
       \/ disk'[v].fs # None /\ req[h].op = "stage" /\ pc[h] = "mkfs" /\ v = Behind(req[h].device)
  /\ \A v \in Volumes : disk[v].unread => disk'[v].unread

LEMMA StepBounded ==
  ASSUME LockInv, NEW h \in Handlers, Step(h)
  PROVE  Bounded(h)
<1> USE DEF Serving
<1> DEFINE r == req[h]
<1>1. Busy(h) /\ (Moves(h) \/ Returns(h)) /\ TypeInv
  BY StepShapes DEF LockInv
<1>2. r.path \in Paths /\ r.op \in Ops
  BY <1>1, ServedCalls
<1>3. /\ open' \subseteq open /\ open \ {r.path} \subseteq open'
      /\ told \subseteq told' /\ told' \subseteq told \cup {r.path}
      /\ r.op = "expand" => UNCHANGED <<open, told>>
  <2>1. CASE UNCHANGED known
    BY <2>1
  <2>2. CASE Hears(r)
    BY <2>2 DEF Hears
  <2>3. QED
    BY <1>1, <2>1, <2>2 DEF Moves, Returns
<1>4. HostTypeOK /\ Serves(r, pc[h])
  BY <1>1, ServedCalls DEF TypeInv
<1>5. /\ UNCHANGED plugged
      /\ UNCHANGED mounts \/ UnmountTop(r.path) \/ \E e : MountOn(r.path, e)
      /\ r.op = "expand" => UNCHANGED mounts
  BY DEF Step, NodeStageVolume, StageLooks, FormatLooks, FormatMisreads, FormatMakes,
         StageMounts,
         NodeUnstageVolume, NodeUnpublishVolume, UndoLooks, UndoUnmounts, UndoRemoves,
         NodePublishVolume, PublishLooks, PublishLooksAtTarget, PublishBinds,
         NodeExpandVolume, getDeviceForMountPoint, ExpandAsksFsType, ExpandResizes
<1>6. \/ UNCHANGED disk
      \/ FormatMisreads(h)
      \/ r.op = "stage" /\ pc[h] = "mkfs" /\ Formatted(r.device, r.fs)
      \/ RemovedAll(r.path)
      \/ Resized(r.device, r.path, r.fs)
  BY DEF Step, NodeStageVolume, StageLooks, FormatLooks, FormatMisreads, FormatMakes,
         StageMounts,
         NodeUnstageVolume, NodeUnpublishVolume, UndoLooks, UndoUnmounts, UndoRemoves,
         NodePublishVolume, PublishLooks, PublishLooksAtTarget, PublishBinds,
         NodeExpandVolume, getDeviceForMountPoint, ExpandAsksFsType, ExpandResizes
<1>7. \A q \in Paths \ {r.path} : mounts'[q] = mounts[q]
  BY <1>4, <1>5 DEF UnmountTop, MountOn, HostTypeOK
<1>8. ASSUME NEW v \in Volumes
      PROVE  /\ \/ disk'[v].fs = disk[v].fs
                \/ disk'[v].fs # None /\ r.op = "stage" /\ pc[h] = "mkfs" /\ v = Behind(r.device)
             /\ disk[v].unread => disk'[v].unread
  <2>1. CASE r.op = "stage" /\ pc[h] = "mkfs" /\ Formatted(r.device, r.fs)
    <3>1. r.fs \in FsTypes /\ None \notin FsTypes
      BY <1>4, <2>1, HostAssumption DEF Serves, RequestType, Malformed
    <3>2. QED
      BY <1>4, <2>1, <3>1 DEF Formatted, HostTypeOK
  <2>2. CASE RemovedAll(r.path)
    <3> DEFINE w == Shown(r.path).vol
               x == Destroyed(disk[w].data, "deleted")
    <3>1. disk' = disk \/ disk' = [disk EXCEPT ![w].data = x]
      BY <2>2 DEF RemovedAll
    <3> HIDE DEF w, x
    <3>2. disk'[v] = disk[v] \/ disk'[v] = [disk[v] EXCEPT !.data = x]
      BY <1>4, <3>1 DEF HostTypeOK
    <3>3. disk[v] \in [fs : FsTypes \cup {None}, data : DataStates, size : 1..MaxSize,
                      room : 0..MaxSize, unread : BOOLEAN]
      BY <1>4 DEF HostTypeOK
    <3>4. QED
      BY <3>2, <3>3
  <2>3. CASE Resized(r.device, r.path, r.fs)
    BY <1>4, <2>3 DEF Resized, HostTypeOK
  <2>4. CASE FormatMisreads(h)
    BY <1>4, <2>4 DEF FormatMisreads, HostTypeOK
  <2>5. QED
    BY <1>6, <2>1, <2>2, <2>3, <2>4
<1>9. QED
  BY <1>3, <1>5, <1>7, <1>8 DEF Bounded

\* A handler's step leaves alone what the calls of the others rest on.
LEMMA StepKeepsOthers ==
  ASSUME MountInv, NEW h \in Handlers, NEW g \in Handlers \ {h}, Busy(h), Busy(g),
         Bounded(h), pc'[g] = pc[g], req'[g] = req[g]
  PROVE  CallInv(g)'
<1> DEFINE r == req[g]
           p == req[h].path
<1>1. /\ LockInv /\ CallInv(g) /\ CallInv(h)
      /\ Serves(r, pc[g]) /\ Serves(req[h], pc[h])
  BY ServedCalls DEF MountInv, LockInv
<1>2. /\ r.volume \in Volumes /\ r.path \in Paths /\ r.op \in Ops
      /\ r.op \in {"stage", "unstage"} => r.path = Staging(r.volume)
  BY <1>1, CallsPath
<1>3. CASE r.op = "expand"
  BY <1>1, <1>3 DEF CallInv, CallKnown, CallDevice, CallPath, Serves
<1>4. CASE r.op # "expand"
  <2>1. req[h].op # "expand" => r.path # p
    BY <1>1, <1>4, OnePath
  <2>2. /\ mounts'[r.path] = mounts[r.path]
        /\ (r.path \in open') = (r.path \in open)
        /\ (r.path \in told') = (r.path \in told)
        /\ open' \subseteq open /\ told \subseteq told' /\ UNCHANGED plugged
    BY <1>2, <2>1 DEF Bounded
  <2>3. CallKnown(g)'
    BY <1>1, <2>2 DEF CallInv, CallKnown
  <2>4. CallDevice(g)'
    BY <1>1, <2>2 DEF CallInv, CallDevice, Behind
  <2>5. ASSUME r.op = "stage", pc[g] = "mkfs"
        PROVE  disk'[r.volume].fs = None \/ disk'[r.volume].unread
    <3>1. disk[r.volume].fs = None \/ disk[r.volume].unread
      BY <1>1, <2>5 DEF CallInv, CallPath
    <3>2. CASE req[h].op = "stage" /\ pc[h] = "mkfs" /\ r.volume = Behind(req[h].device)
      <4>1. r.volume = req[h].volume
        BY <1>1, <3>2 DEF CallInv, CallDevice
      <4>2. p = Staging(r.volume) /\ r.path = Staging(r.volume)
        BY <1>1, <1>2, <2>5, <3>2, <4>1, CallsPath
      <4>3. QED
        BY <2>1, <3>2, <4>2
    <3>3. QED
      BY <1>2, <3>1, <3>2 DEF Bounded
  <2>6. CallPath(g)'
    BY <1>1, <2>2, <2>5 DEF CallInv, CallPath, Mounted
  <2>7. QED
    BY <2>3, <2>4, <2>6 DEF CallInv
<1>5. QED
  BY <1>3, <1>4

\* Nor does it touch what the other paths show.
LEMMA StepKeepsPaths ==
  ASSUME MountInv, NEW h \in Handlers, Busy(h), Bounded(h), NEW q \in Paths \ {req[h].path}
  PROVE  PathInv(q)'
<1>1. /\ PathInv(q) /\ mounts'[q] = mounts[q] /\ UNCHANGED plugged
      /\ (q \in open') = (q \in open) /\ (q \in told') = (q \in told)
  BY DEF MountInv, Bounded
<1>2. disk[VolumeOf(q)].fs # None => disk'[VolumeOf(q)].fs # None
  BY PathOfVolume DEF Bounded
<1>3. QED
  BY <1>1, <1>2 DEF PathInv, Mounted, Shown, Behind

\* It formats no volume that has a filesystem, unless blkid could not read it,
\* and removes no directory on which something is mounted.
LEMMA StepKeepsData ==
  ASSUME MountInv, NEW h \in Handlers, Step(h), NEW v \in Volumes
  PROVE  DataInv(v)'
<1> USE DEF Serving
<1> DEFINE r == req[h]
<1>1. Busy(h) /\ LockInv /\ TypeInv /\ HostTypeOK
  BY StepShapes DEF MountInv, LockInv, TypeInv
<1>2. CallInv(h) /\ DataInv(v) /\ r.volume \in Volumes
  BY <1>1, CallsPath DEF MountInv
<1>3. \/ UNCHANGED disk
      \/ FormatMisreads(h)
      \/ r.op = "stage" /\ pc[h] = "mkfs" /\ Formatted(r.device, r.fs)
      \/ pc[h] = "remove" /\ RemovedAll(r.path)
      \/ Resized(r.device, r.path, r.fs)
  BY DEF Step, NodeStageVolume, StageLooks, FormatLooks, FormatMisreads, FormatMakes,
         StageMounts,
         NodeUnstageVolume, NodeUnpublishVolume, UndoLooks, UndoUnmounts, UndoRemoves,
         NodePublishVolume, PublishLooks, PublishLooksAtTarget, PublishBinds,
         NodeExpandVolume, getDeviceForMountPoint, ExpandAsksFsType, ExpandResizes
<1>4. CASE UNCHANGED disk
  BY <1>2, <1>4 DEF DataInv
<1>5. CASE r.op = "stage" /\ pc[h] = "mkfs" /\ Formatted(r.device, r.fs)
  <2>1. /\ Behind(r.device) = r.volume /\ DataInv(r.volume)
        /\ disk[r.volume].fs = None \/ disk[r.volume].unread
        /\ r.fs # None
    BY <1>1, <1>2, <1>5, ServedCalls, HostAssumption
       DEF CallInv, CallDevice, CallPath, MountInv, Malformed
  <2>2. disk[r.volume].data = "none" \/ disk[r.volume].unread
    BY <1>1, <1>2, <2>1 DEF DataInv
  <2>3. /\ disk'[r.volume].fs = r.fs /\ disk'[r.volume].unread = disk[r.volume].unread
        /\ disk'[r.volume].data = Destroyed(disk[r.volume].data, "overwritten")
    BY <1>1, <1>2, <1>5, <2>1 DEF Formatted, HostTypeOK
  <2>4. ASSUME v = r.volume PROVE DataInv(v)'
    BY <2>1, <2>2, <2>3, <2>4 DEF DataInv, Destroyed
  <2>5. ASSUME v # r.volume PROVE DataInv(v)'
    <3>1. disk'[v] = disk[v]
      BY <1>1, <1>5, <2>1, <2>5 DEF Formatted, HostTypeOK
    <3>2. QED
      BY <1>2, <3>1 DEF DataInv
  <2>6. QED
    BY <2>4, <2>5
<1>6. CASE pc[h] = "remove" /\ RemovedAll(r.path)
  BY <1>2, <1>6 DEF CallInv, CallPath, RemovedAll, DataInv
<1>7. CASE Resized(r.device, r.path, r.fs)
  BY <1>1, <1>2, <1>7 DEF Resized, DataInv, HostTypeOK
<1>8. CASE FormatMisreads(h)
  BY <1>1, <1>2, <1>8 DEF FormatMisreads, DataInv, HostTypeOK
<1>9. QED
  BY <1>3, <1>4, <1>5, <1>6, <1>7, <1>8

\* What it makes of its own call and path: it mounts on a path that shows
\* nothing, and takes away the only mount there is.
OwnKept(h) == (\A p \in {req[h].path} : PathInv(p)') /\ (Busy(h)' => CallInv(h)')

\* The facts about its call and path that every handler starts from.
LEMMA OwnFacts ==
  ASSUME MountInv, NEW h \in Handlers, Step(h)
  PROVE  LET r == req[h] IN
         /\ Busy(h) /\ LockInv /\ TypeInv /\ CallInv(h) /\ Bounded(h)
         /\ r.volume \in Volumes /\ r.path \in Paths /\ VolumeOf(r.path) = r.volume
         /\ r.op = "unstage" => r.path = Staging(r.volume)
         /\ PathInv(r.path) /\ PathInv(Staging(r.volume)) /\ Staging(r.volume) \in Paths
         /\ VolumeOf(Staging(r.volume)) = r.volume /\ r.volume # Host
         /\ HostTypeOK /\ mounts[r.path] \in Seq(Mount)
<1>1. Busy(h) /\ LockInv /\ TypeInv /\ HostTypeOK
  BY StepShapes DEF MountInv, LockInv, TypeInv
<1>2. /\ req[h].volume \in Volumes /\ req[h].path \in Paths
      /\ VolumeOf(req[h].path) = req[h].volume
      /\ req[h].op = "unstage" => req[h].path = Staging(req[h].volume)
      /\ Staging(req[h].volume) \in Paths /\ VolumeOf(Staging(req[h].volume)) = req[h].volume
  BY <1>1, CallsPath, VolumeOfPath DEF Paths, Stagings
<1>3. CallInv(h) /\ Bounded(h) /\ PathInv(req[h].path) /\ PathInv(Staging(req[h].volume))
  BY <1>1, <1>2, StepBounded DEF MountInv
<1>4. mounts[req[h].path] \in Seq(Mount) /\ req[h].volume # Host
  BY <1>1, <1>2, HostAssumption DEF HostTypeOK, Mount
<1>5. QED
  BY <1>1, <1>2, <1>3, <1>4

\* A handler that leaves its path as it was, and goes on.
LEMMA OwnGoesOn ==
  ASSUME MountInv, NEW h \in Handlers, Step(h), NEW s \in Steps, GoTo(h, s),
         UNCHANGED <<plugged, disk, mounts>>,
         req[h].op = "stage" => Behind(req[h].device) = req[h].volume,
         \/ req[h].op = "stage" /\ s # "look"
         \/ s \in {"bind", "remove"}
         => ~Mounted(req[h].path),
         req[h].op = "stage" /\ s = "mkfs"
         => disk[req[h].volume].fs = None \/ disk[req[h].volume].unread
  PROVE  OwnKept(h)
<1>1. Busy(h) /\ CallInv(h) /\ PathInv(req[h].path) /\ TypeInv
  BY OwnFacts
<1>2. pc'[h] = s /\ req'[h] = req[h] /\ UNCHANGED <<plugged, disk, mounts, open, told>>
  BY <1>1 DEF GoTo, TypeInv, ServiceTypeOK
<1>3. \A p \in {req[h].path} : PathInv(p)'
  BY <1>1, <1>2 DEF PathInv, Mounted, Shown, Behind
<1>4. CallKnown(h)'
  BY <1>1, <1>2 DEF CallInv, CallKnown
<1>5. CallDevice(h)' /\ CallPath(h)'
  BY <1>2 DEF CallDevice, CallPath, Behind, Mounted
<1>6. QED
  BY <1>3, <1>4, <1>5 DEF OwnKept, CallInv

\* A handler that leaves its path as it was, and answers: after success, the
\* path is mounted for what mounts, unmounted for what undoes.
LEMMA OwnAnswers ==
  ASSUME MountInv, NEW h \in Handlers, Step(h), Return(h), UNCHANGED <<plugged, mounts>>,
         disk'[req[h].volume].fs = disk[req[h].volume].fs,
         \/ UNCHANGED known
         \/ /\ Hears(req[h])
            /\ req[h].op \in {"stage", "publish"} => Mounted(req[h].path)
            /\ req[h].op \in {"unstage", "unpublish"} => ~Mounted(req[h].path)
  PROVE  OwnKept(h)
<1> DEFINE p == req[h].path
<1>1. /\ Busy(h) /\ PathInv(p) /\ TypeInv /\ VolumeOf(p) = req[h].volume
  BY OwnFacts
<1>2. ~Busy(h)'
  BY <1>1 DEF Return, TypeInv, ServiceTypeOK, Busy
<1>3. Mounted(p) => (p \in open => p \in open')
  BY DEF Hears
<1>4. p \in told' => Mounted(p)
  BY <1>1 DEF Hears, PathInv
<1>5. ASSUME NEW q, q = p
      PROVE  PathInv(q)'
  <2>1. PathInv(q) /\ (Mounted(q) => q \in open') /\ (q \in told' => Mounted(q))
        /\ disk'[VolumeOf(q)].fs = disk[VolumeOf(q)].fs
    BY <1>1, <1>3, <1>4, <1>5 DEF PathInv
  <2>2. QED
    BY <2>1 DEF PathInv, Mounted, Shown, Behind
<1>6. QED
  BY <1>2, <1>5 DEF OwnKept

\* A handler that mounts its volume where nothing is mounted, and answers.
LEMMA OwnMounts ==
  ASSUME MountInv, NEW h \in Handlers, Step(h), Return(h), UNCHANGED <<plugged, disk>>,
         req[h].op \in {"stage", "publish"}, ~Mounted(req[h].path),
         NEW e \in Mount, MountOn(req[h].path, e),
         e.vol = req[h].volume, Behind(e.dev) = req[h].volume, disk[req[h].volume].fs # None,
         UNCHANGED known \/ Hears(req[h])
  PROVE  OwnKept(h)
<1> DEFINE p == req[h].path
<1>1. /\ TypeInv /\ HostTypeOK /\ CallInv(h) /\ p \in Paths /\ VolumeOf(p) = req[h].volume
      /\ mounts[p] = << >>
  BY OwnFacts DEF Mounted
<1>2. ~Busy(h)'
  BY <1>1 DEF Return, TypeInv, ServiceTypeOK, Busy
<1>3. p \in open' /\ UNCHANGED open
  BY <1>1 DEF Hears, CallInv, CallKnown
<1>4. mounts'[p] = <<e>>
  BY <1>1 DEF MountOn, HostTypeOK
<1>5. ASSUME NEW q, q = p
      PROVE  PathInv(q)'
  <2>1. mounts'[q] # << >> /\ Len(mounts'[q]) = 1 /\ mounts'[q][Len(mounts'[q])] = e
    <3>1. <<e>> # << >> /\ Len(<<e>>) = 1 /\ <<e>>[1] = e
      OBVIOUS
    <3>2. QED
      BY <1>4, <1>5, <3>1
  <2>2. Mounted(q)' /\ Shown(q)' = e
    BY <2>1 DEF Mounted, Shown
  <2>3. QED
    BY <1>1, <1>3, <1>5, <2>1, <2>2 DEF PathInv, Behind
<1>6. QED
  BY <1>2, <1>5 DEF OwnKept

LEMMA StageKeepsOwn ==
  ASSUME MountInv, NEW h \in Handlers, Step(h), NodeStageVolume(h)
  PROVE  OwnKept(h)
<1> USE DEF Serving
<1> DEFINE r == req[h]
           v == r.volume
<1>1. /\ Busy(h) /\ TypeInv /\ HostTypeOK /\ CallInv(h) /\ Bounded(h)
      /\ v \in Volumes /\ r.path \in Paths
  BY OwnFacts
<1>2. Serves(r, pc[h]) /\ None \notin Volumes /\ None \notin Devices /\ None \notin FsTypes
  BY <1>1, ServedCalls, HostAssumption
<1>3. CASE StageLooks(h)
  <2>1. CASE GoTo(h, "blkid") /\ Behind(r.device) # None /\ ~Mounted(r.path)
    <3>1. Behind(r.device) = v
      BY <1>1, <1>2, <1>3, <2>1 DEF CallInv, CallDevice, StageLooks, Behind
    <3>2. QED
      BY <1>3, <2>1, <3>1, OwnGoesOn DEF StageLooks, Steps
  <2>2. CASE Refuse(h) \/ Fail(h) \/ (Mounted(r.path) /\ Succeed(h))
    BY <1>3, <2>2, OwnAnswers DEF StageLooks, Refuse, Fail, Succeed
  <2>3. QED
    BY <1>3, <2>1, <2>2 DEF StageLooks
<1>4. CASE FormatLooks(h)
  <2>1. Behind(r.device) = v /\ ~Mounted(r.path)
    BY <1>1, <1>4 DEF CallInv, CallDevice, CallPath, FormatLooks
  <2>2. CASE GoTo(h, "mkfs") /\ FsOn(r.device) = None
    <3>1. disk[v].fs = None
      BY <1>1, <1>2, <2>1, <2>2 DEF FsOn
    <3>2. QED
      BY <1>4, <2>1, <2>2, <3>1, OwnGoesOn DEF FormatLooks, Steps
  <2>3. CASE GoTo(h, "mount")
    BY <1>4, <2>1, <2>3, OwnGoesOn DEF FormatLooks, Steps
  <2>4. CASE Fail(h)
    BY <1>4, <2>4, OwnAnswers DEF FormatLooks, Fail
  <2>5. QED
    BY <1>4, <2>2, <2>3, <2>4 DEF FormatLooks
<1>5. CASE FormatMakes(h)
  <2>1. CASE GoTo(h, "mount")
    <3>1. Behind(r.device) = v /\ ~Mounted(r.path)
      BY <1>1, <1>5 DEF CallInv, CallDevice, CallPath, FormatMakes
    <3>2. /\ pc'[h] = "mount" /\ req'[h] = r
          /\ UNCHANGED <<plugged, mounts, open, told>>
      BY <1>1, <1>5, <2>1 DEF GoTo, FormatMakes, TypeInv, ServiceTypeOK
    <3>3. CallInv(h)'
      BY <1>1, <1>5, <3>1, <3>2
         DEF CallInv, CallKnown, CallDevice, CallPath, Behind, Mounted, FormatMakes
    <3>4. ASSUME NEW q, q = r.path PROVE PathInv(q)'
      BY <3>1, <3>2, <3>4, OwnFacts DEF PathInv, Mounted
    <3>5. QED
      BY <3>3, <3>4 DEF OwnKept
  <2>2. CASE (Refuse(h) \/ Fail(h)) /\ UNCHANGED disk
    BY <1>5, <2>2, OwnAnswers DEF FormatMakes, Refuse, Fail
  <2>3. QED
    BY <1>5, <2>1, <2>2 DEF FormatMakes
<1>6. CASE StageMounts(h)
  <2>1. CASE Mountable(r.device, r.path, r.fs) /\ MountOn(r.path, DeviceMount(r)) /\ Succeed(h)
    <3>1. Behind(r.device) = v /\ ~Mounted(r.path)
      BY <1>1, <1>6 DEF CallInv, CallDevice, CallPath, StageMounts
    <3>2. r.device \in Devices
      BY <1>1, <1>2, <3>1 DEF Behind
    <3>3. disk[v].fs # None
      BY <1>2, <1>6, <2>1, <3>1, NodeAssumption
         DEF Mountable, Serves, RequestType, Malformed, StageMounts
    <3>4. DeviceMount(r) \in Mount /\ DeviceMount(r).vol = v /\ DeviceMount(r).dev = r.device
      BY <1>1, <3>1, <3>2 DEF DeviceMount, Mount
    <3>5. UNCHANGED <<plugged, disk>> /\ r.op = "stage" /\ Return(h)
          /\ (UNCHANGED known \/ Hears(r))
      BY <1>6, <2>1 DEF StageMounts, Succeed
    <3>6. QED
      BY <2>1, <3>1, <3>3, <3>4, <3>5, OwnMounts
  <2>2. CASE (Refuse(h) \/ Fail(h)) /\ UNCHANGED mounts
    BY <1>6, <2>2, OwnAnswers DEF StageMounts, Refuse, Fail
  <2>3. QED
    BY <1>6, <2>1, <2>2 DEF StageMounts
<1>7. CASE FormatMisreads(h)
  <2>1. /\ Behind(r.device) = v /\ ~Mounted(r.path)
        /\ disk' = [disk EXCEPT ![v].unread = TRUE]
    BY <1>1, <1>7 DEF CallInv, CallDevice, CallPath, FormatMisreads
  <2>2. /\ pc'[h] = "mkfs" /\ req'[h] = r /\ disk'[v].unread
        /\ UNCHANGED <<plugged, mounts, open, told>>
    BY <1>1, <1>7, <2>1 DEF FormatMisreads, TypeInv, ServiceTypeOK, HostTypeOK
  <2>3. CallInv(h)'
    BY <1>1, <1>7, <2>1, <2>2
       DEF CallInv, CallKnown, CallDevice, CallPath, Behind, Mounted, FormatMisreads
  <2>4. ASSUME NEW q, q = r.path PROVE PathInv(q)'
    BY <1>1, <2>1, <2>2, <2>4, OwnFacts DEF PathInv, Mounted
  <2>5. QED
    BY <2>3, <2>4 DEF OwnKept
<1>8. QED
  BY <1>3, <1>4, <1>5, <1>6, <1>7 DEF NodeStageVolume

LEMMA UndoKeepsOwn ==
  ASSUME MountInv, NEW h \in Handlers, Step(h), NEW op \in {"unstage", "unpublish"},
         UndoLooks(h, op) \/ UndoUnmounts(h, op) \/ UndoRemoves(h, op)
  PROVE  OwnKept(h)
<1> USE DEF Serving
<1> DEFINE p == req[h].path
<1>1. /\ TypeInv /\ HostTypeOK /\ CallInv(h) /\ p \in Paths /\ PathInv(p)
      /\ mounts[p] \in Seq(Mount)
  BY OwnFacts
<1>2. CASE UndoLooks(h, op)
  <2>1. CASE GoTo(h, "unmount")
    BY <1>2, <2>1, OwnGoesOn DEF UndoLooks, Steps
  <2>2. CASE Fail(h) \/ (~Mounted(p) /\ Succeed(h))
    BY <1>2, <2>2, OwnAnswers DEF UndoLooks, Fail, Succeed
  <2>3. QED
    BY <1>2, <2>1, <2>2 DEF UndoLooks
<1>3. CASE UndoUnmounts(h, op)
  <2>1. CASE Mounted(p) /\ UnmountTop(p) /\ GoTo(h, "remove")
    <3>1. mounts'[p] = << >>
      <4>1. Len(mounts[p]) = 1
        BY <1>1, <2>1 DEF PathInv
      <4>2. SubSeq(mounts[p], 1, 0) = << >>
        BY <1>1
      <4>3. QED
        BY <1>1, <2>1, <4>1, <4>2 DEF UnmountTop, HostTypeOK
    <3>2. /\ pc'[h] = "remove" /\ req'[h] = req[h]
          /\ UNCHANGED <<plugged, open, told, disk>> /\ p \notin told
      BY <1>1, <1>3, <2>1 DEF GoTo, UndoUnmounts, TypeInv, ServiceTypeOK, CallInv, CallKnown
    <3>3. CallInv(h)'
      BY <1>1, <1>3, <3>1, <3>2
         DEF CallInv, CallKnown, CallDevice, CallPath, Behind, Mounted, UndoUnmounts
    <3>4. ASSUME NEW q, q = p PROVE PathInv(q)'
      BY <3>1, <3>2, <3>4 DEF PathInv, Mounted
    <3>5. QED
      BY <3>3, <3>4 DEF OwnKept
  <2>2. CASE (Refuse(h) \/ Fail(h)) /\ UNCHANGED mounts
    BY <1>3, <2>2, OwnAnswers DEF UndoUnmounts, Refuse, Fail
  <2>3. QED
    BY <1>3, <2>1, <2>2 DEF UndoUnmounts
<1>4. CASE UndoRemoves(h, op)
  <2>1. ~Mounted(p) /\ UNCHANGED disk
    BY <1>1, <1>4 DEF UndoRemoves, CallInv, CallPath, RemovedAll
  <2>2. QED
    BY <1>4, <2>1, OwnAnswers DEF UndoRemoves, Succeed
<1>5. QED
  BY <1>2, <1>3, <1>4

LEMMA PublishKeepsOwn ==
  ASSUME MountInv, NEW h \in Handlers, Step(h), NodePublishVolume(h)
  PROVE  OwnKept(h)
<1> USE DEF Serving
<1> DEFINE r == req[h]
           s == Staging(r.volume)
<1>1. /\ Busy(h) /\ TypeInv /\ HostTypeOK /\ CallInv(h) /\ r.path \in Paths
      /\ s \in Paths /\ PathInv(s) /\ VolumeOf(s) = r.volume
  BY OwnFacts
<1>2. CASE PublishLooks(h)
  <2>1. CASE GoTo(h, "target")
    BY <1>2, <2>1, OwnGoesOn DEF PublishLooks, Steps
  <2>2. CASE Refuse(h) \/ Fail(h)
    BY <1>2, <2>2, OwnAnswers DEF PublishLooks, Refuse, Fail
  <2>3. QED
    BY <1>2, <2>1, <2>2 DEF PublishLooks
<1>3. CASE PublishLooksAtTarget(h)
  <2>1. CASE GoTo(h, "bind") /\ ~Mounted(r.path)
    BY <1>3, <2>1, OwnGoesOn DEF PublishLooksAtTarget, Steps
  <2>2. CASE Fail(h) \/ (Mounted(r.path) /\ Succeed(h))
    BY <1>3, <2>2, OwnAnswers DEF PublishLooksAtTarget, Succeed, Fail
  <2>3. QED
    BY <1>3, <2>1, <2>2 DEF PublishLooksAtTarget
<1>4. CASE PublishBinds(h)
  <2>1. CASE MountOn(r.path, Shown(s)) /\ Succeed(h)
    <3>1. ~Mounted(r.path) /\ s \in told
      BY <1>1, <1>4 DEF CallInv, CallKnown, CallPath, PublishBinds
    <3>2. Shown(s).vol = r.volume /\ Behind(Shown(s).dev) = r.volume /\ disk[r.volume].fs # None
      BY <1>1, <3>1 DEF PathInv
    <3>3. Shown(s) \in Mount
      BY <1>1, StackTyped
    <3>4. UNCHANGED <<plugged, disk>> /\ r.op = "publish" /\ Return(h)
          /\ (UNCHANGED known \/ Hears(r))
      BY <1>4, <2>1 DEF PublishBinds, Succeed
    <3>5. QED
      BY <2>1, <3>1, <3>2, <3>3, <3>4, OwnMounts
  <2>2. CASE (Refuse(h) \/ Fail(h)) /\ UNCHANGED mounts
    BY <1>4, <2>2, OwnAnswers DEF PublishBinds, Refuse, Fail
  <2>3. QED
    BY <1>4, <2>1, <2>2 DEF PublishBinds
<1>5. QED
  BY <1>2, <1>3, <1>4 DEF NodePublishVolume

LEMMA ExpandKeepsOwn ==
  ASSUME MountInv, NEW h \in Handlers, Step(h), req[h].op = "expand"
  PROVE  OwnKept(h)
<1>1. /\ Busy(h) /\ TypeInv /\ TypeInv' /\ Bounded(h) /\ PathInv(req[h].path)
      /\ req[h].path \in Paths /\ VolumeOf(req[h].path) \in Volumes
  <2>1. TypeInv'
    BY StepKeepsHost, StepKeepsLate, StepKeepsService, StepShapes, OwnFacts DEF TypeInv
  <2>2. QED
    BY <2>1, OwnFacts, PathOfVolume
<1>2. CallInv(h)' \/ ~Busy(h)'
  <2>1. CASE Moves(h)
    <3>1. req'[h].op = "expand" /\ Serves(req'[h], pc'[h]) /\ Busy(h)'
      BY <1>1, <2>1, SameCall DEF TypeInv, CallsServed
    <3>2. QED
      BY <3>1 DEF CallInv, CallKnown, CallDevice, CallPath, Serves
  <2>2. CASE Returns(h)
    BY <1>1, <2>2 DEF Returns, Return, TypeInv, ServiceTypeOK, Busy
  <2>3. QED
    BY <2>1, <2>2, StepShapes, <1>1
<1>3. ASSUME NEW q, q = req[h].path
      PROVE  PathInv(q)'
  <2>1. PathInv(q) /\ UNCHANGED <<mounts, plugged, open, told>>
        /\ disk'[VolumeOf(q)].fs = disk[VolumeOf(q)].fs
    BY <1>1, <1>3 DEF Bounded
  <2>2. QED
    BY <2>1 DEF PathInv, Mounted, Shown, Behind
<1>4. QED
  BY <1>2, <1>3 DEF OwnKept

LEMMA StepKeepsMounts ==
  ASSUME ~MountsHang, MountInv, LockInv', NEW h \in Handlers, Step(h)
  PROVE  MountInv'
<1>1. Busy(h) /\ LockInv /\ TypeInv /\ Bounded(h) /\ (Moves(h) \/ Returns(h))
  BY OwnFacts, StepShapes
<1>2. OwnKept(h)
  <2>1. \/ NodeStageVolume(h) \/ NodePublishVolume(h)
        \/ \E op \in {"unstage", "unpublish"} :
             UndoLooks(h, op) \/ UndoUnmounts(h, op) \/ UndoRemoves(h, op)
        \/ req[h].op = "expand"
    BY DEF Step, NodeUnstageVolume, NodeUnpublishVolume, NodeExpandVolume, Serving,
           getDeviceForMountPoint, ExpandAsksFsType, ExpandResizes
  <2>2. QED
    BY <2>1, StageKeepsOwn, PublishKeepsOwn, UndoKeepsOwn, ExpandKeepsOwn
<1>3. \A g \in Handlers \ {h} : pc'[g] = pc[g] /\ req'[g] = req[g]
  BY <1>1, SameCall DEF Returns, Return, TypeInv, ServiceTypeOK
<1>4. ASSUME NEW g \in Handlers, Busy(g)' PROVE CallInv(g)'
  <2>1. CASE g = h
    BY <1>2, <1>4, <2>1 DEF OwnKept
  <2>2. CASE g # h
    BY <1>1, <1>3, <1>4, <2>2, StepKeepsOthers DEF Busy
  <2>3. QED
    BY <2>1, <2>2
<1>5. ASSUME NEW p \in Paths PROVE PathInv(p)'
  BY <1>1, <1>2, StepKeepsPaths DEF OwnKept
<1>6. late' = {}
  <2>1. late = {}
    BY DEF MountInv
  <2>2. QED
    BY <2>1 DEF Step, NodeStageVolume, StageLooks, FormatLooks, FormatMisreads, FormatMakes,
         StageMounts,
         NodeUnstageVolume, NodeUnpublishVolume, UndoLooks, UndoUnmounts, UndoRemoves,
         NodePublishVolume, PublishLooks, PublishLooksAtTarget, PublishBinds,
         NodeExpandVolume, getDeviceForMountPoint, ExpandAsksFsType, ExpandResizes
<1>7. \A v \in Volumes : DataInv(v)'
  BY StepKeepsData
<1>8. QED
  BY <1>4, <1>5, <1>6, <1>7 DEF MountInv

-----------------------------------------------------------------------------
\* A new call rests on what the orchestrator looks at before it makes it, and
\* takes from no other call what that rests on: no call to publish while the
\* volume is being unstaged, and the other way round.
LEMMA AcceptKeepsMounts ==
  ASSUME MountInv, LockInv', NEW h \in Handlers, NEW r \in Requests, MayCall(r), Accept(h, r)
  PROVE  MountInv'
<1> DEFINE v == r.volume
           p == r.path
<1>1. /\ LockInv /\ TypeInv /\ r \in RequestType /\ ~Malformed(r) /\ RightPath(r) /\ ~Busy(h)
      /\ KeysHeld /\ Keys(r) \cap locks = {}
  BY NodeAssumption DEF MountInv, LockInv, Accept, Acquire, Acquirable
<1>2. /\ v \in Volumes /\ v # None /\ p \in Paths /\ r.op \in Ops
  BY <1>1, HostAssumption DEF RequestType, Malformed
<1>3. /\ r.op \in {"stage", "unstage"} => p = Staging(v)
      /\ r.op \notin {"stage", "unstage"} => p \in TargetsOf(v)
      /\ p \in PathsOf(v) /\ Staging(v) \notin Targets
  BY <1>1, <1>2, HostAssumption, NodeAssumption DEF RightPath, PathsOf, Malformed, Stagings
<1>4. /\ pc'[h] = FirstStep(r) /\ req'[h] = r
      /\ \A g \in Handlers \ {h} : pc'[g] = pc[g] /\ req'[g] = req[g]
      /\ Makes(r) /\ UNCHANGED <<plugged, disk, mounts, late>>
  BY <1>1 DEF Accept, TypeInv, ServiceTypeOK
<1>5. ASSUME NEW g \in Handlers \ {h}, Busy(g)
      PROVE  /\ CallInv(g) /\ (r.op # "expand" /\ req[g].op # "expand" => req[g].path # p)
             /\ req[g].volume \in Volumes /\ req[g].op \in Ops
             /\ req[g].op \in {"stage", "unstage"} => req[g].path = Staging(req[g].volume)
             /\ req[g].op \notin {"stage", "unstage"} => req[g].path \in TargetsOf(req[g].volume)
  <2>1. /\ req[g].volume \in Volumes /\ req[g].op \in Ops /\ req[g].path \in PathsOf(req[g].volume)
        /\ req[g].op \in {"stage", "unstage"} => req[g].path = Staging(req[g].volume)
        /\ req[g].op \notin {"stage", "unstage"} => req[g].path \in TargetsOf(req[g].volume)
    BY <1>1, <1>5, CallsPath
  <2>2. ASSUME r.op # "expand", req[g].op # "expand" PROVE req[g].path # p
    <3>1. <<req[g].volume, req[g].path>> # <<v, p>>
      BY <1>1, <1>5, <2>2 DEF KeysHeld, Keys
    <3>2. QED
      BY <1>2, <1>3, <2>1, <3>1, PathsApart
  <2>3. QED
    BY <1>5, <2>1, <2>2 DEF MountInv
<1>6. open \subseteq open' /\ told' \subseteq told
  BY <1>4 DEF Makes
<1>7. \A q \in Paths : PathInv(q)'
  BY <1>4, <1>6 DEF MountInv, PathInv, Mounted, Shown, Behind
<1>8. CallInv(h)'
  <2>1. CallKnown(h)'
    <3>1. CASE r.op \in {"stage", "publish"}
      BY <1>2, <1>3, <1>4, <3>1, HostAssumption DEF MayCall, Makes, CallKnown
    <3>2. CASE r.op \in {"unstage", "unpublish"}
      BY <1>2, <1>3, <1>4, <3>2 DEF MayCall, Makes, CallKnown
    <3>3. CASE r.op = "expand"
      BY <1>4, <3>3 DEF CallKnown
    <3>4. QED
      BY <1>2, <3>1, <3>2, <3>3 DEF Ops
  <2>2. CallDevice(h)' /\ CallPath(h)'
    BY <1>2, <1>4 DEF MayCall, CallDevice, CallPath, FirstStep, Behind
  <2>3. QED
    BY <2>1, <2>2 DEF CallInv
<1>9. ASSUME NEW g \in Handlers \ {h}, Busy(g) PROVE CallInv(g)'
  <2> DEFINE w == req[g].volume
  <2>1. /\ CallKnown(g) /\ CallDevice(g) /\ CallPath(g) /\ pc'[g] = pc[g] /\ req'[g] = req[g]
    BY <1>4, <1>5, <1>9 DEF CallInv
  <2>2. CallDevice(g)' /\ CallPath(g)'
    BY <1>4, <2>1 DEF CallDevice, CallPath, Behind, Mounted
  <2>3. ASSUME req[g].op = "unstage" PROVE TargetsOf(w) \cap open' = {}
    <3>1. TargetsOf(w) \cap open = {} /\ Staging(w) \notin told
      BY <1>5, <1>9, <2>1, <2>3 DEF CallKnown
    <3>2. r.op = "publish" => p \notin TargetsOf(w)
      BY <1>2, <1>3, <3>1 DEF MayCall, TargetsOf
    <3>3. r.op = "stage" => p \notin TargetsOf(w)
      BY <1>3 DEF TargetsOf
    <3>4. QED
      BY <1>4, <3>1, <3>2, <3>3 DEF Makes
  <2>4. ASSUME req[g].op = "publish" PROVE Staging(w) \in told'
    <3>1. Staging(w) \in told /\ req[g].path \in open /\ req[g].path \in TargetsOf(w)
      BY <1>5, <1>9, <2>1, <2>4 DEF CallKnown
    <3>2. r.op = "unstage" => p # Staging(w)
      BY <1>2, <1>3, <1>5, <1>9, <3>1 DEF MayCall, Staging
    <3>3. r.op = "unpublish" => p # Staging(w)
      BY <1>3, <1>5, <1>9, HostAssumption DEF TargetsOf, Stagings
    <3>4. QED
      BY <1>4, <3>1, <3>2, <3>3 DEF Makes
  <2>5. CallKnown(g)'
    BY <1>6, <2>1, <2>3, <2>4 DEF CallKnown
  <2>6. QED
    BY <2>2, <2>5 DEF CallInv
<1>10. \A g \in Handlers : Busy(g)' => CallInv(g)'
  BY <1>4, <1>8, <1>9 DEF Busy
<1>11. late' = {} /\ \A w \in Volumes : DataInv(w)'
  BY <1>4 DEF MountInv, DataInv
<1>12. QED
  BY <1>7, <1>10, <1>11 DEF MountInv

LEMMA DieKeepsMounts ==
  ASSUME MountInv, LockInv', Crash \/ Reboot
  PROVE  MountInv'
<1>1. \A h \in Handlers : ~Busy(h)'
  BY DEF Crash, Reboot, Die, Busy
<1>2. late' = {} /\ UNCHANGED <<plugged, disk, open>>
      /\ (UNCHANGED <<mounts, told>> \/ (told' = {} /\ mounts' = [p \in Paths |-> << >>]))
  BY DEF Crash, Reboot, MountInv
<1>3. \A p \in Paths : PathInv(p)'
  BY <1>2 DEF MountInv, PathInv, Mounted, Shown, Behind
<1>4. QED
  BY <1>1, <1>2, <1>3 DEF MountInv, DataInv

\* What the rest of the world does: a volume is detached only when no path
\* can show it, and a pod writes only where its volume is.
LEMMA WorldKeepsMounts ==
  ASSUME MountInv, LockInv', World
  PROVE  MountInv'
<1>1. LockInv /\ TypeInv /\ HostTypeOK
  BY DEF MountInv, LockInv, TypeInv
<1>2. /\ UNCHANGED <<pc, req, mounts, open, told>> /\ late' = {}
      /\ \A h \in Handlers : Busy(h)' = Busy(h)
  BY DEF World, Want, Unwant, PodWrites, Grow, Attach, Detach, MountInv, Busy
<1>3. ASSUME UNCHANGED plugged,
             \A v \in Volumes : disk'[v].fs = disk[v].fs /\ disk'[v].unread = disk[v].unread
      PROVE  (\A h \in Handlers : Busy(h)' => CallInv(h)') /\ \A p \in Paths : PathInv(p)'
  <2>1. ASSUME NEW h \in Handlers, Busy(h) PROVE CallInv(h)'
    <3>1. CallInv(h) /\ req[h].volume \in Volumes
      BY <1>1, <2>1, CallsPath DEF MountInv
    <3>2. QED
      BY <1>2, <1>3, <3>1 DEF CallInv, CallKnown, CallDevice, CallPath, Behind, Mounted
  <2>2. ASSUME NEW p \in Paths PROVE PathInv(p)'
    <3>1. PathInv(p) /\ VolumeOf(p) \in Volumes
      BY <2>2, PathOfVolume DEF MountInv
    <3>2. QED
      BY <1>2, <1>3, <3>1 DEF PathInv, Mounted, Shown, Behind
  <2>3. QED
    BY <1>2, <2>1, <2>2
<1>4. ASSUME NEW t \in Targets, PodWrites(t) PROVE MountInv'
  <2> DEFINE v == Shown(t).vol
  <2>1. Mounted(t) /\ v = VolumeOf(t) /\ v \in Volumes /\ disk[v].fs # None
    BY <1>4, PathOfVolume DEF MountInv, PathInv, PodWrites, Paths
  <2>2. disk' = [disk EXCEPT ![v].data = "some"] /\ UNCHANGED plugged
    BY <1>4 DEF PodWrites
  <2> HIDE DEF v
  <2>3. /\ \A w \in Volumes : disk'[w].fs = disk[w].fs /\ disk'[w].unread = disk[w].unread
        /\ \A w \in Volumes \ {v} : disk'[w] = disk[w]
        /\ disk'[v].data = "some"
    BY <1>1, <2>1, <2>2 DEF HostTypeOK
  <2>4. \A w \in Volumes : DataInv(w)'
    BY <2>1, <2>3 DEF DataInv, MountInv
  <2>5. QED
    BY <1>2, <1>3, <2>2, <2>3, <2>4 DEF MountInv
<1>5. ASSUME NEW v \in Volumes, Grow(v) PROVE MountInv'
  <2>1. /\ \A w \in Volumes : /\ disk'[w].fs = disk[w].fs /\ disk'[w].data = disk[w].data
                             /\ disk'[w].unread = disk[w].unread
        /\ UNCHANGED plugged
    BY <1>1, <1>5 DEF Grow, HostTypeOK
  <2>2. \A w \in Volumes : DataInv(w)'
    BY <2>1 DEF DataInv, MountInv
  <2>3. QED
    BY <1>2, <1>3, <2>1, <2>2 DEF MountInv
<1>6. ASSUME NEW t \in Targets, Want(t) \/ Unwant(t) PROVE MountInv'
  <2>1. UNCHANGED <<plugged, disk>>
    BY <1>6 DEF Want, Unwant
  <2>2. QED
    BY <1>2, <1>3, <2>1 DEF MountInv, DataInv
<1>7. ASSUME NEW v \in Volumes, NEW d \in Devices, Attach(v, d) \/ Detach(v, d) PROVE MountInv'
  <2>1. UNCHANGED disk
    BY <1>7 DEF Attach, Detach
  <2>2. ASSUME NEW w \in Volumes, NEW p \in PathsOf(w), p \in open, NEW x, Behind(x) = w
        PROVE  Behind(x)' = w
    <3>1. x \in Devices /\ plugged[x] = w
      BY <2>2, HostAssumption DEF Behind
    <3>2. CASE Attach(v, d)
      BY <1>1, <3>1, <3>2, HostAssumption DEF Attach, HostTypeOK, Behind
    <3>3. CASE Detach(v, d)
      BY <1>1, <2>2, <3>1, <3>3 DEF Detach, HostTypeOK, Behind
    <3>4. QED
      BY <1>7, <3>2, <3>3
  <2>3. ASSUME NEW h \in Handlers, Busy(h) PROVE CallInv(h)'
    <3>1. CallInv(h) /\ req[h].volume \in Volumes /\ req[h].path \in PathsOf(req[h].volume)
      BY <1>1, <2>3, CallsPath DEF MountInv
    <3>2. CallDevice(h)'
      BY <1>2, <2>2, <3>1 DEF CallInv, CallKnown, CallDevice
    <3>3. QED
      BY <1>2, <2>1, <3>1, <3>2 DEF CallInv, CallKnown, CallPath, Mounted
  <2>4. ASSUME NEW p \in Paths PROVE PathInv(p)'
    <3>1. PathInv(p) /\ VolumeOf(p) \in Volumes /\ p \in PathsOf(VolumeOf(p))
      BY <2>4, PathOfVolume DEF MountInv
    <3>2. Mounted(p) => (Behind(Shown(p).dev) = VolumeOf(p))'
      BY <1>2, <2>2, <3>1 DEF PathInv, Shown, Mounted
    <3>3. QED
      BY <1>2, <2>1, <3>1, <3>2 DEF PathInv, Mounted, Shown
  <2>5. QED
    BY <1>2, <2>1, <2>3, <2>4 DEF MountInv, DataInv
<1>8. QED
  BY <1>4, <1>5, <1>6, <1>7 DEF World

LEMMA MountInvInit == Init => MountInv
<1> SUFFICES ASSUME Init PROVE MountInv
  OBVIOUS
<1>1. LockInv /\ late = {} /\ \A h \in Handlers : ~Busy(h)
  BY LockInvInit DEF Init, Busy
<1>2. \A p \in Paths : PathInv(p)
  BY DEF Init, HostInit, PathInv, Mounted
<1>3. \A v \in Volumes : DataInv(v)
  BY DEF Init, HostInit, DataInv, Blank
<1>4. QED
  BY <1>1, <1>2, <1>3 DEF MountInv

LEMMA MountInvStep == ~MountsHang /\ MountInv /\ [Next]_vars => MountInv'
<1> SUFFICES ASSUME ~MountsHang, MountInv, [Next]_vars PROVE MountInv'
  OBVIOUS
<1>1. LockInv'
  BY LockInvStep DEF MountInv
<1>2. CASE UNCHANGED vars
  BY <1>1, <1>2 DEF vars, MountInv, CallInv, CallKnown, CallDevice, CallPath, PathInv, DataInv,
                    Behind, Mounted, Shown, Busy
<1>3. ASSUME NEW h \in Handlers, NEW r \in Requests, Receive(h, r) PROVE MountInv'
  BY <1>1, <1>2, <1>3, AcceptKeepsMounts DEF Receive, Reject
<1>4. ASSUME NEW r \in late PROVE FALSE
  BY <1>4 DEF MountInv
<1>5. ASSUME NEW h \in Handlers, GiveUp(h) PROVE MountInv'
  BY <1>1, <1>5 DEF GiveUp, MountInv, CallInv, CallKnown, CallDevice, CallPath, PathInv, DataInv,
                    Behind, Mounted, Shown, Busy
<1>6. QED
  BY <1>1, <1>2, <1>3, <1>4, <1>5, StepKeepsMounts, DieKeepsMounts, WorldKeepsMounts DEF Next

LEMMA MountInvAlways == ~MountsHang => (Spec => []MountInv)
<1> SUFFICES ASSUME ~MountsHang PROVE Spec => []MountInv
  OBVIOUS
<1>1. MountInv /\ [Next]_vars => MountInv'
  BY MountInvStep
<1>2. QED
  BY <1>1, MountInvInit, PTL DEF Spec

\* Where no mount outlasts its timeout, a path of which the driver has said
\* that its volume is there shows that volume until the orchestrator calls to
\* undo it, whatever fails, crashes or is repeated.
THEOREM PublishedShows == ~MountsHang => (Spec => []PublishedShowsVolume)
<1>1. MountInv => PublishedShowsVolume
  BY DEF MountInv, LockInv, TypeInv, ServiceTypeOK, PathInv, PublishedShowsVolume
<1>2. QED
  BY <1>1, MountInvAlways, PTL

\* There, nothing is mounted on a path of which the driver has said that it
\* is unmounted.
THEOREM UndoneIsUnmounted == ~MountsHang => (Spec => []AnsweredUndoIsUnmounted)
<1>1. MountInv => AnsweredUndoIsUnmounted
  BY DEF MountInv, PathInv, AnsweredUndoIsUnmounted
<1>2. QED
  BY <1>1, MountInvAlways, PTL

\* There, no directory is removed with a volume mounted on it, and no volume
\* with a pod's data on it is formatted unless blkid could not read it.
THEOREM DataIsSafe == ~MountsHang => (Spec => []NoDataLost)
<1>1. MountInv => NoDataLost
  BY DEF MountInv, DataInv, NoDataLost
<1>2. QED
  BY <1>1, MountInvAlways, PTL
=============================================================================
