----------------------------- MODULE NodeProofs -----------------------------
(***************************************************************************)
(* Proofs about the node service, for every number of handlers, of volumes,*)
(* of paths and of devices, and for any calls that kubelet may make.       *)
(***************************************************************************)
EXTENDS NodeProperties, TLAPS

USE DEF host, known, handling

Steps == {"look", "blkid", "mkfs", "mount", "unmount", "remove", "target", "bind",
          "device", "fstype", "resize"}

\* A call that is being served has passed the argument checks, and takes the
\* steps of its kind; a call to stage is as it came until its mount.
Serves(r, step) ==
  /\ r \in RequestType /\ ~Malformed(r)
  /\ r.op = "stage" => r \in Requests /\ step \in {"look", "blkid", "mkfs", "mount"}
  /\ r.op \in {"unstage", "unpublish"} => step \in {"look", "unmount", "remove"}
  /\ r.op = "publish" => step \in {"look", "target", "bind"}
  /\ r.op = "expand" => step \in {"device", "fstype", "resize"}
  /\ step \in {"blkid", "mkfs", "mount"} => r.fs # "block"

CallsServed ==
  \A h \in Handlers : IF Busy(h) THEN Serves(req[h], pc[h]) ELSE req[h] = NoRequest

\* The types of the host's state, and of the driver's and kubelet's.
HostTypeOK ==
  /\ plugged \in [Devices -> Volumes \cup {None}]
  /\ disk \in [Volumes -> [fs : FsTypes \cup {None}, data : DataStates, size : 1..MaxSize,
                           room : 0..MaxSize, unread : BOOLEAN]]
  /\ mounts \in [Paths -> Seq([vol : Volumes \cup {Host}, dev : Devices \cup {Host}])]
  /\ dirs \subseteq Paths
ServiceTypeOK ==
  /\ pc \in [Handlers -> Steps \cup {"idle"}]
  /\ DOMAIN req = Handlers
  /\ locks \subseteq Volumes \X Paths
  /\ unheard \subseteq Handlers /\ faultsLeft \in 0..MaxFaults
  /\ open \subseteq Paths /\ told \subseteq Paths /\ filled \subseteq Volumes
LateTypeOK == wanted \subseteq Targets /\ late \subseteq Requests /\ \A r \in late : ~Malformed(r)

TypeInv == HostTypeOK /\ ServiceTypeOK /\ LateTypeOK /\ CallsServed

-----------------------------------------------------------------------------
\* What the steps of a handler have in common: it goes on with the same call,
\* of which it may find out the device and the filesystem, or it returns.
Moves(h) ==
  /\ \E s \in Steps : pc' = [pc EXCEPT ![h] = s] /\ Serves(req'[h], s)
  /\ \/ UNCHANGED req
     \/ \E d \in Devices \cup {Host} : req' = [req EXCEPT ![h].device = d]
     \/ \E fs \in FsTypes \cup {None} : req' = [req EXCEPT ![h].fs = fs]
  /\ Fault \/ UNCHANGED faultsLeft
  /\ UNCHANGED <<locks, unheard, known>>
Returns(h) ==
  /\ Return(h)
  /\ Fault \/ UNCHANGED faultsLeft
  /\ Hears(req[h]) \/ UNCHANGED known

LEMMA ServedCalls ==
  ASSUME TypeInv, NEW h \in Handlers, Busy(h)
  PROVE  /\ req[h] \in RequestType /\ ~Malformed(req[h]) /\ Serves(req[h], pc[h])
         /\ req[h].volume \in Volumes /\ req[h].path \in Paths /\ req[h].op \in Ops
         /\ Keys(req[h]) \subseteq Volumes \X Paths
<1>1. Serves(req[h], pc[h])
  BY DEF TypeInv, CallsServed
<1>2. req[h] \in RequestType /\ ~Malformed(req[h])
  BY <1>1 DEF Serves
<1>3. QED
  BY <1>1, <1>2 DEF RequestType, Malformed, Keys

\* How the answers shape a step.
LEMMA AnswerShapes ==
  ASSUME NEW h \in Handlers
  PROVE  /\ Refuse(h) => Returns(h)
         /\ Fail(h) => Returns(h)
         /\ Succeed(h) => Returns(h)
         /\ Return(h) /\ Fault /\ Hears(req[h]) => Returns(h)
BY DEF Refuse, Fail, Succeed, Returns

LEMMA GoesOn ==
  ASSUME NEW h \in Handlers, NEW s \in Steps, Serves(req[h], s), GoTo(h, s)
  PROVE  Moves(h)
BY DEF GoTo, Moves

\* What a call to expand finds out leaves it well formed.
LEMMA FoundOut ==
  ASSUME NEW r \in RequestType, ~Malformed(r), r.op = "expand"
  PROVE  /\ \A d \in Devices \cup {Host} : Serves([r EXCEPT !.device = d], "fstype")
         /\ \A fs \in FsTypes \cup {None} : Serves([r EXCEPT !.fs = fs], "resize")
BY DEF RequestType, Malformed, Serves

\* The first mount on a path is one.
LEMMA BottomTyped ==
  ASSUME HostTypeOK, NEW p \in Paths, Mounted(p)
  PROVE  mounts[p][1].dev \in Devices \cup {Host}
<1> DEFINE Mount == [vol : Volumes \cup {Host}, dev : Devices \cup {Host}]
<1>1. mounts[p] \in Seq(Mount) /\ mounts[p] # <<>>
  BY DEF HostTypeOK, Mounted
<1>2. mounts[p][1] \in Mount
  <2> HIDE DEF Mount
  <2> QED BY <1>1
<1>3. QED
  BY <1>2

\* Each step of a handler that serves a call goes on with it or returns.
LEMMA StepShapes ==
  ASSUME TypeInv, NEW h \in Handlers, Step(h)
  PROVE  Busy(h) /\ (Moves(h) \/ Returns(h))
<1> USE DEF Serving
<1>1. Busy(h)
  BY DEF Step, NodeStageVolume, StageLooks, FormatLooks, FormatMisreads, FormatMakes,
         StageMounts,
         NodeUnstageVolume, NodeUnpublishVolume, UndoLooks, UndoUnmounts, UndoRemoves,
         NodePublishVolume, PublishLooks, PublishLooksAtTarget, PublishBinds,
         NodeExpandVolume, getDeviceForMountPoint, ExpandAsksFsType, ExpandResizes, Busy
<1>2. Serves(req[h], pc[h]) /\ req[h] \in RequestType
  BY <1>1, ServedCalls
<1> SUFFICES Moves(h) \/ Returns(h)
  BY <1>1
<1>3. CASE NodeStageVolume(h)
  <2>1. CASE StageLooks(h)
    BY <1>2, <2>1, AnswerShapes, GoesOn DEF StageLooks, Serves, Steps
  <2>2. CASE FormatLooks(h)
    BY <1>2, <2>2, AnswerShapes, GoesOn DEF FormatLooks, Serves, Steps
  <2>3. CASE FormatMisreads(h)
    BY <1>2, <2>3 DEF FormatMisreads, Moves, Serves, Steps
  <2>4. CASE FormatMakes(h)
    BY <1>2, <2>4, AnswerShapes, GoesOn DEF FormatMakes, Serves, Steps
  <2>5. CASE StageMounts(h)
    BY <2>5, AnswerShapes DEF StageMounts
  <2>6. QED
    BY <1>1, <1>3, <2>1, <2>2, <2>3, <2>4, <2>5 DEF NodeStageVolume
<1>4. ASSUME NEW op \in {"unstage", "unpublish"},
             UndoLooks(h, op) \/ UndoUnmounts(h, op) \/ UndoRemoves(h, op)
      PROVE  Moves(h) \/ Returns(h)
  <2>1. CASE UndoLooks(h, op)
    BY <1>2, <2>1, AnswerShapes, GoesOn DEF UndoLooks, Serves, Steps
  <2>2. CASE UndoUnmounts(h, op)
    BY <1>2, <2>2, AnswerShapes, GoesOn DEF UndoUnmounts, Serves, Steps
  <2>3. CASE UndoRemoves(h, op)
    BY <2>3, AnswerShapes DEF UndoRemoves
  <2>4. QED
    BY <1>4, <2>1, <2>2, <2>3
<1>5. CASE NodePublishVolume(h)
  <2>1. CASE PublishLooks(h)
    BY <1>2, <2>1, AnswerShapes, GoesOn DEF PublishLooks, Serves, Steps
  <2>2. CASE PublishLooksAtTarget(h)
    BY <1>2, <2>2, AnswerShapes, GoesOn DEF PublishLooksAtTarget, Serves, Steps
  <2>3. CASE PublishBinds(h)
    BY <2>3, AnswerShapes DEF PublishBinds
  <2>4. QED
    BY <1>5, <2>1, <2>2, <2>3 DEF NodePublishVolume
<1>6. CASE NodeExpandVolume(h)
  <2>1. CASE getDeviceForMountPoint(h)
    <3> DEFINE p == req[h].path
               d == mounts[p][1].dev
    <3>1. pc[h] = "device" /\ req[h].op = "expand" /\ p \in Paths /\ ~Malformed(req[h])
      BY <1>1, <2>1, ServedCalls DEF getDeviceForMountPoint
    <3>2. CASE /\ Mounted(p)
               /\ req' = [req EXCEPT ![h].device = d]
               /\ pc' = [pc EXCEPT ![h] = "fstype"]
               /\ UNCHANGED <<locks, unheard, faultsLeft, known>>
      <4>1. d \in Devices \cup {Host}
        BY <3>1, <3>2, BottomTyped DEF TypeInv
      <4>2. req'[h] = [req[h] EXCEPT !.device = d]
        BY <3>2 DEF TypeInv, ServiceTypeOK
      <4> HIDE DEF d, p
      <4>3. Serves(req'[h], "fstype")
        BY <1>2, <3>1, <4>1, <4>2, FoundOut
      <4>4. QED
        BY <3>2, <4>1, <4>3 DEF Moves, Steps
    <3>3. QED
      BY <2>1, <3>2, AnswerShapes DEF getDeviceForMountPoint
  <2>2. CASE ExpandAsksFsType(h)
    <3> DEFINE fs == FsOn(req[h].device)
    <3>1. pc[h] = "fstype" /\ req[h].op = "expand" /\ ~Malformed(req[h])
      BY <1>1, <2>2, ServedCalls DEF ExpandAsksFsType
    <3>2. CASE /\ fs \in {"ext4", "ext3", "ext2", "xfs"}
               /\ req' = [req EXCEPT ![h].fs = fs]
               /\ pc' = [pc EXCEPT ![h] = "resize"]
               /\ UNCHANGED <<locks, unheard, faultsLeft, known>>
      <4>1. fs \in FsTypes \cup {None}
        BY <3>1, ServedCalls DEF TypeInv, HostTypeOK, FsOn, Behind
      <4>2. req'[h] = [req[h] EXCEPT !.fs = fs]
        BY <3>2 DEF TypeInv, ServiceTypeOK
      <4> HIDE DEF fs
      <4>3. Serves(req'[h], "resize")
        BY <1>2, <3>1, <4>1, <4>2, FoundOut
      <4>4. QED
        BY <3>2, <4>1, <4>3 DEF Moves, Steps
    <3>3. QED
      BY <2>2, <3>2, AnswerShapes DEF ExpandAsksFsType
  <2>3. CASE ExpandResizes(h)
    BY <2>3, AnswerShapes DEF ExpandResizes
  <2>4. QED
    BY <1>6, <2>1, <2>2, <2>3 DEF NodeExpandVolume
<1>7. QED
  BY <1>1, <1>3, <1>4, <1>5, <1>6 DEF Step, NodeUnstageVolume, NodeUnpublishVolume

-----------------------------------------------------------------------------
\* What the operations on the host leave typed.
Mount == [vol : Volumes \cup {Host}, dev : Devices \cup {Host}]

\* Appending a mount, and taking the topmost away.
LEMMA StackTyped ==
  ASSUME HostTypeOK, NEW p \in Paths
  PROVE  /\ \A e \in Mount : MountOn(p, e) => mounts' \in [Paths -> Seq(Mount)]
         /\ Mounted(p) /\ UnmountTop(p) => mounts' \in [Paths -> Seq(Mount)]
         /\ Shown(p) \in Mount
<1>1. mounts[p] \in Seq(Mount) /\ mounts \in [Paths -> Seq(Mount)]
  BY DEF HostTypeOK, Mount
<1>2. \A e \in Mount : Append(mounts[p], e) \in Seq(Mount)
  BY <1>1
<1>3. Mounted(p) => /\ Len(mounts[p]) \in 1..Len(mounts[p])
                    /\ mounts[p][Len(mounts[p])] \in Mount
                    /\ SubSeq(mounts[p], 1, Len(mounts[p]) - 1) \in Seq(Mount)
  <2> HIDE DEF Mount
  <2> QED BY <1>1 DEF Mounted
<1>4. FromHost \in Mount
  BY DEF FromHost, Mount
<1>5. QED
  BY <1>1, <1>2, <1>3, <1>4 DEF MountOn, UnmountTop, Shown

\* A handler's step keeps the types of the host's state.
LEMMA StepKeepsHost ==
  ASSUME TypeInv, NEW h \in Handlers, Step(h)
  PROVE  HostTypeOK'
<1> USE DEF Serving
<1> DEFINE r == req[h]
<1>1. Busy(h)
  BY StepShapes
<1>2. r \in RequestType /\ ~Malformed(r) /\ Serves(r, pc[h]) /\ r.volume \in Volumes /\ r.path \in Paths
  BY <1>1, ServedCalls
<1>3. /\ r.device \in Devices \cup {Host, None} /\ r.fs \in FsTypes \cup {"block", None}
      /\ pc[h] = "mkfs" /\ r.op = "stage" => r.fs \in FsTypes
  BY <1>2 DEF RequestType, Serves, Malformed
<1>4. HostTypeOK
  BY DEF TypeInv
<1>5. /\ Behind(r.device) \in Volumes \cup {None}
      /\ Behind(r.device) # None => r.device \in Devices /\ Behind(r.device) \in Volumes
  BY <1>3, <1>4 DEF HostTypeOK, Behind
<1>6. ASSUME MountOn(r.path, DeviceMount(r)), Behind(r.device) # None
      PROVE  mounts' \in [Paths -> Seq(Mount)]
  BY <1>2, <1>4, <1>5, <1>6, StackTyped DEF DeviceMount, Mount
<1>7. Staging(r.volume) \in Paths
  BY <1>2 DEF Paths, Stagings
<1> HIDE DEF r
<1>8. CASE UNCHANGED <<plugged, disk, dirs>> /\ mounts' \in [Paths -> Seq(Mount)]
  BY <1>4, <1>8 DEF HostTypeOK, Mount
<1>9. CASE UNCHANGED <<plugged, disk, mounts>> /\ dirs' \subseteq Paths
  BY <1>4, <1>9 DEF HostTypeOK
<1>10. CASE UNCHANGED host
  BY <1>4, <1>10 DEF HostTypeOK
<1>11. mounts \in [Paths -> Seq(Mount)]
  BY <1>4 DEF HostTypeOK, Mount
<1>12. CASE NodeStageVolume(h)
  <2>1. CASE StageLooks(h)
    BY <1>2, <1>4, <1>9, <2>1 DEF StageLooks, HostTypeOK, r
  <2>2. CASE FormatLooks(h)
    BY <1>10, <2>2 DEF FormatLooks
  <2>3. CASE FormatMisreads(h)
    <3>1. Behind(r.device) \in Volumes
      BY <1>5, <2>3 DEF FormatMisreads, FsOn, r
    <3>2. /\ disk' = [disk EXCEPT ![Behind(r.device)].unread = TRUE]
          /\ UNCHANGED <<plugged, mounts, dirs>>
      BY <2>3 DEF FormatMisreads, r
    <3>3. QED
      BY <1>4, <3>1, <3>2 DEF HostTypeOK
  <2>4. CASE FormatMakes(h)
    <3>1. CASE Formattable(r.device) /\ Formatted(r.device, r.fs)
      <4>1. Behind(r.device) \in Volumes /\ r.fs \in FsTypes
        BY <1>3, <1>5, <2>4, <3>1 DEF Formattable, FormatMakes, r
      <4> DEFINE v == Behind(r.device)
                 new == [fs |-> r.fs, data |-> Destroyed(disk[v].data, "overwritten"),
                         size |-> disk[v].size, room |-> disk[v].size,
                         unread |-> disk[v].unread]
      <4>2. new \in [fs : FsTypes \cup {None}, data : DataStates, size : 1..MaxSize,
                     room : 0..MaxSize, unread : BOOLEAN]
        BY <1>4, <4>1, NodeAssumption DEF HostTypeOK, Destroyed, DataStates
      <4>3. disk' = [disk EXCEPT ![v] = new]
        BY <3>1 DEF Formatted
      <4>4. UNCHANGED <<plugged, mounts, dirs>>
        BY <2>4 DEF FormatMakes
      <4> HIDE DEF v, new
      <4>5. QED
        BY <1>4, <4>1, <4>2, <4>3, <4>4 DEF HostTypeOK, v
    <3>2. QED
      BY <1>10, <2>4, <3>1 DEF FormatMakes, r
  <2>5. CASE StageMounts(h)
    BY <1>6, <1>8, <1>11, <2>5 DEF StageMounts, Mountable, r
  <2>6. QED
    BY <1>12, <2>1, <2>2, <2>3, <2>4, <2>5 DEF NodeStageVolume
<1>13. ASSUME NEW op \in {"unstage", "unpublish"},
              UndoLooks(h, op) \/ UndoUnmounts(h, op) \/ UndoRemoves(h, op)
       PROVE  HostTypeOK'
  <2>1. CASE UndoLooks(h, op)
    BY <1>10, <2>1 DEF UndoLooks
  <2>2. CASE UndoUnmounts(h, op)
    BY <1>2, <1>4, <1>8, <1>11, <2>2, StackTyped DEF UndoUnmounts, r
  <2>3. CASE UndoRemoves(h, op)
    <3>1. CASE RemovedAll(r.path)
      <4>1. Shown(r.path).vol \in Volumes \cup {Host}
        BY <1>2, <1>4, StackTyped DEF Mount
      <4> DEFINE v == Shown(r.path).vol
      <4>2. UNCHANGED <<plugged, mounts>> /\ dirs' \subseteq Paths
        BY <1>4, <2>3, <3>1 DEF RemovedAll, HostTypeOK, UndoRemoves
      <4>3. CASE v # Host /\ disk' = [disk EXCEPT ![v].data = Destroyed(@, "deleted")]
        <5>1. v \in Volumes /\ Destroyed(disk[v].data, "deleted") \in DataStates
          BY <1>4, <4>1, <4>3 DEF HostTypeOK, Destroyed, DataStates
        <5> HIDE DEF v
        <5>2. QED
          BY <1>4, <4>2, <4>3, <5>1 DEF HostTypeOK
      <4>4. CASE UNCHANGED disk
        BY <1>4, <4>2, <4>4 DEF HostTypeOK
      <4>5. QED
        BY <3>1, <4>3, <4>4 DEF RemovedAll
    <3>2. QED
      BY <1>10, <2>3, <3>1 DEF UndoRemoves, r
  <2>4. QED
    BY <1>13, <2>1, <2>2, <2>3
<1>14. CASE NodePublishVolume(h)
  <2>1. CASE PublishLooks(h)
    BY <1>10, <2>1 DEF PublishLooks
  <2>2. CASE PublishLooksAtTarget(h)
    BY <1>2, <1>4, <1>9, <2>2 DEF PublishLooksAtTarget, HostTypeOK, r
  <2>3. CASE PublishBinds(h)
    BY <1>2, <1>4, <1>7, <1>8, <1>11, <2>3, StackTyped DEF PublishBinds, r
  <2>4. QED
    BY <1>14, <2>1, <2>2, <2>3 DEF NodePublishVolume
<1>15. CASE NodeExpandVolume(h)
  <2>1. CASE getDeviceForMountPoint(h)
    BY <1>10, <2>1 DEF getDeviceForMountPoint
  <2>2. CASE ExpandAsksFsType(h)
    BY <1>10, <2>2 DEF ExpandAsksFsType
  <2>3. CASE ExpandResizes(h)
    <3>1. CASE Resizable(r.device, r.path, r.fs) /\ Resized(r.device, r.path, r.fs)
      <4> DEFINE v == IF r.fs = "xfs" THEN Shown(r.path).vol ELSE Behind(r.device)
      <4>1. v \in Volumes
        BY <1>2, <1>4, <1>5, <3>1, StackTyped DEF Resizable, Mount
      <4>2. disk' = [disk EXCEPT ![v].room = disk[v].size]
        BY <3>1 DEF Resized
      <4> HIDE DEF v
      <4>3. disk[v].size \in 0..MaxSize
        BY <1>4, <4>1, NodeAssumption DEF HostTypeOK
      <4>4. QED
        BY <1>4, <2>3, <4>1, <4>2, <4>3 DEF HostTypeOK, ExpandResizes
    <3>2. QED
      BY <1>10, <2>3, <3>1 DEF ExpandResizes, r
  <2>4. QED
    BY <1>15, <2>1, <2>2, <2>3 DEF NodeExpandVolume
<1>16. QED
  BY <1>12, <1>13, <1>14, <1>15 DEF Step, NodeUnstageVolume, NodeUnpublishVolume

-----------------------------------------------------------------------------
\* The driver's and kubelet's state: a step of a handler keeps its types.
LEMMA StepKeepsService ==
  ASSUME TypeInv, NEW h \in Handlers, Moves(h) \/ Returns(h), Busy(h)
  PROVE  ServiceTypeOK' /\ CallsServed'
<1>1. /\ req[h].volume \in Volumes /\ req[h].path \in Paths /\ req[h].op \in Ops
      /\ ServiceTypeOK /\ CallsServed
  BY ServedCalls DEF TypeInv
<1>2. CASE Moves(h)
  <2>1. PICK s \in Steps : pc' = [pc EXCEPT ![h] = s] /\ Serves(req'[h], s)
    BY <1>2 DEF Moves
  <2>2. /\ \A g \in Handlers \ {h} : req'[g] = req[g]
        /\ DOMAIN req' = Handlers
    BY <1>1, <1>2 DEF Moves, ServiceTypeOK
  <2>3. ServiceTypeOK'
    <3>1. faultsLeft' \in 0..MaxFaults
      BY <1>1, <1>2, NodeAssumption DEF Moves, Fault, ServiceTypeOK
    <3>2. QED
      BY <1>1, <1>2, <2>1, <2>2, <3>1 DEF Moves, ServiceTypeOK
  <2>4. ASSUME NEW g \in Handlers
        PROVE  IF Busy(g)' THEN Serves(req'[g], pc'[g]) ELSE req'[g] = NoRequest
    <3>1. CASE g = h
      BY <1>1, <2>1, <3>1 DEF ServiceTypeOK, Busy, Steps
    <3>2. CASE g # h
      BY <1>1, <2>1, <2>2, <3>2 DEF ServiceTypeOK, CallsServed, Busy
    <3>3. QED
      BY <3>1, <3>2
  <2>5. QED
    BY <2>3, <2>4 DEF CallsServed
<1>3. CASE Returns(h)
  <2>1. /\ pc' = [pc EXCEPT ![h] = "idle"] /\ req' = [req EXCEPT ![h] = NoRequest]
        /\ locks' = locks \ Keys(req[h]) /\ unheard' = unheard \ {h}
    BY <1>3 DEF Returns, Return, Release
  <2>2. faultsLeft' \in 0..MaxFaults
    BY <1>1, <1>3, NodeAssumption DEF Returns, Fault, ServiceTypeOK
  <2>3. open' \subseteq Paths /\ told' \subseteq Paths /\ filled' \subseteq Volumes
    BY <1>1, <1>3 DEF Returns, Hears, ServiceTypeOK
  <2>4. ServiceTypeOK'
    BY <1>1, <2>1, <2>2, <2>3 DEF ServiceTypeOK
  <2>5. CallsServed'
    BY <1>1, <2>1 DEF ServiceTypeOK, CallsServed, Busy
  <2>6. QED
    BY <2>4, <2>5
<1>4. QED
  BY <1>2, <1>3

\* A mount that is given up is one a call asked for.
LEMMA StepKeepsLate ==
  ASSUME TypeInv, NEW h \in Handlers, Step(h)
  PROVE  LateTypeOK'
<1> USE DEF Serving
<1>1. Serves(req[h], pc[h]) /\ LateTypeOK
  BY StepShapes, ServedCalls DEF TypeInv
<1>2. CASE StageMounts(h)
  BY <1>1, <1>2 DEF StageMounts, Serves, LateTypeOK
<1>3. CASE UNCHANGED <<late, wanted>>
  BY <1>1, <1>3 DEF LateTypeOK
<1>4. UNCHANGED <<late, wanted>> \/ StageMounts(h)
  BY DEF Step, NodeStageVolume, StageLooks, FormatLooks, FormatMisreads, FormatMakes,
         NodeUnstageVolume, NodeUnpublishVolume, UndoLooks, UndoUnmounts, UndoRemoves,
         NodePublishVolume, PublishLooks, PublishLooksAtTarget, PublishBinds,
         NodeExpandVolume, getDeviceForMountPoint, ExpandAsksFsType, ExpandResizes
<1>5. QED
  BY <1>2, <1>3, <1>4

\* A call that is accepted.
LEMMA AcceptKeepsTypes ==
  ASSUME TypeInv, NEW h \in Handlers, NEW r \in Requests, Accept(h, r)
  PROVE  TypeInv'
<1>1. r \in RequestType /\ ~Malformed(r) /\ TypeInv
  BY NodeAssumption DEF Accept
<1>2. r.volume \in Volumes /\ r.path \in Paths /\ r.op \in Ops
  BY <1>1 DEF RequestType, Malformed
<1>3. Serves(r, FirstStep(r)) /\ FirstStep(r) \in Steps
  BY <1>1, <1>2 DEF Serves, FirstStep, Steps, Ops
<1>4. /\ pc' = [pc EXCEPT ![h] = FirstStep(r)] /\ req' = [req EXCEPT ![h] = r]
      /\ locks' = locks \cup Keys(r) /\ Makes(r)
      /\ UNCHANGED <<host, late, unheard, faultsLeft, wanted>>
  BY DEF Accept, Acquire
<1>5. open' \subseteq Paths /\ told' \subseteq Paths /\ filled' \subseteq Volumes
  BY <1>1, <1>2, <1>4 DEF Makes, TypeInv, ServiceTypeOK
<1>6. ServiceTypeOK'
  BY <1>1, <1>2, <1>3, <1>4, <1>5 DEF TypeInv, ServiceTypeOK, Keys
<1>7. CallsServed'
  BY <1>1, <1>3, <1>4 DEF TypeInv, ServiceTypeOK, CallsServed, Busy, Steps
<1>8. HostTypeOK' /\ LateTypeOK'
  BY <1>1, <1>4 DEF TypeInv, HostTypeOK, LateTypeOK
<1>9. QED
  BY <1>6, <1>7, <1>8 DEF TypeInv

\* A mount that ends after its handler has given it up.
LEMMA LandKeepsTypes ==
  ASSUME TypeInv, NEW r \in late, Land(r)
  PROVE  TypeInv'
<1>1. r \in RequestType /\ ~Malformed(r) /\ HostTypeOK
  BY NodeAssumption DEF TypeInv, LateTypeOK
<1>2. r.path \in Paths
  BY <1>1 DEF RequestType, Malformed
<1>3. mounts' \in [Paths -> Seq(Mount)]
  <2>1. CASE Mountable(r.device, r.path, r.fs) /\ MountOn(r.path, DeviceMount(r))
    <3>1. DeviceMount(r) \in Mount
      BY <1>1, <2>1 DEF Mountable, HostTypeOK, DeviceMount, Behind, Mount
    <3>2. QED
      BY <1>1, <1>2, <2>1, <3>1, StackTyped
  <2>2. CASE UNCHANGED mounts
    BY <1>1, <2>2 DEF HostTypeOK, Mount
  <2>3. QED
    BY <2>1, <2>2 DEF Land
<1>4. HostTypeOK'
  BY <1>1, <1>3 DEF Land, HostTypeOK, Mount
<1>5. ServiceTypeOK' /\ LateTypeOK' /\ CallsServed'
  BY DEF Land, TypeInv, ServiceTypeOK, LateTypeOK, CallsServed, Busy
<1>6. QED
  BY <1>4, <1>5 DEF TypeInv

\* A crash of the driver, and a reboot of the node.
LEMMA DieKeepsTypes ==
  ASSUME TypeInv, Crash \/ Reboot
  PROVE  TypeInv'
<1>1. Die /\ TypeInv
  BY DEF Crash, Reboot
<1>2. /\ faultsLeft' \in 0..MaxFaults /\ locks' = {} /\ unheard' = {}
      /\ pc' = [h \in Handlers |-> "idle"] /\ req' = [h \in Handlers |-> NoRequest]
  BY <1>1, NodeAssumption DEF Die, Fault, NewVolumeLocks, TypeInv, ServiceTypeOK
<1>3. CallsServed'
  BY <1>2 DEF CallsServed, Busy
<1>4. ServiceTypeOK'
  BY <1>1, <1>2 DEF TypeInv, ServiceTypeOK, Crash, Reboot
<1>5. HostTypeOK'
  <2>1. mounts' \in [Paths -> Seq(Mount)]
    <3>1. mounts \in [Paths -> Seq(Mount)]
      BY <1>1 DEF TypeInv, HostTypeOK, Mount
    <3>2. << >> \in Seq(Mount)
      OBVIOUS
    <3>3. QED
      BY <1>1, <3>1, <3>2 DEF Crash, Reboot
  <2>2. QED
    BY <1>1, <2>1 DEF TypeInv, HostTypeOK, Crash, Reboot, Mount
<1>6. LateTypeOK'
  BY <1>1 DEF TypeInv, LateTypeOK, Crash, Reboot
<1>7. QED
  BY <1>3, <1>4, <1>5, <1>6 DEF TypeInv

\* What the rest of the world does.
LEMMA WorldKeepsTypes ==
  ASSUME TypeInv, World
  PROVE  TypeInv'
<1>1. HostTypeOK /\ ServiceTypeOK /\ LateTypeOK /\ CallsServed
  BY DEF TypeInv
<1>2. LateTypeOK' /\ CallsServed' /\ ServiceTypeOK'
  BY <1>1 DEF World, Want, Unwant, PodWrites, Grow, Attach, Detach,
              LateTypeOK, CallsServed, ServiceTypeOK, Busy
<1>3. ASSUME NEW t \in Targets, PodWrites(t)
      PROVE  HostTypeOK'
  <2> DEFINE v == Shown(t).vol
  <2>1. v \in Volumes /\ disk' = [disk EXCEPT ![v].data = "some"]
        /\ UNCHANGED <<plugged, mounts, dirs>>
    BY <1>1, <1>3, StackTyped DEF PodWrites, Mount, Paths
  <2> HIDE DEF v
  <2>2. QED
    BY <1>1, <2>1 DEF HostTypeOK, DataStates
<1>4. ASSUME NEW v \in Volumes, Grow(v)
      PROVE  HostTypeOK'
  <2>1. disk[v].size + 1 \in 1..MaxSize
    BY <1>1, <1>4, NodeAssumption DEF Grow, HostTypeOK
  <2>2. QED
    BY <1>1, <1>4, <2>1 DEF Grow, HostTypeOK
<1>5. ASSUME NEW v \in Volumes, NEW d \in Devices, Attach(v, d) \/ Detach(v, d)
      PROVE  HostTypeOK'
  BY <1>1, <1>5 DEF Attach, Detach, HostTypeOK
<1>6. ASSUME NEW t \in Targets, Want(t) \/ Unwant(t)
      PROVE  HostTypeOK'
  BY <1>1, <1>6 DEF Want, Unwant, HostTypeOK
<1>7. QED
  BY <1>2, <1>3, <1>4, <1>5, <1>6 DEF World, TypeInv

LEMMA TypeInvInit == Init => TypeInv
BY NodeAssumption DEF Init, HostInit, Blank, DataStates, TypeInv, HostTypeOK, ServiceTypeOK, LateTypeOK,
   CallsServed, Busy

LEMMA TypeInvStep == TypeInv /\ [Next]_vars => TypeInv'
<1> SUFFICES ASSUME TypeInv, [Next]_vars PROVE TypeInv'
  OBVIOUS
<1>1. ASSUME NEW h \in Handlers, Step(h) PROVE TypeInv'
  <2>1. Busy(h) /\ (Moves(h) \/ Returns(h))
    BY <1>1, StepShapes
  <2>2. ServiceTypeOK' /\ CallsServed'
    BY <2>1, StepKeepsService
  <2>3. HostTypeOK' /\ LateTypeOK'
    BY <1>1, StepKeepsHost, StepKeepsLate
  <2>4. QED
    BY <2>2, <2>3 DEF TypeInv
<1>2. CASE UNCHANGED vars
  BY <1>2 DEF vars, TypeInv, HostTypeOK, ServiceTypeOK, LateTypeOK, CallsServed, Busy
<1>3. ASSUME NEW h \in Handlers, NEW r \in Requests, Receive(h, r) PROVE TypeInv'
  BY <1>2, <1>3, AcceptKeepsTypes DEF Receive, Reject
<1>4. ASSUME NEW h \in Handlers, GiveUp(h) PROVE TypeInv'
  <2>1. faultsLeft' \in 0..MaxFaults /\ unheard' \subseteq Handlers
    BY <1>4, NodeAssumption DEF GiveUp, Fault, TypeInv, ServiceTypeOK
  <2>2. QED
    BY <1>4, <2>1 DEF GiveUp, TypeInv, HostTypeOK, ServiceTypeOK, LateTypeOK, CallsServed, Busy
<1>5. QED
  BY <1>1, <1>2, <1>3, <1>4, LandKeepsTypes, DieKeepsTypes, WorldKeepsTypes DEF Next

\* Every variable has its type; a call that is being served has passed the
\* argument checks of its handler.
THEOREM NodeTypeCorrect == Spec => []NodeTypeOK
<1>1. TypeInv => NodeTypeOK
  <2> SUFFICES ASSUME TypeInv PROVE NodeTypeOK
    OBVIOUS
  <2>1. \A h \in Handlers : IF Busy(h) THEN req[h].volume \in Volumes /\ req[h].path \in Paths
                                        ELSE req[h] = NoRequest
    BY ServedCalls DEF TypeInv, CallsServed
  <2>2. QED
    BY <2>1 DEF TypeInv, HostTypeOK, ServiceTypeOK, LateTypeOK, NodeTypeOK, Steps
<1>2. QED
  BY TypeInvInit, TypeInvStep, <1>1, PTL DEF Spec

-----------------------------------------------------------------------------
\* The volume and the path of a call stay what they were when it was made,
\* and a handler holds its keys for as long as it serves the call.
RightCalls == \A h \in Handlers : Busy(h) => RightPath(req[h])
KeysHeld == \A h \in Handlers : Busy(h) => Keys(req[h]) \subseteq locks
KeysApart ==
  \A h, g \in Handlers : h # g /\ Busy(h) /\ Busy(g) => Keys(req[h]) \cap Keys(req[g]) = {}
LockInv == TypeInv /\ RightCalls /\ KeysHeld /\ KeysApart

\* Two volumes share no path.
LEMMA PathsApart ==
  ASSUME NEW v \in Volumes, NEW w \in Volumes, NEW p \in PathsOf(v), p \in PathsOf(w)
  PROVE  v = w
BY HostAssumption DEF PathsOf, Staging, Stagings, TargetsOf

\* What a call goes by does not change while it is served.
LEMMA SameCall ==
  ASSUME TypeInv, NEW h \in Handlers, Moves(h), Busy(h)
  PROVE  /\ Busy(h)' /\ \A g \in Handlers \ {h} : pc'[g] = pc[g] /\ req'[g] = req[g]
         /\ req'[h].op = req[h].op /\ req'[h].volume = req[h].volume
         /\ req'[h].path = req[h].path
         /\ Keys(req'[h]) = Keys(req[h]) /\ RightPath(req[h]) = RightPath(req'[h])
<1>1. /\ \A g \in Handlers \ {h} : pc'[g] = pc[g] /\ req'[g] = req[g]
      /\ pc'[h] \in Steps
  BY DEF Moves, TypeInv, ServiceTypeOK
<1>2. /\ req'[h].op = req[h].op /\ req'[h].volume = req[h].volume
      /\ req'[h].path = req[h].path
  BY ServedCalls DEF Moves, TypeInv, ServiceTypeOK, RequestType
<1>3. QED
  BY <1>1, <1>2 DEF Busy, Steps, Keys, RightPath

LEMMA StepKeepsLocks ==
  ASSUME LockInv, NEW h \in Handlers, Moves(h) \/ Returns(h), Busy(h)
  PROVE  RightCalls' /\ KeysHeld' /\ KeysApart'
<1>1. TypeInv /\ RightCalls /\ KeysHeld /\ KeysApart
  BY DEF LockInv
<1>2. CASE Moves(h)
  <2>1. /\ \A g \in Handlers : /\ Busy(g)' = Busy(g)
                             /\ Keys(req'[g]) = Keys(req[g])
                             /\ RightPath(req'[g]) = RightPath(req[g])
        /\ UNCHANGED locks
    BY <1>1, <1>2, SameCall DEF Busy, Moves
  <2>2. QED
    BY <1>1, <2>1 DEF RightCalls, KeysHeld, KeysApart
<1>3. CASE Returns(h)
  <2>1. /\ \A g \in Handlers \ {h} : pc'[g] = pc[g] /\ req'[g] = req[g]
        /\ ~Busy(h)' /\ locks' = locks \ Keys(req[h])
    BY <1>1, <1>3 DEF Returns, Return, Release, TypeInv, ServiceTypeOK, Busy
  <2>2. RightCalls' /\ KeysApart'
    BY <1>1, <2>1 DEF RightCalls, KeysApart, Busy
  <2>3. KeysHeld'
    BY <1>1, <2>1 DEF KeysHeld, KeysApart, Busy
  <2>4. QED
    BY <2>2, <2>3
<1>4. QED
  BY <1>2, <1>3

LEMMA AcceptKeepsLocks ==
  ASSUME LockInv, NEW h \in Handlers, NEW r \in Requests, Accept(h, r)
  PROVE  RightCalls' /\ KeysHeld' /\ KeysApart'
<1>1. TypeInv /\ RightCalls /\ KeysHeld /\ KeysApart /\ RightPath(r)
  BY NodeAssumption DEF LockInv
<1>2. /\ \A g \in Handlers \ {h} : pc'[g] = pc[g] /\ req'[g] = req[g]
      /\ req'[h] = r /\ ~Busy(h) /\ Keys(r) \cap locks = {} /\ locks' = locks \cup Keys(r)
  BY <1>1 DEF Accept, Acquire, Acquirable, TypeInv, ServiceTypeOK
<1>3. RightCalls' /\ KeysHeld'
  BY <1>1, <1>2 DEF RightCalls, KeysHeld, Busy
<1>4. KeysApart'
  BY <1>1, <1>2 DEF KeysHeld, KeysApart, Busy
<1>5. QED
  BY <1>3, <1>4

LEMMA LockInvInit == Init => LockInv
BY TypeInvInit DEF Init, LockInv, RightCalls, KeysHeld, KeysApart, Busy

LEMMA LockInvStep == LockInv /\ [Next]_vars => LockInv'
<1> SUFFICES ASSUME LockInv, [Next]_vars PROVE LockInv'
  OBVIOUS
<1>1. TypeInv /\ TypeInv'
  BY TypeInvStep DEF LockInv
<1>2. CASE UNCHANGED <<pc, req, locks>>
  BY <1>1, <1>2 DEF LockInv, RightCalls, KeysHeld, KeysApart, Busy
<1>3. ASSUME NEW h \in Handlers, Step(h) PROVE LockInv'
  BY <1>1, <1>3, StepShapes, StepKeepsLocks DEF LockInv
<1>4. ASSUME NEW h \in Handlers, NEW r \in Requests, Receive(h, r) PROVE LockInv'
  BY <1>1, <1>2, <1>4, AcceptKeepsLocks DEF Receive, Reject, LockInv, vars
<1>5. ASSUME NEW r \in late, Land(r) PROVE LockInv'
  BY <1>2, <1>5 DEF Land
<1>6. CASE Crash \/ Reboot
  BY <1>1, <1>6 DEF Crash, Reboot, Die, LockInv, RightCalls, KeysHeld, KeysApart, Busy
<1>7. CASE World
  BY <1>2, <1>7 DEF World, Want, Unwant, PodWrites, Grow, Attach, Detach
<1>8. CASE UNCHANGED vars
  BY <1>2, <1>8 DEF vars
<1>9. ASSUME NEW h \in Handlers, GiveUp(h) PROVE LockInv'
  BY <1>2, <1>9 DEF GiveUp
<1>10. QED
  BY <1>3, <1>4, <1>5, <1>6, <1>7, <1>8, <1>9 DEF Next

LEMMA OnePath ==
  ASSUME LockInv, NEW h \in Handlers, NEW g \in Handlers, h # g, Busy(h), Busy(g),
         req[h].op # "expand", req[g].op # "expand"
  PROVE  req[h].path # req[g].path
<1>1. TypeInv /\ KeysApart /\ RightPath(req[h]) /\ RightPath(req[g])
  BY DEF LockInv, RightCalls
<1>2. /\ req[h].path \in PathsOf(req[h].volume) /\ req[h].volume \in Volumes
      /\ req[g].path \in PathsOf(req[g].volume) /\ req[g].volume \in Volumes
  BY <1>1, ServedCalls, HostAssumption, NodeAssumption DEF RightPath, PathsOf, Malformed
<1>3. <<req[h].volume, req[h].path>> # <<req[g].volume, req[g].path>>
  BY <1>1 DEF KeysApart, Keys
<1>4. QED
  BY <1>2, <1>3, PathsApart

\* No two calls that mount or unmount are at work on the same path at once:
\* a handler holds the key "volume-path" until it answers, a path belongs to
\* one volume, and a crash that empties the table ends the calls with it.
THEOREM PathExclusive == Spec => []OneCallPerPath
<1>1. LockInv => OneCallPerPath
  BY OnePath DEF OneCallPerPath
<1>2. QED
  BY LockInvInit, LockInvStep, <1>1, PTL DEF Spec
=============================================================================
