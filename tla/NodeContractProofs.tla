------------------------- MODULE NodeContractProofs -------------------------
(***************************************************************************)
(* What the node service promises, on nodes where no mount outlasts        *)
(* MountTimeout.  It implements NodeContract: every step of it changes at  *)
(* most what one path shows, as a step of the contract does, or where one  *)
(* volume is attached.  And NodeExpandVolume, which takes no lock, keeps   *)
(* its word to a caller that waits for its answer, though handlers whose   *)
(* callers have given up may still be at work on what is there by then.    *)
(***************************************************************************)
EXTENDS NodeMountProofs

USE DEF host, known, handling

\* What the contract speaks about.
StagedNow == {v \in Volumes : Mounted(Staging(v)) /\ Shown(Staging(v)).vol = v}
ShownNow == [t \in Targets |-> IF Mounted(t) THEN Shown(t).vol ELSE None]
AttachedNow == {v \in Volumes : Attached(v)}
Same == UNCHANGED <<StagedNow, ShownNow, AttachedNow>>

\* The contract's state under the invariant: a path shows its own volume.
OwnShown == /\ \A v \in Volumes : v \in StagedNow <=> Mounted(Staging(v))
            /\ \A t \in Targets : ShownNow[t] = IF Mounted(t) THEN VolumeAt[t] ELSE None

LEMMA ContractState == MountInv => OwnShown
<1> SUFFICES ASSUME MountInv PROVE OwnShown
  OBVIOUS
<1>1. ASSUME NEW p \in Paths, Mounted(p) PROVE Shown(p).vol = VolumeOf(p)
  BY <1>1 DEF MountInv, PathInv
<1>2. \A v \in Volumes : Staging(v) \in Paths /\ VolumeOf(Staging(v)) = v
  BY VolumeOfPath DEF Paths, Stagings
<1>3. \A t \in Targets : t \in Paths /\ VolumeOf(t) = VolumeAt[t]
  BY DEF Paths, VolumeOf
<1>4. QED
  BY <1>1, <1>2, <1>3 DEF OwnShown, StagedNow, ShownNow

LEMMA ContractStateNext == MountInv' => OwnShown'
BY ContractState, PTL

\* A volume of which no target may be mounted is unpublished.
LEMMA ClosedIsUnpublished ==
  ASSUME MountInv, NEW v \in Volumes, TargetsOf(v) \cap open = {}
  PROVE  \A t \in Targets : ShownNow[t] # v
<1>1. ASSUME NEW t \in Targets, ShownNow[t] = v PROVE FALSE
  <2>1. Mounted(t) /\ VolumeAt[t] = v
    BY <1>1, ContractState, HostAssumption DEF OwnShown
  <2>2. t \in open
    BY <2>1 DEF MountInv, PathInv, Paths
  <2>3. QED
    BY <2>1, <2>2 DEF TargetsOf
<1>2. QED
  BY <1>1

\* Where only one staging path, or only one target, changes.
LEMMA OneStagingChanges ==
  ASSUME MountInv, MountInv', NEW v \in Volumes, UNCHANGED plugged,
         \A q \in Paths \ {Staging(v)} : mounts'[q] = mounts[q]
  PROVE  /\ UNCHANGED <<ShownNow, AttachedNow>>
         /\ Mounted(Staging(v))' => StagedNow' = StagedNow \cup {v}
         /\ ~Mounted(Staging(v))' => StagedNow' = StagedNow \ {v}
<1>1. \A t \in Targets : Mounted(t)' = Mounted(t) /\ Shown(t)' = Shown(t)
  BY HostAssumption DEF Paths, Stagings, Mounted, Shown
<1>2. UNCHANGED <<ShownNow, AttachedNow>>
  BY <1>1 DEF ShownNow, AttachedNow, Attached
<1>3. \A w \in Volumes \ {v} : Mounted(Staging(w))' = Mounted(Staging(w))
  BY DEF Paths, Stagings, Mounted, Staging
<1>4. \A w \in Volumes : (w \in StagedNow' <=> Mounted(Staging(w))')
                         /\ (w \in StagedNow <=> Mounted(Staging(w)))
  BY ContractState, ContractStateNext DEF OwnShown
<1>5. StagedNow \subseteq Volumes /\ StagedNow' \subseteq Volumes
  BY DEF StagedNow
<1>6. QED
  BY <1>2, <1>3, <1>4, <1>5

LEMMA OneTargetChanges ==
  ASSUME MountInv, MountInv', NEW t \in Targets, UNCHANGED plugged,
         \A q \in Paths \ {t} : mounts'[q] = mounts[q]
  PROVE  /\ UNCHANGED <<StagedNow, AttachedNow>>
         /\ Mounted(t)' => ShownNow' = [ShownNow EXCEPT ![t] = VolumeAt[t]]
         /\ ~Mounted(t)' => ShownNow' = [ShownNow EXCEPT ![t] = None]
<1>1. \A v \in Volumes : Staging(v) \in Paths \ {t}
  BY HostAssumption DEF Paths, Stagings
<1>2. UNCHANGED <<StagedNow, AttachedNow>>
  BY <1>1 DEF StagedNow, AttachedNow, Attached, Mounted, Shown
<1>3. \A u \in Targets \ {t} : ShownNow'[u] = ShownNow[u]
  BY DEF ShownNow, Paths, Mounted, Shown
<1>4. ShownNow'[t] = IF Mounted(t)' THEN VolumeAt[t] ELSE None
  BY ContractStateNext DEF OwnShown
<1>5. DOMAIN ShownNow = Targets /\ DOMAIN ShownNow' = Targets
      /\ ShownNow' = [u \in Targets |-> ShownNow'[u]] /\ ShownNow = [u \in Targets |-> ShownNow[u]]
  BY DEF ShownNow
<1>6. QED
  BY <1>2, <1>3, <1>4, <1>5

-----------------------------------------------------------------------------
\* Which steps of a handler change what its path shows, and what they rest on.
LEMMA PathChanges ==
  ASSUME MountInv, NEW h \in Handlers, Step(h), mounts' # mounts,
         NEW p \in Paths, p = req[h].path
  PROVE  LET r == req[h] IN
         \/ r.op = "stage" /\ Behind(r.device) = r.volume /\ Mounted(p)'
         \/ r.op = "unstage" /\ ~Mounted(p)' /\ TargetsOf(r.volume) \cap open = {}
         \/ r.op = "publish" /\ ~Mounted(p) /\ Mounted(Staging(r.volume)) /\ Mounted(p)'
         \/ r.op = "unpublish" /\ ~Mounted(p)'
<1> USE DEF Serving
<1> DEFINE r == req[h]
<1>1. /\ CallInv(h) /\ HostTypeOK /\ PathInv(r.path)
      /\ PathInv(Staging(r.volume)) /\ mounts[r.path] \in Seq(Mount)
  BY OwnFacts
<1>2. \/ r.op = "stage" /\ pc[h] = "mount" /\ MountOn(p, DeviceMount(r))
      \/ r.op \in {"unstage", "unpublish"} /\ Mounted(p) /\ UnmountTop(p)
      \/ r.op = "publish" /\ pc[h] = "bind" /\ MountOn(p, Shown(Staging(r.volume)))
  BY DEF Step, NodeStageVolume, StageLooks, FormatLooks, FormatMisreads, FormatMakes,
         StageMounts,
         NodeUnstageVolume, NodeUnpublishVolume, UndoLooks, UndoUnmounts, UndoRemoves,
         NodePublishVolume, PublishLooks, PublishLooksAtTarget, PublishBinds,
         NodeExpandVolume, getDeviceForMountPoint, ExpandAsksFsType, ExpandResizes
<1>3. ASSUME NEW e \in Mount, MountOn(p, e), ~Mounted(p) PROVE Mounted(p)'
  <2>1. mounts'[p] = <<e>>
    <3>1. mounts[p] = << >> /\ p \in DOMAIN mounts
      BY <1>1, <1>3 DEF Mounted, HostTypeOK
    <3>2. mounts'[p] = Append(mounts[p], e)
      BY <1>3, <3>1 DEF MountOn
    <3>3. QED
      BY <3>1, <3>2
  <2>2. QED
    BY <2>1 DEF Mounted
<1>4. CASE r.op = "stage" /\ pc[h] = "mount" /\ MountOn(p, DeviceMount(r))
  <2>1. Behind(r.device) = r.volume /\ ~Mounted(p) /\ r.volume \in Volumes
    BY <1>1, <1>4, OwnFacts DEF CallInv, CallDevice, CallPath
  <2>2. DeviceMount(r) \in Mount
    BY <2>1, HostAssumption DEF DeviceMount, Mount, Behind
  <2>3. QED
    BY <1>3, <1>4, <2>1, <2>2
<1>5. CASE r.op \in {"unstage", "unpublish"} /\ Mounted(p) /\ UnmountTop(p)
  <2>1. Len(mounts[p]) = 1 /\ SubSeq(mounts[p], 1, 0) = << >>
    BY <1>1, <1>5 DEF PathInv
  <2>2. mounts'[p] = << >>
    BY <1>1, <1>5, <2>1 DEF UnmountTop, HostTypeOK
  <2>3. QED
    BY <1>1, <1>5, <2>2 DEF Mounted, CallInv, CallKnown
<1>6. CASE r.op = "publish" /\ pc[h] = "bind" /\ MountOn(p, Shown(Staging(r.volume)))
  <2>1. Shown(Staging(r.volume)) \in Mount
    BY <1>1, OwnFacts, StackTyped
  <2>2. QED
    BY <1>1, <1>3, <1>6, <2>1 DEF CallInv, CallKnown, CallPath, PathInv
<1>7. QED
  BY <1>2, <1>4, <1>5, <1>6

\* A step of a handler is a step of the contract, or none.
LEMMA StepMeetsContract ==
  ASSUME MountInv, MountInv', NEW h \in Handlers, Step(h)
  PROVE  Contract!Next \/ Same
<1> SUFFICES ASSUME NEW p \in Paths, p = req[h].path, NEW v \in Volumes, v = req[h].volume
             PROVE  Contract!Next \/ Same
  BY OwnFacts
<1> DEFINE r == req[h]
<1>1. /\ Busy(h) /\ LockInv /\ Bounded(h)
      /\ r.op \in {"stage", "unstage"} => p = Staging(v)
      /\ r.op \notin {"stage", "unstage"} => p \in Targets /\ VolumeAt[p] = v
  BY OwnFacts, CallsPath DEF TargetsOf
<1>2. UNCHANGED plugged /\ \A q \in Paths \ {p} : mounts'[q] = mounts[q]
  BY <1>1 DEF Bounded
<1>3. OwnShown
  BY ContractState
<1>4. CASE mounts' = mounts
  BY <1>2, <1>4 DEF Same, StagedNow, ShownNow, AttachedNow, Attached, Mounted, Shown
<1>5. CASE r.op = "stage" /\ Behind(r.device) = v /\ Mounted(p)'
  <2>1. UNCHANGED <<ShownNow, AttachedNow>> /\ StagedNow' = StagedNow \cup {v}
    BY <1>1, <1>2, <1>5, OneStagingChanges
  <2>2. v \in AttachedNow
    BY <1>5, HostAssumption DEF AttachedNow, Attached, Behind
  <2>3. Contract!Stage(v)
    BY <2>1, <2>2 DEF Contract!Stage, StagedNow, ShownNow, AttachedNow
  <2>4. QED
    BY <2>3 DEF Contract!Next
<1>6. CASE r.op = "unstage" /\ ~Mounted(p)' /\ TargetsOf(v) \cap open = {}
  <2>1. UNCHANGED <<ShownNow, AttachedNow>> /\ StagedNow' = StagedNow \ {v}
    BY <1>1, <1>2, <1>6, OneStagingChanges
  <2>2. \A t \in Targets : ShownNow[t] # v
    BY <1>6, ClosedIsUnpublished
  <2>3. Contract!Unstage(v)
    BY <2>1, <2>2 DEF Contract!Unstage, Contract!Unpublished, StagedNow, ShownNow, AttachedNow
  <2>4. QED
    BY <2>3 DEF Contract!Next
<1>7. CASE r.op = "publish" /\ ~Mounted(p) /\ Mounted(Staging(v)) /\ Mounted(p)'
  <2>1. p \in Targets /\ VolumeAt[p] = v
    BY <1>1, <1>7
  <2>2. UNCHANGED <<StagedNow, AttachedNow>> /\ ShownNow' = [ShownNow EXCEPT ![p] = VolumeAt[p]]
    BY <1>2, <1>7, <2>1, OneTargetChanges
  <2>3. VolumeAt[p] \in StagedNow /\ ShownNow[p] = None
    BY <1>3, <1>7, <2>1 DEF OwnShown
  <2>4. Contract!Publish(p)
    BY <2>2, <2>3 DEF Contract!Publish, StagedNow, ShownNow, AttachedNow
  <2>5. QED
    BY <2>1, <2>4 DEF Contract!Next
<1>8. CASE r.op = "unpublish" /\ ~Mounted(p)'
  <2>1. p \in Targets
    BY <1>1, <1>8
  <2>2. UNCHANGED <<StagedNow, AttachedNow>> /\ ShownNow' = [ShownNow EXCEPT ![p] = None]
    BY <1>2, <1>8, <2>1, OneTargetChanges
  <2>3. Contract!Unpublish(p)
    BY <2>2 DEF Contract!Unpublish, StagedNow, ShownNow, AttachedNow
  <2>4. QED
    BY <2>1, <2>3 DEF Contract!Next
<1>9. QED
  BY <1>4, <1>5, <1>6, <1>7, <1>8, PathChanges

\* So is what the rest of the world does: a volume leaves the node when no
\* path shows it.
LEMMA WorldMeetsContract ==
  ASSUME MountInv, MountInv', World
  PROVE  Contract!Next \/ Same
<1>1. UNCHANGED mounts /\ OwnShown
  BY ContractState DEF World, Want, Unwant, PodWrites, Grow, Attach, Detach
<1>2. UNCHANGED <<StagedNow, ShownNow>>
  BY <1>1 DEF StagedNow, ShownNow, Mounted, Shown
<1>3. CASE UNCHANGED plugged
  BY <1>2, <1>3 DEF Same, AttachedNow, Attached
<1>4. plugged \in [Devices -> Volumes \cup {None}] /\ None \notin Volumes
  BY HostAssumption DEF MountInv, LockInv, TypeInv, HostTypeOK
<1>5. ASSUME NEW v \in Volumes, NEW d \in Devices, Attach(v, d) PROVE Contract!Next
  <2>1. AttachedNow' = AttachedNow \cup {v}
    BY <1>4, <1>5 DEF Attach, AttachedNow, Attached
  <2>2. Contract!Attach(v)
    BY <1>2, <2>1 DEF Contract!Attach, StagedNow, ShownNow, AttachedNow
  <2>3. QED
    BY <2>2 DEF Contract!Next
<1>6. ASSUME NEW v \in Volumes, NEW d \in Devices, Detach(v, d) PROVE Contract!Next \/ Same
  <2>1. PathsOf(v) \cap open = {} /\ plugged' = [plugged EXCEPT ![d] = None] /\ plugged[d] = v
    BY <1>6 DEF Detach
  <2>2. v \notin StagedNow
    <3>1. ~Mounted(Staging(v))
      BY <2>1 DEF MountInv, PathInv, PathsOf, Paths, Stagings
    <3>2. QED
      BY <1>1, <3>1 DEF OwnShown
  <2>3. \A t \in Targets : ShownNow[t] # v
    BY <2>1, ClosedIsUnpublished DEF PathsOf
  <2>4. AttachedNow' = AttachedNow \ {v} \/ AttachedNow' = AttachedNow
    <3>1. \A w \in Volumes \ {v} : Attached(w)' = Attached(w)
      BY <1>4, <2>1 DEF Attached
    <3>2. v \in AttachedNow
      BY <2>1 DEF AttachedNow, Attached
    <3>3. QED
      BY <3>1, <3>2 DEF AttachedNow
  <2>5. CASE AttachedNow' = AttachedNow \ {v}
    <3>1. Contract!Detach(v)
      BY <1>2, <2>2, <2>3, <2>5 DEF Contract!Detach, Contract!Unpublished, StagedNow, ShownNow,
                                    AttachedNow
    <3>2. QED
      BY <3>1 DEF Contract!Next
  <2>6. QED
    BY <1>2, <2>4, <2>5 DEF Same
<1>7. QED
  BY <1>3, <1>5, <1>6 DEF World, Want, Unwant, PodWrites, Grow

LEMMA NextMeetsContract ==
  ASSUME MountInv, MountInv', [Next]_vars
  PROVE  Contract!Next \/ Same
<1>1. CASE UNCHANGED <<plugged, mounts>>
  BY <1>1 DEF Same, StagedNow, ShownNow, AttachedNow, Attached, Mounted, Shown
<1>2. ASSUME NEW h \in Handlers, NEW r \in Requests, Receive(h, r)
      PROVE  UNCHANGED <<plugged, mounts>>
  BY <1>2 DEF Receive, Reject, Accept, vars
<1>3. CASE Reboot
  <2>1. StagedNow' = {} /\ ShownNow' = [t \in Targets |-> None] /\ UNCHANGED AttachedNow
    <3>1. \A p \in Paths : ~Mounted(p)'
      BY <1>3 DEF Reboot, Mounted
    <3>2. UNCHANGED plugged
      BY <1>3 DEF Reboot
    <3>3. QED
      BY <3>1, <3>2 DEF StagedNow, ShownNow, AttachedNow, Attached, Paths, Stagings
  <2>2. Contract!Reboot
    BY <2>1 DEF Contract!Reboot, StagedNow, ShownNow, AttachedNow
  <2>3. QED
    BY <2>2 DEF Contract!Next
<1>4. ASSUME NEW r \in late PROVE FALSE
  BY <1>4 DEF MountInv
<1>5. ASSUME NEW h \in Handlers, GiveUp(h) PROVE UNCHANGED <<plugged, mounts>>
  BY <1>5 DEF GiveUp
<1>6. QED
  BY <1>1, <1>2, <1>3, <1>4, <1>5, StepMeetsContract, WorldMeetsContract DEF Next, Crash, vars

\* Where no mount outlasts its timeout, the node service implements its
\* contract: at each target the volume that belongs there and is staged, or
\* nothing, and a volume that no path shows when it leaves the node.
THEOREM NodeContractKept == ~MountsHang => (Spec => ImplementsContract)
<1> SUFFICES ASSUME ~MountsHang PROVE Spec => ImplementsContract
  OBVIOUS
<1>1. Init => Contract!Init
  <2> SUFFICES ASSUME Init PROVE Contract!Init
    OBVIOUS
  <2>1. \A p \in Paths : ~Mounted(p)
    BY DEF Init, HostInit, Mounted
  <2>2. \A v \in Volumes : ~Attached(v)
    BY HostAssumption DEF Init, HostInit, Attached
  <2>3. QED
    BY <2>1, <2>2 DEF Contract!Init, Paths, Stagings
<1>2. MountInv /\ MountInv' /\ [Next]_vars =>
        [Contract!Next]_(<<{v \in Volumes : Mounted(Staging(v)) /\ Shown(Staging(v)).vol = v},
                           [t \in Targets |-> IF Mounted(t) THEN Shown(t).vol ELSE None],
                           {v \in Volumes : Attached(v)}>>)
  BY NextMeetsContract DEF Same, StagedNow, ShownNow, AttachedNow
<1>3. Spec => []MountInv
  BY MountInvAlways
<1>4. QED
  BY <1>1, <1>2, <1>3, PTL DEF Spec, ImplementsContract, Contract!Spec, Contract!contract

-----------------------------------------------------------------------------
\* A call to expand that is waited for is for a volume that is published, and
\* works on the device of that volume.  Of one that was given up nothing is
\* known.
ExpandInv(h) ==
  LET r == req[h] IN
  r.op = "expand" /\ h \notin unheard
    => r.path \in told /\ (pc[h] # "device" => Behind(r.device) = r.volume)

FillInv == MountInv /\ ExpandedFills /\ \A h \in Handlers : Busy(h) => ExpandInv(h)

\* The first entry of the mount table for a path is the one that shows.
LEMMA BottomIsTop ==
  ASSUME MountInv, NEW p \in Paths, Mounted(p)
  PROVE  mounts[p][1] = Shown(p)
BY DEF MountInv, PathInv, Shown

\* What a call to expand that is waited for knows.
LEMMA ExpandFacts ==
  ASSUME FillInv, NEW h \in Handlers, Busy(h), req[h].op = "expand", h \notin unheard
  PROVE  LET r == req[h] IN
         /\ r.volume \in Volumes /\ r.path \in Paths /\ Mounted(r.path) /\ r.path \in open
         /\ r.path \in PathsOf(r.volume)
         /\ Shown(r.path).vol = r.volume /\ Behind(mounts[r.path][1].dev) = r.volume
<1>1. /\ MountInv /\ LockInv /\ ExpandInv(h)
      /\ req[h].volume \in Volumes /\ req[h].path \in Paths /\ VolumeOf(req[h].path) = req[h].volume
      /\ req[h].path \in PathsOf(req[h].volume)
  BY CallsPath DEF FillInv, MountInv
<1>2. PathInv(req[h].path) /\ Mounted(req[h].path)
  BY <1>1 DEF MountInv, PathInv, ExpandInv
<1>3. QED
  BY <1>1, <1>2, BottomIsTop DEF PathInv

\* A step keeps what the calls to expand know.
LEMMA StepKeepsExpand ==
  ASSUME FillInv, NEW h \in Handlers, Step(h), NEW g \in Handlers, Busy(g)'
  PROVE  ExpandInv(g)'
<1> USE DEF Serving
<1>1. /\ Busy(h) /\ LockInv /\ TypeInv /\ Bounded(h) /\ (Moves(h) \/ Returns(h)) /\ MountInv
  BY OwnFacts, StepShapes DEF FillInv
<1>2. /\ told \subseteq told' /\ UNCHANGED plugged
      /\ \A k \in unheard \ {h} : k \in unheard'
      /\ Moves(h) => UNCHANGED unheard
  BY <1>1 DEF Bounded, Moves, Returns, Return
<1>3. CASE g # h
  <2>1. pc'[g] = pc[g] /\ req'[g] = req[g]
    BY <1>1, <1>3, SameCall DEF Returns, Return, TypeInv, ServiceTypeOK
  <2>2. ExpandInv(g)
    BY <2>1 DEF FillInv, Busy
  <2>3. QED
    BY <1>2, <1>3, <2>1, <2>2 DEF ExpandInv, Behind
<1>4. CASE g = h
  <2>1. Moves(h)
    BY <1>1, <1>4 DEF Returns, Return, TypeInv, ServiceTypeOK, Busy
  <2>2. /\ req'[h].op = req[h].op /\ req'[h].volume = req[h].volume /\ req'[h].path = req[h].path
    BY <1>1, <2>1, SameCall
  <2>3. ASSUME req[h].op = "expand", h \notin unheard
        PROVE  req[h].path \in told' /\ Behind(req[h].device)' = req[h].volume
    <3>1. ExpandInv(h) /\ Behind(mounts[req[h].path][1].dev) = req[h].volume
      BY <1>1, <2>3, ExpandFacts DEF FillInv
    <3>2. \/ req'[h].device = mounts[req[h].path][1].dev
          \/ req'[h].device = req[h].device /\ pc[h] # "device"
      <4>1. getDeviceForMountPoint(h) \/ ExpandAsksFsType(h) \/ ExpandResizes(h)
        BY <2>3 DEF Step, NodeStageVolume, StageLooks, FormatLooks, FormatMisreads, FormatMakes,
         StageMounts,
           NodeUnstageVolume, NodeUnpublishVolume, UndoLooks, UndoUnmounts, UndoRemoves,
           NodePublishVolume, PublishLooks, PublishLooksAtTarget, PublishBinds, NodeExpandVolume
      <4>2. CASE getDeviceForMountPoint(h)
        <5>1. \/ req' = [req EXCEPT ![h].device = mounts[req[h].path][1].dev]
              \/ pc' = [pc EXCEPT ![h] = "idle"]
          BY <4>2 DEF getDeviceForMountPoint, Refuse, Fail, Return
        <5>2. pc'[h] # "idle"
          BY <1>4 DEF Busy
        <5>3. h \in DOMAIN req /\ h \in DOMAIN pc /\ req[h] \in RequestType
          BY <1>1, ServedCalls DEF TypeInv, ServiceTypeOK
        <5>4. QED
          BY <5>1, <5>2, <5>3 DEF RequestType
      <4>3. CASE ExpandAsksFsType(h)
        <5>1. \/ req' = [req EXCEPT ![h].fs = FsOn(req[h].device)]
              \/ pc' = [pc EXCEPT ![h] = "idle"]
          BY <4>3 DEF ExpandAsksFsType, Refuse, Fail, Return
        <5>2. pc'[h] # "idle" /\ pc[h] # "device"
          BY <1>4, <4>3 DEF Busy, ExpandAsksFsType
        <5>3. h \in DOMAIN req /\ h \in DOMAIN pc /\ req[h] \in RequestType
          BY <1>1, ServedCalls DEF TypeInv, ServiceTypeOK
        <5>4. QED
          BY <5>1, <5>2, <5>3 DEF RequestType
      <4>4. CASE ExpandResizes(h)
        <5>1. pc'[h] = "idle"
          BY <1>1, <4>4 DEF ExpandResizes, Refuse, Fail, Succeed, Return, TypeInv, ServiceTypeOK
        <5>2. QED
          BY <1>4, <5>1 DEF Busy
      <4>5. QED
        BY <4>1, <4>2, <4>3, <4>4
    <3>3. QED
      BY <1>2, <2>3, <3>1, <3>2 DEF ExpandInv, Behind
  <2>4. QED
    BY <1>2, <1>4, <2>1, <2>2, <2>3 DEF ExpandInv
<1>5. QED
  BY <1>3, <1>4

\* Only the answer after a resize adds to what is known to be filled.
LEMMA StepKeepsFilled ==
  ASSUME FillInv, NEW h \in Handlers, Step(h)
  PROVE  ExpandedFills'
<1> USE DEF Serving
<1> DEFINE r == req[h]
<1>1. Busy(h) /\ LockInv /\ TypeInv /\ HostTypeOK /\ MountInv
  BY OwnFacts DEF FillInv
<1>2. \A v \in filled : v \in Volumes /\ disk[v].room = disk[v].size
  BY <1>1 DEF FillInv, ExpandedFills, TypeInv, ServiceTypeOK
<1>3. CASE ExpandResizes(h) /\ Resized(r.device, r.path, r.fs)
  <2>1. r.op = "expand" /\ pc[h] = "resize" /\ ExpandInv(h)
    BY <1>1, <1>3 DEF ExpandResizes, FillInv
  <2>2. \A v \in filled : disk'[v].room = disk'[v].size
    <3> DEFINE w == IF r.fs = "xfs" THEN Shown(r.path).vol ELSE Behind(r.device)
    <3>1. disk' = [disk EXCEPT ![w].room = disk[w].size]
      BY <1>3 DEF Resized
    <3> HIDE DEF w
    <3>2. QED
      BY <1>1, <1>2, <3>1 DEF HostTypeOK
  <2>3. CASE h \in unheard
    <3>1. UNCHANGED filled
      BY <1>3, <2>3 DEF ExpandResizes, Succeed, Refuse, Fail
    <3>2. QED
      BY <2>2, <3>1 DEF ExpandedFills
  <2>4. CASE h \notin unheard
    <3>1. r.volume \in Volumes /\ Shown(r.path).vol = r.volume /\ Behind(r.device) = r.volume
      BY <1>1, <2>1, <2>4, ExpandFacts DEF ExpandInv
    <3>2. disk' = [disk EXCEPT ![r.volume].room = disk[r.volume].size]
      BY <1>3, <3>1 DEF Resized
    <3>3. filled' \subseteq filled \cup {r.volume}
      BY <1>3, <2>1 DEF ExpandResizes, Succeed, Refuse, Fail, Hears
    <3>4. \A v \in filled' : disk'[v].room = disk'[v].size
      BY <1>1, <2>2, <3>1, <3>2, <3>3 DEF HostTypeOK
    <3>5. QED
      BY <3>4 DEF ExpandedFills
  <2>5. QED
    BY <2>3, <2>4
<1>4. CASE ~(ExpandResizes(h) /\ Resized(r.device, r.path, r.fs))
  <2>1. UNCHANGED filled
    BY <1>4 DEF Step, NodeStageVolume, StageLooks, FormatLooks, FormatMisreads, FormatMakes,
         StageMounts,
         NodeUnstageVolume, NodeUnpublishVolume, UndoLooks, UndoUnmounts, UndoRemoves,
         NodePublishVolume, PublishLooks, PublishLooksAtTarget, PublishBinds,
         NodeExpandVolume, getDeviceForMountPoint, ExpandAsksFsType, ExpandResizes,
         GoTo, Refuse, Fail, Succeed, Hears
  <2>2. UNCHANGED disk \/ FormatMisreads(h) \/ Formatted(r.device, r.fs) \/ RemovedAll(r.path)
    BY <1>4 DEF Step, NodeStageVolume, StageLooks, FormatLooks, FormatMisreads, FormatMakes,
         StageMounts,
         NodeUnstageVolume, NodeUnpublishVolume, UndoLooks, UndoUnmounts, UndoRemoves,
         NodePublishVolume, PublishLooks, PublishLooksAtTarget, PublishBinds,
         NodeExpandVolume, getDeviceForMountPoint, ExpandAsksFsType, ExpandResizes
  <2>3. ASSUME NEW v \in filled PROVE disk'[v].room = disk'[v].size
    <3>1. v \in Volumes /\ disk[v].room = disk[v].size
      BY <1>2
    <3>2. CASE Formatted(r.device, r.fs)
      BY <1>1, <3>1, <3>2 DEF Formatted, HostTypeOK
    <3>3. CASE RemovedAll(r.path)
      <4> DEFINE w == Shown(r.path).vol
                 x == Destroyed(disk[w].data, "deleted")
      <4>1. disk' = disk \/ disk' = [disk EXCEPT ![w].data = x]
        BY <3>3 DEF RemovedAll
      <4> HIDE DEF w, x
      <4>2. disk'[v] = disk[v] \/ disk'[v] = [disk[v] EXCEPT !.data = x]
        BY <1>1, <3>1, <4>1 DEF HostTypeOK
      <4>3. disk[v] \in [fs : FsTypes \cup {None}, data : DataStates, size : 1..MaxSize,
                         room : 0..MaxSize, unread : BOOLEAN]
        BY <1>1, <3>1 DEF HostTypeOK
      <4>4. QED
        BY <3>1, <4>2, <4>3
    <3>4. CASE FormatMisreads(h)
      BY <1>1, <3>1, <3>4 DEF FormatMisreads, HostTypeOK
    <3>5. QED
      BY <2>2, <3>1, <3>2, <3>3, <3>4
  <2>4. QED
    BY <2>1, <2>3 DEF ExpandedFills
<1>5. QED
  BY <1>3, <1>4

\* The orchestrator withdraws no volume while it waits for its expansion, and
\* expands none that is being withdrawn.
LEMMA AcceptKeepsExpand ==
  ASSUME FillInv, NEW h \in Handlers, NEW r \in Requests, MayCall(r), Accept(h, r),
         NEW g \in Handlers, Busy(g)'
  PROVE  ExpandInv(g)'
<1>1. /\ LockInv /\ TypeInv /\ MountInv /\ r \in RequestType /\ ~Malformed(r) /\ RightPath(r)
      /\ r.volume \in Volumes /\ r.volume # None /\ r.op \in Ops
  BY NodeAssumption, HostAssumption
     DEF FillInv, MountInv, LockInv, Accept, RequestType, Malformed
<1>2. /\ pc'[h] = FirstStep(r) /\ req'[h] = r /\ Makes(r) /\ UNCHANGED <<plugged, unheard>>
      /\ \A k \in Handlers \ {h} : pc'[k] = pc[k] /\ req'[k] = req[k]
  BY <1>1 DEF Accept, TypeInv, ServiceTypeOK
<1>3. CASE g = h
  BY <1>1, <1>2, <1>3 DEF ExpandInv, MayCall, Makes, FirstStep
<1>4. CASE g # h /\ req[g].op = "expand" /\ g \notin unheard
  <2>1. ExpandInv(g) /\ Busy(g) /\ pc'[g] = pc[g] /\ req'[g] = req[g]
    BY <1>2, <1>4 DEF FillInv, Busy
  <2>2. req[g].path \in TargetsOf(req[g].volume)
    BY <1>1, <1>4, <2>1, CallsPath
  <2>3. r.op = "unpublish" => r.path # req[g].path
    BY <1>1, <1>4, <2>1 DEF MayCall, Expanding
  <2>4. r.op = "unstage" => r.path # req[g].path
    BY <1>1, <2>2, HostAssumption, NodeAssumption DEF RightPath, Malformed, TargetsOf, Stagings
  <2>5. req[g].path \in told'
    BY <1>2, <1>4, <2>1, <2>3, <2>4 DEF Makes, ExpandInv
  <2>6. QED
    BY <1>2, <2>1, <2>5 DEF ExpandInv, Behind
<1>5. CASE g # h /\ (req[g].op # "expand" \/ g \in unheard)
  BY <1>2, <1>5 DEF ExpandInv
<1>6. QED
  BY <1>3, <1>4, <1>5

\* What a call to expand that is waited for works on is attached for as long
\* as it is published.
LEMMA WorldKeepsExpand ==
  ASSUME FillInv, World
  PROVE  ExpandedFills' /\ \A h \in Handlers : Busy(h)' => ExpandInv(h)'
<1>1. MountInv /\ LockInv /\ HostTypeOK /\ filled \subseteq Volumes
  BY DEF FillInv, MountInv, LockInv, TypeInv, ServiceTypeOK
<1>2. UNCHANGED <<pc, req, told, unheard>> /\ \A h \in Handlers : Busy(h)' = Busy(h)
  BY DEF World, Want, Unwant, PodWrites, Grow, Attach, Detach, Busy
<1>3. ASSUME NEW h \in Handlers, Busy(h) PROVE ExpandInv(h)'
  <2>1. ExpandInv(h)
    BY <1>3 DEF FillInv
  <2>2. CASE UNCHANGED plugged
    BY <1>2, <2>1, <2>2 DEF ExpandInv, Behind
  <2>3. CASE req[h].op = "expand" /\ h \notin unheard
    <3>1. /\ req[h].volume \in Volumes /\ req[h].path \in open
          /\ req[h].path \in PathsOf(req[h].volume)
      BY <1>3, <2>3, ExpandFacts
    <3>2. ASSUME Behind(req[h].device) = req[h].volume
          PROVE  Behind(req[h].device)' = req[h].volume
      <4>1. req[h].device \in Devices /\ plugged[req[h].device] = req[h].volume
        BY <3>1, <3>2, HostAssumption DEF Behind
      <4>2. plugged'[req[h].device] = req[h].volume
        <5>1. ASSUME NEW v \in Volumes, NEW d \in Devices, Attach(v, d)
              PROVE  plugged'[req[h].device] = req[h].volume
          BY <1>1, <3>1, <4>1, <5>1, HostAssumption DEF Attach, HostTypeOK
        <5>2. ASSUME NEW v \in Volumes, NEW d \in Devices, Detach(v, d)
              PROVE  plugged'[req[h].device] = req[h].volume
          BY <1>1, <3>1, <4>1, <5>2 DEF Detach, HostTypeOK
        <5>3. QED
          BY <4>1, <5>1, <5>2 DEF World, Want, Unwant, PodWrites, Grow
      <4>3. QED
        BY <1>2, <4>1, <4>2 DEF Behind
    <3>3. QED
      BY <1>2, <2>1, <2>3, <3>2 DEF ExpandInv
  <2>4. CASE req[h].op # "expand" \/ h \in unheard
    BY <1>2, <2>4 DEF ExpandInv
  <2>5. QED
    BY <2>3, <2>4
<1>4. ASSUME NEW v \in filled' PROVE disk'[v].room = disk'[v].size
  <2>1. v \in Volumes /\ v \in filled /\ disk[v].room = disk[v].size
    BY <1>1, <1>4 DEF World, Want, Unwant, PodWrites, Grow, Attach, Detach, FillInv, ExpandedFills
  <2>2. CASE UNCHANGED disk
    BY <2>1, <2>2
  <2>3. ASSUME NEW t \in Targets, PodWrites(t) PROVE disk'[v].room = disk'[v].size
    <3> DEFINE w == Shown(t).vol
    <3>1. disk' = [disk EXCEPT ![w].data = "some"]
      BY <2>3 DEF PodWrites
    <3> HIDE DEF w
    <3>2. disk'[v] = disk[v] \/ disk'[v] = [disk[v] EXCEPT !.data = "some"]
      BY <1>1, <2>1, <3>1 DEF HostTypeOK
    <3>3. disk[v] \in [fs : FsTypes \cup {None}, data : DataStates, size : 1..MaxSize,
                       room : 0..MaxSize, unread : BOOLEAN]
      BY <1>1, <2>1 DEF HostTypeOK
    <3>4. QED
      BY <2>1, <3>2, <3>3
  <2>4. ASSUME NEW w \in Volumes, Grow(w) PROVE disk'[v].room = disk'[v].size
    BY <1>1, <1>4, <2>1, <2>4 DEF Grow, HostTypeOK
  <2>5. QED
    BY <2>2, <2>3, <2>4 DEF World, Want, Unwant, Attach, Detach
<1>5. QED
  BY <1>2, <1>3, <1>4 DEF ExpandedFills

LEMMA FillInvInit == Init => FillInv
BY MountInvInit DEF Init, FillInv, ExpandedFills, Busy

LEMMA FillInvStep == ~MountsHang /\ FillInv /\ [Next]_vars => FillInv'
<1> SUFFICES ASSUME ~MountsHang, FillInv, [Next]_vars PROVE FillInv'
  OBVIOUS
<1>1. MountInv'
  BY MountInvStep DEF FillInv
<1>2. CASE UNCHANGED vars
  BY <1>1, <1>2 DEF vars, FillInv, ExpandedFills, ExpandInv, Behind, Busy
<1>3. ASSUME NEW h \in Handlers, Step(h) PROVE FillInv'
  BY <1>1, <1>3, StepKeepsExpand, StepKeepsFilled DEF FillInv
<1>4. ASSUME NEW h \in Handlers, NEW r \in Requests, Receive(h, r) PROVE FillInv'
  <2>1. CASE Accept(h, r)
    <3>1. ExpandedFills'
      BY <1>4, <2>1 DEF Accept, Makes, FillInv, ExpandedFills
    <3>2. QED
      BY <1>1, <1>4, <2>1, <3>1, AcceptKeepsExpand DEF Receive, FillInv
  <2>2. QED
    BY <1>2, <1>4, <2>1 DEF Receive, Reject
<1>5. CASE Crash \/ Reboot
  BY <1>1, <1>5 DEF Crash, Reboot, Die, FillInv, ExpandedFills, Busy
<1>6. CASE World
  BY <1>1, <1>6, WorldKeepsExpand DEF FillInv
<1>7. ASSUME NEW r \in late PROVE FALSE
  BY <1>7 DEF FillInv, MountInv
<1>8. ASSUME NEW h \in Handlers, GiveUp(h) PROVE FillInv'
  BY <1>1, <1>8 DEF GiveUp, FillInv, ExpandedFills, ExpandInv, Behind, Busy
<1>9. QED
  BY <1>2, <1>3, <1>4, <1>5, <1>6, <1>7, <1>8 DEF Next

\* Where no mount outlasts its timeout, the filesystem fills its volume after
\* NodeExpandVolume has answered a caller that waited: though no lock is held,
\* the device it looked up is still the volume's when it resizes.  A handler
\* whose call was given up may by then resize what another volume has at that
\* device path, which takes no volume's room away.
THEOREM ExpandedIsFilled == ~MountsHang => (Spec => []ExpandedFills)
<1> SUFFICES ASSUME ~MountsHang PROVE Spec => []ExpandedFills
  OBVIOUS
<1>1. FillInv /\ [Next]_vars => FillInv'
  BY FillInvStep
<1>2. FillInv => ExpandedFills
  BY DEF FillInv
<1>3. QED
  BY <1>1, <1>2, FillInvInit, PTL DEF Spec
=============================================================================
