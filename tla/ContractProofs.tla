--------------------------- MODULE ContractProofs ---------------------------
(***************************************************************************)
(* Proofs that the controller keeps its promises on volumes when nothing   *)
(* lands late: a handler at its write has looked at the service before,    *)
(* and its lock keeps true what it saw there.                              *)
(***************************************************************************)
EXTENDS ControllerProofs

USE DEF store, handling

\* Lookups of volumes never fail, nor lack the id of what they found.
LookupsWork == "GET_VOLUME" \notin Flaky /\ "id" \notin Omits

\* A volume that is attached is seen to be, by the driver or by the service.
AttachmentsSeen == "nodeId" \notin Omits \/ "ATTACH_VOLUME" \in Checks

\* What the handler that is about to write has seen, and may rely on.
Justified(h) ==
  /\ req[h].op = "CreateVolume" /\ LookupsWork => Named(req[h].name) = {}
  /\ req[h].op = "ControllerPublishVolume" =>
       /\ vols[req[h].volume].st # "free"
       /\ "nodeId" \notin Omits => vols[req[h].volume].node = None
  /\ /\ req[h].op = "ControllerExpandVolume"
     /\ "GET_VOLUME" \notin Flaky /\ "capacity" \notin Omits
     => /\ vols[req[h].volume].st # "free"
        /\ vols[req[h].volume].size < req[h].required

WritesJustified == \A h \in Handlers : pc[h] = "Write" => Justified(h)

NoneLate == late = {}

\* The invariant under all of this: types, locks, nothing late, and every
\* write founded on what is still true.
BaseInv == TypeInv /\ LockInv /\ NoneLate /\ WritesJustified

-----------------------------------------------------------------------------
\* The lookup by name finds nothing only where there is nothing to find.
LEMMA LookupByName ==
  ASSUME LookupsWork, NEW n, NEW res \in GetVolumeByName(n), ~(res.ok /\ ~res.nil)
  PROVE  Named(n) = {}
<1>1. UNION {Parsed(v) : v \in Named(n)} = {}
  BY DEF LookupsWork, GetVolumeByName, LookedUp, Failures, Ok, Nil, Err
<1>2. \A v : \E x : x \in Parsed(v)
  <2> TAKE v
  <2>1. /\ vols[v].size \in Shown("capacity", vols[v].size, 0)
        /\ vols[v].node \in Shown("nodeId", vols[v].node, None)
        /\ "path" \in Shown("devicePath", "path", None)
    BY DEF Shown
  <2>2. CASE vols[v].node = None
    <3>1. [id |-> v, size |-> vols[v].size, node |-> None, device |-> None] \in Parsed(v)
      BY <2>1, <2>2 DEF Parsed
    <3>2. QED
      BY <3>1
  <2>3. CASE vols[v].node # None
    <3>1. [id |-> v, size |-> vols[v].size, node |-> vols[v].node, device |-> "path"]
            \in Parsed(v)
      BY <2>1, <2>3 DEF Parsed
    <3>2. QED
      BY <3>1
  <2>4. QED
    BY <2>2, <2>3
<1>3. QED
  BY <1>1, <1>2

\* The lookup by id shows the volume as it is, but for what answers omit.
LEMMA LookupById ==
  ASSUME NEW v, NEW res \in GetVolume(v)
  PROVE  /\ res.ok => /\ Live(v)
                      /\ res.found.node \in {vols[v].node, None}
                      /\ "nodeId" \notin Omits => res.found.node = vols[v].node
                      /\ "capacity" \notin Omits => res.found.size = vols[v].size
         /\ ~res.ok /\ "GET_VOLUME" \notin Flaky => IsNotFoundError(res)
<1>1. CASE Live(v) /\ res \in {Ok(x) : x \in Parsed(v)}
  BY <1>1 DEF Parsed, Shown, Ok
<1>2. CASE res = Err({"404"})
  BY <1>2 DEF Err, IsNotFoundError
<1>3. CASE res \in Failures("GET_VOLUME")
  BY <1>3 DEF Failures, Err
<1>4. QED
  BY <1>1, <1>2, <1>3 DEF GetVolume

\* Whoever gets to its write by way of a lookup has seen what justifies it.
LEMMA StepsToWriteJustified ==
  ASSUME TypeInv, NEW h \in Handlers, Step(h), pc'[h] = "Write"
  PROVE  Goto(h, "Write") /\ Justified(h)
<1> USE DEF At
<1>1. pc \in [Handlers -> Calls \cup {"idle"}]
  BY DEF TypeInv, TypeOK
<1>2. \A a : ~Answer(h, a)
  BY <1>1 DEF Answer
<1>3. \A a, U : ~Restart(a, U)
  BY DEF Restart
<1>4. \A c : Goto(h, c) => c = "Write"
  BY <1>1 DEF Goto
<1>5. CASE CreateVolumeGetsByName(h)
  BY <1>2, <1>5, LookupByName DEF CreateVolumeGetsByName, AnswerRead, Justified
<1>6. CASE PublishGetsVolume(h)
  BY <1>2, <1>6, LookupById DEF PublishGetsVolume, AnswerRead, Justified, Live
<1>7. CASE ExpandGetsVolume(h)
  <2>1. PICK res \in GetVolume(req[h].volume) :
          /\ Goto(h, "Write")
          /\ \/ ~res.ok /\ ~IsNotFoundError(res)
             \/ res.ok /\ ~(res.found.size > 0 /\ res.found.size >= req[h].required)
    BY <1>2, <1>7 DEF ExpandGetsVolume, AnswerRead
  <2>2. req[h] \in Requests /\ ~Malformed(req[h])
    BY <1>7 DEF ExpandGetsVolume, TypeInv, CallsChecked
  <2>3. req[h].required \in Int /\ req[h].required > 0
    BY <1>7, <2>2, RequestsAssumption DEF ExpandGetsVolume, Malformed, RequestType
  <2>4. Live(req[h].volume) => vols[req[h].volume].size \in Nat
    BY DEF Live, TypeInv, TypeOK, VolumeType
  <2>5. QED
    BY <1>7, <2>1, <2>3, <2>4, LookupById DEF ExpandGetsVolume, Justified, Live
<1>8. CASE SnapshotGetsVolume(h)
  BY <1>2, <1>8 DEF SnapshotGetsVolume, AnswerRead, Justified
<1>9. CASE CreateVolumeGetsSnapshot(h) \/ ValidateGetsVolume(h)
  BY <1>2, <1>4, <1>9 DEF CreateVolumeGetsSnapshot, ValidateGetsVolume, AnswerRead
<1>10. CASE SnapshotGetsByName(h) \/ SnapshotLists(h)
  BY <1>2, <1>3, <1>4, <1>10 DEF SnapshotGetsByName, SnapshotLists, AnswerRead, Panic
<1>11. CASE ListGetsSnapshot(h) \/ ListLists(h)
  BY <1>2, <1>3, <1>11 DEF ListGetsSnapshot, ListLists, AnswerRead, Panic
<1>12. CASE WriteDone(h) \/ WriteRefused(h) \/ WriteFails(h) \/ WriteTimesOut(h)
  BY <1>2, <1>3, <1>12
  DEF WriteDone, WriteRefused, WriteFails, WriteTimesOut, AnswerRead, Panic
<1>13. QED
  BY <1>5, <1>6, <1>7, <1>8, <1>9, <1>10, <1>11, <1>12 DEF Step

-----------------------------------------------------------------------------
\* What the write of each kind of call does to the volumes.
Provisions(r, v) ==
  /\ r.op = "CreateVolume" /\ v \in VolumeIds /\ vols[v].st = "free"
  /\ \E d \in SnapshotIds \cup {None} :
       vols' = [vols EXCEPT ![v] = [st |-> "live", name |-> r.name,
                                    size |-> VolumeSize(r), node |-> None, data |-> d]]
Removes(r) ==
  /\ r.op = "DeleteVolume" /\ Live(r.volume)
  /\ vols' = [vols EXCEPT ![r.volume].st = "gone", ![r.volume].node = None]
Attaches(r) ==
  /\ r.op = "ControllerPublishVolume" /\ Live(r.volume)
  /\ "ATTACH_VOLUME" \in Checks => vols[r.volume].node = None
  /\ vols' = [vols EXCEPT ![r.volume].node = r.node]
Detaches(r) ==
  /\ r.op = "ControllerUnpublishVolume" /\ Live(r.volume)
  /\ "DETACH_VOLUME" \in Checks => r.node \in {None, vols[r.volume].node}
  /\ vols' = [vols EXCEPT ![r.volume].node = None]
Expands(r) ==
  /\ r.op = "ControllerExpandVolume" /\ Live(r.volume) /\ vols[r.volume].node # None
  /\ vols' = [vols EXCEPT ![r.volume].size = r.required]

WriteEffect(r) ==
  \/ \E v \in VolumeIds : Provisions(r, v)
  \/ Removes(r) \/ Attaches(r) \/ Detaches(r) \/ Expands(r)
  \/ vols' = vols

LEMMA WriteEffects ==
  ASSUME NEW r \in Requests, NEW id, Performed(Message(r), id) PROVE WriteEffect(r)
<1> DEFINE m == Message(r)
<1> USE DEF NoMessage, CreateVolume, DeleteVolume, AttachVolume, DetachVolume,
            ExpandVolume, CreateSnapshot, DeleteSnapshot
<1>1. Reasons(m) = {}
  BY DEF Performed, Refused
<1>2. r.op \in Ops
  BY RequestsAssumption DEF RequestType
<1>3. CASE r.op = "CreateVolume"
  <2>1. m = CreateVolume(r.name, VolumeSize(r), r.snapshot)
    BY <1>3 DEF Message
  <2>2. id \in VolumeIds /\ Minted(m, id)
    BY <2>1 DEF Performed, Snapped, Changed
  <2>3. Provisions(r, id)
    BY <1>3, <2>1, <2>2 DEF Minted, Provisions, LiveSnapshot
  <2>4. QED
    BY <2>2, <2>3 DEF WriteEffect
<1>4. CASE r.op = "DeleteVolume"
  <2>1. m = DeleteVolume(r.volume)
    BY <1>4 DEF Message
  <2>2. Live(r.volume)
    BY <1>1, <2>1 DEF Reasons
  <2>3. QED
    BY <1>4, <2>1, <2>2 DEF Performed, Minted, Snapped, Changed, Removes, WriteEffect
<1>5. CASE r.op = "ControllerPublishVolume"
  <2>1. m = AttachVolume(r.volume, r.node)
    BY <1>5 DEF Message
  <2>2. Live(r.volume) /\ ("ATTACH_VOLUME" \in Checks => vols[r.volume].node = None)
    BY <1>1, <2>1 DEF Reasons
  <2>3. QED
    BY <1>5, <2>1, <2>2 DEF Performed, Minted, Snapped, Changed, Attaches, WriteEffect
<1>6. CASE r.op = "ControllerUnpublishVolume"
  <2>1. m = DetachVolume(r.volume, r.node)
    BY <1>6 DEF Message
  <2>2. Live(r.volume)
    BY <1>1, <2>1 DEF Reasons
  <2>3. "DETACH_VOLUME" \in Checks => r.node \in {None, vols[r.volume].node}
    BY <1>1, <2>1, <2>2 DEF Reasons
  <2>4. QED
    BY <1>6, <2>1, <2>2, <2>3
    DEF Performed, Minted, Snapped, Changed, Detaches, WriteEffect
<1>7. CASE r.op = "ControllerExpandVolume"
  <2>1. m = ExpandVolume(r.volume, r.required)
    BY <1>7 DEF Message
  <2>2. Live(r.volume) /\ vols[r.volume].node # None
    BY <1>1, <2>1 DEF Reasons
  <2>3. QED
    BY <1>7, <2>1, <2>2 DEF Performed, Minted, Snapped, Changed, Expands, WriteEffect
<1>8. CASE r.op = "CreateSnapshot" \/ r.op = "DeleteSnapshot"
  <2>1. m.perform \in {"CREATE_SNAPSHOT", "DELETE_SNAPSHOT"}
    BY <1>8 DEF Message
  <2>2. QED
    BY <2>1 DEF Performed, Minted, Snapped, Changed, WriteEffect
<1>9. CASE r.op = "ValidateVolumeCapabilities" \/ r.op = "ListSnapshots"
  <2>1. m.perform = None
    BY <1>9 DEF Message
  <2>2. QED
    BY <2>1, PerformsAssumption DEF Performs, Performed, Minted, Snapped, Changed
<1>10. QED
  BY <1>2, <1>3, <1>4, <1>5, <1>6, <1>7, <1>8, <1>9 DEF Ops

\* Only a handler at its write changes the volumes.
LEMMA StepEffects ==
  ASSUME TypeInv, NEW h \in Handlers, Step(h)
  PROVE  vols' = vols \/ (pc[h] = "Write" /\ WriteEffect(req[h]))
<1>1. pc[h] = "Write" => req[h] \in Requests
  BY DEF TypeInv, CallsChecked
<1>2. CASE Moves(h) \/ RepliesUnwritten(h) \/ TimesOut(h)
  BY <1>2 DEF Moves, Goto, RepliesUnwritten, AnswerRead, TimesOut
<1>3. ASSUME pc[h] = "Write", NEW id, Performed(Message(req[h]), id)
      PROVE  WriteEffect(req[h])
  BY <1>1, <1>3, WriteEffects
<1>4. CASE RepliesWritten(h) \/ Dies(h)
  BY <1>3, <1>4 DEF RepliesWritten, Dies
<1>5. QED
  BY <1>2, <1>4, StepShapes

\* The keys of the calls being served keep their operations apart.
LEMMA KeysApart ==
  ASSUME TypeInv, LockInv, NEW g \in Handlers, NEW h \in Handlers, g # h,
         Active(g), Active(h)
  PROVE  /\ req[g].op = "CreateVolume" /\ req[h].op = "CreateVolume"
            => req[g].name # req[h].name
         /\ /\ req[g].op \in {"ControllerPublishVolume", "ControllerExpandVolume",
                              "ControllerUnpublishVolume", "DeleteVolume"}
            /\ req[h].op \in {"ControllerPublishVolume", "ControllerExpandVolume",
                              "ControllerUnpublishVolume", "DeleteVolume"}
            => req[g].volume # req[h].volume
<1>1. Keys(req[g]) \cap Keys(req[h]) = {}
  BY DEF LockInv
<1>2. QED
  BY <1>1 DEF Keys

\* What a handler has seen stays true while another one writes.
LEMMA OthersUndisturbed ==
  ASSUME TypeInv, LockInv, NEW g \in Handlers, NEW h \in Handlers, g # h,
         pc[g] = "Write", Justified(g), req'[g] = req[g],
         pc[h] = "Write", WriteEffect(req[h])
  PROVE  Justified(g)'
<1>1. vols \in [VolumeIds -> VolumeType]
  BY DEF TypeInv, TypeOK
<1>2. req[g] \in Requests /\ ~Malformed(req[g])
  BY DEF TypeInv, CallsChecked
<1>3. req[g].op \in {"ControllerPublishVolume", "ControllerExpandVolume"}
      => req[g].volume \in VolumeIds
  BY <1>2, RequestsAssumption DEF Malformed, RequestType
<1>4. Active(g) /\ Active(h)
  BY DEF Active
<1>5. CASE vols' = vols
  BY <1>5 DEF Justified, Named, Live
<1>6. ASSUME NEW v \in VolumeIds, Provisions(req[h], v) PROVE Justified(g)'
  <2>1. req[g].op = "CreateVolume" => req[g].name # req[h].name
    BY <1>4, <1>6, KeysApart DEF Provisions
  <2>2. \A w \in VolumeIds : w # v => vols'[w] = vols[w]
    BY <1>1, <1>6 DEF Provisions
  <2>3. vols'[v].name = req[h].name /\ vols[v].st = "free"
    BY <1>1, <1>6 DEF Provisions
  <2>4. req[g].op = "CreateVolume" /\ LookupsWork
        => Named(req[g].name)' = {}
    BY <2>1, <2>2, <2>3 DEF Justified, Named, Live
  <2>5. QED
    BY <1>3, <2>2, <2>3, <2>4 DEF Justified
<1>7. CASE Removes(req[h]) \/ Attaches(req[h]) \/ Detaches(req[h]) \/ Expands(req[h])
  <2>1. req[h].volume \in VolumeIds
    BY <1>7 DEF Removes, Attaches, Detaches, Expands, Live
  <2>2. req[g].op \in {"ControllerPublishVolume", "ControllerExpandVolume"}
        => req[g].volume # req[h].volume
    BY <1>4, <1>7, KeysApart DEF Removes, Attaches, Detaches, Expands
  <2>3. \A w \in VolumeIds : w # req[h].volume => vols'[w] = vols[w]
    BY <1>1, <1>7 DEF Removes, Attaches, Detaches, Expands
  <2>4. \A w \in VolumeIds : /\ vols'[w].name = vols[w].name
                             /\ vols'[w].st = "live" => vols[w].st = "live"
    BY <1>1, <1>7, <2>1 DEF Removes, Attaches, Detaches, Expands, VolumeType
  <2>5. req[g].op = "CreateVolume" /\ LookupsWork
        => Named(req[g].name)' = {}
    BY <2>4 DEF Justified, Named, Live
  <2>6. QED
    BY <1>3, <2>2, <2>3, <2>5 DEF Justified
<1>8. QED
  BY <1>5, <1>6, <1>7 DEF WriteEffect

\* A step of one handler leaves the others where they are, or ends them all.
LEMMA StepLeavesOthers ==
  ASSUME TypeInv, NEW h \in Handlers, Step(h), NEW g \in Handlers, g # h, pc'[g] = "Write"
  PROVE  pc[g] = "Write" /\ req'[g] = req[g]
<1>1. CASE Moves(h)
  BY <1>1 DEF Moves, Goto, TypeInv, TypeOK
<1>2. CASE RepliesUnwritten(h) \/ RepliesWritten(h) \/ TimesOut(h)
  BY <1>2 DEF RepliesUnwritten, AnswerRead, RepliesWritten, TimesOut, Answer, TypeInv, TypeOK
<1>3. CASE Dies(h)
  BY <1>3 DEF Dies, Panic, Restart
<1>4. QED
  BY <1>1, <1>2, <1>3, StepShapes

LEMMA JustifiedUnchanged ==
  ASSUME NEW h \in Handlers, Justified(h), vols' = vols, req'[h] = req[h]
  PROVE  Justified(h)'
BY DEF Justified, Named, Live

LEMMA WritesJustifiedStep ==
  ASSUME TypeInv, LockInv, WritesJustified, NEW h \in Handlers, Step(h)
  PROVE  WritesJustified'
<1> SUFFICES ASSUME NEW g \in Handlers, pc'[g] = "Write" PROVE Justified(g)'
  BY DEF WritesJustified
<1>1. CASE g = h
  <2>1. Goto(h, "Write") /\ Justified(h)
    BY <1>1, StepsToWriteJustified
  <2>2. QED
    BY <1>1, <2>1, JustifiedUnchanged DEF Goto
<1>2. CASE g # h
  <2>1. pc[g] = "Write" /\ req'[g] = req[g]
    BY <1>2, StepLeavesOthers
  <2>2. Justified(g)
    BY <2>1 DEF WritesJustified
  <2>3. QED
    BY <1>2, <2>1, <2>2, StepEffects, OthersUndisturbed, JustifiedUnchanged
<1>3. QED
  BY <1>1, <1>2

LEMMA BaseInvInit == Init => BaseInv
<1>1. Init => NoneLate /\ WritesJustified
  BY DEF Init, NoneLate, WritesJustified
<1>2. QED
  BY <1>1, TypeInvInit, LockInvInit DEF BaseInv

LEMMA BaseInvNext ==
  ASSUME MaxLate = 0 PROVE BaseInv /\ [Next]_vars => BaseInv'
<1> SUFFICES ASSUME BaseInv, [Next]_vars PROVE NoneLate' /\ WritesJustified'
  BY TypeInvNext, LockInvNext DEF BaseInv
<1> USE DEF BaseInv
<1>1. lateLeft = 0
  BY DEF TypeInv, TypeOK
<1>2. ASSUME NEW h \in Handlers, NEW r \in Requests, Reject(h, r) \/ Mock(h, r)
      PROVE  NoneLate' /\ WritesJustified'
  BY <1>2, JustifiedUnchanged DEF Reject, Mock, NoneLate, WritesJustified
<1>3. ASSUME NEW h \in Handlers, NEW r \in Requests, Accept(h, r)
      PROVE  NoneLate' /\ WritesJustified'
  <2>1. ASSUME NEW g \in Handlers, g # h, pc'[g] = "Write" PROVE Justified(g)'
    BY <1>3, <2>1, JustifiedUnchanged DEF Accept, WritesJustified, TypeInv, TypeOK
  <2>2. pc'[h] = FirstCall(r) /\ req'[h] = r
    BY <1>3 DEF Accept, TypeInv, TypeOK
  <2>3. pc'[h] = "Write" => Justified(h)'
    BY <2>2 DEF FirstCall, Justified
  <2>4. QED
    BY <1>3, <2>1, <2>3 DEF Accept, NoneLate, WritesJustified
<1>4. ASSUME NEW a, NEW U \in SUBSET Handlers, Restart(a, U)
      PROVE  NoneLate' /\ WritesJustified'
  <2>1. PICK S \in SUBSET {h \in U : pc[h] = "Write"} :
          /\ Cardinality(S) <= lateLeft
          /\ late' = late \cup {[by |-> h, no |-> lateLeft, msg |-> Message(req[h])] : h \in S}
    BY <1>4 DEF Restart
  <2>2. IsFiniteSet(S) /\ Cardinality(S) = 0
    BY <1>1, <2>1, FS_Subset, FS_CardinalityType, HandlersAssumption
  <2>3. S = {}
    BY <2>2, FS_EmptySet
  <2>4. NoneLate'
    BY <2>1, <2>3 DEF NoneLate
  <2>5. QED
    BY <1>4, <2>4 DEF Restart, WritesJustified
<1>5. ASSUME NEW h \in Handlers, Step(h) PROVE NoneLate' /\ WritesJustified'
  <2>1. CASE Dies(h)
    BY <1>4, <2>1 DEF Dies, Panic
  <2>2. Moves(h) \/ RepliesUnwritten(h) \/ RepliesWritten(h) => NoneLate'
    BY DEF Moves, Goto, RepliesUnwritten, AnswerRead, RepliesWritten, NoneLate
  <2>3. ~TimesOut(h)
    BY <1>1 DEF TimesOut
  <2>4. QED
    BY <1>5, <2>1, <2>2, <2>3, StepShapes, WritesJustifiedStep DEF NoneLate
<1>6. CASE Crash
  BY <1>4, <1>6 DEF Crash
<1>7. CASE UNCHANGED vars
  BY <1>7, JustifiedUnchanged DEF vars, NoneLate, WritesJustified
<1>8. QED
  BY <1>2, <1>3, <1>5, <1>6, <1>7 DEF Next, Arrive, NoneLate

-----------------------------------------------------------------------------
\* How the volumes change in any step: by the write of a handler that is
\* justified in it, or not at all.
LEMMA VolumesChange ==
  ASSUME MaxLate = 0, BaseInv, [Next]_vars
  PROVE  \/ vols' = vols
         \/ \E h \in Handlers : /\ pc[h] = "Write" /\ Justified(h)
                                /\ Step(h) /\ WriteEffect(req[h])
<1> USE DEF BaseInv
<1>1. ASSUME NEW h \in Handlers, NEW r \in Requests,
             Reject(h, r) \/ Mock(h, r) \/ Accept(h, r)
      PROVE  vols' = vols
  BY <1>1 DEF Reject, Mock, Accept
<1>2. ASSUME NEW h \in Handlers, Step(h)
      PROVE  vols' = vols \/ (pc[h] = "Write" /\ Justified(h) /\ WriteEffect(req[h]))
  BY <1>2, StepEffects DEF WritesJustified
<1>3. CASE Crash \/ UNCHANGED vars
  BY <1>3 DEF Crash, vars
<1>4. QED
  BY <1>1, <1>2, <1>3 DEF Next, Arrive, NoneLate

\* One write keeps the names of volumes apart.
LEMMA NamesStayApart ==
  ASSUME LookupsWork, TypeInv, NoDuplicateVolume,
         NEW h \in Handlers, Justified(h), WriteEffect(req[h])
  PROVE  NoDuplicateVolume'
<1>1. vols \in [VolumeIds -> VolumeType]
  BY DEF TypeInv, TypeOK
<1>2. CASE vols' = vols
  BY <1>2 DEF NoDuplicateVolume, Live
<1>3. ASSUME NEW v \in VolumeIds, Provisions(req[h], v) PROVE NoDuplicateVolume'
  <2>1. \A w \in VolumeIds : Live(w) => vols[w].name # req[h].name
    BY <1>3 DEF Provisions, Justified, Named
  <2>2. \A w \in VolumeIds : w # v => vols'[w] = vols[w]
    BY <1>1, <1>3 DEF Provisions
  <2>3. vols'[v].name = req[h].name
    BY <1>1, <1>3 DEF Provisions
  <2>4. QED
    BY <2>1, <2>2, <2>3 DEF NoDuplicateVolume, Live
<1>4. CASE Removes(req[h]) \/ Attaches(req[h]) \/ Detaches(req[h]) \/ Expands(req[h])
  <2>1. \A w \in VolumeIds : /\ vols'[w].name = vols[w].name
                             /\ vols'[w].st = "live" => vols[w].st = "live"
    BY <1>1, <1>4 DEF Removes, Attaches, Detaches, Expands, Live, VolumeType
  <2>2. QED
    BY <2>1 DEF NoDuplicateVolume, Live
<1>5. QED
  BY <1>2, <1>3, <1>4 DEF WriteEffect

\* With lookups that can be relied on and no writes that outlive their call,
\* a name never has two volumes: any number of handlers may be asked for it,
\* replies may be lost and the process may crash.
THEOREM NamesUnique ==
  ASSUME LookupsWork, MaxLate = 0
  PROVE  Spec => []NoDuplicateVolume
<1>1. Init => BaseInv /\ NoDuplicateVolume
  BY BaseInvInit DEF Init, StoreInit, NoVolume, NoDuplicateVolume, Live
<1>2. BaseInv /\ NoDuplicateVolume /\ [Next]_vars => (BaseInv /\ NoDuplicateVolume)'
  <2> SUFFICES ASSUME BaseInv, NoDuplicateVolume, [Next]_vars PROVE NoDuplicateVolume'
    BY BaseInvNext
  <2>1. CASE vols' = vols
    BY <2>1 DEF NoDuplicateVolume, Live
  <2>2. QED
    BY <2>1, VolumesChange, NamesStayApart DEF BaseInv
<1>3. QED
  BY <1>1, <1>2, PTL DEF Spec

-----------------------------------------------------------------------------
\* A justified write is a step of the contract, or changes nothing it sees.
LEMMA WriteMeetsContract ==
  ASSUME LookupsWork, AttachmentsSeen, "capacity" \notin Omits, TypeInv,
         NEW h \in Handlers, pc[h] = "Write", Justified(h),
         NEW r, r = req[h], WriteEffect(r)
  PROVE  Contract!Next \/ vols' = vols
<1> DEFINE disk(v) == [st |-> vols[v].st, name |-> vols[v].name,
                       size |-> vols[v].size, node |-> vols[v].node]
           disks == [v \in VolumeIds |-> disk(v)]
<1>1. vols \in [VolumeIds -> VolumeType]
  BY DEF TypeInv, TypeOK
<1>2. r \in Requests /\ ~Malformed(r) /\ ~Unservable(r)
  BY DEF TypeInv, CallsChecked
<1>3. r \in RequestType
  BY <1>2, RequestsAssumption
<1>4. ASSUME NEW v \in VolumeIds, Provisions(r, v) PROVE Contract!Next
  <2>1. r.name \in Names
    BY <1>2, <1>3, <1>4 DEF Provisions, Malformed, RequestType
  <2>2. VolumeSize(r) \in MinVolumeSize..MaxVolumeSize
    BY <1>2, <1>4, SizeTyped, SizesAssumption DEF Provisions, Unservable, OutOfRange
  <2>3. \A w \in VolumeIds : vols[w].st = "live" => vols[w].name # r.name
    BY <1>4 DEF Provisions, Justified, Named, Live
  <2>4. disks' = [disks EXCEPT ![v] = [st |-> "live", name |-> r.name,
                                       size |-> VolumeSize(r), node |-> None]]
    <3>1. PICK d \in SnapshotIds \cup {None} :
            vols' = [vols EXCEPT ![v] = [st |-> "live", name |-> r.name,
                                         size |-> VolumeSize(r), node |-> None, data |-> d]]
      BY <1>4 DEF Provisions
    <3>2. \A w \in VolumeIds : w # v => vols'[w] = vols[w]
      BY <1>1, <3>1
    <3>3. disk(v)' = [st |-> "live", name |-> r.name, size |-> VolumeSize(r), node |-> None]
      BY <1>1, <3>1
    <3>4. QED
      BY <3>2, <3>3
  <2>5. Contract!Provision(v, r.name, VolumeSize(r))
    BY <1>4, <2>2, <2>3, <2>4 DEF Contract!Provision, Contract!IsLive, Provisions
  <2>6. QED
    BY <2>1, <2>2, <2>5 DEF Contract!Next
<1>5. CASE Removes(r)
  <2>1. disks' = [disks EXCEPT ![r.volume] =
                   [st |-> "gone", name |-> disks[r.volume].name,
                    size |-> disks[r.volume].size, node |-> None]]
    <3>1. \A w \in VolumeIds : w # r.volume => vols'[w] = vols[w]
      BY <1>1, <1>5 DEF Removes
    <3>2. /\ vols'[r.volume].st = "gone" /\ vols'[r.volume].node = None
          /\ vols'[r.volume].name = vols[r.volume].name
          /\ vols'[r.volume].size = vols[r.volume].size
      BY <1>1, <1>5 DEF Removes, Live, VolumeType
    <3>3. disk(r.volume)' = [st |-> "gone", name |-> vols[r.volume].name,
                              size |-> vols[r.volume].size, node |-> None]
      BY <3>2
    <3>4. r.volume \in VolumeIds
      BY <1>5 DEF Removes, Live
    <3>5. disks' = [disks EXCEPT ![r.volume] = disk(r.volume)']
      BY <3>1, <3>4
    <3>6. QED
      BY <3>3, <3>4, <3>5
  <2>2. Contract!Remove(r.volume) /\ r.volume \in VolumeIds
    BY <1>5, <2>1 DEF Removes, Live, Contract!Remove, Contract!IsLive
  <2>3. QED
    BY <2>2 DEF Contract!Next
<1>6. CASE Attaches(r)
  <2>1. disks' = [disks EXCEPT ![r.volume].node = r.node]
    BY <1>1, <1>6 DEF Attaches, Live, VolumeType
  <2>2. r.node \in Nodes /\ vols[r.volume].node = None
    BY <1>2, <1>3, <1>6 DEF Attaches, AttachmentsSeen, Malformed, RequestType, Justified
  <2>3. Contract!Attach(r.volume, r.node) /\ r.volume \in VolumeIds
    BY <1>6, <2>1, <2>2 DEF Attaches, Live, Contract!Attach, Contract!IsLive
  <2>4. QED
    BY <2>2, <2>3 DEF Contract!Next
<1>7. CASE Detaches(r)
  <2>1. disks' = [disks EXCEPT ![r.volume].node = None]
    BY <1>1, <1>7 DEF Detaches, Live, VolumeType
  <2>2. Contract!Detach(r.volume) /\ r.volume \in VolumeIds
    BY <1>7, <2>1 DEF Detaches, Live, Contract!Detach, Contract!IsLive
  <2>3. QED
    BY <2>2 DEF Contract!Next
<1>8. CASE Expands(r)
  <2>1. disks' = [disks EXCEPT ![r.volume].size = r.required]
    BY <1>1, <1>8 DEF Expands, Live, VolumeType
  <2>2. r.required \in Nat /\ r.required > vols[r.volume].size
    BY <1>2, <1>3, <1>8 DEF LookupsWork, Expands, Malformed, RequestType, Justified
  <2>3. r.volume \in VolumeIds /\ disks'[r.volume].size = r.required
    BY <1>8, <2>1 DEF Expands, Live
  <2>4. Contract!Grow(r.volume, r.required)
    BY <1>8, <2>1, <2>2 DEF Expands, Live, Contract!Grow, Contract!IsLive
  <2>5. \E size \in {disks'[r.volume].size} : Contract!Grow(r.volume, size)
    BY <2>3, <2>4
  <2>6. QED
    BY <2>3, <2>5 DEF Contract!Next
<1>9. QED
  BY <1>4, <1>5, <1>6, <1>7, <1>8 DEF WriteEffect

\* The controller service implements the contract on volumes where lookups can
\* be relied on and no write outlives its call.
THEOREM ContractKept ==
  ASSUME LookupsWork, AttachmentsSeen, "capacity" \notin Omits, MaxLate = 0
  PROVE  Spec => ImplementsContract
<1>1. Init => Contract!Init
  BY DEF Init, StoreInit, NoVolume, Contract!Init, Contract!Absent
<1>2. BaseInv /\ [Next]_vars =>
        [Contract!Next]_([v \in VolumeIds |->
                            [st |-> vols[v].st, name |-> vols[v].name,
                             size |-> vols[v].size, node |-> vols[v].node]])
  BY VolumesChange, WriteMeetsContract DEF BaseInv
<1>3. QED
  BY <1>1, <1>2, BaseInvInit, BaseInvNext, PTL DEF Spec, ImplementsContract, Contract!Spec
=============================================================================
