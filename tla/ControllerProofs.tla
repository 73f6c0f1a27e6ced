-------------------------- MODULE ControllerProofs --------------------------
(***************************************************************************)
(* Proofs about the controller service, for every number of handlers, every*)
(* set of calls and every set of ids.                                      *)
(***************************************************************************)
EXTENDS ControllerProperties, FiniteSetTheorems, TLAPS

USE DEF store, handling

\* A handler that serves a call serves one that passed the argument checks.
CallsChecked ==
  \A h \in Handlers :
    IF pc[h] = "idle" THEN req[h] = NoRequest
    ELSE req[h] \in Requests /\ ~Malformed(req[h]) /\ ~Unservable(req[h])

TypeInv == TypeOK /\ CallsChecked

MessageTyped(m) ==
  /\ m.name \in Names \cup {None} /\ m.volume \in VolumeIds \cup {None}
  /\ m.node \in Nodes \cup {None} /\ m.snapshot \in SnapshotIds \cup {None}
  /\ m.size \in Nat

-----------------------------------------------------------------------------
\* The size CreateVolume asks for is a size.
LEMMA SizeTyped ==
  ASSUME NEW r \in Requests PROVE VolumeSize(r) \in Nat /\ VolumeSize(r) >= MinVolumeSize
<1>1. r.required \in Int
  BY RequestsAssumption DEF RequestType
<1>2. QED
  BY <1>1, SizesAssumption DEF VolumeSize, AskedSize

\* What a checked call sends is well formed.
LEMMA MessagesTyped ==
  ASSUME NEW r \in Requests, ~Malformed(r) PROVE MessageTyped(Message(r))
<1>1. r \in RequestType
  BY RequestsAssumption
<1>2. VolumeSize(r) \in Nat
  BY SizeTyped
<1>3. r.op = "ControllerExpandVolume" => r.required \in Nat
  BY <1>1 DEF RequestType, Malformed
<1>4. QED
  BY <1>1, <1>2, <1>3
  DEF RequestType, Message, MessageTyped, NoMessage, CreateVolume, DeleteVolume,
      AttachVolume, DetachVolume, ExpandVolume, CreateSnapshot, DeleteSnapshot

\* The service keeps its records well formed.
LEMMA StoreTyped ==
  ASSUME vols \in [VolumeIds -> VolumeType], snaps \in [SnapshotIds -> SnapshotType],
         NEW m, MessageTyped(m), NEW id, Performed(m, id)
  PROVE  vols' \in [VolumeIds -> VolumeType] /\ snaps' \in [SnapshotIds -> SnapshotType]
<1>1. CASE id \in VolumeIds /\ Minted(m, id)
  BY <1>1 DEF Minted, MessageTyped, VolumeType, Statuses, LiveSnapshot
<1>2. CASE id \in SnapshotIds /\ Snapped(m, id)
  BY <1>2 DEF Snapped, MessageTyped, SnapshotType, Statuses
<1>3. CASE Changed(m)
  <2>1. CASE m.perform = "DELETE_SNAPSHOT" /\ UNCHANGED vols
    <3>1. snaps' \in [SnapshotIds -> SnapshotType]
      BY <1>3, <2>1 DEF Changed, SnapshotType, Statuses
    <3>2. QED
      BY <2>1, <3>1
  <2>2. CASE UNCHANGED snaps
    <3>1. vols' \in [VolumeIds -> VolumeType]
      BY <1>3, <2>2 DEF Changed, MessageTyped, VolumeType, Statuses
    <3>2. QED
      BY <2>2, <3>1
  <2>3. QED
    BY <1>3, <2>1, <2>2 DEF Changed
<1>4. QED
  BY <1>1, <1>2, <1>3 DEF Performed

-----------------------------------------------------------------------------
\* What the steps of a handler have in common.
ReplyTo(h, a) == a.to = req[h] /\ a.code \in Codes

Moves(h) == \E c \in Calls : Goto(h, c)
RepliesUnwritten(h) == \E a : ReplyTo(h, a) /\ AnswerRead(h, a)
RepliesWritten(h) ==
  /\ pc[h] = "Write"
  /\ \E id, a : /\ ReplyTo(h, a) /\ Performed(Message(req[h]), id)
               /\ Answer(h, a) /\ UNCHANGED <<late, lateLeft>>
TimesOut(h) ==
  /\ pc[h] = "Write" /\ lateLeft > 0
  /\ \E a : ReplyTo(h, a) /\ Answer(h, a)
  /\ late' = late \cup {[by |-> h, no |-> lateLeft, msg |-> Message(req[h])]}
  /\ lateLeft' = lateLeft - 1
  /\ UNCHANGED store
Dies(h) ==
  /\ Panic(h)
  /\ \/ UNCHANGED store
     \/ pc[h] = "Write" /\ \E id : Performed(Message(req[h]), id)

\* A status of a failed write is a status.
LEMMA WriteRepliesTyped ==
  ASSUME NEW r, NEW res PROVE WriteReply(r, res).to = r /\ WriteReply(r, res).code \in Codes
<1>1. WriteError(r, res) \in Codes
  BY DEF WriteError, Codes
<1>2. QED
  BY <1>1 DEF WriteReply, Reply, NoAnswer, Codes

\* Each step of a handler that serves a call moves on, replies or dies.
LEMMA StepShapes ==
  ASSUME TypeInv, NEW h \in Handlers, Step(h)
  PROVE  /\ pc[h] # "idle"
         /\ Moves(h) \/ RepliesUnwritten(h) \/ RepliesWritten(h) \/ TimesOut(h) \/ Dies(h)
<1> USE DEF At
<1>1. CASE CreateVolumeGetsSnapshot(h)
  BY <1>1 DEF CreateVolumeGetsSnapshot, Moves, Calls, RepliesUnwritten, ReplyTo, Reply,
              NoAnswer, Codes
<1>2. CASE CreateVolumeGetsByName(h)
  BY <1>2 DEF CreateVolumeGetsByName, ExistingReply, Moves, Calls, RepliesUnwritten,
              ReplyTo, Reply, NoAnswer, Codes
<1>3. CASE PublishGetsVolume(h)
  BY <1>3 DEF PublishGetsVolume, Moves, Calls, RepliesUnwritten, ReplyTo, Reply,
              NoAnswer, Codes
<1>4. CASE ValidateGetsVolume(h)
  BY <1>4 DEF ValidateGetsVolume, RepliesUnwritten, ReplyTo, Reply, NoAnswer, Codes
<1>5. CASE ExpandGetsVolume(h)
  BY <1>5 DEF ExpandGetsVolume, Moves, Calls, RepliesUnwritten, ReplyTo, Reply,
              NoAnswer, Codes
<1>6. CASE SnapshotGetsByName(h)
  BY <1>6 DEF SnapshotGetsByName, Moves, Calls, RepliesUnwritten, ReplyTo, Reply,
              NoAnswer, Codes
<1>7. CASE SnapshotLists(h)
  BY <1>7 DEF SnapshotLists, Dies, Moves, Calls, RepliesUnwritten, ReplyTo, Reply,
              NoAnswer, Codes
<1>8. CASE SnapshotGetsVolume(h)
  BY <1>8 DEF SnapshotGetsVolume, Moves, Calls, RepliesUnwritten, ReplyTo, Reply,
              NoAnswer, Codes
<1>9. CASE ListGetsSnapshot(h)
  BY <1>9 DEF ListGetsSnapshot, Dies, RepliesUnwritten, ReplyTo, Reply, NoAnswer, Codes
<1>10. CASE ListLists(h)
  BY <1>10 DEF ListLists, Dies, RepliesUnwritten, ReplyTo, Reply, NoAnswer, Codes
<1>11. CASE WriteDone(h)
  BY <1>11, WriteRepliesTyped DEF WriteDone, RepliesWritten, Dies, ReplyTo
<1>12. CASE WriteRefused(h)
  BY <1>12, WriteRepliesTyped DEF WriteRefused, RepliesUnwritten, ReplyTo
<1>13. CASE WriteFails(h)
  BY <1>13, WriteRepliesTyped DEF WriteFails, RepliesUnwritten, ReplyTo
<1>14. CASE WriteTimesOut(h)
  BY <1>14, WriteRepliesTyped DEF WriteTimesOut, TimesOut, ReplyTo
<1>15. QED
  BY <1>1, <1>2, <1>3, <1>4, <1>5, <1>6, <1>7, <1>8, <1>9, <1>10, <1>11, <1>12,
     <1>13, <1>14 DEF Step

-----------------------------------------------------------------------------
\* A restart keeps the types: what is still under way becomes late.
LEMMA RestartTyped ==
  ASSUME TypeInv, NEW a, NEW U \in SUBSET Handlers, Restart(a, U)
  PROVE  /\ lateLeft' \in 0..MaxLate
         /\ \A l \in late' : \E r \in Requests : ~Malformed(r) /\ l.msg = Message(r)
         /\ client' \in BOOLEAN
         /\ published' = published
<1>1. PICK S \in SUBSET {h \in U : pc[h] = "Write"} :
        /\ Cardinality(S) <= lateLeft
        /\ late' = late \cup {[by |-> h, no |-> lateLeft, msg |-> Message(req[h])] : h \in S}
        /\ lateLeft' = lateLeft - Cardinality(S)
  BY DEF Restart
<1>2. Cardinality(S) \in Nat
  BY FS_Subset, FS_CardinalityType, HandlersAssumption
<1>3. lateLeft' \in 0..MaxLate
  BY <1>1, <1>2, ModesAssumption DEF TypeInv, TypeOK
<1>4. \A h \in S : req[h] \in Requests /\ ~Malformed(req[h])
  BY DEF TypeInv, CallsChecked
<1>5. \A l \in late' : \E r \in Requests : ~Malformed(r) /\ l.msg = Message(r)
  BY <1>1, <1>4 DEF TypeInv, TypeOK
<1>6. QED
  BY <1>3, <1>5, ModesAssumption DEF Restart

\* A performed message changes the store within its types, in a handler or late.
LEMMA WrittenTyped ==
  ASSUME TypeInv, NEW h \in Handlers, pc[h] = "Write", NEW id, Performed(Message(req[h]), id)
  PROVE  vols' \in [VolumeIds -> VolumeType] /\ snaps' \in [SnapshotIds -> SnapshotType]
<1>1. MessageTyped(Message(req[h]))
  BY MessagesTyped DEF TypeInv, CallsChecked
<1>2. QED
  BY <1>1, StoreTyped DEF TypeInv, TypeOK

LEMMA TypeInvInit == Init => TypeInv
<1>1. SUFFICES ASSUME Init PROVE TypeInv
  OBVIOUS
<1>2. vols \in [VolumeIds -> VolumeType] /\ snaps \in [SnapshotIds -> SnapshotType]
  BY <1>1 DEF Init, StoreInit, NoVolume, NoSnapshot, VolumeType, SnapshotType, Statuses
<1>3. answer.to \in Requests \cup {NoRequest} /\ answer.code \in Codes
  BY <1>1 DEF Init, NoAnswer, Codes
<1>4. lateLeft \in 0..MaxLate /\ client \in BOOLEAN
  BY <1>1, ModesAssumption DEF Init
<1>5. QED
  BY <1>1, <1>2, <1>3, <1>4 DEF Init, TypeInv, TypeOK, CallsChecked

\* A reply is the end of the call: the types hold afterwards.
LEMMA AnswerTyped ==
  ASSUME TypeInv, NEW h \in Handlers, pc[h] # "idle", NEW a, ReplyTo(h, a), Answer(h, a)
  PROVE  /\ pc' \in [Handlers -> Calls \cup {"idle"}]
         /\ req' \in [Handlers -> Requests \cup {NoRequest}]
         /\ CallsChecked'
         /\ answer'.to \in Requests \cup {NoRequest} /\ answer'.code \in Codes
         /\ published' \subseteq VolumeIds \X Nodes
         /\ client' = client
<1>1. req[h] \in Requests /\ ~Malformed(req[h])
  BY DEF TypeInv, CallsChecked
<1>2. req[h].op = "ControllerPublishVolume" => /\ req[h].volume \in VolumeIds
                                               /\ req[h].node \in Nodes
  BY <1>1, RequestsAssumption DEF Malformed, RequestType
<1>3. published' \subseteq VolumeIds \X Nodes
  BY <1>2 DEF Answer, Told, ReplyTo, TypeInv, TypeOK
<1>4. CallsChecked'
  BY DEF Answer, TypeInv, TypeOK, CallsChecked
<1>5. QED
  BY <1>1, <1>3, <1>4 DEF Answer, ReplyTo, TypeInv, TypeOK

LEMMA TypeInvNext == TypeInv /\ [Next]_vars => TypeInv'
<1> SUFFICES ASSUME TypeInv, [Next]_vars PROVE TypeInv'
  OBVIOUS
<1>1. ASSUME NEW h \in Handlers, NEW r \in Requests, Reject(h, r) PROVE TypeInv'
  BY <1>1 DEF Reject, TypeInv, TypeOK, CallsChecked, Reply, NoAnswer, Codes
<1>2. ASSUME NEW h \in Handlers, NEW r \in Requests, Mock(h, r) PROVE TypeInv'
  <2>1. MockReply(r).to = r /\ MockReply(r).code \in Codes
    BY DEF MockReply, Reply, NoAnswer, Codes
  <2>2. r.op = "ControllerPublishVolume" => r.volume \in VolumeIds /\ r.node \in Nodes
    BY <1>2, RequestsAssumption DEF Mock, Malformed, RequestType
  <2>3. published' \subseteq VolumeIds \X Nodes
    BY <1>2, <2>1, <2>2 DEF Mock, Told, Withdrawn, TypeInv, TypeOK
  <2>4. QED
    BY <1>2, <2>1, <2>3 DEF Mock, TypeInv, TypeOK, CallsChecked
<1>3. ASSUME NEW h \in Handlers, NEW r \in Requests, Accept(h, r) PROVE TypeInv'
  <2>1. FirstCall(r) \in Calls
    BY DEF FirstCall, Calls
  <2>2. CallsChecked'
    BY <1>3, <2>1 DEF Accept, TypeInv, TypeOK, CallsChecked, Calls
  <2>3. published' \subseteq VolumeIds \X Nodes
    BY <1>3 DEF Accept, Withdrawn, TypeInv, TypeOK
  <2>4. QED
    BY <1>3, <2>1, <2>2, <2>3 DEF Accept, TypeInv, TypeOK, NoAnswer, Codes
<1>4. ASSUME NEW h \in Handlers, Step(h) PROVE TypeInv'
  <2>1. pc[h] # "idle"
    BY <1>4, StepShapes
  <2>2. CASE Moves(h)
    BY <2>1, <2>2 DEF Moves, Goto, Calls, TypeInv, TypeOK, CallsChecked, NoAnswer, Codes
  <2>3. CASE RepliesUnwritten(h)
    BY <2>1, <2>3, AnswerTyped DEF RepliesUnwritten, AnswerRead, TypeInv, TypeOK
  <2>4. CASE RepliesWritten(h)
    <3>1. PICK id, a : /\ ReplyTo(h, a) /\ Performed(Message(req[h]), id)
                       /\ Answer(h, a) /\ UNCHANGED <<late, lateLeft>>
      BY <2>4 DEF RepliesWritten
    <3>2. vols' \in [VolumeIds -> VolumeType] /\ snaps' \in [SnapshotIds -> SnapshotType]
      BY <2>4, <3>1, WrittenTyped DEF RepliesWritten
    <3>3. QED
      BY <2>1, <3>1, <3>2, AnswerTyped DEF TypeInv, TypeOK
  <2>5. CASE TimesOut(h)
    <3>1. lateLeft' \in 0..MaxLate
      BY <2>5, ModesAssumption DEF TimesOut, TypeInv, TypeOK
    <3>2. req[h] \in Requests /\ ~Malformed(req[h])
      BY <2>1 DEF TypeInv, CallsChecked
    <3>3. \A l \in late' : \E r \in Requests : ~Malformed(r) /\ l.msg = Message(r)
      BY <2>5, <3>2 DEF TimesOut, TypeInv, TypeOK
    <3>4. QED
      BY <2>1, <2>5, <3>1, <3>3, AnswerTyped DEF TimesOut, TypeInv, TypeOK
  <2>6. CASE Dies(h)
    <3>1. vols' \in [VolumeIds -> VolumeType] /\ snaps' \in [SnapshotIds -> SnapshotType]
      BY <2>6, WrittenTyped DEF Dies, TypeInv, TypeOK
    <3>2. answer'.to \in Requests \cup {NoRequest} /\ answer'.code \in Codes
      BY <2>6 DEF Dies, Panic, Restart, Reply, NoAnswer, Codes, TypeInv, TypeOK
    <3>3. CallsChecked'
      BY <2>6 DEF Dies, Panic, Restart, CallsChecked
    <3>4. QED
      BY <2>6, <3>1, <3>2, <3>3, RestartTyped DEF Dies, Panic, Restart, TypeInv, TypeOK
  <2>7. QED
    BY <1>4, <2>2, <2>3, <2>4, <2>5, <2>6, StepShapes
<1>5. ASSUME NEW l \in late, Land(l) PROVE TypeInv'
  <2>1. MessageTyped(l.msg)
    BY MessagesTyped DEF TypeInv, TypeOK
  <2>2. vols' \in [VolumeIds -> VolumeType] /\ snaps' \in [SnapshotIds -> SnapshotType]
    BY <1>5, <2>1, StoreTyped DEF Land, TypeInv, TypeOK
  <2>3. QED
    BY <1>5, <2>2 DEF Land, TypeInv, TypeOK, CallsChecked, NoAnswer, Codes
<1>6. CASE Crash
  <2>1. CallsChecked'
    BY <1>6 DEF Crash, Restart, CallsChecked
  <2>2. QED
    BY <1>6, <2>1, RestartTyped DEF Crash, Restart, TypeInv, TypeOK, NoAnswer, Codes
<1>7. CASE UNCHANGED vars
  BY <1>7 DEF vars, TypeInv, TypeOK, CallsChecked
<1>8. QED
  BY <1>1, <1>2, <1>3, <1>4, <1>5, <1>6, <1>7 DEF Next, Arrive

\* Every variable keeps its type, whatever fails and whenever the process dies.
THEOREM TypeCorrect == Spec => []TypeOK
<1>1. TypeInv => TypeOK
  BY DEF TypeInv
<1>2. QED
  BY <1>1, TypeInvInit, TypeInvNext, PTL DEF Spec

-----------------------------------------------------------------------------
\* LocksMatchHandlers, key by key.
LockInv ==
  /\ \A k : k \in locks <=> \E h \in Handlers : Active(h) /\ k \in Keys(req[h])
  /\ \A g, h \in Handlers :
       Active(g) /\ Active(h) /\ g # h => Keys(req[g]) \cap Keys(req[h]) = {}

LEMMA LockInvMeaning == LockInv <=> LocksMatchHandlers
<1>1. LockInv => LocksMatchHandlers
  BY DEF LockInv, LocksMatchHandlers
<1>2. LocksMatchHandlers => LockInv
  BY DEF LockInv, LocksMatchHandlers
<1>3. QED
  BY <1>1, <1>2

\* A handler that stays on its call disturbs no lock.
LEMMA LockInvMoves ==
  ASSUME TypeInv, LockInv, NEW h \in Handlers, pc[h] # "idle", Moves(h) PROVE LockInv'
<1>1. \A g \in Handlers : Active(g)' <=> Active(g)
  BY DEF Moves, Goto, Calls, Active, TypeInv, TypeOK
<1>2. QED
  BY <1>1 DEF Moves, Goto, LockInv

\* A handler that replies gives up its keys, which nobody else holds.
LEMMA LockInvAnswer ==
  ASSUME TypeInv, LockInv, NEW h \in Handlers, pc[h] # "idle", NEW a, Answer(h, a)
  PROVE  LockInv'
<1>1. \A g \in Handlers : /\ Active(g)' <=> Active(g) /\ g # h
                          /\ g # h => req'[g] = req[g]
  BY DEF Answer, Active, TypeInv, TypeOK
<1>2. \A k : k \in locks' <=> k \in locks /\ k \notin Keys(req[h])
  BY DEF Answer, Release
<1>3. \A k : k \in locks' <=> \E g \in Handlers : Active(g)' /\ k \in Keys(req'[g])
  BY <1>1, <1>2 DEF LockInv, Active
<1>4. QED
  BY <1>1, <1>3 DEF LockInv

\* A call that is accepted takes keys that nobody holds.
LEMMA LockInvAccept ==
  ASSUME TypeInv, LockInv, NEW h \in Handlers, NEW r \in Requests, Accept(h, r)
  PROVE  LockInv'
<1>1. \A g \in Handlers : /\ Active(g)' <=> Active(g) \/ g = h
                          /\ req'[g] = IF g = h THEN r ELSE req[g]
  BY DEF Accept, Active, FirstCall, TypeInv, TypeOK
<1>2. ~Active(h)
  BY DEF Accept, Active
<1>3. \A k : k \in locks' <=> k \in locks \/ k \in Keys(r)
  BY DEF Accept, Acquire
<1>4. \A k \in Keys(r) : k \notin locks
  BY DEF Accept, Acquire, Acquirable
<1>5. \A k : k \in locks' <=> \E g \in Handlers : Active(g)' /\ k \in Keys(req'[g])
  BY <1>1, <1>2, <1>3 DEF LockInv
<1>6. \A g \in Handlers : Active(g) => Keys(req[g]) \cap Keys(r) = {}
  BY <1>4 DEF LockInv
<1>7. QED
  BY <1>1, <1>2, <1>5, <1>6 DEF LockInv

\* A restart leaves no call and no lock.
LEMMA LockInvRestart ==
  ASSUME NEW a, NEW U, Restart(a, U) PROVE LockInv'
BY DEF Restart, NewVolumeLocks, LockInv, Active

LEMMA LockInvNext == TypeInv /\ LockInv /\ [Next]_vars => LockInv'
<1> SUFFICES ASSUME TypeInv, LockInv, [Next]_vars PROVE LockInv'
  OBVIOUS
<1>1. CASE UNCHANGED <<locks, pc, req>>
  BY <1>1 DEF LockInv, Active
<1>2. ASSUME NEW h \in Handlers, NEW r \in Requests, Reject(h, r) \/ Mock(h, r)
      PROVE  LockInv'
  BY <1>1, <1>2 DEF Reject, Mock
<1>3. ASSUME NEW h \in Handlers, Step(h) PROVE LockInv'
  <2>1. pc[h] # "idle"
    BY <1>3, StepShapes
  <2>2. CASE Moves(h)
    BY <2>1, <2>2, LockInvMoves
  <2>3. ASSUME NEW a, Answer(h, a) PROVE LockInv'
    BY <2>1, <2>3, LockInvAnswer
  <2>4. CASE RepliesUnwritten(h) \/ RepliesWritten(h) \/ TimesOut(h)
    BY <2>3, <2>4 DEF RepliesUnwritten, AnswerRead, RepliesWritten, TimesOut
  <2>5. CASE Dies(h)
    BY <2>5, LockInvRestart DEF Dies, Panic
  <2>6. QED
    BY <1>3, <2>2, <2>4, <2>5, StepShapes
<1>4. ASSUME NEW l \in late, Land(l) PROVE LockInv'
  BY <1>1, <1>4 DEF Land
<1>5. CASE Crash
  BY <1>5, LockInvRestart DEF Crash
<1>6. QED
  BY <1>1, <1>2, <1>3, <1>4, <1>5, LockInvAccept DEF Next, Arrive, vars

LEMMA LockInvInit == Init => LockInv
BY DEF Init, LockInv, Active

\* The lock table and the calls being served always agree: no lock is leaked,
\* none is shared, with any number of handlers and through any crash.
THEOREM LocksAgree == Spec => []LocksMatchHandlers
<1>1. Init => TypeInv /\ LockInv
  BY TypeInvInit, LockInvInit
<1>2. TypeInv /\ LockInv /\ [Next]_vars => (TypeInv /\ LockInv)'
  BY TypeInvNext, LockInvNext
<1>3. TypeInv /\ LockInv => LocksMatchHandlers
  BY LockInvMeaning
<1>4. QED
  BY <1>1, <1>2, <1>3, PTL DEF Spec
=============================================================================
