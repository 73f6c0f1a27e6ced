--------------------------- MODULE PublishedProofs ---------------------------
(***************************************************************************)
(* Proofs that what the controller tells the orchestrator is true: what is *)
(* made is as it was asked for, with the data it was told to have, what is *)
(* unpublished is off its node, what is deleted is gone, and what is       *)
(* published stays on its node until it is asked away.                     *)
(***************************************************************************)
EXTENDS ContractProofs

USE DEF store, handling

\* What is published is so, and no call that is being served undoes it.
PublishedInv ==
  /\ client
  /\ PublishedStaysAttached
  /\ \A h \in Handlers, p \in published : Active(h) => ~Undoes(req[h], p)

-----------------------------------------------------------------------------
\* An attachment that is carried out leaves the volume on the node.
LEMMA AttachPerformed ==
  ASSUME TypeInv, NEW r \in Requests, r.op = "ControllerPublishVolume",
         NEW id, Performed(Message(r), id)
  PROVE  Live(r.volume)' /\ vols'[r.volume].node = r.node
<1> DEFINE m == Message(r)
<1> USE DEF NoMessage, AttachVolume
<1>1. m = AttachVolume(r.volume, r.node)
  BY DEF Message
<1>2. Live(r.volume)
  BY <1>1 DEF Performed, Refused, Reasons
<1>3. vols' = [vols EXCEPT ![r.volume].node = r.node]
  BY <1>1 DEF Performed, Minted, Snapped, Changed
<1>4. vols \in [VolumeIds -> VolumeType]
  BY DEF TypeInv, TypeOK
<1>5. QED
  BY <1>2, <1>3, <1>4 DEF Live, VolumeType

\* A failed attachment is never answered OK.
LEMMA FailedAttachTold ==
  ASSUME NEW r, r.op = "ControllerPublishVolume", NEW res, ~res.ok
  PROVE  WriteReply(r, res).code # "OK"
BY DEF WriteReply, WriteError, Reply, NoAnswer

\* When a step tells the orchestrator that a volume is published, it is.
LEMMA ToldIsTrue ==
  ASSUME TypeInv, NEW h \in Handlers, Step(h), NEW r, r = req[h]
  PROVE  \/ published' = published
         \/ /\ r.op = "ControllerPublishVolume"
            /\ published' = published \cup {<<r.volume, r.node>>}
            /\ Live(r.volume)' /\ vols'[r.volume].node = r.node
<1>1. r \in Requests
  BY StepShapes DEF TypeInv, CallsChecked
<1>2. \A a : Answer(h, a) /\ a.to = r =>
        \/ published' = published
        \/ /\ r.op = "ControllerPublishVolume" /\ a.code = "OK"
           /\ published' = published \cup {<<r.volume, r.node>>}
  BY DEF Answer, Told
<1>3. CASE r.op # "ControllerPublishVolume"
  <2>1. CASE Moves(h) \/ RepliesUnwritten(h) \/ RepliesWritten(h) \/ TimesOut(h)
    BY <1>2, <1>3, <2>1 DEF Moves, Goto, RepliesUnwritten, AnswerRead, RepliesWritten,
                            TimesOut, ReplyTo
  <2>2. CASE Dies(h)
    BY <2>2 DEF Dies, Panic, Restart
  <2>3. QED
    BY <2>1, <2>2, StepShapes
<1>4. CASE r.op = "ControllerPublishVolume"
  <2>1. \A res : ~res.ok /\ Answer(h, WriteReply(r, res)) => published' = published
    BY <1>2, <1>4, FailedAttachTold, WriteRepliesTyped
  <2>2. CASE PublishGetsVolume(h)
    <3> DEFINE attached(d) == [Reply(r, "OK") EXCEPT !.device = d]
    <3>1. \A d : attached(d).to = r
      BY DEF Reply, NoAnswer
    <3>2. \A c : Reply(r, c).to = r /\ Reply(r, c).code = c
      BY DEF Reply, NoAnswer
    <3> HIDE DEF attached
    <3>3. PICK res \in GetVolume(r.volume) :
            \/ \E c \in {"NotFound", "Internal", "FailedPrecondition"} :
                 AnswerRead(h, Reply(r, c))
            \/ /\ res.ok /\ res.found.node = r.node
               /\ AnswerRead(h, attached(res.found.device))
            \/ Goto(h, "Write")
      BY <2>2 DEF PublishGetsVolume, attached
    <3>4. CASE res.ok /\ res.found.node = r.node /\
               AnswerRead(h, attached(res.found.device))
      <4>1. Live(r.volume) /\ vols[r.volume].node = r.node
        <5>1. ~Malformed(r)
          BY <2>2 DEF PublishGetsVolume, At, TypeInv, CallsChecked
        <5>2. r.node # None
          BY <1>4, <5>1 DEF Malformed
        <5>3. QED
          BY <3>4, <5>2, LookupById
      <4>2. vols' = vols
        BY <3>4 DEF AnswerRead
      <4>3. QED
        BY <1>2, <3>1, <3>4, <4>1, <4>2 DEF AnswerRead, Live
    <3>5. QED
      BY <1>2, <3>2, <3>3, <3>4 DEF Goto, AnswerRead
  <2>3. CASE WriteDone(h)
    <3>1. PICK id : /\ Performed(Message(r), id)
                    /\ \E res : \/ Panic(h)
                                \/ Answer(h, WriteReply(r, res))
      BY <2>3 DEF WriteDone
    <3>2. Live(r.volume)' /\ vols'[r.volume].node = r.node
      BY <1>1, <1>4, <3>1, AttachPerformed
    <3>3. QED
      BY <1>2, <1>4, <3>1, <3>2, WriteRepliesTyped DEF Panic, Restart
  <2>4. CASE WriteRefused(h) \/ WriteFails(h) \/ WriteTimesOut(h)
    BY <2>1, <2>4 DEF WriteRefused, RefusalAnswer, WriteFails, Failures, WriteTimesOut,
                      AnswerRead, Err
  <2>5. QED
    BY <1>4, <2>2, <2>3, <2>4
    DEF Step, At, CreateVolumeGetsSnapshot, CreateVolumeGetsByName, ValidateGetsVolume,
        ExpandGetsVolume, SnapshotGetsByName, SnapshotLists, SnapshotGetsVolume,
        ListGetsSnapshot, ListLists
<1>5. QED
  BY <1>3, <1>4

-----------------------------------------------------------------------------
\* A write takes no volume away from where it is published.
LEMMA WriteLeavesPublished ==
  ASSUME "DETACH_VOLUME" \in Checks, AttachmentsSeen, TypeInv, PublishedInv,
         NEW h \in Handlers, pc[h] = "Write", Justified(h), NEW r, r = req[h], WriteEffect(r)
  PROVE  \A p \in published : Live(p[1])' /\ vols'[p[1]].node = p[2]
<1> SUFFICES ASSUME NEW p \in published PROVE Live(p[1])' /\ vols'[p[1]].node = p[2]
  OBVIOUS
<1>1. vols \in [VolumeIds -> VolumeType]
  BY DEF TypeInv, TypeOK
<1>2. Live(p[1]) /\ vols[p[1]].node = p[2]
  BY DEF PublishedInv, PublishedStaysAttached
<1>3. p[2] # None
  BY IdsAssumption DEF TypeInv, TypeOK
<1>4. ~Undoes(r, p)
  BY DEF PublishedInv, Active
<1>5. CASE vols' = vols
  BY <1>2, <1>5 DEF Live
<1>6. ASSUME NEW v \in VolumeIds, Provisions(r, v) PROVE Live(p[1])' /\ vols'[p[1]].node = p[2]
  BY <1>1, <1>2, <1>6 DEF Provisions, Live
<1>7. CASE Removes(r) \/ Attaches(r) \/ Detaches(r)
  <2>1. p[1] # r.volume
    BY <1>2, <1>3, <1>4, <1>7
    DEF Removes, Attaches, Detaches, Undoes, Justified, AttachmentsSeen
  <2>2. QED
    BY <1>1, <1>2, <1>7, <2>1 DEF Removes, Attaches, Detaches, Live
<1>8. CASE Expands(r)
  BY <1>1, <1>2, <1>8 DEF Expands, Live, VolumeType
<1>9. QED
  BY <1>5, <1>6, <1>7, <1>8 DEF WriteEffect

\* Who gets to be published is being served, and shares its volume with no
\* call that undoes it.
LEMMA PublishedStep ==
  ASSUME "DETACH_VOLUME" \in Checks, AttachmentsSeen, BaseInv, PublishedInv, NEW h \in Handlers, Step(h)
  PROVE  PublishedStaysAttached'
<1> USE DEF BaseInv
<1>1. \A p \in published : Live(p[1])' /\ vols'[p[1]].node = p[2]
  <2>1. CASE vols' = vols
    BY <2>1 DEF PublishedInv, PublishedStaysAttached, Live
  <2>2. QED
    BY <2>1, StepEffects, WriteLeavesPublished DEF WritesJustified
<1>2. QED
  BY <1>1, ToldIsTrue DEF PublishedStaysAttached

\* A step of a handler leaves every call that goes on as it was, and changes
\* nothing when its own goes on.
LEMMA CallsGoOn ==
  ASSUME TypeInv, NEW h \in Handlers, Step(h), NEW g \in Handlers, Active(g)'
  PROVE  Active(g) /\ req'[g] = req[g] /\ (g = h => UNCHANGED <<store, published>>)
<1>1. pc[h] # "idle"
  BY StepShapes
<1>2. CASE Moves(h)
  BY <1>1, <1>2 DEF Moves, Goto, Active, TypeInv, TypeOK
<1>3. CASE RepliesUnwritten(h) \/ RepliesWritten(h) \/ TimesOut(h)
  BY <1>3 DEF RepliesUnwritten, AnswerRead, RepliesWritten, TimesOut, Answer, Active,
              TypeInv, TypeOK
<1>4. CASE Dies(h)
  BY <1>4 DEF Dies, Panic, Restart, Active
<1>5. QED
  BY <1>2, <1>3, <1>4, StepShapes

LEMMA NothingUndone ==
  ASSUME TypeInv, LockInv, PublishedInv, NEW h \in Handlers, Step(h)
  PROVE  \A g \in Handlers, p \in published' : Active(g)' => ~Undoes(req'[g], p)
<1> SUFFICES ASSUME NEW g \in Handlers, NEW p \in published', Active(g)'
             PROVE  ~Undoes(req'[g], p)
  OBVIOUS
<1>1. pc[h] # "idle"
  BY StepShapes
<1>2. Active(g) /\ req'[g] = req[g] /\ (g = h => published' = published)
  BY CallsGoOn
<1>3. CASE p \in published
  BY <1>2, <1>3 DEF PublishedInv
<1>4. CASE p \notin published
  <2>1. g # h /\ req[h].op = "ControllerPublishVolume" /\ p[1] = req[h].volume
    BY <1>2, <1>4, ToldIsTrue
  <2>2. QED
    BY <1>1, <1>2, <2>1, KeysApart DEF Active, Undoes
<1>5. QED
  BY <1>3, <1>4

LEMMA PublishedInvNext ==
  ASSUME "DETACH_VOLUME" \in Checks, AttachmentsSeen, ClientModes = {TRUE}, MaxLate = 0
  PROVE  BaseInv /\ PublishedInv /\ [Next]_vars => PublishedInv'
<1> SUFFICES ASSUME BaseInv, PublishedInv, [Next]_vars PROVE PublishedInv'
  OBVIOUS
<1> USE DEF BaseInv
<1>1. ASSUME NEW h \in Handlers, NEW r \in Requests, Reject(h, r) \/ Mock(h, r)
      PROVE  PublishedInv'
  BY <1>1 DEF Reject, Mock, PublishedInv, PublishedStaysAttached, Active, Live, Undoes
<1>2. ASSUME NEW h \in Handlers, NEW r \in Requests, Accept(h, r) PROVE PublishedInv'
  <2>1. \A g \in Handlers : Active(g)' => \/ g = h /\ req'[g] = r
                                          \/ Active(g) /\ req'[g] = req[g]
    BY <1>2 DEF Accept, Active, TypeInv, TypeOK
  <2>2. published' \subseteq published /\ \A p \in published' : ~Undoes(r, p)
    BY <1>2 DEF Accept, Withdrawn
  <2>3. \A g \in Handlers, p \in published' : Active(g)' => ~Undoes(req'[g], p)
    BY <2>1, <2>2 DEF PublishedInv
  <2>4. PublishedStaysAttached' /\ client'
    BY <1>2, <2>2 DEF Accept, PublishedInv, PublishedStaysAttached, Live
  <2>5. QED
    BY <2>3, <2>4 DEF PublishedInv, Undoes
<1>3. ASSUME NEW h \in Handlers, Step(h) PROVE PublishedInv'
  <2>1. client'
    <3>1. Moves(h) \/ RepliesUnwritten(h) \/ RepliesWritten(h) \/ TimesOut(h) => client' = client
      BY DEF Moves, Goto, RepliesUnwritten, AnswerRead, RepliesWritten, TimesOut, Answer
    <3>2. Dies(h) => client' = TRUE
      BY DEF Dies, Panic, Restart
    <3>3. QED
      BY <1>3, <3>1, <3>2, StepShapes DEF PublishedInv
  <2>2. QED
    BY <1>3, <2>1, PublishedStep, NothingUndone DEF PublishedInv, Undoes
<1>4. CASE Crash
  BY <1>4 DEF Crash, Restart, PublishedInv, PublishedStaysAttached, Active, Live
<1>5. CASE UNCHANGED vars
  BY <1>5 DEF vars, PublishedInv, PublishedStaysAttached, Active, Live, Undoes
<1>6. QED
  BY <1>1, <1>2, <1>3, <1>4, <1>5 DEF Next, Arrive, NoneLate

\* A published volume stays on its node until the orchestrator asks it away,
\* for a configured driver whose writes do not outlive their calls, on a
\* service that refuses to detach a volume from a node it is not on and either
\* shows where a volume is attached or refuses to attach it again.
THEOREM PublishedStays ==
  ASSUME "DETACH_VOLUME" \in Checks, AttachmentsSeen, ClientModes = {TRUE}, MaxLate = 0
  PROVE  Spec => []PublishedStaysAttached
<1>1. Init => PublishedInv
  BY DEF Init, PublishedInv, PublishedStaysAttached
<1>2. PublishedInv => PublishedStaysAttached
  BY DEF PublishedInv
<1>3. QED
  BY <1>1, <1>2, BaseInvInit, BaseInvNext, PublishedInvNext, PTL DEF Spec

-----------------------------------------------------------------------------
\* The volume a call names has been minted.
KnownInv == \A h \in Handlers : Active(h) /\ req[h].volume \in VolumeIds
                                => vols[req[h].volume].st # "free"

\* A volume id is never given back, whatever is carried out and whenever.
LEMMA MintedForGood ==
  ASSUME TypeInv, [Next]_vars
  PROVE  \A v \in VolumeIds : vols[v].st # "free" => vols'[v].st # "free"
<1>1. vols \in [VolumeIds -> VolumeType]
  BY DEF TypeInv, TypeOK
<1>2. ASSUME NEW m, NEW id, Performed(m, id)
      PROVE  \A v \in VolumeIds : vols[v].st # "free" => vols'[v].st # "free"
  BY <1>1, <1>2 DEF Performed, Minted, Snapped, Changed, VolumeType
<1>3. ASSUME NEW h \in Handlers, Step(h)
      PROVE  vols' = vols \/ \E m, id : Performed(m, id)
  BY <1>3, StepShapes DEF Moves, Goto, RepliesUnwritten, AnswerRead, RepliesWritten,
                          TimesOut, Dies
<1>4. QED
  BY <1>2, <1>3 DEF Next, Arrive, Reject, Mock, Accept, Land, Crash, vars

LEMMA KnownInvNext == TypeInv /\ KnownInv /\ [Next]_vars => KnownInv'
<1> SUFFICES ASSUME TypeInv, KnownInv, [Next]_vars,
                    NEW g \in Handlers, Active(g)', req'[g].volume \in VolumeIds
             PROVE  vols'[req'[g].volume].st # "free"
  BY DEF KnownInv
<1>1. CASE Active(g) /\ req'[g] = req[g]
  BY <1>1, MintedForGood DEF KnownInv
<1>2. ASSUME NEW h \in Handlers, NEW r \in Requests, Accept(h, r), g = h
      PROVE  vols'[req'[g].volume].st # "free"
  <2>1. req'[g] = r /\ vols' = vols
    BY <1>2 DEF Accept, TypeInv, TypeOK
  <2>2. QED
    BY <1>2, <2>1, IdsAssumption DEF Accept, Known
<1>3. ASSUME NEW h \in Handlers, NEW r \in Requests,
             Reject(h, r) \/ Mock(h, r) \/ (Accept(h, r) /\ g # h)
      PROVE  Active(g) /\ req'[g] = req[g]
  BY <1>3 DEF Reject, Mock, Accept, Active, TypeInv, TypeOK
<1>4. ASSUME NEW h \in Handlers, Step(h) PROVE Active(g) /\ req'[g] = req[g]
  BY <1>4, CallsGoOn
<1>5. CASE \E l \in late : Land(l)
  BY <1>1, <1>5 DEF Land, Active
<1>6. CASE Crash
  BY <1>6 DEF Crash, Restart, Active
<1>7. CASE UNCHANGED vars
  BY <1>1, <1>7 DEF vars, Active
<1>8. QED
  BY <1>1, <1>2, <1>3, <1>4, <1>5, <1>6, <1>7 DEF Next, Arrive

\* A deletion that is carried out leaves nothing; one that is refused for want
\* of the volume finds nothing.
LEMMA DeletePerformed ==
  ASSUME TypeInv, NEW r \in Requests, r.op = "DeleteVolume", r.volume \in VolumeIds,
         NEW id, Performed(Message(r), id)
  PROVE  vols'[r.volume].st = "gone"
<1>1. Message(r).perform = "DELETE_VOLUME" /\ Message(r).volume = r.volume
  BY DEF Message, DeleteVolume, NoMessage
<1>2. vols' = [vols EXCEPT ![r.volume].st = "gone", ![r.volume].node = None]
  BY <1>1 DEF Performed, Minted, Snapped, Changed
<1>3. QED
  BY <1>2 DEF TypeInv, TypeOK, VolumeType

LEMMA DeleteNotFound ==
  ASSUME "404" \notin EchoMarks, TypeInv, NEW r, r.op = "DeleteVolume",
         r.volume \in VolumeIds, vols[r.volume].st # "free",
         "404" \in Reasons(Message(r)) \cup EchoMarks
  PROVE  vols[r.volume].st = "gone"
<1>1. Message(r).perform = "DELETE_VOLUME" /\ Message(r).volume = r.volume
  BY DEF Message, DeleteVolume, NoMessage
<1>2. ~Live(r.volume)
  BY <1>1 DEF Reasons
<1>3. QED
  BY <1>2 DEF Live, TypeInv, TypeOK, VolumeType, Statuses

\* A failed deletion is answered OK only where its error reads "not found".
LEMMA FailedDeleteTold ==
  ASSUME NEW r, r.op = "DeleteVolume", NEW res, ~res.ok, "404" \notin res.marks
  PROVE  WriteReply(r, res).code # "OK"
BY DEF WriteReply, WriteError, IsNotFoundError, Reply, NoAnswer

LEMMA DeleteAnswered ==
  ASSUME "404" \notin EchoMarks, TypeInv, KnownInv, NEW h \in Handlers, Step(h),
         answer'.to.op = "DeleteVolume", answer'.code = "OK"
  PROVE  vols'[answer'.to.volume].st = "gone"
<1>1. pc[h] # "idle" /\ req[h] \in Requests /\ ~Malformed(req[h])
  BY StepShapes DEF TypeInv, CallsChecked
<1>2. ~Moves(h)
  BY OpsAssumption DEF Moves, Goto, NoAnswer, NoRequest, Ops
<1>3. ~Dies(h)
  BY DEF Dies, Panic, Restart, Reply, NoAnswer
<1>4. answer'.to = req[h]
  BY <1>2, <1>3, StepShapes DEF RepliesUnwritten, AnswerRead, RepliesWritten, TimesOut,
                                Answer, ReplyTo
<1>5. PICK r \in Requests : r = req[h] /\ r.op = "DeleteVolume" /\ r = answer'.to
  BY <1>1, <1>4
<1>6. r.volume \in VolumeIds
  BY <1>1, <1>5, RequestsAssumption DEF Malformed, RequestType
<1>7. vols[r.volume].st # "free"
  BY <1>1, <1>5, <1>6 DEF KnownInv, Active
<1>8. \A res : ~res.ok /\ "404" \notin res.marks => ~Answer(h, WriteReply(r, res))
  BY <1>5, FailedDeleteTold DEF Answer
<1>9. CASE WriteDone(h)
  <2>1. PICK id : Performed(Message(r), id)
    BY <1>5, <1>9 DEF WriteDone
  <2>2. QED
    BY <1>5, <1>6, <2>1, DeletePerformed
<1>10. CASE WriteRefused(h)
  <2>1. vols' = vols /\ Answer(h, WriteReply(r, RefusalAnswer(Message(r))))
    BY <1>5, <1>10 DEF WriteRefused, AnswerRead
  <2>2. "404" \in Reasons(Message(r)) \cup EchoMarks
    BY <1>8, <2>1 DEF RefusalAnswer, Err
  <2>3. QED
    BY <1>5, <1>6, <1>7, <2>1, <2>2, DeleteNotFound
<1>11. ~WriteFails(h) /\ ~WriteTimesOut(h)
  BY <1>5, <1>8 DEF WriteFails, Failures, WriteTimesOut, AnswerRead, Err
<1>12. QED
  BY <1>5, <1>9, <1>10, <1>11
  DEF Step, At, CreateVolumeGetsSnapshot, CreateVolumeGetsByName, PublishGetsVolume,
      ValidateGetsVolume, ExpandGetsVolume, SnapshotGetsByName, SnapshotLists,
      SnapshotGetsVolume, ListGetsSnapshot, ListLists

\* A volume whose deletion was answered OK is gone, even when writes are lost,
\* outlive their calls or land after a crash, as long as no id reads "404".
THEOREM DeletedIsGone ==
  ASSUME "404" \notin EchoMarks
  PROVE  Spec => []AnsweredDeleteIsGone
<1> DEFINE Inv == TypeInv /\ KnownInv /\ AnsweredDeleteIsGone
<1>1. Init => Inv
  BY TypeInvInit, OpsAssumption
  DEF Init, KnownInv, Active, AnsweredDeleteIsGone, NoAnswer, NoRequest, Ops
<1>2. Inv /\ [Next]_vars => Inv'
  <2> SUFFICES ASSUME Inv, [Next]_vars PROVE AnsweredDeleteIsGone'
    BY TypeInvNext, KnownInvNext
  <2>1. ASSUME NEW h \in Handlers, NEW r \in Requests, Reject(h, r) \/ Mock(h, r) \/ Accept(h, r)
        PROVE  AnsweredDeleteIsGone'
    <3>1. CASE Reject(h, r)
      BY <3>1 DEF Reject, AnsweredDeleteIsGone, Reply, NoAnswer
    <3>2. CASE Mock(h, r)
      BY <3>2 DEF Mock, AnsweredDeleteIsGone
    <3>3. CASE Accept(h, r)
      BY <3>3, OpsAssumption DEF Accept, AnsweredDeleteIsGone, NoAnswer, NoRequest, Ops
    <3>4. QED
      BY <2>1, <3>1, <3>2, <3>3
  <2>2. ASSUME NEW h \in Handlers, Step(h) PROVE AnsweredDeleteIsGone'
    BY <2>2, DeleteAnswered DEF AnsweredDeleteIsGone
  <2>3. CASE Crash \/ \E l \in late : Land(l)
    <3>1. answer' = NoAnswer
      BY <2>3 DEF Crash, Restart, Land
    <3>2. QED
      BY <3>1, OpsAssumption DEF AnsweredDeleteIsGone, NoAnswer, NoRequest, Ops
  <2>4. CASE UNCHANGED vars
    BY <2>4 DEF vars, AnsweredDeleteIsGone
  <2>5. QED
    BY <2>1, <2>2, <2>3, <2>4 DEF Next, Arrive
<1>3. QED
  BY <1>1, <1>2, PTL DEF Spec

-----------------------------------------------------------------------------
\* Only the message of a checked call changes the store, in time or late.
LEMMA OnlyCallsWrite ==
  ASSUME TypeInv, [Next]_vars
  PROVE  UNCHANGED store \/ \E r \in Requests : ~Malformed(r) /\ \E id : Performed(Message(r), id)
<1>1. ASSUME NEW h \in Handlers, Step(h)
      PROVE  UNCHANGED store \/ \E r \in Requests : ~Malformed(r) /\ \E id : Performed(Message(r), id)
  <2>1. CASE Moves(h) \/ RepliesUnwritten(h) \/ TimesOut(h)
    BY <2>1 DEF Moves, Goto, RepliesUnwritten, AnswerRead, TimesOut
  <2>2. CASE RepliesWritten(h) \/ Dies(h)
    BY <2>2 DEF RepliesWritten, Dies, TypeInv, CallsChecked
  <2>3. QED
    BY <1>1, <2>1, <2>2, StepShapes
<1>2. ASSUME NEW l \in late, Land(l)
      PROVE  UNCHANGED store \/ \E r \in Requests : ~Malformed(r) /\ \E id : Performed(Message(r), id)
  BY <1>2 DEF Land, TypeInv, TypeOK
<1>3. QED
  BY <1>1, <1>2 DEF Next, Arrive, Reject, Mock, Accept, Crash, vars

\* A volume that is not there is attached nowhere, one that is has a size.
StoreInv ==
  \A v \in VolumeIds : /\ vols[v].st # "live" => vols[v].node = None
                       /\ vols[v].st = "live" => vols[v].size > 0

LEMMA StoreInvNext == TypeInv /\ StoreInv /\ [Next]_vars => StoreInv'
<1> SUFFICES ASSUME TypeInv, StoreInv, [Next]_vars PROVE StoreInv'
  OBVIOUS
<1>1. vols \in [VolumeIds -> VolumeType]
  BY DEF TypeInv, TypeOK
<1>2. CASE vols' = vols
  BY <1>2 DEF StoreInv
<1>3. ASSUME NEW r \in Requests, ~Malformed(r), WriteEffect(r) PROVE StoreInv'
  <2>1. VolumeSize(r) > 0
    BY SizeTyped, SizesAssumption
  <2>2. ASSUME NEW v \in VolumeIds, Provisions(r, v) PROVE StoreInv'
    <3>1. /\ vols'[v].st = "live" /\ vols'[v].size = VolumeSize(r)
          /\ \A w \in VolumeIds \ {v} : vols'[w] = vols[w]
      BY <1>1, <2>2 DEF Provisions
    <3>2. QED
      BY <2>1, <3>1 DEF StoreInv
  <2>3. CASE Removes(r) \/ Detaches(r)
    BY <1>1, <2>3 DEF Removes, Detaches, StoreInv, VolumeType
  <2>4. CASE Attaches(r)
    BY <1>1, <2>4 DEF Attaches, Live, StoreInv, VolumeType
  <2>5. CASE Expands(r)
    <3>1. r.required > 0
      BY <1>3, <2>5, RequestsAssumption DEF Expands, Malformed, RequestType
    <3>2. QED
      BY <1>1, <2>5, <3>1 DEF Expands, Live, StoreInv, VolumeType
  <2>6. QED
    BY <1>2, <1>3, <2>2, <2>3, <2>4, <2>5 DEF WriteEffect
<1>4. QED
  BY <1>2, <1>3, OnlyCallsWrite, WriteEffects

LEMMA StoreInvInit == Init => StoreInv
BY DEF Init, StoreInit, NoVolume, StoreInv

-----------------------------------------------------------------------------
\* An OK of a driver with a client is the end of a handler's call.
AnswersOK(h) == Step(h) /\ Answer(h, answer') /\ answer'.to = req[h] /\ answer'.code = "OK"

LEMMA StepOKs ==
  ASSUME TypeInv, NEW h \in Handlers, Step(h), answer'.code = "OK" PROVE AnswersOK(h)
<1>1. answer' # NoAnswer
  BY CodesAssumption DEF NoAnswer
<1>2. ~Moves(h) /\ ~Dies(h)
  BY <1>1 DEF Moves, Goto, Dies, Panic, Restart, Reply, NoAnswer
<1>3. QED
  BY <1>2, StepShapes
  DEF AnswersOK, RepliesUnwritten, AnswerRead, RepliesWritten, TimesOut, Answer, ReplyTo

LEMMA OKsAreReplies ==
  ASSUME TypeInv, [Next]_vars, answer'.code = "OK", client'
  PROVE  UNCHANGED vars \/ \E h \in Handlers : AnswersOK(h)
<1>1. answer' # NoAnswer
  BY CodesAssumption DEF NoAnswer
<1>2. ASSUME NEW h \in Handlers, NEW r \in Requests, Reject(h, r) \/ Mock(h, r) \/ Accept(h, r)
      PROVE  FALSE
  BY <1>1, <1>2 DEF Reject, Mock, Accept, Reply, NoAnswer
<1>3. ~Crash /\ ~\E l \in late : Land(l)
  BY <1>1 DEF Crash, Restart, Land
<1>4. QED
  BY <1>2, <1>3, StepOKs DEF Next, Arrive

\* A write that fails is answered OK only where its error reads "not found".
LEMMA FailedWriteTold ==
  ASSUME NEW r, NEW res, ~res.ok, WriteReply(r, res).code = "OK"
  PROVE  /\ r.op \in {"DeleteVolume", "ControllerUnpublishVolume", "DeleteSnapshot"}
         /\ "404" \in res.marks
<1>1. WriteError(r, res) = "OK"
  BY DEF WriteReply, Reply, NoAnswer
<1>2. QED
  BY <1>1 DEF WriteError, IsNotFoundError

\* What an OK comes from: a look at the service, or a write that is done, or
\* one that finds nothing.
Finished(h) ==
  /\ pc[h] = "Write"
  /\ \E id, res : /\ Performed(Message(req[h]), id)
                  /\ res \in Answers(Message(req[h]), id)
                  /\ answer' = WriteReply(req[h], res)
FoundNothing(h) ==
  /\ req[h].op \in {"DeleteVolume", "ControllerUnpublishVolume", "DeleteSnapshot"}
  /\ "404" \in Reasons(Message(req[h])) \cup EchoMarks
  /\ UNCHANGED store

LEMMA WrittenOKs ==
  ASSUME NEW h \in Handlers, AnswersOK(h),
         WriteDone(h) \/ WriteRefused(h) \/ WriteFails(h) \/ WriteTimesOut(h)
  PROVE  Finished(h) \/ FoundNothing(h)
<1>1. CASE WriteDone(h)
  <2>1. ~Panic(h)
    BY DEF AnswersOK, Panic, Restart, Reply, NoAnswer
  <2>2. PICK id : \E res \in Answers(Message(req[h]), id) :
          Performed(Message(req[h]), id) /\ Answer(h, WriteReply(req[h], res))
    BY <1>1, <2>1 DEF WriteDone
  <2>3. QED
    BY <1>1, <2>2 DEF WriteDone, Finished, Answer
<1>2. CASE WriteRefused(h)
  <2>1. answer' = WriteReply(req[h], RefusalAnswer(Message(req[h]))) /\ UNCHANGED store
    BY <1>2 DEF WriteRefused, AnswerRead, Answer
  <2>2. QED
    BY <2>1, FailedWriteTold DEF AnswersOK, RefusalAnswer, Err, FoundNothing
<1>3. CASE WriteFails(h)
  <2>1. PICK res \in Failures(Message(req[h]).perform) :
          answer' = WriteReply(req[h], res) /\ UNCHANGED store
    BY <1>3 DEF WriteFails, AnswerRead, Answer
  <2>2. ~res.ok /\ res.marks \in {{}, EchoMarks, {"VolumeNotReady"}}
    BY DEF Failures, Err
  <2>3. QED
    BY <2>1, <2>2, FailedWriteTold DEF AnswersOK, FoundNothing
<1>4. ~WriteTimesOut(h)
  BY FailedWriteTold DEF AnswersOK, WriteTimesOut, Answer, Err
<1>5. QED
  BY <1>1, <1>2, <1>3, <1>4

\* The volumes and snapshots an OK speaks of, when it comes from a look.
FoundVolume(h) ==
  LET r == req[h] IN
  /\ r.op = "CreateVolume" /\ UNCHANGED store
  /\ \E vol \in UNION {Parsed(v) : v \in Named(r.name)} : answer' = ExistingReply(r, vol)
FoundSnapshot(h) ==
  LET r == req[h] IN
  /\ r.op = "CreateSnapshot" /\ UNCHANGED store
  /\ \E s \in SnapshotsNamed(r.name) :
       snaps[s].source = r.volume /\ answer' = [Reply(r, "OK") EXCEPT !.id = s]

LEMMA CreatedOKs ==
  ASSUME TypeInv, NEW h \in Handlers, AnswersOK(h), NEW r, r = req[h],
         r.op \in {"CreateVolume", "CreateSnapshot"}
  PROVE  Finished(h) \/ FoundVolume(h) \/ FoundSnapshot(h)
<1>1. pc[h] # "idle" /\ r \in Requests /\ ~Malformed(r)
  BY StepShapes DEF AnswersOK, TypeInv, CallsChecked
<1>2. ~\E c : Goto(h, c)
  BY CodesAssumption DEF AnswersOK, Goto, NoAnswer
<1>3. \A c : Reply(r, c).code = c
  BY DEF Reply, NoAnswer
<1>4. \A a : AnswerRead(h, a) => answer' = a /\ UNCHANGED store
  BY DEF AnswerRead, Answer
<1>5. ~CreateVolumeGetsSnapshot(h)
  BY <1>2, <1>3, <1>4 DEF CreateVolumeGetsSnapshot, AnswersOK
<1>6. CASE CreateVolumeGetsByName(h)
  <2>1. PICK res \in GetVolumeByName(r.name) :
          res.ok /\ ~res.nil /\ AnswerRead(h, ExistingReply(r, res.found))
    BY <1>2, <1>6 DEF CreateVolumeGetsByName
  <2>2. res.found \in UNION {Parsed(v) : v \in Named(r.name)}
    BY <2>1 DEF GetVolumeByName, LookedUp, Ok, Nil, Err, Failures
  <2>3. QED
    BY <1>4, <1>6, <2>1, <2>2 DEF CreateVolumeGetsByName, At, FoundVolume
<1>7. CASE SnapshotGetsByName(h)
  <2>1. PICK res \in GetSnapshotByName(r.name) :
          /\ res.ok /\ ~res.nil
          /\ AnswerRead(h, IF snaps[res.found].source # r.volume
                           THEN Reply(r, "AlreadyExists")
                           ELSE [Reply(r, "OK") EXCEPT !.id = res.found])
    BY <1>2, <1>7 DEF SnapshotGetsByName
  <2>2. snaps[res.found].source = r.volume
    BY <1>3, <1>4, <2>1 DEF AnswersOK
  <2>3. res.found \in SnapshotsNamed(r.name)
    BY <2>1 DEF GetSnapshotByName, SnapshotLookup, LookedUp, Ok, Nil, Err, Failures
  <2>4. QED
    BY <1>4, <1>7, <2>1, <2>2, <2>3 DEF SnapshotGetsByName, At, FoundSnapshot
<1>8. CASE SnapshotLists(h)
  <2>1. ~Panic(h)
    BY DEF AnswersOK, Panic, Restart, Reply, NoAnswer
  <2>2. PICK res \in ListSnapshots(r.volume) :
          res.ok /\ \E s \in res.found \ {None} :
                      /\ snaps[s].name = r.name
                      /\ AnswerRead(h, [Reply(r, "OK") EXCEPT !.id = s])
    BY <1>2, <1>8, <2>1 DEF SnapshotLists
  <2>3. r.volume # None
    BY <1>1, <1>8, RequestsAssumption, IdsAssumption DEF SnapshotLists, At, Malformed
  <2>4. res.found \ {None} \subseteq SnapshotsOf(r.volume)
    BY <2>2, <2>3 DEF ListSnapshots, Ok, Err, Failures
  <2>5. QED
    BY <1>4, <1>8, <2>2, <2>4
    DEF SnapshotLists, At, FoundSnapshot, SnapshotsOf, SnapshotsNamed
<1>9. ~SnapshotGetsVolume(h)
  BY <1>2, <1>3, <1>4 DEF SnapshotGetsVolume, AnswersOK
<1>10. CASE WriteDone(h) \/ WriteRefused(h) \/ WriteFails(h) \/ WriteTimesOut(h)
  BY <1>10, WrittenOKs DEF FoundNothing
<1>11. QED
  BY <1>5, <1>6, <1>7, <1>8, <1>9, <1>10
  DEF AnswersOK, Step, At, PublishGetsVolume, ValidateGetsVolume, ExpandGetsVolume,
      ListGetsSnapshot, ListLists

\* A creation that is carried out and answered OK tells what was made.
LEMMA VolumeFinished ==
  ASSUME TypeInv, NEW h \in Handlers, NEW r \in Requests, r = req[h], Finished(h),
         answer'.code = "OK", r.op = "CreateVolume"
  PROVE  /\ answer' = [Reply(r, "OK") EXCEPT !.id = answer'.id, !.capacity = VolumeSize(r),
                                             !.source = r.snapshot]
         /\ answer'.id \in VolumeIds
         /\ ~Refused(Message(r))
         /\ vols'[answer'.id] =
              [st |-> "live", name |-> r.name, size |-> VolumeSize(r), node |-> None,
               data |-> IF LiveSnapshot(r.snapshot) THEN r.snapshot ELSE None]
<1> DEFINE m == CreateVolume(r.name, VolumeSize(r), r.snapshot)
<1>1. Message(r) = m /\ m.perform = "CREATE_VOLUME" /\ m.name = r.name
      /\ m.size = VolumeSize(r) /\ m.snapshot = r.snapshot
  BY DEF Message, CreateVolume, NoMessage
<1> HIDE DEF m
<1>2. PICK id, res : /\ Performed(m, id) /\ res \in Answers(m, id)
                     /\ answer' = WriteReply(r, res)
  BY <1>1 DEF Finished
<1>3. res.ok
  BY <1>2, FailedWriteTold
<1>4. res = Ok(id)
  BY <1>1, <1>2, <1>3 DEF Answers, LostAnswers, Err
<1>5. answer' = [Reply(r, "OK") EXCEPT !.id = id, !.capacity = VolumeSize(r),
                                       !.source = r.snapshot]
  BY <1>2, <1>4 DEF WriteReply, Ok
<1>6. answer'.id = id
  BY <1>5 DEF Reply, NoAnswer
<1>7. id \in VolumeIds /\ Minted(m, id) /\ ~Refused(m)
  BY <1>1, <1>2 DEF Performed, Snapped, Changed
<1>8. QED
  BY <1>1, <1>5, <1>6, <1>7 DEF Minted, TypeInv, TypeOK

LEMMA SnapshotFinished ==
  ASSUME TypeInv, NEW h \in Handlers, NEW r \in Requests, r = req[h], Finished(h),
         answer'.code = "OK", r.op = "CreateSnapshot"
  PROVE  /\ answer'.id \in SnapshotIds
         /\ snaps'[answer'.id] = [st |-> "live", name |-> r.name, source |-> r.volume]
<1> DEFINE m == CreateSnapshot(r.name, r.volume)
<1>1. Message(r) = m /\ m.perform = "CREATE_SNAPSHOT" /\ m.name = r.name /\ m.volume = r.volume
  BY DEF Message, CreateSnapshot, NoMessage
<1> HIDE DEF m
<1>2. PICK id, res : /\ Performed(m, id) /\ res \in Answers(m, id)
                     /\ answer' = WriteReply(r, res)
  BY <1>1 DEF Finished
<1>3. res.ok /\ ~res.nil
  BY <1>2, FailedWriteTold DEF WriteReply, Reply, NoAnswer
<1>4. res = Ok(id)
  BY <1>1, <1>2, <1>3 DEF Answers, LostAnswers, Err, Nil
<1>5. answer'.id = id
  BY <1>2, <1>4 DEF WriteReply, Ok, Reply, NoAnswer
<1>6. id \in SnapshotIds /\ Snapped(m, id)
  BY <1>1, <1>2 DEF Performed, Minted, Changed
<1>7. QED
  BY <1>1, <1>5, <1>6 DEF Snapped, TypeInv, TypeOK

\* The size of a new volume is within the limit of the call, but for the bump
\* to the minimum.
LEMMA SizeWithinLimit ==
  ASSUME NEW r \in Requests, ~Unservable(r), r.op = "CreateVolume", r.limit > 0
  PROVE  VolumeSize(r) = MinVolumeSize \/ VolumeSize(r) <= r.limit
<1>1. r.limit \in Int /\ r.required \in Int
  BY RequestsAssumption DEF RequestType
<1>2. QED
  BY <1>1, SizesAssumption DEF Unservable, OutOfRange, VolumeSize, AskedSize

\* What CreatedAsAsked asks of one reply.
VolumeAsAsked(a) ==
  /\ Live(a.id) /\ vols[a.id].name = a.to.name /\ vols[a.id].size = a.capacity
  /\ a.to.limit > 0 => a.capacity = MinVolumeSize \/ a.capacity <= a.to.limit
SnapshotAsAsked(a) ==
  LiveSnapshot(a.id) /\ snaps[a.id].name = a.to.name /\ snaps[a.id].source = a.to.volume

LEMMA VolumeTold ==
  ASSUME "capacity" \notin Omits, TypeInv, StoreInv, NEW h \in Handlers, AnswersOK(h),
         req[h].op = "CreateVolume"
  PROVE  VolumeAsAsked(answer)'
<1>1. PICK r \in Requests : r = req[h] /\ ~Unservable(r) /\ r.op = "CreateVolume"
  BY StepShapes DEF AnswersOK, TypeInv, CallsChecked
<1>2. answer'.to = r /\ answer'.code = "OK"
  BY <1>1 DEF AnswersOK
<1>3. r.limit > 0 => VolumeSize(r) = MinVolumeSize \/ VolumeSize(r) <= r.limit
  BY <1>1, SizeWithinLimit
<1>4. CASE Finished(h)
  <2>1. /\ answer'.id \in VolumeIds /\ vols'[answer'.id].st = "live"
        /\ vols'[answer'.id].name = r.name /\ vols'[answer'.id].size = VolumeSize(r)
    <3>1. /\ answer'.id \in VolumeIds
          /\ vols'[answer'.id] =
               [st |-> "live", name |-> r.name, size |-> VolumeSize(r), node |-> None,
                data |-> IF LiveSnapshot(r.snapshot) THEN r.snapshot ELSE None]
      BY <1>1, <1>2, <1>4, VolumeFinished
    <3>2. QED
      BY <3>1
  <2>2. answer'.capacity = VolumeSize(r)
    <3>1. answer' = [Reply(r, "OK") EXCEPT !.id = answer'.id, !.capacity = VolumeSize(r),
                                           !.source = r.snapshot]
      BY <1>1, <1>2, <1>4, VolumeFinished
    <3>2. QED
      BY <3>1 DEF Reply, NoAnswer
  <2>3. QED
    BY <1>2, <1>3, <2>1, <2>2 DEF VolumeAsAsked, Live
<1>5. CASE FoundVolume(h)
  <2>1. PICK v, vol : /\ v \in Named(r.name) /\ vol \in Parsed(v)
                      /\ answer' = ExistingReply(r, vol)
    BY <1>1, <1>5 DEF FoundVolume
  <2>2. v \in VolumeIds /\ Live(v) /\ vols[v].name = r.name /\ vols[v].size > 0
    BY <2>1 DEF Named, Live, StoreInv
  <2>3. vol.id = v /\ vol.size = vols[v].size
    BY <2>1 DEF Parsed, Shown
  <2>4. vol.size = VolumeSize(r)
    BY <1>2, <2>1, <2>2, <2>3 DEF ExistingReply, Reply, NoAnswer
  <2>5. answer'.id = v /\ answer'.capacity = vol.size
    BY <1>2, <2>1, <2>2, <2>3, <2>4, SizeTyped DEF ExistingReply, Reply, NoAnswer
  <2>6. UNCHANGED vols
    BY <1>5 DEF FoundVolume
  <2>7. QED
    BY <1>2, <1>3, <2>2, <2>3, <2>4, <2>5, <2>6 DEF VolumeAsAsked, Live
<1>6. QED
  BY <1>1, <1>4, <1>5, CreatedOKs DEF FoundSnapshot

LEMMA SnapshotTold ==
  ASSUME TypeInv, NEW h \in Handlers, AnswersOK(h), req[h].op = "CreateSnapshot"
  PROVE  SnapshotAsAsked(answer)'
<1>1. PICK r \in Requests : r = req[h] /\ r.op = "CreateSnapshot"
  BY StepShapes DEF AnswersOK, TypeInv, CallsChecked
<1>2. answer'.to = r /\ answer'.code = "OK"
  BY <1>1 DEF AnswersOK
<1>3. CASE Finished(h)
  <2>1. /\ answer'.id \in SnapshotIds
        /\ snaps'[answer'.id] = [st |-> "live", name |-> r.name, source |-> r.volume]
    BY <1>1, <1>2, <1>3, SnapshotFinished
  <2>2. QED
    BY <1>2, <2>1 DEF SnapshotAsAsked, LiveSnapshot
<1>4. CASE FoundSnapshot(h)
  <2>1. PICK s \in SnapshotsNamed(r.name) :
          snaps[s].source = r.volume /\ answer' = [Reply(r, "OK") EXCEPT !.id = s]
    BY <1>1, <1>4 DEF FoundSnapshot
  <2>2. answer'.id = s
    BY <2>1 DEF Reply, NoAnswer
  <2>3. UNCHANGED snaps
    BY <1>4 DEF FoundSnapshot
  <2>4. QED
    BY <1>2, <2>1, <2>2, <2>3 DEF SnapshotsNamed, SnapshotAsAsked, LiveSnapshot
<1>5. QED
  BY <1>1, <1>3, <1>4, CreatedOKs DEF FoundVolume

\* A volume or a snapshot that is answered OK is there as it was asked for,
\* with every failure, late write and restart the model has, as long as the
\* service shows the size of a volume.
THEOREM CreatedIsAsAsked ==
  ASSUME "capacity" \notin Omits
  PROVE  Spec => []CreatedAsAsked
<1> DEFINE Inv == TypeInv /\ StoreInv /\ CreatedAsAsked
<1>1. Init => Inv
  BY TypeInvInit, StoreInvInit, CodesAssumption DEF Init, CreatedAsAsked, NoAnswer
<1>2. Inv /\ [Next]_vars => Inv'
  <2> SUFFICES ASSUME Inv, [Next]_vars, answer'.code = "OK", client'
               PROVE  CreatedAsAsked'
    BY TypeInvNext, StoreInvNext DEF CreatedAsAsked
  <2>1. CASE UNCHANGED vars
    BY <2>1 DEF vars, CreatedAsAsked, Live, LiveSnapshot
  <2>2. ASSUME NEW h \in Handlers, AnswersOK(h) PROVE CreatedAsAsked'
    <3>1. answer'.to = req[h]
      BY <2>2 DEF AnswersOK
    <3>2. /\ req[h].op = "CreateVolume" => VolumeAsAsked(answer)'
          /\ req[h].op = "CreateSnapshot" => SnapshotAsAsked(answer)'
      BY <2>2, VolumeTold, SnapshotTold
    <3>3. QED
      BY <3>1, <3>2 DEF CreatedAsAsked, VolumeAsAsked, SnapshotAsAsked
  <2>3. QED
    BY <2>1, <2>2, OKsAreReplies
<1>3. QED
  BY <1>1, <1>2, PTL DEF Spec

-----------------------------------------------------------------------------
\* A call that only writes is answered OK when the write is done, or finds
\* nothing.
LEMMA WriterOKs ==
  ASSUME NEW h \in Handlers, AnswersOK(h),
         req[h].op \in {"DeleteVolume", "ControllerUnpublishVolume", "DeleteSnapshot"}
  PROVE  Finished(h) \/ FoundNothing(h)
BY WrittenOKs
DEF AnswersOK, Step, At, CreateVolumeGetsSnapshot, CreateVolumeGetsByName, PublishGetsVolume,
    ValidateGetsVolume, ExpandGetsVolume, SnapshotGetsByName, SnapshotLists,
    SnapshotGetsVolume, ListGetsSnapshot, ListLists

\* A detachment that is done, or finds nothing, leaves the volume off the node.
LEMMA DetachTold ==
  ASSUME "404" \notin EchoMarks, TypeInv, StoreInv, NEW h \in Handlers, AnswersOK(h),
         NEW r \in Requests, r = req[h], ~Malformed(r), r.op = "ControllerUnpublishVolume"
  PROVE  vols'[r.volume].node \notin {r.node} \cap Nodes
<1>1. Message(r).perform = "DETACH_VOLUME" /\ Message(r).volume = r.volume
      /\ Message(r).node = r.node
  BY DEF Message, DetachVolume, NoMessage
<1>2. r.volume \in VolumeIds
  BY RequestsAssumption DEF Malformed, RequestType
<1>3. vols \in [VolumeIds -> VolumeType]
  BY DEF TypeInv, TypeOK
<1>4. CASE Finished(h)
  <2>1. vols' = [vols EXCEPT ![r.volume].node = None]
    BY <1>1, <1>4 DEF Finished, Performed, Minted, Snapped, Changed
  <2>2. QED
    BY <1>2, <1>3, <2>1, IdsAssumption DEF VolumeType
<1>5. CASE FoundNothing(h)
  <2>1. ~Live(r.volume) \/ vols[r.volume].node # r.node
    BY <1>1, <1>5 DEF FoundNothing, Reasons
  <2>2. CASE ~Live(r.volume)
    BY <1>2, <1>5, <2>2, IdsAssumption DEF FoundNothing, StoreInv, Live
  <2>3. QED
    BY <1>5, <2>1, <2>2 DEF FoundNothing
<1>6. QED
  BY <1>4, <1>5, WriterOKs

\* A ControllerUnpublishVolume that is answered OK has left the volume off its
\* node, with every failure, late write and restart, as long as no id reads
\* "404".
THEOREM UnpublishedIsDetached ==
  ASSUME "404" \notin EchoMarks
  PROVE  Spec => []AnsweredUnpublishIsDetached
<1> DEFINE Inv == TypeInv /\ StoreInv /\ AnsweredUnpublishIsDetached
<1>1. Init => Inv
  BY TypeInvInit, StoreInvInit, CodesAssumption
  DEF Init, AnsweredUnpublishIsDetached, NoAnswer
<1>2. Inv /\ [Next]_vars => Inv'
  <2> SUFFICES ASSUME Inv, [Next]_vars, answer'.code = "OK", client',
                      answer'.to.op = "ControllerUnpublishVolume"
               PROVE  vols'[answer'.to.volume].node \notin {answer'.to.node} \cap Nodes
    BY TypeInvNext, StoreInvNext DEF AnsweredUnpublishIsDetached
  <2>1. CASE UNCHANGED vars
    BY <2>1 DEF vars, AnsweredUnpublishIsDetached
  <2>2. ASSUME NEW h \in Handlers, AnswersOK(h)
        PROVE  vols'[answer'.to.volume].node \notin {answer'.to.node} \cap Nodes
    <3>1. PICK r \in Requests : r = req[h] /\ r = answer'.to /\ ~Malformed(r)
      BY <2>2, StepShapes DEF AnswersOK, TypeInv, CallsChecked
    <3>2. QED
      BY <2>2, <3>1, DetachTold
  <2>3. QED
    BY <2>1, <2>2, OKsAreReplies
<1>3. QED
  BY <1>1, <1>2, PTL DEF Spec

-----------------------------------------------------------------------------
\* A snapshot that no call deletes stays; the orchestrator deletes none that it
\* restores from.
Kept(s) == \A r \in Requests : r.op = "DeleteSnapshot" => r.snapshot # s
SourcesKept == \A r \in Requests : r.op = "CreateVolume" => Kept(r.snapshot)

\* A call that restores a snapshot finds it there from its first step on.
SourcesLive ==
  /\ \A s \in SnapshotIds : Kept(s) => snaps[s].st # "gone"
  /\ \A h \in Handlers :
       Active(h) /\ req[h].op = "CreateVolume" /\ req[h].snapshot # None
       => LiveSnapshot(req[h].snapshot)

LEMMA KeptStays ==
  ASSUME TypeInv, [Next]_vars, NEW s \in SnapshotIds, Kept(s)
  PROVE  /\ LiveSnapshot(s) => LiveSnapshot(s)'
         /\ snaps[s].st # "gone" => snaps'[s].st # "gone"
<1>1. CASE UNCHANGED store
  BY <1>1 DEF LiveSnapshot
<1>2. ASSUME NEW r \in Requests, NEW id, Performed(Message(r), id)
      PROVE  /\ LiveSnapshot(s) => LiveSnapshot(s)'
             /\ snaps[s].st # "gone" => snaps'[s].st # "gone"
  <2>1. Message(r).perform = "DELETE_SNAPSHOT" => Message(r).snapshot # s
    BY PerformsAssumption
    DEF Message, CreateVolume, DeleteVolume, AttachVolume, DetachVolume, ExpandVolume,
        CreateSnapshot, DeleteSnapshot, NoMessage, Kept, Performs
  <2>2. snaps \in [SnapshotIds -> SnapshotType]
    BY DEF TypeInv, TypeOK
  <2>3. snaps'[s] = snaps[s] \/ (snaps[s].st = "free" /\ snaps'[s].st = "live")
    BY <1>2, <2>1, <2>2 DEF Performed, Minted, Snapped, Changed
  <2>4. QED
    BY <2>3 DEF LiveSnapshot
<1>3. QED
  BY <1>1, <1>2, OnlyCallsWrite

LEMMA SourcesLiveNext ==
  ASSUME SourcesKept PROVE TypeInv /\ SourcesLive /\ [Next]_vars => SourcesLive'
<1> SUFFICES ASSUME TypeInv, SourcesLive, [Next]_vars,
                    NEW g \in Handlers, Active(g)',
                    NEW r, r = req'[g], r.op = "CreateVolume", r.snapshot # None
             PROVE  LiveSnapshot(r.snapshot)'
  BY KeptStays DEF SourcesLive
<1>1. CASE Active(g) /\ req[g] = r
  <2>1. r \in Requests /\ LiveSnapshot(r.snapshot)
    BY <1>1 DEF TypeInv, CallsChecked, SourcesLive, Active
  <2>2. QED
    BY <2>1, KeptStays DEF SourcesKept, LiveSnapshot
<1>2. ASSUME NEW h \in Handlers, NEW c \in Requests, Reject(h, c) \/ Mock(h, c) \/ Accept(h, c)
      PROVE  LiveSnapshot(r.snapshot)'
  <2>1. CASE Accept(h, c) /\ g = h
    <3>1. c = r /\ UNCHANGED snaps /\ snaps[r.snapshot].st # "free"
      BY <2>1 DEF Accept, Known, TypeInv, TypeOK
    <3>2. r.snapshot \in SnapshotIds /\ Kept(r.snapshot)
      BY <3>1, RequestsAssumption DEF RequestType, SourcesKept
    <3>3. snaps[r.snapshot].st = "live"
      BY <3>1, <3>2 DEF SourcesLive, TypeInv, TypeOK, SnapshotType, Statuses
    <3>4. QED
      BY <3>1, <3>2, <3>3 DEF LiveSnapshot
  <2>2. CASE Accept(h, c) /\ g # h
    BY <1>1, <2>2 DEF Accept, Active, TypeInv, TypeOK
  <2>3. QED
    BY <1>1, <1>2, <2>1, <2>2 DEF Reject, Mock, Active
<1>3. ASSUME NEW h \in Handlers, Step(h) PROVE LiveSnapshot(r.snapshot)'
  BY <1>1, <1>3, CallsGoOn
<1>4. CASE \E l \in late : Land(l)
  BY <1>1, <1>4 DEF Land, Active
<1>5. ~Crash
  BY DEF Crash, Restart, Active
<1>6. CASE UNCHANGED vars
  BY <1>1, <1>6 DEF vars, Active
<1>7. QED
  BY <1>1, <1>2, <1>3, <1>4, <1>5, <1>6 DEF Next, Arrive

\* A CreateVolume that is answered with a source has made the volume, and the
\* snapshot was there when it did.
LEMMA SourceTold ==
  ASSUME "CREATE_VOLUME" \in Checks \/ SourcesLive,
         TypeInv, NEW h \in Handlers, AnswersOK(h), req[h].op = "CreateVolume",
         answer'.source # None
  PROVE  vols'[answer'.id].data = answer'.source
<1>1. PICK r \in Requests : r = req[h] /\ r.op = "CreateVolume" /\ answer'.code = "OK"
  BY StepShapes DEF AnswersOK, TypeInv, CallsChecked
<1>2. ~FoundVolume(h)
  BY <1>1 DEF FoundVolume, ExistingReply, Reply, NoAnswer
<1>3. Finished(h)
  BY <1>1, <1>2, CreatedOKs DEF FoundSnapshot
<1>4. /\ answer' = [Reply(r, "OK") EXCEPT !.id = answer'.id, !.capacity = VolumeSize(r),
                                          !.source = r.snapshot]
      /\ ~Refused(Message(r))
      /\ vols'[answer'.id] =
           [st |-> "live", name |-> r.name, size |-> VolumeSize(r), node |-> None,
            data |-> IF LiveSnapshot(r.snapshot) THEN r.snapshot ELSE None]
  BY <1>1, <1>3, VolumeFinished
<1>5. answer'.source = r.snapshot
  BY <1>4 DEF Reply, NoAnswer
<1>6. LiveSnapshot(r.snapshot)
  <2>1. CASE "CREATE_VOLUME" \in Checks
    <3>1. Message(r) = CreateVolume(r.name, VolumeSize(r), r.snapshot)
      BY <1>1 DEF Message
    <3>2. Message(r).perform = "CREATE_VOLUME" /\ Message(r).snapshot = r.snapshot
      BY <3>1 DEF CreateVolume, NoMessage
    <3>3. Reasons(Message(r)) = {}
      BY <1>4 DEF Refused
    <3>4. QED
      BY <1>5, <2>1, <3>2, <3>3 DEF Reasons
  <2>2. CASE SourcesLive
    <3>1. Active(h)
      BY <1>3 DEF Finished, Active
    <3>2. QED
      BY <1>1, <1>5, <2>2, <3>1 DEF SourcesLive
  <2>3. QED
    BY <2>1, <2>2
<1>7. QED
  BY <1>4, <1>5, <1>6

\* A volume that is answered with a content source holds that snapshot's data,
\* if the service checks the snapshot again or the orchestrator keeps it.
THEOREM RestoredAsTold ==
  ASSUME "CREATE_VOLUME" \in Checks \/ SourcesKept
  PROVE  Spec => []RestoredFromSnapshot
<1> DEFINE Inv == /\ TypeInv /\ RestoredFromSnapshot
                  /\ "CREATE_VOLUME" \in Checks \/ SourcesLive
<1>1. Init => Inv
  BY TypeInvInit, CodesAssumption DEF Init, StoreInit, NoSnapshot, RestoredFromSnapshot, SourcesLive, Active, NoAnswer
<1>2. Inv /\ [Next]_vars => Inv'
  <2> SUFFICES ASSUME Inv, [Next]_vars, answer'.code = "OK", client',
                      answer'.to.op = "CreateVolume", answer'.source # None
               PROVE  vols'[answer'.id].data = answer'.source
    BY TypeInvNext, SourcesLiveNext DEF RestoredFromSnapshot
  <2>1. CASE UNCHANGED vars
    BY <2>1 DEF vars, RestoredFromSnapshot
  <2>2. ASSUME NEW h \in Handlers, AnswersOK(h) PROVE vols'[answer'.id].data = answer'.source
    <3>1. req[h].op = "CreateVolume"
      BY <2>2 DEF AnswersOK
    <3>2. QED
      BY <2>2, <3>1, SourceTold
  <2>3. QED
    BY <2>1, <2>2, OKsAreReplies
<1>3. QED
  BY <1>1, <1>2, PTL DEF Spec

-----------------------------------------------------------------------------
\* Where the service leaves out neither the id of a snapshot nor its "not
\* found", no handler gets a nil pointer to follow.
LEMMA NothingNil ==
  ASSUME "id" \notin Omits, "404" \notin Omits
  PROVE  /\ \A s, res : res \in GetSnapshot(s) /\ res.ok => ~res.nil
         /\ \A v, res : res \in ListSnapshots(v) /\ res.ok => None \notin res.found
         /\ \A m, id, res : res \in Answers(m, id) /\ res.ok => ~res.nil
<1> USE DEF Failures, LostAnswers, Ok, Err, Nil
<1>1. \A s, res : res \in GetSnapshot(s) /\ res.ok => ~res.nil
  BY DEF GetSnapshot, SnapshotLookup, LookedUp
<1>2. \A v, res : res \in ListSnapshots(v) /\ res.ok => None \notin res.found
  <2> SUFFICES ASSUME NEW v, NEW res \in ListSnapshots(v), res.ok PROVE res.found \subseteq SnapshotIds
    BY IdsAssumption
  <2>1. res \notin Failures("LIST_SNAPSHOTS")
    OBVIOUS
  <2>2. PICK S \in SUBSET (IF v = None THEN {s \in SnapshotIds : LiveSnapshot(s)}
                           ELSE SnapshotsOf(v)) : res = Ok(S)
    BY <2>1 DEF ListSnapshots
  <2>3. QED
    BY <2>2 DEF SnapshotsOf
<1>3. \A m, id, res : res \in Answers(m, id) /\ res.ok => ~res.nil
  BY DEF Answers
<1>4. QED
  BY <1>1, <1>2, <1>3

LEMMA StepsDoNotPanic ==
  ASSUME "id" \notin Omits, "404" \notin Omits, NEW h \in Handlers, Step(h)
  PROVE  answer'.code # "Panic"
<1>1. NoAnswer.code # "Panic" /\ \A r, c : Reply(r, c).code = c
  BY CodesAssumption DEF Reply, NoAnswer
<1>2. \A r, res : res.ok /\ ~res.nil => WriteReply(r, res).code # "Panic"
  BY DEF WriteReply, Reply, NoAnswer
<1>3. \A r, res : ~res.ok => WriteReply(r, res).code # "Panic"
  BY <1>1 DEF WriteReply, WriteError
<1>4. CASE CreateVolumeGetsSnapshot(h) \/ CreateVolumeGetsByName(h)
  BY <1>1, <1>4
  DEF CreateVolumeGetsSnapshot, CreateVolumeGetsByName, ExistingReply, Goto, AnswerRead,
      Answer, Reply, NoAnswer
<1>5. CASE PublishGetsVolume(h) \/ ValidateGetsVolume(h) \/ ExpandGetsVolume(h)
  BY <1>1, <1>5
  DEF PublishGetsVolume, ValidateGetsVolume, ExpandGetsVolume, Goto, AnswerRead, Answer,
      Reply, NoAnswer
<1>6. CASE SnapshotGetsByName(h) \/ SnapshotGetsVolume(h)
  BY <1>1, <1>6
  DEF SnapshotGetsByName, SnapshotGetsVolume, Goto, AnswerRead, Answer, Reply, NoAnswer
<1>7. CASE SnapshotLists(h)
  <2>1. PICK res \in ListSnapshots(req[h].volume) :
          \/ \E s : AnswerRead(h, [Reply(req[h], "OK") EXCEPT !.id = s])
          \/ res.ok /\ None \in res.found
          \/ Goto(h, "GetVolume")
    BY <1>7 DEF SnapshotLists
  <2>2. QED
    BY <1>1, <2>1, NothingNil DEF Goto, AnswerRead, Answer, Reply, NoAnswer
<1>8. CASE ListGetsSnapshot(h)
  BY <1>1, <1>8, NothingNil DEF ListGetsSnapshot, AnswerRead, Answer, Reply, NoAnswer
<1>9. CASE ListLists(h)
  BY <1>1, <1>9, NothingNil DEF ListLists, AnswerRead, Answer, Reply, NoAnswer
<1>10. CASE WriteDone(h)
  <2>1. PICK id : \E res \in Answers(Message(req[h]), id) :
          \/ WriteReply(req[h], res).code = "Panic"
          \/ Answer(h, WriteReply(req[h], res)) /\ WriteReply(req[h], res).code # "Panic"
    BY <1>10 DEF WriteDone
  <2>2. QED
    BY <1>2, <1>3, <2>1, NothingNil DEF Answer
<1>11. CASE WriteRefused(h) \/ WriteFails(h) \/ WriteTimesOut(h)
  BY <1>3, <1>11
  DEF WriteRefused, RefusalAnswer, WriteFails, Failures, WriteTimesOut, AnswerRead, Answer, Err
<1>12. QED
  BY <1>4, <1>5, <1>6, <1>7, <1>8, <1>9, <1>10, <1>11 DEF Step

\* The process dies of a nil pointer only where the service leaves out the id
\* of a snapshot, or answers with an empty 200 instead of a 404.
THEOREM PanicsOnlyOnOmissions ==
  ASSUME "id" \notin Omits, "404" \notin Omits
  PROVE  Spec => []NeverPanics
<1>1. Init => NeverPanics
  BY CodesAssumption DEF Init, NeverPanics, NoAnswer
<1>2. NeverPanics /\ [Next]_vars => NeverPanics'
  <2> SUFFICES ASSUME NeverPanics, [Next]_vars PROVE NeverPanics'
    OBVIOUS
  <2>1. ASSUME NEW h \in Handlers, NEW r \in Requests, Reject(h, r) \/ Mock(h, r) \/ Accept(h, r)
        PROVE  NeverPanics'
    <3>1. MockReply(r).code # "Panic"
      BY DEF MockReply, Reply, NoAnswer
    <3>2. CASE Reject(h, r)
      BY <3>2 DEF Reject, NeverPanics, Reply, NoAnswer
    <3>3. CASE Mock(h, r) \/ Accept(h, r)
      BY <3>1, <3>3, CodesAssumption DEF Mock, Accept, NeverPanics, NoAnswer
    <3>4. QED
      BY <2>1, <3>2, <3>3
  <2>2. CASE Crash \/ \E l \in late : Land(l)
    BY <2>2, CodesAssumption DEF Crash, Restart, Land, NeverPanics, NoAnswer
  <2>3. CASE UNCHANGED vars
    BY <2>3 DEF vars, NeverPanics
  <2>4. QED
    BY <2>1, <2>2, <2>3, StepsDoNotPanic DEF Next, Arrive, NeverPanics
<1>3. QED
  BY <1>1, <1>2, PTL DEF Spec
=============================================================================
