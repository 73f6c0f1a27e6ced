---------------------------- MODULE WebhookProofs ----------------------------
(***************************************************************************)
(* Proofs about the growth of a claim: the admission webhook as it runs,   *)
(* any number of reviews at once, of any number of claims, while the       *)
(* attacher changes the attachments; and what the controller service tells *)
(* the resizer.                                                            *)
(***************************************************************************)
EXTENDS Expansion, PublishedProofs

USE DEF store, handling, expansion

Fields == {"claim", "size", "old", "at", "failed", "held", "seen"}
AttachmentType == [volume : VolumeIds, node : Nodes, attached : BOOLEAN, leaving : BOOLEAN]

\* What a review remembers of the attachments is what they have been.
ReviewTyped(w) ==
  LET r == review[w] IN
  /\ DOMAIN r = Fields
  /\ r.held \in BOOLEAN /\ r.seen \in BOOLEAN
  /\ r.at # "idle" => r.size \in Sizes /\ r.claim \in VolumeIds /\ r.size > r.old
  /\ r.at \in {"list", "allowed"} => r.old # 0
ReviewInv(w) ==
  LET r == review[w] IN
  /\ r.at = "list" => /\ r.held => W!AttachedIn(attachments, r.claim)
                      /\ W!AttachedIn(attachments, r.claim) => r.seen
  /\ r.at = "refused" /\ r.held => r.failed = "each"
  /\ r.at = "allowed" => r.seen \/ r.failed \in {"pv", "list"} \/ W!Foreign

\* Only what a bound claim has as its volume is attached.
AttachmentInv ==
  attachments \subseteq AttachmentType /\ \A o \in attachments : claim[o.volume] # 0

WebhookInv ==
  /\ AttachmentInv
  /\ DOMAIN claim = VolumeIds /\ DOMAIN review = Reviewers
  /\ \A w \in Reviewers : ReviewTyped(w) /\ ReviewInv(w)

-----------------------------------------------------------------------------
\* The reviews keep up with a change of the attachments.
LEMMA ReviewsWitness ==
  ASSUME WebhookInv, review' = W!Witnessed(attachments')
  PROVE  DOMAIN review' = Reviewers /\ \A w \in Reviewers : (ReviewTyped(w) /\ ReviewInv(w))'
<1>1. DOMAIN review' = Reviewers
  BY DEF W!Witnessed
<1>2. ASSUME NEW w \in Reviewers PROVE (ReviewTyped(w) /\ ReviewInv(w))'
  <2> DEFINE here == W!AttachedIn(attachments', review[w].claim)
  <2>1. ReviewTyped(w) /\ ReviewInv(w)
    BY DEF WebhookInv
  <2>2. review'[w] = [review[w] EXCEPT !.held = @ /\ here, !.seen = @ \/ here]
    BY DEF W!Witnessed
  <2>3. here \in BOOLEAN
    BY DEF W!AttachedIn
  <2> HIDE DEF here
  <2>4. /\ DOMAIN review'[w] = Fields
        /\ review'[w].claim = review[w].claim /\ review'[w].size = review[w].size
        /\ review'[w].old = review[w].old
        /\ review'[w].at = review[w].at /\ review'[w].failed = review[w].failed
        /\ review'[w].held = (review[w].held /\ here)
        /\ review'[w].seen = (review[w].seen \/ here)
    BY <2>1, <2>2 DEF ReviewTyped, Fields
  <2>5. ReviewTyped(w)'
    BY <2>1, <2>3, <2>4 DEF ReviewTyped
  <2>6. ReviewInv(w)'
    BY <2>1, <2>3, <2>4 DEF ReviewInv, ReviewTyped, here
  <2>7. QED
    BY <2>5, <2>6
<1>3. QED
  BY <1>1, <1>2

\* The sidecars' records, and the comings and goings of pods.
LEMMA ServesKeepsWebhook ==
  ASSUME WebhookInv, NEW h \in Handlers, Serves(h)
  PROVE  WebhookInv'
<1> DEFINE a == answer'
           at == {o \in attachments : o.volume = a.to.volume /\ o.node = a.to.node}
<1>1. attachments \subseteq AttachmentType /\ DOMAIN claim = VolumeIds
  BY DEF WebhookInv, AttachmentInv
<1>2. \/ attachments' \subseteq attachments
      \/ attachments' = (attachments \ at) \cup {[o EXCEPT !.attached = TRUE] : o \in at}
  BY DEF Serves, Recorded
<1>3. ASSUME NEW o \in attachments'
      PROVE  o \in AttachmentType /\ \E b \in attachments : b.volume = o.volume
  <2>1. CASE o \in attachments
    BY <1>1, <2>1
  <2>2. ASSUME NEW b \in attachments, o = [b EXCEPT !.attached = TRUE]
        PROVE  o \in AttachmentType /\ b.volume = o.volume
    BY <1>1, <2>2 DEF AttachmentType
  <2>3. QED
    BY <1>2, <1>3, <2>1, <2>2
<1>4. DOMAIN claim' = VolumeIds /\ \A v \in VolumeIds : claim[v] # 0 => claim'[v] = claim[v]
  BY <1>1 DEF Serves, Recorded
<1>5. AttachmentInv'
  BY <1>3, <1>4 DEF AttachmentInv, WebhookInv, AttachmentType
<1>6. QED
  BY <1>4, <1>5, ReviewsWitness DEF WebhookInv, Serves

LEMMA PodsKeepWebhook ==
  ASSUME WebhookInv,
         \/ \E v \in VolumeIds, n \in Nodes : PodComes(v, n)
         \/ \E o \in attachments : PodLeaves(o)
  PROVE  WebhookInv'
<1>1. /\ AttachmentInv /\ UNCHANGED claim /\ DOMAIN claim = VolumeIds
  BY DEF WebhookInv, PodComes, PodLeaves
<1>2. ASSUME NEW v \in VolumeIds, NEW n \in Nodes, PodComes(v, n) PROVE WebhookInv'
  <2>1. claim[v] # 0
    BY <1>2 DEF PodComes
  <2>2. Object(v, n, FALSE, FALSE) \in AttachmentType /\ Object(v, n, FALSE, FALSE).volume = v
    BY DEF Object, AttachmentType
  <2>3. AttachmentInv'
    BY <1>1, <1>2, <2>1, <2>2 DEF PodComes, AttachmentInv
  <2>4. QED
    BY <1>1, <1>2, <2>3, ReviewsWitness DEF PodComes, WebhookInv
<1>3. ASSUME NEW o \in attachments, PodLeaves(o) PROVE WebhookInv'
  <2> DEFINE leaves == [o EXCEPT !.leaving = TRUE]
  <2>1. /\ leaves \in AttachmentType /\ leaves.volume = o.volume /\ leaves.attached = o.attached
        /\ attachments' = (attachments \ {o}) \cup {leaves}
    BY <1>1, <1>3 DEF AttachmentInv, AttachmentType, PodLeaves
  <2> HIDE DEF leaves
  <2>2. AttachmentInv'
    BY <1>1, <2>1 DEF AttachmentInv
  <2>3. \A c : W!AttachedIn(attachments', c) = W!AttachedIn(attachments, c)
    BY <2>1 DEF W!AttachedIn
  <2>4. UNCHANGED review
    BY <1>3 DEF PodLeaves
  <2>5. \A w \in Reviewers : (ReviewTyped(w) /\ ReviewInv(w))'
    BY <2>3, <2>4 DEF WebhookInv, ReviewTyped, ReviewInv
  <2>6. QED
    BY <1>1, <2>2, <2>4, <2>5 DEF WebhookInv
<1>4. QED
  BY <1>2, <1>3

\* The reviews themselves.
LEMMA ReviewsKeepWebhook ==
  ASSUME WebhookInv, W!WebhookNext
  PROVE  WebhookInv'
<1> USE DEF W!At
<1>1. UNCHANGED attachments /\ AttachmentInv /\ DOMAIN claim = VolumeIds /\ DOMAIN review = Reviewers
  BY DEF W!WebhookNext, W!Review, W!isVolumeAttached, W!Stores, WebhookInv
<1>2. \A k \in Reviewers : ReviewTyped(k) /\ ReviewInv(k)
  BY DEF WebhookInv
<1>3. ASSUME NEW w \in Reviewers, UNCHANGED claim, DOMAIN review' = Reviewers,
             \A k \in Reviewers \ {w} : review'[k] = review[k],
             (ReviewTyped(w) /\ ReviewInv(w))'
      PROVE  WebhookInv'
  BY <1>1, <1>2, <1>3 DEF WebhookInv, AttachmentInv, ReviewTyped, ReviewInv
<1>4. ASSUME NEW w \in Reviewers, NEW c \in VolumeIds, NEW size \in Sizes, W!Review(w, c, size)
      PROVE  WebhookInv'
  <2> DEFINE here == W!AttachedIn(attachments, c)
  <2>1. PICK s \in {"list", "allowed", "refused"}, failed \in {"none", "pv"} :
          /\ CASE claim[c] = 0 -> s = "refused" /\ failed = "none"
               [] claim[c] > 0 /\ failed = "pv" -> s = "allowed" /\ "pv" \in FlakyLookups
               [] OTHER -> s = IF W!Foreign THEN "allowed" ELSE "list"
          /\ review' = [review EXCEPT ![w] =
               [claim |-> c, size |-> size, old |-> claim[c], at |-> s, failed |-> failed,
                held |-> here, seen |-> here]]
    BY <1>4, Zenon DEF W!Review
  <2>2. \/ claim[c] = 0 /\ s = "refused"
        \/ claim[c] # 0 /\ failed = "pv" /\ s = "allowed"
        \/ claim[c] # 0 /\ s = "allowed" /\ W!Foreign
        \/ claim[c] # 0 /\ s = "list"
    BY <2>1
  <2>3. here \in BOOLEAN /\ (here => claim[c] # 0)
    BY <1>1 DEF W!AttachedIn, AttachmentInv
  <2>4. /\ review'[w] = [claim |-> c, size |-> size, old |-> claim[c], at |-> s, failed |-> failed,
                         held |-> here, seen |-> here]
        /\ DOMAIN review' = Reviewers /\ \A k \in Reviewers \ {w} : review'[k] = review[k]
    BY <1>1, <2>1
  <2>5. ReviewTyped(w)'
    BY <1>4, <2>2, <2>3, <2>4 DEF W!Review, ReviewTyped, Fields
  <2>6. ReviewInv(w)'
    BY <1>1, <2>2, <2>3, <2>4 DEF ReviewInv
  <2>7. QED
    BY <1>3, <1>4, <2>4, <2>5, <2>6 DEF W!Review
<1>5. ASSUME NEW w \in Reviewers, W!isVolumeAttached(w) PROVE WebhookInv'
  <2> DEFINE r == review[w]
             here == W!AttachedIn(attachments, r.claim)
  <2>1. PICK attached \in BOOLEAN, failed \in {"none", "list", "each"} :
          /\ W!Decides(w, attached, failed)
          /\ CASE failed = "none" -> attached = here
               [] failed = "list" -> attached
               [] failed = "each" -> attached => here
    BY <1>5 DEF W!isVolumeAttached, W!AttachedIn
  <2>2. /\ DOMAIN review'[w] = Fields
        /\ review'[w].claim = r.claim /\ review'[w].size = r.size /\ review'[w].old = r.old
        /\ review'[w].held = r.held /\ review'[w].seen = r.seen
        /\ review'[w].failed = failed
        /\ review'[w].at = IF attached THEN "allowed" ELSE "refused"
        /\ DOMAIN review' = Reviewers /\ \A k \in Reviewers \ {w} : review'[k] = review[k]
    BY <1>1, <1>2, <2>1 DEF W!Decides, ReviewTyped, Fields
  <2>3. r.at = "list" /\ ReviewTyped(w) /\ ReviewInv(w)
    BY <1>2, <1>5 DEF W!isVolumeAttached
  <2>4. ReviewTyped(w)'
    BY <2>2, <2>3 DEF ReviewTyped
  <2>5. ReviewInv(w)'
    BY <2>1, <2>2, <2>3 DEF ReviewInv, ReviewTyped
  <2>6. QED
    BY <1>3, <1>5, <2>2, <2>4, <2>5 DEF W!isVolumeAttached
<1>6. ASSUME NEW w \in Reviewers, W!Stores(w) PROVE WebhookInv'
  <2>1. review[w].size # 0 /\ review' = [review EXCEPT ![w] = W!NoReview]
    BY <1>2, <1>6, ExpansionAssumption DEF W!Stores, ReviewTyped
  <2>2. DOMAIN claim' = VolumeIds /\ \A v \in VolumeIds : claim[v] # 0 => claim'[v] # 0
    BY <1>1, <1>6, <2>1 DEF W!Stores
  <2>3. AttachmentInv'
    BY <1>1, <2>2 DEF AttachmentInv, AttachmentType
  <2>4. /\ review'[w] = W!NoReview /\ DOMAIN review' = Reviewers
        /\ \A k \in Reviewers \ {w} : review'[k] = review[k]
    BY <1>1, <2>1
  <2>5. (ReviewTyped(w) /\ ReviewInv(w))'
    BY <2>4 DEF W!NoReview, ReviewTyped, ReviewInv, Fields
  <2>6. \A k \in Reviewers : (ReviewTyped(k) /\ ReviewInv(k))'
    BY <1>1, <1>2, <2>4, <2>5 DEF ReviewTyped, ReviewInv
  <2>7. QED
    BY <2>2, <2>3, <2>4, <2>6 DEF WebhookInv
<1>7. QED
  BY <1>4, <1>5, <1>6 DEF W!WebhookNext

LEMMA WebhookInvInit == InitExpansion => WebhookInv
<1> SUFFICES ASSUME InitExpansion PROVE WebhookInv
  OBVIOUS
<1>1. AttachmentInv /\ DOMAIN claim = VolumeIds /\ DOMAIN review = Reviewers
  BY DEF InitExpansion, W!WebhookInit, AttachmentInv
<1>2. ASSUME NEW w \in Reviewers PROVE ReviewTyped(w) /\ ReviewInv(w)
  <2>1. review[w] = W!NoReview
    BY DEF InitExpansion, W!WebhookInit
  <2>2. QED
    BY <2>1 DEF W!NoReview, ReviewTyped, ReviewInv, Fields
<1>3. QED
  BY <1>1, <1>2 DEF WebhookInv

LEMMA WebhookInvStep == WebhookInv /\ [NextExpansion]_everything => WebhookInv'
<1> SUFFICES ASSUME WebhookInv, [NextExpansion]_everything PROVE WebhookInv'
  OBVIOUS
<1>1. CASE UNCHANGED expansion
  BY <1>1 DEF WebhookInv, AttachmentInv, ReviewTyped, ReviewInv
<1>2. ASSUME \/ \E h \in Handlers, r \in Requests : SidecarCalls(h, r)
             \/ \E l \in late : Land(l) /\ UNCHANGED expansion
             \/ UNCHANGED everything
      PROVE  UNCHANGED expansion
  BY <1>2 DEF SidecarCalls, everything
<1>3. QED
  BY <1>1, <1>2, ServesKeepsWebhook, PodsKeepWebhook, ReviewsKeepWebhook DEF NextExpansion

\* Whichever driver's the volume is, an edit is refused though the volume has
\* been attached all along only if an attachment was passed over.
THEOREM AttachedMayGrow == SpecExpansion => []AttachedIsAllowed
<1>1. WebhookInv /\ [NextExpansion]_everything => WebhookInv'
  BY WebhookInvStep
<1>2. WebhookInv => AttachedIsAllowed
  BY DEF WebhookInv, ReviewInv, AttachedIsAllowed, W!AttachedIsAllowed, W!At
<1>3. QED
  BY <1>1, <1>2, WebhookInvInit, PTL DEF SpecExpansion

\* An edit is let through though the volume has not been attached at any time
\* only if the volume is not of the driver the webhook knows, or it or the list
\* of attachments could not be had: no failing lookup of one attachment, and no
\* change of them during the review, lets it through.
THEOREM PassingHasAReason == SpecExpansion => []PassedForAReason
<1>1. WebhookInv /\ [NextExpansion]_everything => WebhookInv'
  BY WebhookInvStep
<1>2. WebhookInv => PassedForAReason
  BY DEF WebhookInv, ReviewInv, PassedForAReason, W!PassedForAReason, W!At
<1>3. QED
  BY <1>1, <1>2, WebhookInvInit, PTL DEF SpecExpansion

-----------------------------------------------------------------------------
\* Without late writes, a volume is no larger than its claim, and a call that
\* expands it asks for no less than it has: the resizer asks for the size of
\* the claim, which only grows.
ClaimInv ==
  /\ claim \in [VolumeIds -> Nat]
  /\ \A v \in VolumeIds : /\ vols[v].st = "free" => claim[v] = 0
                          /\ claim[v] # 0 => vols[v].size <= claim[v]
ExpandsUp ==
  \A h \in Handlers :
    Active(h) /\ req[h].op = "ControllerExpandVolume" =>
      LET v == req[h].volume IN vols[v].size <= req[h].required /\ req[h].required <= claim[v]

NothingShrinks == BaseInv /\ ClaimInv /\ ExpandsUp

\* The service refuses to make a volume smaller.
ShrinkRefused == "EXPAND_VOLUME" \in Checks

VolumeGrows(v) ==
  /\ vols'[v].st = "free" => vols[v].st = "free"
  /\ vols[v].st # "free" => vols'[v].size >= vols[v].size

LEMMA WriteGrows ==
  ASSUME TypeInv, NEW r \in Requests, WriteEffect(r),
         Expands(r) => r.required >= vols[r.volume].size,
         NEW v \in VolumeIds
  PROVE  VolumeGrows(v)
<1>1. vols \in [VolumeIds -> VolumeType]
  BY DEF TypeInv, TypeOK
<1>2. vols[v].size \in Nat
  BY <1>1 DEF VolumeType
<1>3. CASE vols' = vols
  BY <1>2, <1>3 DEF VolumeGrows
<1>4. ASSUME NEW w \in VolumeIds, Provisions(r, w) PROVE VolumeGrows(v)
  BY <1>1, <1>2, <1>4 DEF Provisions, VolumeGrows
<1>5. CASE Removes(r) \/ Attaches(r) \/ Detaches(r)
  BY <1>1, <1>2, <1>5 DEF Removes, Attaches, Detaches, Live, VolumeGrows, VolumeType
<1>6. CASE Expands(r)
  BY <1>1, <1>2, <1>6 DEF Expands, VolumeGrows, VolumeType
<1>7. QED
  BY <1>3, <1>4, <1>5, <1>6 DEF WriteEffect

LEMMA VolumesGrow ==
  ASSUME ShrinkRefused \/ (MaxLate = 0 /\ NothingShrinks), TypeInv, [Next]_vars, NEW v \in VolumeIds
  PROVE  VolumeGrows(v)
<1>1. CASE vols' = vols
  BY <1>1 DEF VolumeGrows, TypeInv, TypeOK, VolumeType
<1>2. CASE ShrinkRefused
  <2>1. ASSUME NEW r \in Requests, NEW id, Performed(Message(r), id) PROVE VolumeGrows(v)
    <3>1. ASSUME Expands(r) PROVE r.required >= vols[r.volume].size
      <4>1. /\ Message(r).perform = "EXPAND_VOLUME" /\ Message(r).volume = r.volume
            /\ Message(r).size = r.required
        BY <3>1 DEF Expands, Message, ExpandVolume, NoMessage
      <4>2. Reasons(Message(r)) = {}
        BY <2>1 DEF Performed, Refused
      <4>3. ~(r.required < vols[r.volume].size)
        BY <1>2, <3>1, <4>1, <4>2 DEF ShrinkRefused, Reasons, Expands
      <4>4. r.required \in Int /\ vols[r.volume].size \in Nat
        BY <3>1, RequestsAssumption DEF RequestType, Expands, Live, TypeInv, TypeOK, VolumeType
      <4>5. QED
        BY <4>3, <4>4
    <3>2. QED
      BY <2>1, <3>1, WriteEffects, WriteGrows
  <2>2. QED
    BY <1>1, <2>1, OnlyCallsWrite
<1>3. CASE MaxLate = 0 /\ NothingShrinks
  <2>1. ASSUME NEW h \in Handlers, NEW r, r = req[h], pc[h] = "Write", WriteEffect(r)
        PROVE  VolumeGrows(v)
    <3>1. r \in Requests
      BY <2>1 DEF TypeInv, CallsChecked
    <3>2. ASSUME Expands(r) PROVE r.required >= vols[r.volume].size
      <4>1. vols[r.volume].size <= r.required
        BY <1>3, <2>1, <3>2 DEF NothingShrinks, ExpandsUp, Expands, Active
      <4>2. r.required \in Int /\ vols[r.volume].size \in Nat
        BY <3>1, <3>2, RequestsAssumption
        DEF RequestType, Expands, Live, TypeInv, TypeOK, VolumeType
      <4>3. QED
        BY <4>1, <4>2
    <3>3. QED
      BY <2>1, <3>1, <3>2, WriteGrows
  <2>2. QED
    BY <1>1, <1>3, <2>1, VolumesChange DEF NothingShrinks
<1>4. QED
  BY <1>2, <1>3

\* A size that is answered to ControllerExpandVolume is the volume's.
LEMMA ExpansionTold ==
  ASSUME "capacity" \notin Omits, TypeInv, NEW h \in Handlers, AnswersOK(h),
         NEW r, r = req[h], r.op = "ControllerExpandVolume"
  PROVE  /\ r.volume \in VolumeIds /\ vols'[r.volume].st # "free"
         /\ vols'[r.volume].size = answer'.capacity
<1>1. vols \in [VolumeIds -> VolumeType]
  BY DEF TypeInv, TypeOK
<1>2. CASE ExpandGetsVolume(h)
  <2>1. ~Goto(h, "Write") /\ \A c : Reply(r, c).code = c
    BY CodesAssumption DEF AnswersOK, Goto, Reply, NoAnswer
  <2>2. PICK res \in GetVolume(r.volume) :
          res.ok /\ AnswerRead(h, [Reply(r, "OK") EXCEPT !.capacity = res.found.size])
    BY <1>2, <2>1 DEF ExpandGetsVolume, AnswersOK, AnswerRead, Answer
  <2>3. Live(r.volume) /\ res.found.size = vols[r.volume].size
    BY <2>2, LookupById
  <2>4. answer'.capacity = res.found.size /\ vols' = vols
    BY <2>2 DEF AnswerRead, Answer, Reply, NoAnswer
  <2>5. QED
    BY <2>3, <2>4 DEF Live
<1>3. CASE Finished(h)
  <2>1. /\ Message(r).perform = "EXPAND_VOLUME" /\ Message(r).volume = r.volume
        /\ Message(r).size = r.required
    BY DEF Message, ExpandVolume, NoMessage
  <2>2. PICK id, res : Performed(Message(r), id) /\ answer' = WriteReply(r, res)
    BY <1>3 DEF Finished
  <2>3. Live(r.volume)
    BY <2>1, <2>2 DEF Performed, Refused, Reasons
  <2>4. vols' = [vols EXCEPT ![r.volume].size = r.required]
    BY <2>1, <2>2 DEF Performed, Minted, Snapped, Changed
  <2>5. answer'.code = "OK"
    BY DEF AnswersOK
  <2>6. res.ok
    BY <2>2, <2>5, FailedWriteTold
  <2>7. answer'.capacity = r.required
    BY <2>2, <2>6 DEF WriteReply, Reply, NoAnswer
  <2>8. QED
    BY <1>1, <2>3, <2>4, <2>7 DEF Live, VolumeType
<1>4. CASE WriteDone(h) \/ WriteRefused(h) \/ WriteFails(h) \/ WriteTimesOut(h)
  BY <1>3, <1>4, WrittenOKs DEF FoundNothing
<1>5. QED
  BY <1>2, <1>4
  DEF AnswersOK, Step, At, CreateVolumeGetsSnapshot, CreateVolumeGetsByName, PublishGetsVolume,
      ValidateGetsVolume, SnapshotGetsByName, SnapshotLists, SnapshotGetsVolume,
      ListGetsSnapshot, ListLists

-----------------------------------------------------------------------------
\* A claim changes when its volume is told to have been made.
LEMMA ClaimTold ==
  ASSUME "capacity" \notin Omits, TypeInv, StoreInv, NEW h \in Handlers, Serves(h),
         claim \in [VolumeIds -> Nat], NEW v \in VolumeIds
  PROVE  \/ claim'[v] = claim[v]
         \/ claim[v] = 0 /\ claim'[v] = vols'[v].size /\ vols'[v].st # "free"
<1>1. CASE answer'.code = "OK" /\ answer'.to.op = "CreateVolume"
  <2>1. AnswersOK(h) /\ req[h].op = "CreateVolume"
    BY <1>1, StepOKs DEF AnswersOK, Serves
  <2>2. vols'[answer'.id].st # "free" /\ vols'[answer'.id].size = answer'.capacity
    BY <2>1, VolumeTold DEF VolumeAsAsked, Live
  <2>3. claim' = [claim EXCEPT ![answer'.id] = IF @ = 0 THEN answer'.capacity ELSE @]
    BY <1>1 DEF Serves, Recorded
  <2>4. QED
    BY <2>2, <2>3
<1>2. CASE ~(answer'.code = "OK" /\ answer'.to.op = "CreateVolume")
  BY <1>2 DEF Serves, Recorded
<1>3. QED
  BY <1>1, <1>2

\* What a step of a handler can do to the size of a volume.
Sized(h, v) ==
  \/ vols'[v].size = vols[v].size /\ (vols'[v].st = "free" => vols[v].st = "free")
  \/ vols[v].st = "free" /\ vols'[v].st # "free"
  \/ /\ req[h].op = "ControllerExpandVolume" /\ req[h].volume = v
     /\ vols'[v].size = req[h].required /\ vols'[v].st # "free"

LEMMA SizesChange ==
  ASSUME TypeInv, NEW h \in Handlers, Step(h), NEW v \in VolumeIds PROVE Sized(h, v)
<1> DEFINE r == req[h]
<1>1. vols \in [VolumeIds -> VolumeType]
  BY DEF TypeInv, TypeOK
<1>2. CASE vols' = vols
  BY <1>2 DEF Sized
<1>3. ASSUME NEW w \in VolumeIds, Provisions(r, w) PROVE Sized(h, v)
  BY <1>1, <1>3 DEF Provisions, Sized
<1>4. CASE Removes(r) \/ Attaches(r) \/ Detaches(r)
  BY <1>1, <1>4 DEF Removes, Attaches, Detaches, Live, Sized, VolumeType
<1>5. CASE Expands(r)
  BY <1>1, <1>5 DEF Expands, Live, Sized, VolumeType
<1>6. QED
  BY <1>2, <1>3, <1>4, <1>5, StepEffects DEF WriteEffect

\* A call that expands a volume names it, and a size above zero.
LEMMA ExpandsSomething ==
  ASSUME TypeInv, NEW h \in Handlers, Active(h), req[h].op = "ControllerExpandVolume"
  PROVE  req[h].volume \in VolumeIds /\ req[h].required \in Nat \ {0}
<1>1. req[h] \in Requests /\ ~Malformed(req[h])
  BY DEF TypeInv, CallsChecked, Active
<1>2. QED
  BY <1>1, RequestsAssumption DEF Malformed, RequestType

LEMMA ServesKeepsClaims ==
  ASSUME "capacity" \notin Omits, TypeInv, TypeInv', StoreInv, LockInv, ClaimInv, ExpandsUp,
         NEW h \in Handlers, Serves(h)
  PROVE  ClaimInv' /\ ExpandsUp'
<1>1. Step(h) /\ Active(h)
  BY StepShapes DEF Serves, Active
<1>2. \A v \in VolumeIds : vols[v].size \in Nat /\ vols'[v].size \in Nat /\ claim[v] \in Nat
  BY DEF TypeInv, TypeOK, VolumeType, ClaimInv
<1>3. DOMAIN claim' = VolumeIds /\ claim' = [v \in VolumeIds |-> claim'[v]]
  BY DEF Serves, Recorded, ClaimInv
<1>4. ASSUME NEW v \in VolumeIds
      PROVE  /\ claim'[v] \in Nat /\ (vols'[v].st = "free" => claim'[v] = 0)
             /\ claim'[v] # 0 => vols'[v].size <= claim'[v]
  <2>1. \/ claim'[v] = claim[v]
        \/ claim[v] = 0 /\ claim'[v] = vols'[v].size /\ vols'[v].st # "free"
    BY ClaimTold DEF ClaimInv
  <2>2. Sized(h, v)
    BY <1>1, SizesChange
  <2>3. CASE req[h].op = "ControllerExpandVolume" /\ req[h].volume = v
    <3>1. req[h].required \in Nat \ {0} /\ req[h].required <= claim[v]
      BY <1>1, <2>3, ExpandsSomething DEF ExpandsUp
    <3>2. QED
      BY <1>2, <2>1, <2>2, <2>3, <3>1 DEF Sized, ClaimInv
  <2>4. CASE ~(req[h].op = "ControllerExpandVolume" /\ req[h].volume = v)
    BY <1>2, <2>1, <2>2, <2>4 DEF Sized, ClaimInv
  <2>5. QED
    BY <2>3, <2>4
<1>5. ClaimInv'
  BY <1>3, <1>4 DEF ClaimInv
<1>6. ASSUME NEW g \in Handlers, Active(g)', req'[g].op = "ControllerExpandVolume",
             NEW v, v = req'[g].volume
      PROVE  vols'[v].size <= req'[g].required /\ req'[g].required <= claim'[v]
  <2>1. Active(g) /\ req'[g] = req[g] /\ (g = h => UNCHANGED store)
    BY <1>1, <1>6, CallsGoOn
  <2>2. v \in VolumeIds /\ req[g].required \in Nat \ {0}
    BY <1>6, <2>1, ExpandsSomething
  <2>3. vols[v].size <= req[g].required /\ req[g].required <= claim[v]
    BY <1>6, <2>1 DEF ExpandsUp
  <2>4. claim'[v] = claim[v] /\ vols[v].st # "free"
    BY <1>2, <2>2, <2>3, ClaimTold DEF ClaimInv
  <2>5. vols'[v].size = vols[v].size
    <3>1. CASE g = h
      BY <2>1, <3>1
    <3>2. CASE g # h
      <4>1. ~(req[h].op = "ControllerExpandVolume" /\ req[h].volume = v)
        BY <1>1, <1>6, <2>1, <3>2, KeysApart
      <4>2. QED
        BY <1>1, <2>2, <2>4, <4>1, SizesChange DEF Sized
    <3>3. QED
      BY <3>1, <3>2
  <2>6. QED
    BY <2>1, <2>3, <2>4, <2>5
<1>7. QED
  BY <1>5, <1>6 DEF ExpandsUp

LEMMA CallsKeepClaims ==
  ASSUME TypeInv, ClaimInv, ExpandsUp, NEW h \in Handlers, NEW r \in Requests, SidecarCalls(h, r)
  PROVE  ClaimInv' /\ ExpandsUp'
<1>1. UNCHANGED <<vols, claim>>
  BY DEF SidecarCalls, Reject, Accept
<1>2. ClaimInv'
  BY <1>1 DEF ClaimInv
<1>3. CASE Reject(h, r)
  BY <1>1, <1>2, <1>3 DEF Reject, ExpandsUp, Active
<1>4. CASE Accept(h, r)
  <2>1. ASSUME NEW g \in Handlers, g # h
        PROVE  (Active(g)' <=> Active(g)) /\ req'[g] = req[g]
    BY <1>4, <2>1 DEF Accept, Active, TypeInv, TypeOK
  <2>2. req'[h] = r
    BY <1>4 DEF Accept, TypeInv, TypeOK
  <2>3. ASSUME r.op = "ControllerExpandVolume"
        PROVE  vols[r.volume].size <= r.required /\ r.required <= claim[r.volume]
    <3>1. r.volume \in VolumeIds /\ r.required \in Nat \ {0}
      BY <1>4, <2>3, RequestsAssumption DEF Accept, Malformed, RequestType
    <3>2. r.required = claim[r.volume]
      BY <2>3 DEF SidecarCalls, Asked
    <3>3. QED
      BY <3>1, <3>2 DEF ClaimInv
  <2>4. QED
    BY <1>1, <1>2, <2>1, <2>2, <2>3 DEF ExpandsUp
<1>5. QED
  BY <1>2, <1>3, <1>4 DEF SidecarCalls

\* A claim that is edited grows.
LEMMA ReviewsKeepClaims ==
  ASSUME TypeInv, WebhookInv, ClaimInv, ExpandsUp, W!WebhookNext, UNCHANGED vars
  PROVE  ClaimInv' /\ ExpandsUp'
<1>1. UNCHANGED <<vols, pc, req>>
  BY DEF vars
<1>2. CASE UNCHANGED claim
  BY <1>1, <1>2 DEF ClaimInv, ExpandsUp, Active
<1>3. ASSUME NEW w \in Reviewers, W!Stores(w), claim' # claim PROVE ClaimInv' /\ ExpandsUp'
  <2> DEFINE r == review[w]
  <2>1. /\ r.at = "allowed" /\ claim[r.claim] = r.old
        /\ claim' = [claim EXCEPT ![r.claim] = r.size]
    BY <1>3 DEF W!Stores
  <2>2. r.size \in Nat /\ r.claim \in VolumeIds /\ r.size > r.old /\ r.old # 0
    BY <2>1, ExpansionAssumption DEF WebhookInv, ReviewTyped
  <2>3. \A v \in VolumeIds : claim[v] \in Nat /\ vols[v].size \in Nat
    BY DEF ClaimInv, TypeInv, TypeOK, VolumeType
  <2>4. ClaimInv'
    BY <1>1, <2>1, <2>2, <2>3 DEF ClaimInv
  <2>5. \A v \in VolumeIds : claim'[v] \in Nat /\ claim[v] <= claim'[v]
    BY <2>1, <2>2, <2>3 DEF ClaimInv
  <2>6. ASSUME NEW h \in Handlers, Active(h), req[h].op = "ControllerExpandVolume",
               NEW v, v = req[h].volume
        PROVE  vols[v].size <= req[h].required /\ req[h].required <= claim'[v]
    <3>1. v \in VolumeIds /\ req[h].required \in Nat
      BY <2>6, ExpandsSomething
    <3>2. vols[v].size <= req[h].required /\ req[h].required <= claim[v]
      BY <2>6 DEF ExpandsUp
    <3>3. QED
      BY <2>3, <2>5, <3>1, <3>2
  <2>7. QED
    BY <1>1, <2>4, <2>6 DEF ExpandsUp, Active
<1>4. QED
  BY <1>2, <1>3 DEF W!WebhookNext, W!Review, W!isVolumeAttached

LEMMA ClaimsStep ==
  ASSUME "capacity" \notin Omits, TypeInv, TypeInv', StoreInv, WebhookInv, NothingShrinks,
         [NextExpansion]_everything
  PROVE  ClaimInv' /\ ExpandsUp'
<1> USE DEF NothingShrinks, BaseInv
<1>1. CASE UNCHANGED <<vols, pc, req, claim>>
  BY <1>1 DEF ClaimInv, ExpandsUp, Active
<1>2. ~\E l \in late : Land(l)
  BY DEF NoneLate
<1>3. ASSUME \/ \E v \in VolumeIds, n \in Nodes : PodComes(v, n)
             \/ \E o \in attachments : PodLeaves(o)
             \/ UNCHANGED everything
      PROVE  UNCHANGED <<vols, pc, req, claim>>
  BY <1>3 DEF PodComes, PodLeaves, everything, vars
<1>4. QED
  BY <1>1, <1>2, <1>3, ServesKeepsClaims, CallsKeepClaims, ReviewsKeepClaims
  DEF NextExpansion

\* A claim is told the size its volume has, and no volume shrinks.
GrantedInv ==
  /\ granted \in [VolumeIds -> Nat]
  /\ \A v \in VolumeIds : /\ vols[v].st = "free" => granted[v] = 0
                          /\ granted[v] <= vols[v].size

LEMMA GrantedKept ==
  ASSUME TypeInv, TypeInv', GrantedInv, \A v \in VolumeIds : VolumeGrows(v),
         DOMAIN granted' = VolumeIds, granted' = [v \in VolumeIds |-> granted'[v]],
         \A v \in VolumeIds : \/ granted'[v] = granted[v]
                              \/ /\ granted'[v] = vols'[v].size
                                 /\ vols'[v].st # "free"
  PROVE  GrantedInv'
<1>1. \A v \in VolumeIds : granted[v] \in Nat /\ vols[v].size \in Nat /\ vols'[v].size \in Nat
  BY DEF GrantedInv, TypeInv, TypeOK, VolumeType
<1>2. granted' \in [VolumeIds -> Nat]
  BY <1>1
<1>3. ASSUME NEW v \in VolumeIds
      PROVE  /\ vols'[v].st = "free" => granted'[v] = 0
             /\ granted'[v] <= vols'[v].size
  BY <1>1, <1>3 DEF GrantedInv, VolumeGrows
<1>4. QED
  BY <1>2, <1>3 DEF GrantedInv

\* The resizer and the provisioner write down what they are told.
LEMMA GrantedServed ==
  ASSUME "capacity" \notin Omits, TypeInv, TypeInv', StoreInv, GrantedInv,
         \A v \in VolumeIds : VolumeGrows(v), NEW h \in Handlers, Serves(h)
  PROVE  GrantedInv'
<1> DEFINE a == answer'
<1>1. granted \in [VolumeIds -> Nat] /\ Step(h)
  BY DEF GrantedInv, Serves
<1>2. CASE a.code = "OK" /\ a.to.op = "CreateVolume"
  <2>1. AnswersOK(h) /\ req[h].op = "CreateVolume"
    BY <1>1, <1>2, StepOKs DEF AnswersOK
  <2>2. a.id \in VolumeIds /\ vols'[a.id].st # "free" /\ vols'[a.id].size = a.capacity
    BY <2>1, VolumeTold DEF VolumeAsAsked, Live
  <2>3. granted' = [granted EXCEPT ![a.id] = IF @ = 0 THEN a.capacity ELSE @]
    BY <1>2 DEF Serves, Recorded
  <2>4. QED
    BY <1>1, <2>2, <2>3, GrantedKept
<1>3. CASE a.code = "OK" /\ a.to.op = "ControllerExpandVolume"
  <2>1. AnswersOK(h) /\ req[h] = a.to
    BY <1>1, <1>3, StepOKs DEF AnswersOK
  <2>2. /\ a.to.volume \in VolumeIds /\ vols'[a.to.volume].st # "free"
        /\ vols'[a.to.volume].size = a.capacity
    BY <1>3, <2>1, ExpansionTold
  <2>3. granted' = [granted EXCEPT ![a.to.volume] = a.capacity]
    BY <1>3 DEF Serves, Recorded
  <2>4. QED
    BY <1>1, <2>2, <2>3, GrantedKept
<1>4. CASE /\ ~(a.code = "OK" /\ a.to.op = "CreateVolume")
           /\ ~(a.code = "OK" /\ a.to.op = "ControllerExpandVolume")
  <2>1. granted' = granted
    BY <1>4 DEF Serves, Recorded
  <2>2. QED
    BY <1>1, <2>1, GrantedKept
<1>5. QED
  BY <1>2, <1>3, <1>4

\* A volume never gets smaller than the size its claim was told, where the
\* service shows sizes, and refuses to shrink a volume or no write lands late.
THEOREM GrantedStaysReal ==
  ASSUME "capacity" \notin Omits, ShrinkRefused \/ MaxLate = 0
  PROVE  SpecExpansion => []GrantedIsReal
<1> DEFINE Inv == /\ TypeInv /\ StoreInv /\ GrantedInv
                  /\ ShrinkRefused \/ (WebhookInv /\ NothingShrinks)
<1>1. InitExpansion => Inv
  <2> SUFFICES ASSUME InitExpansion PROVE Inv
    OBVIOUS
  <2>1. TypeInv /\ StoreInv /\ BaseInv /\ WebhookInv
    BY TypeInvInit, StoreInvInit, BaseInvInit, WebhookInvInit DEF InitExpansion
  <2>2. /\ granted = [v \in VolumeIds |-> 0] /\ claim = [v \in VolumeIds |-> 0]
        /\ \A v \in VolumeIds : vols[v].size = 0
        /\ \A h \in Handlers : ~Active(h)
    BY DEF InitExpansion, W!WebhookInit, Init, StoreInit, NoVolume, Active
  <2>3. QED
    BY <2>1, <2>2 DEF GrantedInv, NothingShrinks, ClaimInv, ExpandsUp
<1>2. Inv /\ [NextExpansion]_everything => Inv'
  <2> SUFFICES ASSUME Inv, [NextExpansion]_everything PROVE Inv'
    OBVIOUS
  <2>1. [Next]_vars
    BY DEF NextExpansion, Serves, SidecarCalls, PodComes, PodLeaves, Next, Arrive, everything
  <2>2. TypeInv' /\ StoreInv'
    BY <2>1, TypeInvNext, StoreInvNext
  <2>3. \A v \in VolumeIds : VolumeGrows(v)
    BY <2>1, VolumesGrow
  <2>4. GrantedInv'
    <3>1. (\E h \in Handlers : Serves(h)) \/ UNCHANGED granted
      BY DEF NextExpansion, SidecarCalls, PodComes, PodLeaves, everything
    <3>2. CASE UNCHANGED granted
      BY <2>2, <2>3, <3>2, GrantedKept DEF GrantedInv
    <3>3. QED
      BY <2>2, <2>3, <3>1, <3>2, GrantedServed
  <2>5. ASSUME MaxLate = 0, WebhookInv, NothingShrinks PROVE WebhookInv' /\ NothingShrinks'
    BY <2>1, <2>2, <2>5, WebhookInvStep, BaseInvNext, ClaimsStep DEF NothingShrinks
  <2>6. QED
    BY <2>2, <2>4, <2>5
<1>3. Inv => GrantedIsReal
  BY DEF GrantedInv, GrantedIsReal
<1>4. QED
  BY <1>1, <1>2, <1>3, PTL DEF SpecExpansion
=============================================================================
