-------------------------- MODULE ControllerServer --------------------------
(***************************************************************************)
(* The CSI controller service, pkg/vcloud/controllerserver.go: concurrent  *)
(* gRPC handlers over one lock table and one HTTP client.                  *)
(*                                                                         *)
(* A handler takes one step to validate its request and try its lock, and  *)
(* then one step for each HTTP request it makes, named in pc by the client *)
(* method it is about to call ("Write" for the one that changes something).*)
(* The step covers the service's work, the answer, and what the handler    *)
(* does with it up to its next HTTP request or its reply.  A write whose   *)
(* caller has given up may still be carried out later (late).  A crash or  *)
(* a panic ends every handler and empties the lock table.                  *)
(*                                                                         *)
(* A definition marked "Defect" is not part of the model: it is a version  *)
(* of the one after it with a plausible bug, which a run must notice.      *)
(***************************************************************************)
EXTENDS VolumeLocks, VCloudClient

CONSTANTS
  Handlers,      \* the goroutines serving calls
  Requests,      \* the calls the container orchestrator may make
  MinVolumeSize, DefaultVolumeSize, MaxVolumeSize,
  ClientModes,   \* {TRUE}: configured; with FALSE, a start may lack credentials
  MaxLate        \* bound on the writes that outlive the call that made them

VARIABLES
  pc,            \* what each handler does next
  req,           \* the call each handler serves
  answer,        \* the reply that leaves the server in this step
  late,          \* writes whose caller has given up
  lateLeft,      \* how many more of those there may be
  published,     \* <<v, n>>: the orchestrator was told v is published on n
  client         \* vcloudClient # nil

handling == <<locks, pc, req>>
vars == <<vols, snaps, locks, pc, req, answer, late, lateLeft, published, client>>

Ops == {"CreateVolume", "DeleteVolume", "ControllerPublishVolume",
        "ControllerUnpublishVolume", "ValidateVolumeCapabilities",
        "ControllerExpandVolume", "CreateSnapshot", "DeleteSnapshot",
        "ListSnapshots"}

\* A call, with the union of the fields of the CSI request messages.  The
\* capability stands for the list of them: none given, a mount, or a block.
RequestType ==
  [op : Ops, name : Names \cup {None}, volume : VolumeIds \cup {None},
   node : Nodes \cup {None}, snapshot : SnapshotIds \cup {None},
   cap : {"none", "mount", "block"}, required : Int, limit : Int]

NoRequest == [op |-> None, name |-> None, volume |-> None, node |-> None,
              snapshot |-> None, cap |-> "none", required |-> 0, limit |-> 0]

NoAnswer == [to |-> NoRequest, code |-> None, id |-> None, capacity |-> 0,
             source |-> None, device |-> None, listed |-> {}]

ASSUME RequestsAssumption == Requests \subseteq RequestType
ASSUME SizesAssumption == /\ MinVolumeSize \in Nat \ {0}
                          /\ DefaultVolumeSize \in Nat
                          /\ MaxVolumeSize \in Nat
                          /\ MinVolumeSize <= DefaultVolumeSize
                          /\ DefaultVolumeSize <= MaxVolumeSize
ASSUME ModesAssumption == ClientModes \subseteq BOOLEAN /\ MaxLate \in Nat
ASSUME IdsAssumption == /\ None \notin VolumeIds \cup SnapshotIds \cup Nodes \cup Names
                        /\ VolumeIds \cap SnapshotIds = {}
ASSUME HandlersAssumption == IsFiniteSet(Handlers)
ASSUME OpsAssumption == None \notin Ops
ASSUME CodesAssumption == None \notin {"OK", "Panic"}

-----------------------------------------------------------------------------
\* The size of a new volume before and after the bump to the minimum; the
\* limit of the range is compared with the former.
AskedSize(r) == IF r.required > 0 THEN r.required ELSE DefaultVolumeSize
VolumeSize(r) == IF AskedSize(r) < MinVolumeSize THEN MinVolumeSize ELSE AskedSize(r)
OutOfRange(r) == \/ r.limit > 0 /\ AskedSize(r) > r.limit
                 \/ VolumeSize(r) > MaxVolumeSize

\* Defect: ControllerPublishVolume does not check the node id.
MalformedButNode(r) == r.volume = None /\ r.op \notin {"CreateVolume", "ListSnapshots"}

\* The argument checks a handler makes before it tries its lock.
Malformed(r) ==
  CASE r.op = "CreateVolume" -> r.name = None \/ r.cap = "none"
    [] r.op = "ControllerPublishVolume" ->
         r.volume = None \/ r.node = None \/ r.cap = "none"
    [] r.op = "ValidateVolumeCapabilities" -> r.volume = None \/ r.cap = "none"
    [] r.op = "ControllerExpandVolume" -> r.volume = None \/ r.required <= 0
    [] r.op = "CreateSnapshot" -> r.name = None \/ r.volume = None
    [] r.op = "DeleteSnapshot" -> r.snapshot = None
    [] r.op = "ListSnapshots" -> FALSE
    [] OTHER -> r.volume = None

\* Defect: the lock table is used for volume ids only.
KeysOfVolumes(r) == {r.volume} \ {None}

\* Defect: CreateSnapshot locks the source volume instead of the name.
KeysBySource(r) ==
  IF r.op \in {"ValidateVolumeCapabilities", "ListSnapshots"} THEN {}
  ELSE IF r.op = "CreateVolume" THEN {r.name}
  ELSE {r.volume, r.snapshot} \ {None}

\* The key a handler locks; two handlers lock nothing.
Keys(r) ==
  CASE r.op \in {"CreateVolume", "CreateSnapshot"} -> {r.name}
    [] r.op = "DeleteSnapshot" -> {r.snapshot}
    [] r.op \in {"ValidateVolumeCapabilities", "ListSnapshots"} -> {}
    [] OTHER -> {r.volume}

\* The checks CreateVolume makes under its lock, before any HTTP request.
Unservable(r) == r.op = "CreateVolume" /\ (r.cap = "block" \/ OutOfRange(r))

\* The client method a handler calls first.
FirstCall(r) ==
  CASE r.op = "CreateVolume" ->
         IF r.snapshot # None THEN "GetSnapshot" ELSE "GetVolumeByName"
    [] r.op \in {"ControllerPublishVolume", "ValidateVolumeCapabilities",
                 "ControllerExpandVolume"} -> "GetVolume"
    [] r.op = "CreateSnapshot" -> "GetSnapshotByName"
    [] r.op = "ListSnapshots" ->
         IF r.snapshot # None THEN "GetSnapshot" ELSE "ListSnapshots"
    [] OTHER -> "Write"

\* The request by which a handler changes something.
Message(r) ==
  CASE r.op = "CreateVolume" -> CreateVolume(r.name, VolumeSize(r), r.snapshot)
    [] r.op = "DeleteVolume" -> DeleteVolume(r.volume)
    [] r.op = "ControllerPublishVolume" -> AttachVolume(r.volume, r.node)
    [] r.op = "ControllerUnpublishVolume" -> DetachVolume(r.volume, r.node)
    [] r.op = "ControllerExpandVolume" -> ExpandVolume(r.volume, r.required)
    [] r.op = "CreateSnapshot" -> CreateSnapshot(r.name, r.volume)
    [] r.op = "DeleteSnapshot" -> DeleteSnapshot(r.snapshot)
    [] OTHER -> NoMessage

\* The id in a call is one the service has minted before.
Known(r) == /\ r.volume # None => vols[r.volume].st # "free"
            /\ r.snapshot # None => snaps[r.snapshot].st # "free"

-----------------------------------------------------------------------------
Reply(r, code) == [NoAnswer EXCEPT !.to = r, !.code = code]

\* Defect: any failure to detach means already detached.
WriteErrorIgnored(r, res) ==
  IF r.op = "ControllerUnpublishVolume" THEN "OK" ELSE "Internal"

\* The status of a reply to a failed write, from the text of the error.
WriteError(r, res) ==
  CASE /\ r.op \in {"DeleteVolume", "ControllerUnpublishVolume", "DeleteSnapshot"}
       /\ IsNotFoundError(res) -> "OK"
    [] /\ r.op \in {"CreateVolume", "CreateSnapshot"}
       /\ IsAlreadyExistsError(res) -> "AlreadyExists"
    [] /\ r.op = "ControllerExpandVolume"
       /\ "CannotExpandUnattachedVolume" \in res.marks -> "FailedPrecondition"
    [] /\ r.op = "CreateSnapshot"
       /\ ~IsAlreadyExistsError(res)
       /\ res.marks \cap {"VolumeInUse", "VolumeNotReady"} # {} -> "FailedPrecondition"
    [] OTHER -> "Internal"

\* The reply to a call whose write returned res; a CreateSnapshot that got
\* nil without an error dereferences it.
WriteReply(r, res) ==
  IF ~res.ok THEN Reply(r, WriteError(r, res))
  ELSE CASE r.op = "CreateVolume" ->
              [Reply(r, "OK") EXCEPT !.id = res.found, !.capacity = VolumeSize(r),
                                     !.source = r.snapshot]
         [] r.op = "ControllerPublishVolume" ->
              [Reply(r, "OK") EXCEPT !.device = "path"]
         [] r.op = "ControllerExpandVolume" ->
              [Reply(r, "OK") EXCEPT !.capacity = r.required]
         [] r.op = "CreateSnapshot" ->
              IF res.nil THEN Reply(r, "Panic")
              ELSE [Reply(r, "OK") EXCEPT !.id = res.found]
         [] OTHER -> Reply(r, "OK")

\* The reply of a driver without a client: success, and made-up ids.
MockReply(r) ==
  CASE r.op = "CreateVolume" ->
         [Reply(r, "OK") EXCEPT !.id = r.name, !.capacity = VolumeSize(r)]
    [] r.op = "ControllerPublishVolume" -> [Reply(r, "OK") EXCEPT !.device = "path"]
    [] r.op = "ControllerExpandVolume" -> [Reply(r, "OK") EXCEPT !.capacity = r.required]
    [] r.op = "CreateSnapshot" -> [Reply(r, "OK") EXCEPT !.id = r.name]
    [] r.op = "ValidateVolumeCapabilities" ->
         Reply(r, IF r.cap = "block" THEN "Unconfirmed" ELSE "OK")
    [] OTHER -> Reply(r, "OK")

\* What the orchestrator believes to be published: it stops relying on it
\* when its call to undo it gets through, and relies on it from an OK on.
Undoes(r, p) ==
  /\ p[1] = r.volume
  /\ \/ r.op = "DeleteVolume"
     \/ r.op = "ControllerUnpublishVolume" /\ r.node \in {p[2], None}
Withdrawn(r) == {p \in published : ~Undoes(r, p)}
Told(a) ==
  IF a.to.op = "ControllerPublishVolume" /\ a.code = "OK"
  THEN published \cup {<<a.to.volume, a.to.node>>} ELSE published

-----------------------------------------------------------------------------
At(h, op, call) == pc[h] = call /\ req[h].op = op

\* The handler goes on to its next client call.
Goto(h, call) ==
  /\ pc' = [pc EXCEPT ![h] = call]
  /\ answer' = NoAnswer
  /\ UNCHANGED <<store, locks, req, late, lateLeft, published, client>>

\* The handler replies and its deferred Release runs.
Answer(h, a) ==
  /\ pc' = [pc EXCEPT ![h] = "idle"]
  /\ req' = [req EXCEPT ![h] = NoRequest]
  /\ answer' = a
  /\ Release(Keys(req[h]))
  /\ published' = Told(a)
  /\ UNCHANGED client

\* A reply that follows from what was read.
AnswerRead(h, a) == Answer(h, a) /\ UNCHANGED <<store, late, lateLeft>>

\* The process ends and starts anew.  The writes that were under way may be
\* lost, or be carried out later.
Restart(a, underWay) ==
  /\ pc' = [h \in Handlers |-> "idle"]
  /\ req' = [h \in Handlers |-> NoRequest]
  /\ NewVolumeLocks
  /\ answer' = a
  /\ client' \in ClientModes
  /\ \E S \in SUBSET {h \in underWay : pc[h] = "Write"} :
       /\ Cardinality(S) <= lateLeft
       /\ late' = late \cup {[by |-> h, no |-> lateLeft, msg |-> Message(req[h])] : h \in S}
       /\ lateLeft' = lateLeft - Cardinality(S)
  /\ UNCHANGED published

\* A nil pointer is dereferenced: no interceptor recovers, the process dies.
Panic(h) == Restart(Reply(req[h], "Panic"), Handlers \ {h})

-----------------------------------------------------------------------------
\* Defect: the Release is deferred before TryAcquire is tried.
RejectReleases(h, r) ==
  /\ pc[h] = "idle" /\ Known(r)
  /\ ~Malformed(r) /\ ~Acquirable(Keys(r))
  /\ Release(Keys(r))
  /\ answer' = Reply(r, "Aborted")
  /\ UNCHANGED <<store, pc, req, late, lateLeft, published, client>>

\* A call arrives and is turned down before any HTTP request is made.
Reject(h, r) ==
  /\ pc[h] = "idle"
  /\ Known(r)
  /\ \/ /\ Malformed(r)
        /\ answer' = Reply(r, "InvalidArgument")
     \/ /\ ~Malformed(r)
        /\ ~Acquirable(Keys(r))
        /\ answer' = Reply(r, "Aborted")
     \/ /\ ~Malformed(r)
        /\ Acquirable(Keys(r))
        /\ Unservable(r)
        /\ answer' = Reply(r, IF r.cap = "block" THEN "InvalidArgument" ELSE "OutOfRange")
  /\ UNCHANGED <<store, handling, late, lateLeft, published, client>>

\* A call arrives at a driver without a client: it is answered at once.
Mock(h, r) ==
  /\ ~client
  /\ pc[h] = "idle"
  /\ Known(r)
  /\ ~Malformed(r) /\ Acquirable(Keys(r)) /\ ~Unservable(r)
  /\ answer' = MockReply(r)
  /\ published' = IF r.op = "ControllerPublishVolume" THEN Told(answer')
                  ELSE Withdrawn(r)
  /\ UNCHANGED <<store, handling, late, lateLeft, client>>

\* A call arrives and gets its lock.
Accept(h, r) ==
  /\ client
  /\ pc[h] = "idle"
  /\ Known(r)
  /\ ~Malformed(r) /\ ~Unservable(r)
  /\ Acquire(Keys(r))
  /\ pc' = [pc EXCEPT ![h] = FirstCall(r)]
  /\ req' = [req EXCEPT ![h] = r]
  /\ answer' = NoAnswer
  /\ published' = Withdrawn(r)
  /\ UNCHANGED <<store, late, lateLeft, client>>

\* CreateVolume makes sure its snapshot exists; nil without an error passes.
CreateVolumeGetsSnapshot(h) ==
  /\ At(h, "CreateVolume", "GetSnapshot")
  /\ \E res \in GetSnapshot(req[h].snapshot) :
       \/ res.ok /\ Goto(h, "GetVolumeByName")
       \/ ~res.ok /\ AnswerRead(h, Reply(req[h], IF IsNotFoundError(res)
                                                 THEN "NotFound" ELSE "Internal"))

\* Defect: the size of the volume that is found is not compared.
ExistingReplyUnsized(r, vol) ==
  [Reply(r, "OK") EXCEPT !.id = vol.id, !.capacity = VolumeSize(r)]

\* Defect: the source that was asked for is told of any volume found.
ExistingReplySourced(r, vol) ==
  [Reply(r, "OK") EXCEPT !.id = vol.id, !.capacity = vol.size, !.source = r.snapshot]

\* CreateVolume looks for a volume of its name: one that is found is the
\* answer, unless it shows another size; none, or any error, means create.
ExistingReply(r, vol) ==
  IF vol.size > 0 /\ vol.size # VolumeSize(r) THEN Reply(r, "AlreadyExists")
  ELSE [Reply(r, "OK") EXCEPT !.id = vol.id,
                              !.capacity = IF vol.size = 0 THEN VolumeSize(r)
                                           ELSE vol.size]
CreateVolumeGetsByName(h) ==
  /\ At(h, "CreateVolume", "GetVolumeByName")
  /\ \E res \in GetVolumeByName(req[h].name) :
       IF res.ok /\ ~res.nil
       THEN AnswerRead(h, ExistingReply(req[h], res.found))
       ELSE Goto(h, "Write")

\* Defect: where else the volume is attached is not looked at.
PublishIgnoresOtherNode(h) ==
  LET r == req[h] IN
  /\ At(h, "ControllerPublishVolume", "GetVolume")
  /\ \E res \in GetVolume(r.volume) :
       IF ~res.ok THEN AnswerRead(h, Reply(r, "NotFound"))
       ELSE IF res.found.node = r.node THEN AnswerRead(h, Reply(r, "OK"))
       ELSE Goto(h, "Write")

\* ControllerPublishVolume looks where the volume is attached.
PublishGetsVolume(h) ==
  LET r == req[h] IN
  /\ At(h, "ControllerPublishVolume", "GetVolume")
  /\ \E res \in GetVolume(r.volume) :
       \/ /\ ~res.ok
          /\ AnswerRead(h, Reply(r, IF IsNotFoundError(res) THEN "NotFound" ELSE "Internal"))
       \/ /\ res.ok /\ res.found.node = r.node
          /\ AnswerRead(h, [Reply(r, "OK") EXCEPT !.device = res.found.device])
       \/ /\ res.ok /\ res.found.node \notin {r.node, None}
          /\ AnswerRead(h, Reply(r, "FailedPrecondition"))
       \/ /\ res.ok /\ res.found.node = None
          /\ Goto(h, "Write")

\* ValidateVolumeCapabilities: an unsupported capability is an OK without
\* confirmation.
ValidateGetsVolume(h) ==
  LET r == req[h] IN
  /\ At(h, "ValidateVolumeCapabilities", "GetVolume")
  /\ \E res \in GetVolume(r.volume) :
       AnswerRead(h, Reply(r, IF IsNotFoundError(res) THEN "NotFound"
                              ELSE IF ~res.ok THEN "Internal"
                              ELSE IF r.cap = "block" THEN "Unconfirmed" ELSE "OK"))

\* Defect: the present size is not compared.
ExpandUncompared(h) == At(h, "ControllerExpandVolume", "GetVolume") /\ Goto(h, "Write")

\* Defect: the present size is compared the wrong way round.
ExpandReversed(h) ==
  LET r == req[h] IN
  /\ At(h, "ControllerExpandVolume", "GetVolume")
  /\ \E res \in GetVolume(r.volume) :
       \/ ~res.ok /\ AnswerRead(h, Reply(r, "NotFound"))
       \/ /\ res.ok
          /\ IF res.found.size <= r.required
             THEN AnswerRead(h, [Reply(r, "OK") EXCEPT !.capacity = r.required])
             ELSE Goto(h, "Write")

\* ControllerExpandVolume compares with the present size; when it cannot be
\* had, it expands all the same.
ExpandGetsVolume(h) ==
  LET r == req[h] IN
  /\ At(h, "ControllerExpandVolume", "GetVolume")
  /\ \E res \in GetVolume(r.volume) :
       \/ /\ IsNotFoundError(res)
          /\ AnswerRead(h, Reply(r, "NotFound"))
       \/ /\ ~res.ok /\ ~IsNotFoundError(res)
          /\ Goto(h, "Write")
       \/ /\ res.ok
          /\ IF res.found.size > 0 /\ res.found.size >= r.required
             THEN AnswerRead(h, [Reply(r, "OK") EXCEPT !.capacity = res.found.size])
             ELSE Goto(h, "Write")

\* Defect: no list fallback after a lookup that fails.
SnapshotSkipsList(h) ==
  LET r == req[h] IN
  /\ At(h, "CreateSnapshot", "GetSnapshotByName")
  /\ \E res \in GetSnapshotByName(r.name) :
       IF res.ok /\ ~res.nil
       THEN AnswerRead(h, [Reply(r, "OK") EXCEPT !.id = res.found])
       ELSE Goto(h, "GetVolume")

\* CreateSnapshot looks for a snapshot of its name; none, or any error, means
\* to try the list.
SnapshotGetsByName(h) ==
  LET r == req[h] IN
  /\ At(h, "CreateSnapshot", "GetSnapshotByName")
  /\ \E res \in GetSnapshotByName(r.name) :
       IF res.ok /\ ~res.nil
       THEN AnswerRead(h, IF snaps[res.found].source # r.volume
                          THEN Reply(r, "AlreadyExists")
                          ELSE [Reply(r, "OK") EXCEPT !.id = res.found])
       ELSE Goto(h, "ListSnapshots")

\* CreateSnapshot looks for its name on the first page of its volume's
\* snapshots; an error of the list is ignored, a nil entry is dereferenced
\* unless the name comes first.
SnapshotLists(h) ==
  LET r == req[h] IN
  /\ At(h, "CreateSnapshot", "ListSnapshots")
  /\ \E res \in ListSnapshots(r.volume) :
       LET listed == IF res.ok THEN res.found ELSE {}
           same == {s \in listed \ {None} : snaps[s].name = r.name}
       IN \/ \E s \in same : AnswerRead(h, [Reply(r, "OK") EXCEPT !.id = s])
          \/ None \in listed /\ Panic(h) /\ UNCHANGED store
          \/ same \cup (listed \cap {None}) = {} /\ Goto(h, "GetVolume")

\* CreateSnapshot makes sure the source volume exists.
SnapshotGetsVolume(h) ==
  /\ At(h, "CreateSnapshot", "GetVolume")
  /\ \E res \in GetVolume(req[h].volume) :
       IF res.ok THEN Goto(h, "Write")
       ELSE AnswerRead(h, Reply(req[h], IF IsNotFoundError(res)
                                        THEN "NotFound" ELSE "Internal"))

\* ListSnapshots of one id; nil without an error is dereferenced.
ListGetsSnapshot(h) ==
  LET r == req[h] IN
  /\ At(h, "ListSnapshots", "GetSnapshot")
  /\ \E res \in GetSnapshot(r.snapshot) :
       \/ /\ res.ok /\ ~res.nil
          /\ AnswerRead(h, [Reply(r, "OK") EXCEPT !.listed = {res.found}])
       \/ /\ res.ok /\ res.nil
          /\ Panic(h) /\ UNCHANGED store
       \/ /\ ~res.ok
          /\ AnswerRead(h, Reply(r, IF IsNotFoundError(res) THEN "OK" ELSE "Internal"))

\* ListSnapshots of a volume, or of everything; a nil entry is dereferenced.
ListLists(h) ==
  LET r == req[h] IN
  /\ At(h, "ListSnapshots", "ListSnapshots")
  /\ \E res \in ListSnapshots(r.volume) :
       \/ /\ res.ok /\ None \notin res.found
          /\ AnswerRead(h, [Reply(r, "OK") EXCEPT !.listed = res.found])
       \/ /\ res.ok /\ None \in res.found
          /\ Panic(h) /\ UNCHANGED store
       \/ /\ ~res.ok
          /\ AnswerRead(h, Reply(r, "Internal"))

-----------------------------------------------------------------------------
\* The write is carried out and answered, for better or worse.
WriteDone(h) ==
  /\ pc[h] = "Write"
  /\ \E id \in VolumeIds \cup SnapshotIds \cup {None} :
       /\ Performed(Message(req[h]), id)
       /\ \E res \in Answers(Message(req[h]), id) :
            LET a == WriteReply(req[h], res) IN
            \/ a.code = "Panic" /\ Panic(h)
            \/ a.code # "Panic" /\ Answer(h, a) /\ UNCHANGED <<late, lateLeft>>

\* The service refuses the write.
WriteRefused(h) ==
  /\ pc[h] = "Write"
  /\ Refused(Message(req[h]))
  /\ AnswerRead(h, WriteReply(req[h], RefusalAnswer(Message(req[h]))))

\* The write fails and nothing has been done.
WriteFails(h) ==
  /\ pc[h] = "Write"
  /\ \E res \in Failures(Message(req[h]).perform) : AnswerRead(h, WriteReply(req[h], res))

\* The HTTP client gives up after 30 seconds, or the caller before that; the
\* service still has the request.
WriteTimesOut(h) ==
  /\ pc[h] = "Write"
  /\ lateLeft > 0
  /\ Answer(h, WriteReply(req[h], Err({})))
  /\ late' = late \cup {[by |-> h, no |-> lateLeft, msg |-> Message(req[h])]}
  /\ lateLeft' = lateLeft - 1
  /\ UNCHANGED store

\* A write nobody waits for is carried out, or refused.
Land(l) ==
  /\ late' = late \ {l}
  /\ \/ \E id \in VolumeIds \cup SnapshotIds \cup {None} : Performed(l.msg, id)
     \/ Refused(l.msg) /\ UNCHANGED store
  /\ answer' = NoAnswer
  /\ UNCHANGED <<handling, lateLeft, published, client>>

\* The process is killed, evicted or restarted.
Crash == Restart(NoAnswer, Handlers) /\ UNCHANGED store

-----------------------------------------------------------------------------
Init == /\ StoreInit
        /\ locks = {}
        /\ pc = [h \in Handlers |-> "idle"]
        /\ req = [h \in Handlers |-> NoRequest]
        /\ answer = NoAnswer
        /\ late = {} /\ lateLeft = MaxLate
        /\ published = {}
        /\ client \in ClientModes

Arrive(h) == \E r \in Requests : Reject(h, r) \/ Mock(h, r) \/ Accept(h, r)

\* A step of a handler that serves a call.
Step(h) ==
  \/ CreateVolumeGetsSnapshot(h) \/ CreateVolumeGetsByName(h)
  \/ PublishGetsVolume(h) \/ ValidateGetsVolume(h) \/ ExpandGetsVolume(h)
  \/ SnapshotGetsByName(h) \/ SnapshotLists(h) \/ SnapshotGetsVolume(h)
  \/ ListGetsSnapshot(h) \/ ListLists(h)
  \/ WriteDone(h) \/ WriteRefused(h) \/ WriteFails(h) \/ WriteTimesOut(h)

Next == \/ \E h \in Handlers : Arrive(h) \/ Step(h)
        \/ \E l \in late : Land(l)
        \/ Crash

Spec == Init /\ [][Next]_vars

\* A goroutine runs, and no HTTP request outlasts the client's 30 seconds: a
\* handler that serves a call goes on.
FairSpec == Spec /\ \A h \in Handlers : WF_vars(Step(h))
=============================================================================
