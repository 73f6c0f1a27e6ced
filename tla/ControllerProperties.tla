------------------------ MODULE ControllerProperties ------------------------
(***************************************************************************)
(* What should be true of the controller service: the properties that the  *)
(* runs check and the theorems prove.                                      *)
(***************************************************************************)
EXTENDS ControllerServer

Calls == {"GetSnapshot", "GetVolumeByName", "GetVolume", "GetSnapshotByName",
          "ListSnapshots", "Write"}
Codes == {None, "OK", "Unconfirmed", "InvalidArgument", "OutOfRange", "Aborted",
          "NotFound", "AlreadyExists", "FailedPrecondition", "Internal", "Panic"}

VolumeType == [st : Statuses, name : Names \cup {None}, size : Nat,
               node : Nodes \cup {None}, data : SnapshotIds \cup {None}]
SnapshotType == [st : Statuses, name : Names \cup {None},
                 source : VolumeIds \cup {None}]

\* Every variable holds what it is meant to hold: the store of the service,
\* the handlers' calls, the writes that may still land.
TypeOK ==
  /\ vols \in [VolumeIds -> VolumeType]
  /\ snaps \in [SnapshotIds -> SnapshotType]
  /\ pc \in [Handlers -> Calls \cup {"idle"}]
  /\ req \in [Handlers -> Requests \cup {NoRequest}]
  /\ answer.to \in Requests \cup {NoRequest} /\ answer.code \in Codes
  /\ lateLeft \in 0..MaxLate
  /\ \A l \in late : \E r \in Requests : ~Malformed(r) /\ l.msg = Message(r)
  /\ published \subseteq VolumeIds \X Nodes
  /\ client \in BOOLEAN

-----------------------------------------------------------------------------
Active(h) == pc[h] # "idle"

\* The lock table holds exactly the keys of the calls being served, and no two
\* of these share a key: TryAcquire excludes, every way out of a handler
\* releases, and a restart leaves neither locks nor calls behind.
LocksMatchHandlers ==
  /\ locks = UNION {Keys(req[h]) : h \in {g \in Handlers : Active(g)}}
  /\ \A g, h \in Handlers :
       Active(g) /\ Active(h) /\ g # h => Keys(req[g]) \cap Keys(req[h]) = {}

\* CreateVolume is idempotent by name: its lookup under the lock of the name
\* keeps a retry, or a second caller, from making another volume of that name.
NoDuplicateVolume ==
  \A v, w \in VolumeIds :
    Live(v) /\ Live(w) /\ vols[v].name = vols[w].name => v = w

\* A volume the orchestrator was told is published on a node is attached to
\* that node until the orchestrator calls to unpublish or delete it: neither
\* a call for another node nor a failure in between takes it away.
PublishedStaysAttached ==
  \A p \in published : Live(p[1]) /\ vols[p[1]].node = p[2]

\* A DeleteVolume that is answered OK has left no volume behind, though its
\* "not found" is guessed from the text of an error.
AnsweredDeleteIsGone ==
  /\ answer.to.op = "DeleteVolume" /\ answer.code = "OK" /\ client
  => vols[answer.to.volume].st = "gone"

\* A ControllerUnpublishVolume that is answered OK has left the volume off the
\* node it named.
AnsweredUnpublishIsDetached ==
  /\ answer.to.op = "ControllerUnpublishVolume" /\ answer.code = "OK" /\ client
  => vols[answer.to.volume].node \notin {answer.to.node} \cap Nodes

\* A CreateVolume answered OK with a content source gives a volume that holds
\* that snapshot's data.
RestoredFromSnapshot ==
  /\ answer.to.op = "CreateVolume" /\ answer.code = "OK" /\ client
  /\ answer.source # None
  => vols[answer.id].data = answer.source

\* A volume or a snapshot that is answered OK exists, under the name, with the
\* size and of the source that were asked for; the size is within the limit of
\* the call, or the minimum size where the limit is below that.
CreatedAsAsked ==
  answer.code = "OK" /\ client =>
    /\ answer.to.op = "CreateVolume" =>
         /\ Live(answer.id)
         /\ vols[answer.id].name = answer.to.name
         /\ vols[answer.id].size = answer.capacity
         /\ answer.to.limit > 0 =>
              answer.capacity = MinVolumeSize \/ answer.capacity <= answer.to.limit
    /\ answer.to.op = "CreateSnapshot" =>
         /\ LiveSnapshot(answer.id)
         /\ snaps[answer.id].name = answer.to.name
         /\ snaps[answer.id].source = answer.to.volume

\* CreateSnapshot is idempotent by name.
NoDuplicateSnapshot ==
  \A s, t \in SnapshotIds :
    LiveSnapshot(s) /\ LiveSnapshot(t) /\ snaps[s].name = snaps[t].name => s = t

\* CreateSnapshot is idempotent by name and source volume, thanks to its list
\* fallback even where the lookup by name does not work.
NoDuplicateSnapshotOfVolume ==
  \A s, t \in SnapshotIds :
    /\ LiveSnapshot(s) /\ LiveSnapshot(t)
    /\ snaps[s].name = snaps[t].name /\ snaps[s].source = snaps[t].source
    => s = t

\* A handler always gets to its reply and its Release, without a restart: no
\* key stays locked for good.
LocksAreReleased ==
  \A k \in UNION {Keys(r) : r \in Requests} : []<>(k \notin locks)

\* A call never takes the process down: true only of a service that leaves no
\* id out, since the handlers follow a nil snapshot.
NeverPanics == answer.code # "Panic"

-----------------------------------------------------------------------------
\* The volumes of the service as the contract sees them: without the data.
Contract == INSTANCE VolumeContract
              WITH disks <- [v \in VolumeIds |->
                               [st |-> vols[v].st, name |-> vols[v].name,
                                size |-> vols[v].size, node |-> vols[v].node]]

\* The controller service implements the contract on volumes.
ImplementsContract == Contract!Spec
=============================================================================
