# A verification of the Block Storage CSI driver

TLA+ models of the CSI driver in this repository, what TLC checks of them on small
instances and what TLAPS proves of them for every instance.  Paths are relative to
`src/`; `controllerserver.go`, `utils.go`, `nodeserver.go` … are under `pkg/vcloud/`.

## The system

A Kubernetes CSI driver in one Go binary.  It runs once per node (node service) and once
as a controller (controller service).  The container orchestrator (CO: the Kubernetes
sidecars) calls it over gRPC, each call in a goroutine of its own.  The controller keeps no
state but a lock table; volumes and snapshots live in a remote storage service behind one
HTTP endpoint.

| part | state it keeps | operations | what makes it correct | status |
|---|---|---|---|---|
| Controller service, `controllerserver.go` | none of its own | 9 RPCs that change or read volumes and snapshots, `ControllerGetCapabilities` | idempotent creation by name; a volume on at most one node and left where it was published; no shrinking; truthful replies; every call ends and releases its lock | modelled |
| Lock table, `utils.go` 15-47 | set of string keys, in memory | `TryAcquire` (never waits), `Release` | exactly the keys of the calls being served | modelled |
| HTTP client, `client/client.go` | none (base URL, token, 30 s timeout) | one method per request; classification of errors by text | an error is told from an empty answer, "not found" from any other failure | modelled |
| vCloud storage service | volumes, snapshots | 10 requests | not in the repository: a parameter of the model | modelled as external |
| Start, modes, shutdown: `vcloud.go`, `server.go`, `client/config.go`, `cmd/vcloud-csi-plugin/main.go` | whether there is a client; the file of the socket | read the configuration, `NewDriver`, `serve`, exit on a signal | the file is read as it means; the driver serves again however it ended | modelled |
| Node service, `nodeserver.go` | none but the lock table | stage, publish, unpublish, unstage, expand; stats and info change nothing | a path shows the volume it was answered to show, and nothing once it was answered to be free; data that can be read is never formatted over, none is deleted; a retry of anything ends well | modelled |
| Mounter, `mounter.go` | the node's mount table, the filesystems on devices (outside of the process) | `Format`, `Mount`, `Unmount`, `IsMountPoint`, `GetDeviceFSType` | formats only what is blank | modelled; `MountWithRetry`, `IsLikelyNotMountPoint` and `IsBlockDevice` have no caller |
| Helpers, `utils.go` 49-247 | a goroutine that goes on after the timeout of `WaitUntilTimeout` | | nothing happens after the lock is released | `WaitUntilTimeout` and `MakeDir`; the rest has no caller or only warns |
| PVC webhook, `cmd/pvc-expand-webhook/main.go` | none | one review per edit of a claim | an expansion that cannot be served is refused, one that can is not | modelled |
| Identity service, manifests | constants | | | not modelled |

How the parts interact: a handler of the controller takes one key of the lock table for the
length of its call, calls the client one or more times in sequence and replies.  Between two
HTTP requests anything can happen: another handler, a crash, a write of an earlier call that
its caller had given up.  The device path that `ControllerPublishVolume` replies is what
`NodeStageVolume` mounts; the CO calls the two services in the order publish (controller),
stage, publish (node), and back.  A handler of the node service takes the key `volume-path` and
then looks at and changes the host in several steps, with other handlers in between;
`NodeExpandVolume` takes none.  The webhook decides on the attachments that the CO records, which
the sidecars keep in step with what the controller answers.

What is hard here: the locks have different keys for one object (a volume is locked by name
while it is created and by id afterwards, a snapshot by name and by id, and its source volume
not at all); decisions are made on what an earlier request showed; a failed lookup counts as
"there is none" in three places, a device that cannot be read as a blank one; a write can be done and its answer lost, or be done after its
caller gave up; errors are told apart by substrings of their text; results can be nil without
an error; locks are forgotten in a crash.  On the node, a path is checked and mounted in two steps, device
paths are used again for other volumes, a mount cannot be stopped when its time is up, mounts
survive the process, and `rm -r` follows `umount` on a path that may have had two mounts.
`PROJECT.json` lists these hazards at their lines.

## The modules

| module | what it is |
|---|---|
| `VolumeLocks` | the lock table: `NewVolumeLocks`, `Acquire`, `Release` |
| `VCloudBackend` | the storage service, external: what each request does, and the reasons it is refused for |
| `VCloudClient` | the client: a reading method is the set of results it may return in the present state, a writing one the message it sends and the answers its caller may get |
| `ControllerServer` | the handlers: extends the three above |
| `VolumeContract` | the abstract specification: what the driver promises about volumes |
| `ControllerProperties` | the properties, and the refinement mapping to `VolumeContract` |
| `MCController` | values of the constants for TLC |
| `NodeHost` | the host under the node service, mostly external: device paths, filesystems, the mount table, and what `blkid`, `mkfs`, `mount`, `umount`, `rm -r`, `resize2fs` and `xfs_growfs` do |
| `NodeServer` | the handlers of the node service, kubelet's order of calls, crashes and reboots: extends `VolumeLocks` and `NodeHost` |
| `NodeContract` | the abstract specification: what is staged, what each target shows, what is attached |
| `NodeProperties`, `MCNode` | the properties with the refinement mapping to `NodeContract`; values for TLC |
| `ExpandWebhook` | reviews of edits of claims, and what is asked of their answers |
| `Expansion`, `MCExpansion` | the composition: `ControllerServer`, `ExpandWebhook`, and the sidecars between them |
| `DriverStart`, `StartProperties`, `MCStart` | the life of the process: configuration, mode, socket, end and restart |
| `ControllerProofs` | types and locks |
| `ContractProofs` | unique names, the refinement |
| `SnapshotProofs` | unique names of snapshots |
| `PublishedProofs` | that replies are true: creation, restoring, publication, detachment, deletion; nil pointers |
| `NodeProofs` | types and locks of the node service |
| `NodeMountProofs` | what the paths show, and the data |
| `NodeContractProofs` | the refinement of `NodeContract`, the growth of filesystems |
| `WebhookProofs` | the answers of the webhook and of `ControllerExpandVolume`, in `Expansion` |

### Correspondence with the code

A handler is a goroutine: `pc[h]` is the client method it is about to call, `req[h]` its
call.  Its steps are

* `Reject`, `Mock`, `Accept`: from the arrival of a call to the first HTTP request – argument
  checks, `TryAcquire`, and for `CreateVolume` the capability and size checks under the lock.
  They are one step because nothing in between is seen by another handler except the lock
  itself, which one atomic operation takes, and a call that fails its checks under the lock
  has released it when it replies.
* one step per HTTP request: the service's work, the answer, and what the handler does with it
  up to its next request or its reply.  A reply includes the deferred `Release`.
  `WriteDone`, `WriteRefused`, `WriteFails` and `WriteTimesOut` are the four things that can
  become of the request that changes something.
* `Panic`: a nil pointer dereferenced ends the process, for `server.go` installs only a logging
  interceptor.

| RPC | lines | steps |
|---|---|---|
| `CreateVolume` | 42-195 | `CreateVolumeGetsSnapshot` (97-115), `CreateVolumeGetsByName` (117-146), write (148-182) |
| `DeleteVolume` | 198-225 | write (212-221) |
| `ControllerPublishVolume` | 228-298 | `PublishGetsVolume` (251-275), write (277-289) |
| `ControllerUnpublishVolume` | 301-330 | write (317-326) |
| `ValidateVolumeCapabilities` | 333-371 | `ValidateGetsVolume` |
| `ControllerExpandVolume` | 374-452 | `ExpandGetsVolume` (398-418), write (420-445) |
| `CreateSnapshot` | 455-561 | `SnapshotGetsByName` (474-489), `SnapshotLists` (491-506), `SnapshotGetsVolume` (508-515), write (517-548) |
| `DeleteSnapshot` | 564-591 | write (578-587) |
| `ListSnapshots` | 594-637 | `ListGetsSnapshot` (597-613), `ListLists` (616-634) |

`Malformed`, `Keys`, `FirstCall`, `Message`, `WriteError`, `WriteReply` and `MockReply` are
each one CASE over these RPCs; the map names the lines of one RPC for each, the table above
gives the others.  `Step` is the disjunction of the steps of all of them.

Beside the handlers: `Land` carries out a write nobody waits for, `Crash` ends the process
between any two steps, `Restart` (in both `Crash` and `Panic`) empties the lock table and may
start with or without a client (`main.go` 64-77).  `published` is what the CO was told and
relies on; it belongs to the model, not to the code.

What is abstracted: sizes are small numbers with the order of the real constants (minimum <
default < maximum); an error is the set of the substrings the code looks for that occur in it
(`"404"` for the three spellings of `IsNotFoundError`, `"409"` for the three of
`IsAlreadyExistsError`); the list of capabilities is its decisive member; volume types, creation
times, readiness and paging tokens given by the caller are left out.  A read and what the
handler does at once with its result are one step, so a *reply* that follows from a read is
given at the moment of the read: the properties about replies speak of that moment.  A context
that is cancelled is `WriteFails` or `WriteTimesOut`.

### The node service

The steps of a handler are its looks at the host and its changes of it:

| RPC | lines | steps |
|---|---|---|
| `NodeStageVolume` | 46-144 | `StageLooks` (71-114: device, capability, mount point, directory), `FormatLooks` and `FormatMisreads` (`mounter.go` 76-85, 180-193), `FormatMakes` (87-99), `StageMounts` (121-133) |
| `NodeUnstageVolume` | 147-194 | `UndoLooks` (167-180), `UndoUnmounts` (182-185), `UndoRemoves` (187-190) |
| `NodePublishVolume` | 197-279 | `PublishLooks` (227-234), `PublishLooksAtTarget` (236-259), `PublishBinds` (261-275) |
| `NodeUnpublishVolume` | 282-329 | as `NodeUnstageVolume`, 302-325 |
| `NodeExpandVolume` | 383-436 | `getDeviceForMountPoint` (396-400, 457-474), `ExpandAsksFsType` (402-421), `ExpandResizes` (423-429) |

`mounts[p]` is the stack of mounts on a path: `mount` puts one on top, `umount` takes one away,
`/proc/mounts` is read from the bottom.  A bind mount copies what is on top of its source *then*.
`late` holds the device mounts whose handler gave up after `MountTimeout`; `Land` ends one.  Each
device path shows one volume at a time and is given to another after a detach, so that a call with
a device path from before means the wrong volume.

`blkid` ends with status 2 when there is no filesystem on a device, when there is no device, and
also when it cannot read the device; `GetDeviceFSType` takes all three for blank (186), and
`Format` goes on to `mkfs -F`.  `FormatMisreads` is the third case, one of the faults; `unread`
remembers of a volume that it has happened.

Kubelet is part of the model because a driver is right only towards a caller that keeps the order
of CSI (`MayCall`).  It knows only answers: `told` are the paths it relies on, `open` those it has
not yet had the undoing of answered.  It may miss an answer and call again.  It stages with the device path
that the volume has at that moment, since it reads that from the `VolumeAttachment`; a handler keeps the
path through any delay.  It does not unstage while a call to publish is open, and does not unpublish
while it waits for a call to expand; but it may give that one up at any moment (`GiveUp`), and then
withdraws the volume while the handler, which does not look at its context, goes on (`unheard`).

Left out: block volumes past their refusal, mount flags and permissions (`chmod` only warns), the
`ro` of a bind mount, and `NodeGetVolumeStats`, which changes nothing.

### The webhook and the growth of a claim

A review is two steps: `Review` (143-206, the decoded edit and the lookup of the volume) and
`isVolumeAttached` (233-257 with 210-230), between and during which attachments change;
`Stores` is the API server that takes the verdict and refuses an edit of a claim that has changed
meanwhile.  Any lookup may fail (`FlakyLookups`).  `held` and `seen` remember whether the volume was
attached all the time, at any time, of the review.  In `Expansion` the attachments are what the
attacher writes after the answers of `ControllerPublishVolume` and `ControllerUnpublishVolume`, and
the resizer calls `ControllerExpandVolume` until the claim has its size.

### The start

`Stats` and `Loads` read the file once (`main.go` 64-77), `parseINIFile` is a fold over its lines,
`NewDriver` makes a client only of two credentials, `Removes` and `Listens` are `serve`
(`server.go` 62-110).  A line is a header, a pair, something that is skipped, or too long for the
scanner, which fails the whole file; spaces and quotes are taken off before.  The file has no
locking, so it is read at any stage of being written.  `Ends` is a signal, a `klog.Fatal` or a panic
at any step; the socket stays.  The result of the start, a client or none, is what
`ControllerServer` chooses from `ClientModes`.

### The storage service as a parameter

The service is not in the repository.  What the driver's code tells of it is in
`VCloudBackend.Reasons`: it knows its ids, refuses to grow a detached volume
(`CannotExpandUnattachedVolume`, 425) and to snapshot an attached one (`VolumeInUse`, 525).
All else is a constant, so that each result says what it needs:

| constant | meaning |
|---|---|
| `Checks` | requests whose sense the service checks itself (a name taken, a volume attached elsewhere, a node it is not on) |
| `Flaky` | requests that may fail before or after they are carried out |
| `Omits` | what an answer may lack: `id`, `nodeId`, `devicePath`, `capacity`; with `404`, a missing object is an empty answer |
| `EchoMarks` | marks that occur in an id the service echoes in an error |
| `PageSize` | entries on a page of a list |
| `MaxLate` | how many writes may outlive their call |
| `ClientModes` | `{TRUE}`, or also `FALSE`: a start may lack credentials |

## What is checked

In the runs of `MCController`, identifiers come from sets of two or three, so that an object
can be confused with another one; calls are a fixed set per run, each of which may arrive at any
time and any number of times, at any handler, after the ids in it have been minted.

| run | what it shows |
|---|---|
| `volumes` | 3 handlers, 2 volumes, 2 nodes, every write flaky, crashes: `NoDuplicateVolume`, `PublishedStaysAttached`, and every step is a step of `VolumeContract` |
| `snapshots` | lookups by name flaky or empty, lists good: `NoDuplicateSnapshotOfVolume` |
| `snapshot_names` | lookups by name good, lists flaky: `NoDuplicateSnapshot` |
| `faulty` | everything flaky, answers that lack an id, a node or a device path, a late write, restarts without credentials; the service checks `CREATE_VOLUME` and `DETACH_VOLUME`: types, locks, and that replies are true (`AnsweredDeleteIsGone`, `AnsweredUnpublishIsDetached`, `RestoredFromSnapshot`, `CreatedAsAsked`) |
| `liveness` | `LocksAreReleased`: calls of every kind, and of each way of being refused, with everything flaky, release their keys |
| `node` | 2 volumes of different filesystems on one device path, a pod for each, 2 handlers, any one fault: types, one call per path, `PublishedShowsVolume`, `AnsweredUndoIsUnmounted`, `NoDataLost`, `ExpandedFills`, and every step is a step of `NodeContract` |
| `node_retries` | 2 pods on one volume, one fault, which may be a mount that outlasts its timeout: `WantedIsMounted`, `UnwantedIsGone` |
| `expansion` | a claim of the driver the webhook knows, its webhook with every lookup failing at will, its pod coming and going, the controller with a late write: `GrantedIsReal`, `AttachedIsAllowed`, `PassedForAReason`, `AdmittedIsExpanded` |
| `start` | every file of up to 4 lines, written at any time, 4 forms of endpoint: `LoadedAsWritten`, `ServesAgain` |

Three runs are counterexamples: what a comment or a document of the repository says and the code
does not do.

| run | property | where |
|---|---|---|
| `duplicate_volume` | `NoDuplicateVolume` | a failed lookup means "create", `controllerserver.go` 120 |
| `late_mount` | `AnsweredUndoIsUnmounted` | the mount goes on after its timeout, `nodeserver.go` 131 |
| `foreign_claims` | `DetachedIsRefused` | the webhook knows another name of the driver, `main.go` 203 |

In `late_mount` the mount lands after an unstage that found nothing to undo; the volume can then be
detached under it and its device path given to another volume.  `NoDataLost` fails for the same
instance: a volume mounted twice at its staging path is unmounted once, and the removal of the
directory deletes its files (188).

`foreign_claims` is `expansion` under `bs.csi.vnetwork.dev`, the name that `README.md` (5, 469), the
plugin's default (`cmd/vcloud-csi-plugin/main.go` 17) and `manifests/csi-bs-driver.yaml` (22) give the
driver.  The webhook knows its volumes as `vcloud.csi.vnetwork.dev`, so it lets every edit pass, where
`README.md` 471 says it "blocks the request if the volume is not attached".  The name in the webhook is
the one of `vcloud.go` 13 and of `deploy/kubernetes/csidriver.yaml` and `storageclass.yaml`: `expansion` is the
driver under that name, which `--drivername` may give it, and the other properties of the webhook are
about it.

`NoDataLost` carries an excuse, because the code needs one: `mounter.go` 76 says "Check if device already
has a filesystem" and 185 "Exit code 2 means no filesystem found", but `blkid` ends so also when it
cannot read the device, and the filesystem that is there is then formatted over.  The property is that this
is the only way to lose data; without the excuse it fails in `node` with the one fault it has.

`AttachedIsAllowed` carries one too.  When a lookup fails the webhook lets the edit pass ("On error, allow and
let CSI handle it", 214), except for the volume of an attachment, which is passed over (244): if it was the
attachment of the claim's own volume, the edit is refused.

Other disagreements show when one constant of a passing run is changed:

| change | what TLC then finds |
|---|---|
| `Checks = {}` in `volumes` | `PublishedStaysAttached` fails: a delayed unpublish for the old node takes the volume off the new one (318) |
| `Omits = {"nodeId"}` in `volumes` | `PublishedStaysAttached` fails: a volume whose node is not shown reads as attached nowhere and is attached again (`client.go` 387); it holds if the service checks `ATTACH_VOLUME` |
| `Omits = {"id"}` in `volumes`, in `snapshot_names` | `NoDuplicateVolume`, `NoDuplicateSnapshot` fail: an answer without its id reads as "there is none" (`client.go` 200, 421) |
| `Flaky <- Everything` in `snapshots`, in `snapshot_names` | `NoDuplicateSnapshotOfVolume`, `NoDuplicateSnapshot` fail: errors of both lookups are ignored (474-496) |
| `PageSize = 1` in `snapshots`, with three snapshot ids and a call for a second name | `NoDuplicateSnapshotOfVolume` fails: the page has another snapshot on it (495) |
| `ClientModes = {TRUE, FALSE}` in `volumes` | `PublishedStaysAttached` fails: a controller restarted without its credentials answers OK and does nothing (184, 293) |
| `EchoMarks = {"404"}` in `faulty` | `AnsweredDeleteIsGone` and `AnsweredUnpublishIsDetached` fail: "404" in an echoed id reads as "not found" (`client.go` 435) |
| `Checks = {"DETACH_VOLUME"}` in `faulty` | `RestoredFromSnapshot` fails: the snapshot is deleted between check and use, under another key (149) |
| `MaxLate = 1` in `volumes` | `NoDuplicateVolume` and `PublishedStaysAttached` fail: a late write holds no lock |
| no `EXPAND_VOLUME` in the `Checks` of `expansion` | `GrantedIsReal` fails: a late expansion shrinks the volume; with `MaxLate = 0` it holds, also where the lookup before the write fails (405) |

Also read in the code, with no run of their own: the handlers follow a nil snapshot that
`parseSnapshotResponse` gives without an error ("Return nil if snapshot ID is empty (not found)",
`client.go` 420) into a nil pointer (540, 610), so `NeverPanics` fails on a service that leaves ids out,
and a theorem says on no other; `CreateVolume` takes a `GET_SNAPSHOT` that is
empty (nil without an error) for an existing snapshot (106); a limit below the minimum size passes
the check of the range and is then exceeded (78 and 82), by the minimum and no more, as `CreatedAsAsked`
says with a call of that kind; `ControllerExpandVolume` does not know the
maximum size (421); the repeat of a `CreateVolume` from a snapshot is answered without the content
source (136), that of a `ControllerPublishVolume` with whatever device path `GET_VOLUME` shows, also
none (266); with more than 100 snapshots of a volume the list fallback misses some (495);
`CreateSnapshot` does not lock its source volume (469), although `utils.go` 15 says no two operations
run on one volume.  The model does all of this.

**Bounds.**  Two volumes show a duplicate and a move; two nodes a conflict; two handlers every
race of two calls and, in `volumes`, three handlers also a call between two others.  Sizes 2 to 6
around minimum 2, default 3 and maximum 5 have a value in each region the code distinguishes.
`MaxLate` 1 is one write that outlives its call.  Ids are never reused, so their number bounds
the length of a history; crashes and calls are not bounded.  A state is small, so TLC explores
each instance completely (6 to 290 thousand states).  No run excuses deadlock: some call can always arrive.

On the node, two volumes on one device path are what a stale path needs, two targets what sharing
needs, two handlers what a race needs; ext4 and xfs differ in how they are grown, and the calls to
expand in `node` are for the ext4 volume (with those for the other one the instance is twice as
large and passes too).  `MaxFaults` bounds failures, lost answers, timeouts, calls given up, crashes and
reboots together: one at any point of any history in `node` (570 thousand states) and in `node_retries`
(21 thousand).  `MaxSize` 2 lets a volume grow once after it was filled.  In `expansion`, sizes 3 and
4 after 2 are two edits or one; the process does not crash there, since a crash leaves behind only
writes that land late, which it has.  `MaxLines` 4 is the shortest file in which a section is
continued after another header; `MaxEnds` 1 gives a restart after an end at each step.

Handlers are interchangeable, which is the symmetry used for invariants; the runs of liveness use
none.

**Fairness.**  `FairSpec` asks weak fairness of the steps of each handler that serves a call: a
goroutine is scheduled, and no HTTP request outlasts the 30 seconds of the client
(`client.go` 17 and 34).  Nothing is asked of the arrival of calls, of crashes or of late writes.
The property needs no successful request: each of them may fail each time.

In `NodeServer`, beside that, kubelet repeats a call as long as it wants what the call does (strong
fairness of `Receive`, since a handler may be busy or a key taken in between), and the controller
attaches what is wanted and detaches the rest.  Faults are bounded, so retries meet no fault in the
end; nothing is asked of pods, which may come and go for ever, nor of late mounts.  In `Expansion` the
sidecars repeat a call until it is answered OK, late writes end, and nothing is asked of claims, pods
and reviews.  In `DriverStart`, kubelet restarts the container and a process runs.

**Defects.**  A definition marked "Defect" is a version of the one after it with a plausible bug
(a dropped check, the wrong key, a release too early).  No behaviour of the model uses it; replacing
the right definition by it must break the property it stands for, which shows that the property
can tell.

## What is proved

Of the controller service, for every number of handlers, every set of calls and of ids, and any
sizes with minimum <= default <= maximum (the named assumptions of `ControllerServer` and
`VCloudBackend`):

| theorem | says | assumes beyond that |
|---|---|---|
| `TypeCorrect` | `Spec => []TypeOK` | nothing |
| `LocksAgree` | `Spec => []LocksMatchHandlers` | nothing |
| `NamesUnique` | `Spec => []NoDuplicateVolume` | `GET_VOLUME` never fails nor lacks an id, `MaxLate = 0` |
| `ContractKept` | `Spec => ImplementsContract` | the same, answers show the capacity, and they show the node or the service checks `ATTACH_VOLUME` |
| `PublishedStays` | `Spec => []PublishedStaysAttached` | the service checks `DETACH_VOLUME`, answers show the node or it checks `ATTACH_VOLUME`, `ClientModes = {TRUE}`, `MaxLate = 0` |
| `DeletedIsGone` | `Spec => []AnsweredDeleteIsGone` | no echoed id reads "404" |
| `UnpublishedIsDetached` | `Spec => []AnsweredUnpublishIsDetached` | the same |
| `CreatedIsAsAsked` | `Spec => []CreatedAsAsked` | answers show the capacity |
| `RestoredAsTold` | `Spec => []RestoredFromSnapshot` | the service checks `CREATE_VOLUME`, or no call deletes a snapshot that another restores from (`SourcesKept`) |
| `SnapshotNamesUnique` | `Spec => []NoDuplicateSnapshot` | `GET_SNAPSHOT` never fails nor lacks an id, `MaxLate = 0` |
| `SnapshotsOfVolumeUnique` | `Spec /\ []PagesFit => []NoDuplicateSnapshotOfVolume` | `LIST_SNAPSHOTS` never fails, `MaxLate = 0`; `PagesFit`: a volume's snapshots fit on one page |
| `PanicsOnlyOnOmissions` | `Spec => []NeverPanics` | no answer lacks an id, no missing object is an empty answer |

Each of these assumptions is needed: with any one of them dropped, TLC finds a counterexample in the
instances of the runs (`duplicate_volume` and the changed constants listed above are some of them).  What
is not assumed was tried in the same way: the list fallback, for instance, also holds where the service
omits ids, since a nil entry ends the process before a snapshot is made.  `WriteFails`, lost answers,
crashes and restarts are in every theorem.

The argument.  `TypeInv` adds to `TypeOK` that a call being served has passed the argument checks
(`CallsChecked`), without which a message could carry an absent id.  `LockInv` is
`LocksMatchHandlers` key by key.  `StepShapes` reduces the fourteen steps of a handler to five
shapes: it moves on, replies after reading, replies after writing, times out, dies; all
invariance proofs go by these.

The contract needs more: a handler that is about to write must still be right about what it has
read.  `Justified(h)` says what that is for each RPC – no volume of the name, not attached
anywhere if the service shows nodes (if it does not, it must refuse to attach again: `AttachmentsSeen`),
smaller than asked for – and `WritesJustified` says it of every handler at its write.
It is inductive because another handler that writes has a different key (`KeysApart`, from
`LockInv`), hence another name or another volume (`OthersUndisturbed`).  This is where the code's
locking is used, and why `MaxLate = 0`: a late write holds no lock.  `WriteEffects` then says
what a write does to the volumes, and `VolumesChange` that only a justified write changes them;
`NamesUnique` and `ContractKept` follow from these two.

`PublishedInv` adds that no call being served undoes a publication the CO still relies on, since
the CO withdraws it when it makes the call, and a new publication has the key of the volume.
`DeletedIsGone` rests on `KnownInv`, the volume of a call was minted, so a service that does not
know it has had it deleted; no lock is needed, which is why it holds for late writes as well.

The other replies are taken apart once: a step that gives an OK is one that has found what was asked
for (`FoundVolume`, `FoundSnapshot`, `FoundNothing`) or one whose write was carried out
(`OKsAreReplies`, `WrittenOKs`).  `UnpublishedIsDetached` and `CreatedIsAsAsked` need of the store only
that a volume that is not there is on no node and that one that is there has a size (`StoreInv`; 0 is
how an answer without a capacity reads).  `RestoredAsTold` adds for a service without checks that a
snapshot no call deletes stays from the check on (`SourcesLive`): the handler's own check, made under
the key of the volume's name, is worth nothing there, and with the service's check it is not needed.

Snapshots have no `Justified` of their own, since the driver holds the key of the name from its first
lookup to its write.  `NamesUnused` says that a call which has come past `SnapshotGetsByName` works on
a name that is not taken, `SourcesUnused` the same of the snapshots of its volume past
`SnapshotLists`; both are inductive by `KeysApart`, the second over the finite list of one page
(`WholeList`).

Of the node service, for every number of handlers, volumes, targets, devices and faults, and any
calls whose path is one of their volume's (`RightPath`, which the mutual exclusion needs: the key is
`volume-path`, not the path):

| theorem | says | assumes beyond that |
|---|---|---|
| `NodeTypeCorrect` | `Spec => []NodeTypeOK` | nothing |
| `PathExclusive` | `Spec => []OneCallPerPath` | nothing |
| `PublishedShows` | `Spec => []PublishedShowsVolume` | `~MountsHang` |
| `UndoneIsUnmounted` | `Spec => []AnsweredUndoIsUnmounted` | `~MountsHang` |
| `DataIsSafe` | `Spec => []NoDataLost`: nothing deleted, nothing formatted over that `blkid` could read | `~MountsHang` |
| `NodeContractKept` | `Spec => ImplementsContract` | `~MountsHang` |
| `ExpandedIsFilled` | `Spec => []ExpandedFills` | `~MountsHang` |

`late_mount` is what happens to `UndoneIsUnmounted` with mounts that hang, and `DataIsSafe` and
`NodeContractKept` fail in the instance of `node` as well.  `PublishedShows` and `ExpandedIsFilled` need
two device paths and two volumes of one filesystem type to fail: a mount of the device path from before
lands on a staging path that is in use again.
`PathExclusive` needs neither: the key is held until the handler returns.

The argument.  `StepShapes` says of each step that the handler goes on with the same call or
returns; from it follow the types and, with `KeysHeld` and `KeysApart`, that `OneCallPerPath`.
`MountInv` is the inductive invariant behind the rest.  `PathInv(p)`: there is at most one mount on a
path, it shows the path's own volume, formatted, and attached at the device path the mount came
from, and it is known to the orchestrator (`open`); what is `told` is mounted.  `CallInv(h)`: what a
call being served rests on.  A call to publish rests on its volume being staged, which no call to
unstage may undo meanwhile; that call rests in turn on no target of its volume being open.  The two
exclude each other through the order in which kubelet calls, not through a lock, which is why
`NodePublishVolume` may check the staging path under another key (228).  A call to stage rests on its
device path: it cannot be given to another volume while the staging path is open.  And what a handler
saw in its last look (`~Mounted`, a blank device) is still so when it acts, since it alone works on
its path.  `StepKeepsOthers` and `StepKeepsPaths` say once for all steps that they disturb no other
call and no other path; then there is one lemma for each kind of step and its own path.
`DataInv` needs that a volume with data is formatted, and that a handler on its way to `mkfs` has a
blank device or one that `blkid` could not read (`unread`).  For the refinement, `PathChanges` lists the
four kinds of steps that change a path, each of which is a step of the contract.
`ExpandInv` adds for a call to `NodeExpandVolume`, which has no key, that its target stays `told` as long as
its caller waits.  A handler whose call was given up may find another volume behind its device path, and
resize that one: it fills what is there, so no answer about that volume becomes untrue.

Of the webhook in `Expansion`, for every number of claims, volumes, nodes and reviews, whatever the
controller, its service and the sidecars do:

| theorem | says | assumes beyond that |
|---|---|---|
| `AttachedMayGrow` | `SpecExpansion => []AttachedIsAllowed`: whatever the driver's name | nothing |
| `PassingHasAReason` | `SpecExpansion => []PassedForAReason`: another driver's volume is one of the reasons | nothing |
| `GrantedStaysReal` | `SpecExpansion => []GrantedIsReal` | answers show the capacity; the service checks `EXPAND_VOLUME`, or `MaxLate = 0` |

`WebhookInv` says that a review that is about to look at the attachments has seen a volume that is
attached and has not seen detached one that was attached all along, and that only volumes of bound
claims have attachments (so an unbound claim is rightly refused at once).

`GrantedStaysReal` says that no volume shrinks below what its claim was told (`GrantedInv`).  A service
that checks refuses that.  Without the check it is the order of the writes that counts: a claim only
grows (the API server), the resizer asks for the size the claim has, and so a call that is being served
asks for no less than the volume has and no more than the claim (`ClaimInv`, `ExpandsUp`).  A write that
lands late may be smaller than a later one, and TLC shows the volume shrink.  No lookup need be reliable
here: `ControllerExpandVolume` writes also when it cannot see the size, but what it then writes is no
less than the volume has.

**Model-checked only**: `LoadedAsWritten`, which is an induction over the lines of the file (what the
fold in `parseINIFile` computes) and so out of the prover's reach; and everything that must happen in the
end, for liveness under fairness is out of it as well: `LocksAreReleased`, `WantedIsMounted`,
`UnwantedIsGone`, `AdmittedIsExpanded`, `ServesAgain`.  Every invariant and every refinement that a
passing run checks is also a theorem; `NeverPanics` is a theorem without a run.

## Not modelled, and why

* Identity service and `ControllerGetCapabilities`, `NodeGetInfo`, `NodeGetCapabilities`: constants.
* `NodeGetVolumeStats`: it reads the filesystem and changes nothing.
* Flags other than the configuration and the endpoint, TLS and HTTP of the webhook, logging: text
  and I/O.  `Stop`, `ForceStop`, `MountWithRetry`, `WaitForPathNotExist`, `CleanupPath` and the
  rounding of sizes have no caller in the driver.
* Manifests: data.
* A content source without a snapshot id, volumes cloned from volumes: the driver passes over them.

## Plan

1. Done: lock table, client, service, controller, contract; node service over its host, with
   its contract; webhook, composed with the controller; start; the theorems above.
2. `VolumeLifecycle`: the CO's retries over controller and node, the device path handed from one
   to the other; with fairness of answers, a retried call ends in success.
3. Theorems about the start: what `serve` leaves of the socket, that no client is made of half of the
   credentials; and consequences of the two contracts, proved of them alone.
