---------------------------- MODULE VCloudClient ----------------------------
(***************************************************************************)
(* The HTTP client of pkg/vcloud/client.  A method that reads is the set   *)
(* of results it can hand to its caller in the present state of the        *)
(* service; a method that writes is the message it sends, with Answers for *)
(* what its caller then gets.                                              *)
(*                                                                         *)
(* An error is known to its callers only by its text, which they search    *)
(* for substrings.  It is modelled by the set of those substrings that     *)
(* occur in it: "404" stands for the three spellings IsNotFoundError looks *)
(* for and "409" for the three of IsAlreadyExistsError.                    *)
(***************************************************************************)
EXTENDS VCloudBackend

CONSTANTS
  Flaky,     \* the requests that may fail on the way there or back
  Omits,     \* what an answer may lack: "id", "nodeId", "devicePath",
             \* "capacity" (the rest it has); with "404" in it, a missing
             \* object is an empty 200, never a 404
  EchoMarks, \* marks that occur in the id an error text of the service echoes
  PageSize   \* entries on a page of LIST_SNAPSHOTS

\* The two results of a Go method, a pointer and an error: an object, nil
\* without an error, an error.
Ok(x) == [ok |-> TRUE, nil |-> FALSE, marks |-> {}, found |-> x]
Nil == [ok |-> TRUE, nil |-> TRUE, marks |-> {}, found |-> None]
Err(marks) == [ok |-> FALSE, nil |-> TRUE, marks |-> marks, found |-> None]

\* Defect, which a run must notice: any error counts as not found.
IsAnyError(res) == ~res.ok

IsNotFoundError(res) == ~res.ok /\ "404" \in res.marks
IsAlreadyExistsError(res) == ~res.ok /\ "409" \in res.marks

-----------------------------------------------------------------------------
\* doRequest: the service was not reached or answered with another status
\* than 200, and nothing was done.  The text is the transport's own or carries
\* the body the service sent.
Failures(perform) ==
  IF perform \notin Flaky THEN {}
  ELSE {Err({}), Err(EchoMarks)}
       \cup (IF perform = "CREATE_SNAPSHOT" THEN {Err({"VolumeNotReady"})} ELSE {})

\* doRequest: the service did it but its answer was lost, cut or not a 200.
LostAnswers(perform) == IF perform \in Flaky THEN {Err({})} ELSE {}

\* The error of a request the service refused: its reasons, and the id echoed.
RefusalAnswer(m) == Err(Reasons(m) \cup EchoMarks)

-----------------------------------------------------------------------------
\* A field of an answer as it is parsed: absent, it is Go's zero value.
Shown(field, value, zero) ==
  {value} \cup (IF field \in Omits THEN {zero} ELSE {})

\* parseVolumeResponse: a volume as an answer with an id shows it.
Parsed(v) ==
  {[id |-> v, size |-> s, node |-> n, device |-> d] :
     s \in Shown("capacity", vols[v].size, 0),
     n \in Shown("nodeId", vols[v].node, None),
     d \in IF vols[v].node = None THEN {None} ELSE Shown("devicePath", "path", None)}

\* GetVolume: an answer without an id, whether it is empty or not, is turned
\* into a "not found" error.
GetVolume(v) ==
  (IF Live(v) THEN {Ok(x) : x \in Parsed(v)} ELSE {})
  \cup (IF ~Live(v) \/ "id" \in Omits THEN {Err({"404"})} ELSE {})
  \cup Failures("GET_VOLUME")

\* A lookup by name: "found" in the answer, unless that has no id; an answer
\* without an id is nil without an error.
LookedUp(found) ==
  IF found # {}
  THEN {Ok(x) : x \in found} \cup (IF "id" \in Omits THEN {Nil} ELSE {})
  ELSE IF "404" \in Omits THEN {Nil} ELSE {Err({"404"})}

\* GetVolumeByName: it makes nil of an answer without an id.
GetVolumeByName(n) ==
  LookedUp(UNION {Parsed(v) : v \in Named(n)}) \cup Failures("GET_VOLUME")

\* GetSnapshot and GetSnapshotByName: parseSnapshotResponse makes nil of an
\* answer without an id, and neither method looks at that.
SnapshotLookup(candidates) == LookedUp(candidates) \cup Failures("GET_SNAPSHOT")

GetSnapshot(s) == SnapshotLookup(IF LiveSnapshot(s) THEN {s} ELSE {})
GetSnapshotByName(n) == SnapshotLookup(SnapshotsNamed(n))

\* ListSnapshots: one page of the snapshots of a volume, or of all of them; an
\* entry without an id is nil in the page, here None.
ListSnapshots(v) ==
  LET all == IF v = None THEN {s \in SnapshotIds : LiveSnapshot(s)}
             ELSE SnapshotsOf(v)
      page == IF Cardinality(all) <= PageSize THEN Cardinality(all) ELSE PageSize
      pages == {S \in SUBSET all : Cardinality(S) = page}
      nilled == UNION {{(S \ {s}) \cup {None} : s \in S} : S \in pages}
  IN {Ok(S) : S \in pages \cup (IF "id" \in Omits THEN nilled ELSE {})}
     \cup Failures("LIST_SNAPSHOTS")

-----------------------------------------------------------------------------
CreateVolume(name, size, snapshot) ==
  [NoMessage EXCEPT !.perform = "CREATE_VOLUME", !.name = name,
                    !.size = size, !.snapshot = snapshot]
DeleteVolume(v) ==
  [NoMessage EXCEPT !.perform = "DELETE_VOLUME", !.volume = v]
AttachVolume(v, n) ==
  [NoMessage EXCEPT !.perform = "ATTACH_VOLUME", !.volume = v, !.node = n]
DetachVolume(v, n) ==
  [NoMessage EXCEPT !.perform = "DETACH_VOLUME", !.volume = v, !.node = n]
ExpandVolume(v, size) ==
  [NoMessage EXCEPT !.perform = "EXPAND_VOLUME", !.volume = v, !.size = size]
CreateSnapshot(name, v) ==
  [NoMessage EXCEPT !.perform = "CREATE_SNAPSHOT", !.name = name, !.volume = v]
DeleteSnapshot(s) ==
  [NoMessage EXCEPT !.perform = "DELETE_SNAPSHOT", !.snapshot = s]

\* What the caller of a writing method gets once the service has carried the
\* request out: a volume without an id or an attachment without a device path
\* is an error, a snapshot without an id is nil without an error.
Answers(m, id) ==
  {Ok(id)}
  \cup (IF m.perform = "CREATE_VOLUME" /\ "id" \in Omits THEN {Err({})} ELSE {})
  \cup (IF m.perform = "ATTACH_VOLUME" /\ "devicePath" \in Omits
        THEN {Err({})} ELSE {})
  \cup (IF m.perform = "CREATE_SNAPSHOT" /\ "id" \in Omits THEN {Nil} ELSE {})
  \cup LostAnswers(m.perform)
=============================================================================
