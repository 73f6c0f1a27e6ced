---------------------------- MODULE MCController ----------------------------
(***************************************************************************)
(* Values of the constants of ControllerServer for TLC.  Sizes are in      *)
(* units in which the minimum is 2, the default 3 and the maximum 5.       *)
(***************************************************************************)
EXTENDS ControllerProperties, TLC

CONSTANTS n1, n2, v1, v2, s1, s2, na, nb

Call(op) == [NoRequest EXCEPT !.op = op, !.cap = "mount"]

Create(n, size) == [Call("CreateVolume") EXCEPT !.name = n, !.required = size]
Restore(n, s) == [Call("CreateVolume") EXCEPT !.name = n, !.snapshot = s]
Delete(v) == [Call("DeleteVolume") EXCEPT !.volume = v]
Publish(v, n) == [Call("ControllerPublishVolume") EXCEPT !.volume = v, !.node = n]
Unpublish(v, n) == [Call("ControllerUnpublishVolume") EXCEPT !.volume = v, !.node = n]
Expand(v, size) == [Call("ControllerExpandVolume") EXCEPT !.volume = v, !.required = size]
Validate(v) == [Call("ValidateVolumeCapabilities") EXCEPT !.volume = v]
Snapshot(n, v) == [Call("CreateSnapshot") EXCEPT !.name = n, !.volume = v]
Drop(s) == [Call("DeleteSnapshot") EXCEPT !.snapshot = s]
List(s, v) == [Call("ListSnapshots") EXCEPT !.snapshot = s, !.volume = v]

\* The life of volumes: made, attached to either node, grown, deleted.
VolumeCalls ==
  {Create(n1, 0), Publish(v1, na), Publish(v1, nb), Unpublish(v1, na),
   Unpublish(v1, None), Expand(v1, 4), Expand(v1, 5), Delete(v1),
   Publish(v2, na), Delete(v2)}

\* The life of snapshots of two volumes, one of which comes and goes.
SnapshotCalls ==
  {Create(n1, 0), Create(n2, 0), Delete(v1), Publish(v1, na), Unpublish(v1, na),
   Snapshot(n2, v1), Snapshot(n2, v2), Drop(s1), List(None, v1)}

\* A volume and its snapshot, and a volume of the same name restored from it.
MixedCalls ==
  {[Create(n1, 4) EXCEPT !.limit = 4], [Create(n1, 1) EXCEPT !.limit = 1], Restore(n1, s1),
   Delete(v1), Publish(v1, na), Publish(v1, None), Unpublish(v1, na),
   Snapshot(n2, v1), Drop(s1)}

\* A call of every kind, and of each way it is refused.
LiveCalls ==
  {Create(n1, 4), Create(n1, 6), Restore(n1, s1), Delete(v1), Publish(v1, na),
   Unpublish(v1, na), Expand(v1, 5), Snapshot(n2, v1), Drop(s1), List(s1, None),
   List(None, v1), Validate(v1), [Create(n1, 4) EXCEPT !.cap = "block"],
   [Validate(v1) EXCEPT !.cap = "block"]}

Writes == {"CREATE_VOLUME", "DELETE_VOLUME", "ATTACH_VOLUME", "DETACH_VOLUME",
           "EXPAND_VOLUME", "CREATE_SNAPSHOT", "DELETE_SNAPSHOT"}
Reads == {"GET_VOLUME", "GET_SNAPSHOT", "LIST_SNAPSHOTS"}
Everything == Writes \cup Reads
WritesAndSnapshotLookups == Writes \cup {"GET_SNAPSHOT"}
WritesAndSnapshotLists == Writes \cup {"LIST_SNAPSHOTS"}

\* Handlers are interchangeable: nothing tells one from another.
Symmetry == Permutations(Handlers)
=============================================================================
