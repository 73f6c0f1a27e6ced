------------------------------- MODULE MCNode -------------------------------
(***************************************************************************)
(* Instances of NodeProperties for TLC.                                    *)
(***************************************************************************)
EXTENDS NodeProperties, TLC

CONSTANTS v1, v2, t1, t2, t3, d1, h1, h2

OneEach == t1 :> v1 @@ t2 :> v2
Shared == t1 :> v1 @@ t3 :> v1
HandlerSymmetry == Permutations({h1, h2})

FsOfVolume(v) == IF v = v1 THEN "ext4" ELSE "xfs"
Call(op, v, p, d, fs) == [op |-> op, volume |-> v, path |-> p, device |-> d, fs |-> fs]

StagingCalls(v) ==
  {Call("stage", v, Staging(v), d, FsOfVolume(v)) : d \in Devices}
  \cup {Call("unstage", v, Staging(v), None, None)}
TargetCalls(t) ==
  {Call("publish", VolumeAt[t], t, None, FsOfVolume(VolumeAt[t])),
   Call("unpublish", VolumeAt[t], t, None, None)}
ExpandCalls == {Call("expand", v1, t1, None, None)}

\* Calls that the argument checks refuse, here or there.
BadCalls ==
  {Call("stage", v1, None, d1, "ext4"), Call("stage", v1, Staging(v1), None, "ext4"),
   Call("stage", v1, Staging(v1), d1, "block"), Call("publish", None, t1, None, "ext4")}

MountCalls == UNION {StagingCalls(v) : v \in Volumes} \cup UNION {TargetCalls(t) : t \in Targets}
AllCalls == MountCalls \cup ExpandCalls \cup BadCalls
=============================================================================
