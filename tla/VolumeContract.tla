--------------------------- MODULE VolumeContract ---------------------------
(***************************************************************************)
(* What the driver promises about volumes, whatever calls run side by      *)
(* side: a name has at most one volume, a volume is attached to at most    *)
(* one node and moves to another only by way of being detached, it never   *)
(* shrinks and only grows while attached, and what is removed stays so.    *)
(* The abstract specification that ControllerServer implements.            *)
(***************************************************************************)
EXTENDS Integers

CONSTANTS VolumeIds, Names, Nodes, None, MinVolumeSize, MaxVolumeSize

VARIABLE disks     \* the volumes, by id

Absent == [st |-> "free", name |-> None, size |-> 0, node |-> None]

IsLive(v) == disks[v].st = "live"

Init == disks = [v \in VolumeIds |-> Absent]

Provision(v, n, size) ==
  /\ disks[v].st = "free"
  /\ \A w \in VolumeIds : IsLive(w) => disks[w].name # n
  /\ size \in MinVolumeSize..MaxVolumeSize
  /\ disks' = [disks EXCEPT ![v] =
                 [st |-> "live", name |-> n, size |-> size, node |-> None]]

Attach(v, n) ==
  /\ IsLive(v)
  /\ disks[v].node = None
  /\ disks' = [disks EXCEPT ![v].node = n]

Detach(v) ==
  /\ IsLive(v)
  /\ disks' = [disks EXCEPT ![v].node = None]

Grow(v, size) ==
  /\ IsLive(v)
  /\ disks[v].node # None
  /\ size \in Nat /\ size > disks[v].size
  /\ disks' = [disks EXCEPT ![v].size = size]

Remove(v) ==
  /\ IsLive(v)
  /\ disks' = [disks EXCEPT ![v] = [st |-> "gone", name |-> disks[v].name,
                                    size |-> disks[v].size, node |-> None]]

Next == \E v \in VolumeIds :
          \/ \E n \in Names, size \in MinVolumeSize..MaxVolumeSize : Provision(v, n, size)
          \/ \E n \in Nodes : Attach(v, n)
          \/ Detach(v)
          \/ \E size \in {disks'[v].size} : Grow(v, size)
          \/ Remove(v)

Spec == Init /\ [][Next]_disks
=============================================================================
