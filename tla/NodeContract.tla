---------------------------- MODULE NodeContract ----------------------------
(***************************************************************************)
(* What the node service promises about mounts: at each path the volume    *)
(* that belongs there or nothing, at a target only what is staged, and a   *)
(* volume leaves the node only when no path shows it.                      *)
(***************************************************************************)
CONSTANTS Volumes, Targets, VolumeAt, None

VARIABLES staged,     \* volumes that their staging path shows
          shown,      \* what each target path shows
          attached    \* volumes the node has a device for

contract == <<staged, shown, attached>>

Unpublished(v) == \A t \in Targets : shown[t] # v

Attach(v) == attached' = attached \cup {v} /\ UNCHANGED <<staged, shown>>
Stage(v) == v \in attached /\ staged' = staged \cup {v} /\ UNCHANGED <<shown, attached>>
Publish(t) == /\ VolumeAt[t] \in staged /\ shown[t] = None
              /\ shown' = [shown EXCEPT ![t] = VolumeAt[t]]
              /\ UNCHANGED <<staged, attached>>
Unpublish(t) == shown' = [shown EXCEPT ![t] = None] /\ UNCHANGED <<staged, attached>>
Unstage(v) == /\ Unpublished(v) /\ staged' = staged \ {v}
              /\ UNCHANGED <<shown, attached>>
Detach(v) == /\ v \notin staged /\ Unpublished(v) /\ attached' = attached \ {v}
             /\ UNCHANGED <<staged, shown>>
Reboot == /\ staged' = {} /\ shown' = [t \in Targets |-> None]
          /\ UNCHANGED attached

Init == staged = {} /\ shown = [t \in Targets |-> None] /\ attached = {}
Next == \/ \E v \in Volumes : Attach(v) \/ Stage(v) \/ Unstage(v) \/ Detach(v)
        \/ \E t \in Targets : Publish(t) \/ Unpublish(t)
        \/ Reboot

Spec == Init /\ [][Next]_contract
=============================================================================
