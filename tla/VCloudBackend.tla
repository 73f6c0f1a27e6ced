--------------------------- MODULE VCloudBackend ---------------------------
(***************************************************************************)
(* The vCloud storage service behind the HTTP API.  It is not in this      *)
(* repository: what it does with each request is modelled from what        *)
(* pkg/vcloud/client sends and from the answers pkg/vcloud/controllerserver*)
(* expects.  Ids are minted by the service and never reused.               *)
(*                                                                         *)
(* Which sanity checks the service makes by itself is a parameter: Checks  *)
(* holds the requests it refuses when they make no sense.  With Checks     *)
(* empty it does as it is told, and every guarantee that is left comes     *)
(* from the driver's own code.                                             *)
(***************************************************************************)
EXTENDS Integers, FiniteSets

CONSTANTS Names,        \* names of volumes and of snapshots
          VolumeIds,    \* ids the service can mint for volumes
          SnapshotIds,  \* ids the service can mint for snapshots
          Nodes,        \* node ids
          None,         \* an absent string
          Checks        \* the requests the service checks by itself

VARIABLES vols,         \* the volumes, by id
          snaps         \* the snapshots, by id

store == <<vols, snaps>>

\* The requests that change something.
Performs == {"CREATE_VOLUME", "DELETE_VOLUME", "ATTACH_VOLUME", "DETACH_VOLUME",
             "EXPAND_VOLUME", "CREATE_SNAPSHOT", "DELETE_SNAPSHOT"}

ASSUME PerformsAssumption == None \notin Performs

Statuses == {"free", "live", "gone"}

NoVolume == [st |-> "free", name |-> None, size |-> 0, node |-> None,
             data |-> None]
NoSnapshot == [st |-> "free", name |-> None, source |-> None]

\* A request on the wire, with the union of the fields of VolumeRequest and
\* SnapshotRequest; "volume" is volumeID or sourceVolumeID.
NoMessage == [perform |-> None, name |-> None, volume |-> None,
              node |-> None, snapshot |-> None, size |-> 0]

Live(v) == v \in VolumeIds /\ vols[v].st = "live"
LiveSnapshot(s) == s \in SnapshotIds /\ snaps[s].st = "live"
Named(n) == {v \in VolumeIds : Live(v) /\ vols[v].name = n}
SnapshotsNamed(n) == {s \in SnapshotIds : LiveSnapshot(s) /\ snaps[s].name = n}
SnapshotsOf(v) == {s \in SnapshotIds : LiveSnapshot(s) /\ snaps[s].source = v}

StoreInit == /\ vols = [v \in VolumeIds |-> NoVolume]
             /\ snaps = [s \in SnapshotIds |-> NoSnapshot]

-----------------------------------------------------------------------------
\* Why the service refuses a request, as the marks the driver looks for in
\* the text of an error (see VCloudClient); a request it accepts has no reason.
\* "busy" and "bad" are reasons the driver does not look for.
Reasons(m) ==
  LET checked == m.perform \in Checks
      attached == Live(m.volume) /\ vols[m.volume].node # None
      missing == IF Live(m.volume) THEN {} ELSE {"404"}
      when(cond, mark) == IF cond THEN {mark} ELSE {}
  IN CASE m.perform = "CREATE_VOLUME" ->
            when(checked /\ Named(m.name) # {}, "409")
            \cup when(/\ checked
                      /\ m.snapshot # None
                      /\ ~LiveSnapshot(m.snapshot), "404")
       [] m.perform = "DELETE_VOLUME" ->
            missing \cup when(checked /\ attached, "busy")
       [] m.perform = "ATTACH_VOLUME" ->
            missing \cup when(checked /\ attached, "busy")
       [] m.perform = "DETACH_VOLUME" ->
            missing \cup when(/\ checked
                              /\ m.node # None
                              /\ Live(m.volume)
                              /\ vols[m.volume].node # m.node, "404")
       [] m.perform = "EXPAND_VOLUME" ->
            missing
            \cup when(Live(m.volume) /\ ~attached, "CannotExpandUnattachedVolume")
            \cup when(checked /\ attached /\ m.size < vols[m.volume].size, "bad")
       [] m.perform = "CREATE_SNAPSHOT" ->
            missing
            \cup when(attached, "VolumeInUse")
            \cup when(checked /\ SnapshotsNamed(m.name) # {}, "409")
       [] m.perform = "DELETE_SNAPSHOT" ->
            when(~LiveSnapshot(m.snapshot), "404")
       [] OTHER -> {"bad"}

\* The service carries out request m; an id is minted for what m creates.
Minted(m, v) ==
  /\ m.perform = "CREATE_VOLUME"
  /\ vols[v].st = "free"
  /\ vols' = [vols EXCEPT ![v] =
                [st |-> "live", name |-> m.name, size |-> m.size, node |-> None,
                 data |-> IF LiveSnapshot(m.snapshot) THEN m.snapshot ELSE None]]
  /\ UNCHANGED snaps

Snapped(m, s) ==
  /\ m.perform = "CREATE_SNAPSHOT"
  /\ snaps[s].st = "free"
  /\ snaps' = [snaps EXCEPT ![s] =
                 [st |-> "live", name |-> m.name, source |-> m.volume]]
  /\ UNCHANGED vols

Changed(m) ==
  \/ /\ m.perform = "DELETE_VOLUME"
     /\ vols' = [vols EXCEPT ![m.volume].st = "gone", ![m.volume].node = None]
     /\ UNCHANGED snaps
  \/ /\ m.perform = "ATTACH_VOLUME"
     /\ vols' = [vols EXCEPT ![m.volume].node = m.node]
     /\ UNCHANGED snaps
  \/ /\ m.perform = "DETACH_VOLUME"
     /\ vols' = [vols EXCEPT ![m.volume].node = None]
     /\ UNCHANGED snaps
  \/ /\ m.perform = "EXPAND_VOLUME"
     /\ vols' = [vols EXCEPT ![m.volume].size = m.size]
     /\ UNCHANGED snaps
  \/ /\ m.perform = "DELETE_SNAPSHOT"
     /\ snaps' = [snaps EXCEPT ![m.snapshot].st = "gone"]
     /\ UNCHANGED vols

\* Every id has been minted: the quota of the service is used up.
Exhausted(m) ==
  \/ m.perform = "CREATE_VOLUME" /\ \A v \in VolumeIds : vols[v].st # "free"
  \/ m.perform = "CREATE_SNAPSHOT" /\ \A s \in SnapshotIds : snaps[s].st # "free"

Refused(m) == Reasons(m) # {} \/ Exhausted(m)

\* Request m is carried out and names the object "id" in its answer.
Performed(m, id) ==
  /\ ~Refused(m)
  /\ \/ id \in VolumeIds /\ Minted(m, id)
     \/ id \in SnapshotIds /\ Snapped(m, id)
     \/ id = None /\ Changed(m)
=============================================================================
