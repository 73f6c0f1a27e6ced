----------------------------- MODULE Expansion -----------------------------
(***************************************************************************)
(* A claim grows: the webhook, the controller service, and between them    *)
(* the Kubernetes sidecars.  The attacher turns VolumeAttachment objects   *)
(* into calls to publish and unpublish, and writes their answers back; the *)
(* resizer calls ControllerExpandVolume until it is told a size as large   *)
(* as the claim.  The webhook reads the objects, the controller the        *)
(* service, so the two need not agree.                                     *)
(*                                                                         *)
(* The process does not crash here: all a crash leaves behind are writes   *)
(* that land late, which this module has.                                  *)
(***************************************************************************)
EXTENDS ControllerServer

CONSTANTS Sizes, Driver, Reviewers, FlakyLookups

VARIABLES claim, attachments, review,
          granted      \* the size each claim was told to have (its status)

ASSUME ExpansionAssumption == Sizes \subseteq Nat \ {0}

expansion == <<claim, attachments, review, granted>>
everything == <<vars, expansion>>

W == INSTANCE ExpandWebhook WITH Claims <- VolumeIds

Object(v, n, attached, leaving) ==
  [volume |-> v, node |-> n, attached |-> attached, leaving |-> leaving]

\* The attacher and the resizer make the calls that the objects ask for.
Asked(r) ==
  CASE r.op = "ControllerPublishVolume" ->
         Object(r.volume, r.node, FALSE, FALSE) \in attachments
    [] r.op = "ControllerUnpublishVolume" ->
         \E b \in BOOLEAN : Object(r.volume, r.node, b, TRUE) \in attachments
    [] r.op = "ControllerExpandVolume" ->
         r.required = claim[r.volume] /\ r.required > granted[r.volume]
    [] OTHER -> TRUE

SidecarCalls(h, r) ==
  Asked(r) /\ (Reject(h, r) \/ Accept(h, r)) /\ UNCHANGED expansion

\* They write down what an OK answer tells.
Recorded(a) ==
  LET v == a.to.volume
      done == a.code = "OK"
      at == {o \in attachments : o.volume = v /\ o.node = a.to.node}
  IN /\ attachments' =
          CASE done /\ a.to.op = "ControllerPublishVolume" ->
                 (attachments \ at) \cup {[o EXCEPT !.attached = TRUE] : o \in at}
            [] done /\ a.to.op = "ControllerUnpublishVolume" ->
                 attachments \ {o \in at : o.leaving}
            [] OTHER -> attachments
     /\ claim' = IF done /\ a.to.op = "CreateVolume"
                 THEN [claim EXCEPT ![a.id] = IF @ = 0 THEN a.capacity ELSE @]
                 ELSE claim
     /\ granted' = CASE done /\ a.to.op = "CreateVolume" ->
                          [granted EXCEPT ![a.id] = IF @ = 0 THEN a.capacity ELSE @]
                     [] done /\ a.to.op = "ControllerExpandVolume" ->
                          [granted EXCEPT ![v] = a.capacity]
                     [] OTHER -> granted

Serves(h) == /\ Step(h) /\ Recorded(answer')
             /\ review' = W!Witnessed(attachments')

\* A pod that uses the volume comes to a node, or leaves it.
PodComes(v, n) ==
  /\ claim[v] > 0 /\ \A o \in attachments : o.volume # v
  /\ attachments' = attachments \cup {Object(v, n, FALSE, FALSE)}
  /\ review' = W!Witnessed(attachments')
  /\ UNCHANGED <<vars, claim, granted>>

PodLeaves(o) ==
  /\ ~o.leaving
  /\ attachments' = (attachments \ {o}) \cup {[o EXCEPT !.leaving = TRUE]}
  /\ UNCHANGED <<vars, claim, review, granted>>

InitExpansion == Init /\ W!WebhookInit /\ granted = [v \in VolumeIds |-> 0]

NextExpansion ==
  \/ \E h \in Handlers : Serves(h) \/ \E r \in Requests : SidecarCalls(h, r)
  \/ \E l \in late : Land(l) /\ UNCHANGED expansion
  \/ \E v \in VolumeIds, n \in Nodes : PodComes(v, n)
  \/ \E o \in attachments : PodLeaves(o)
  \/ W!WebhookNext /\ UNCHANGED <<vars, granted>>

SpecExpansion == InitExpansion /\ [][NextExpansion]_everything

\* Handlers run, late writes end, and a sidecar repeats a call until it is
\* answered OK.
FairExpansion ==
  /\ SpecExpansion
  /\ \A h \in Handlers : WF_everything(Serves(h))
  /\ WF_everything(\E l \in late : Land(l) /\ UNCHANGED expansion)
  /\ \A r \in Requests :
       SF_everything(\E h \in Handlers : Asked(r) /\ Accept(h, r) /\ UNCHANGED expansion)

-----------------------------------------------------------------------------
\* A size that ControllerExpandVolume has answered is there: the volume has
\* at least the size its claim was told.  With writes that land late this
\* takes a service that refuses to shrink a volume.
GrantedIsReal == \A v \in VolumeIds : granted[v] > 0 => vols[v].size >= granted[v]

\* An edit that was admitted is carried out in the end, if its volume stays
\* attached: the resizer's retries are answered OK only once it is.
AdmittedIsExpanded ==
  \A v \in VolumeIds :
    <>[](vols[v].node # None) => <>[](vols[v].size >= claim[v])

\* The webhook's properties, under the attacher's changes of the objects.
AttachedIsAllowed == W!AttachedIsAllowed
PassedForAReason == W!PassedForAReason
DetachedIsRefused == W!DetachedIsRefused
=============================================================================
