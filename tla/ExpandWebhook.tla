--------------------------- MODULE ExpandWebhook ---------------------------
(***************************************************************************)
(* The admission webhook of cmd/pvc-expand-webhook/main.go: whether a claim*)
(* may ask for more storage.  It keeps no state; a review is a few lookups *)
(* at the API server, during which attachments come and go.                *)
(***************************************************************************)
EXTENDS Integers

CONSTANTS
  Claims,        \* the claims, each named like the volume it is bound to
  Sizes,         \* sizes an edit may ask for
  Driver,        \* the name in the volumes' spec.csi.driver
  Reviewers,     \* reviews that may go on at once
  FlakyLookups,  \* lookups that may fail: "pv", "list", "each"
  None

VARIABLES
  claim,         \* the size each claim asks for, 0 if it is not bound
  attachments,   \* the VolumeAttachment objects
  review         \* what each reviewer is at

webhook == <<claim, attachments, review>>

\* held and seen: the volume has been attached all the time, at some time,
\* since the review began; failed: the lookup that has failed.
NoReview == [claim |-> None, size |-> 0, old |-> 0, at |-> "idle", failed |-> "none",
             held |-> FALSE, seen |-> FALSE]

AttachedIn(objects, c) == \E a \in objects : a.volume = c /\ a.attached

\* What the reviews notice of a change of the attachments.
Witnessed(objects) ==
  [w \in Reviewers |->
     [review[w] EXCEPT !.held = @ /\ AttachedIn(objects, review[w].claim),
                       !.seen = @ \/ AttachedIn(objects, review[w].claim)]]

At(w, step) == review[w].at = step
Decides(w, attached, failed) ==
  review' = [review EXCEPT ![w].at = IF attached THEN "allowed" ELSE "refused",
                           ![w].failed = failed]

-----------------------------------------------------------------------------
\* The volume is another driver's.
Foreign == Driver # "vcloud.csi.vnetwork.dev"

\* validate, up to the list of the attachments: an edit that asks for more is
\* refused when the claim is not bound, and let pass for another driver's
\* volume or when the volume, which does not change, cannot be looked up.
Review(w, c, size) ==
  /\ At(w, "idle") /\ size > claim[c]
  /\ \E step \in {"list", "allowed", "refused"}, failed \in {"none", "pv"} :
       /\ CASE claim[c] = 0 -> step = "refused" /\ failed = "none"
            [] claim[c] > 0 /\ failed = "pv" -> step = "allowed" /\ "pv" \in FlakyLookups
            [] OTHER -> step = IF Foreign THEN "allowed" ELSE "list"
       /\ review' = [review EXCEPT ![w] =
            [claim |-> c, size |-> size, old |-> claim[c], at |-> step, failed |-> failed,
             held |-> AttachedIn(attachments, c), seen |-> AttachedIn(attachments, c)]]
  /\ UNCHANGED <<claim, attachments>>

\* Defect: an attachment that is not in effect yet counts as well.
AttachedOrNot(w) ==
  /\ At(w, "list")
  /\ Decides(w, \E a \in attachments : a.volume = review[w].claim, "none")
  /\ UNCHANGED <<claim, attachments>>

\* Defect: an attachment that is to go does not count.
AttachedToStay(w) ==
  /\ At(w, "list")
  /\ Decides(w, AttachedIn({a \in attachments : ~a.leaving}, review[w].claim), "none")
  /\ UNCHANGED <<claim, attachments>>

\* isVolumeAttached: the attachments that are listed are looked up one by one
\* for their volume, which does not change either; one that cannot be looked
\* up is passed over.  When there is no list the edit passes.
isVolumeAttached(w) ==
  /\ At(w, "list")
  /\ \/ Decides(w, AttachedIn(attachments, review[w].claim), "none")
     \/ "list" \in FlakyLookups /\ Decides(w, TRUE, "list")
     \/ /\ "each" \in FlakyLookups
        /\ \E readable \in SUBSET attachments \ {attachments} :
             Decides(w, AttachedIn(readable, review[w].claim), "each")
  /\ UNCHANGED <<claim, attachments>>

-----------------------------------------------------------------------------
\* The API server stores an edit that is allowed, unless the claim has been
\* edited since.
Stores(w) ==
  LET r == review[w] IN
  /\ r.at \in {"allowed", "refused"}
  /\ claim' = IF r.at = "allowed" /\ claim[r.claim] = r.old
              THEN [claim EXCEPT ![r.claim] = r.size] ELSE claim
  /\ review' = [review EXCEPT ![w] = NoReview]
  /\ UNCHANGED attachments

WebhookInit == /\ claim = [c \in Claims |-> 0]
               /\ attachments = {}
               /\ review = [w \in Reviewers |-> NoReview]

WebhookNext == \E w \in Reviewers : \/ \E c \in Claims, size \in Sizes : Review(w, c, size)
                                    \/ isVolumeAttached(w) \/ Stores(w)

-----------------------------------------------------------------------------
\* A claim on a volume that has been attached throughout the review may grow,
\* even while the attachment is being taken away.  Of the lookups that may
\* fail, only that of the volume of an attachment, which is passed over, can
\* get such an edit refused.
AttachedIsAllowed ==
  \A w \in Reviewers : At(w, "refused") /\ review[w].held => review[w].failed = "each"

\* A claim on a volume of the driver the webhook knows, which has not been
\* attached at any time of the review, may grow only where there was no
\* looking it up; an attachment that is passed over is no such reason.
PassedForAReason ==
  \A w \in Reviewers :
    At(w, "allowed") => review[w].seen \/ review[w].failed \in {"pv", "list"} \/ Foreign

\* README.md 469-471, of this driver's volumes, whatever name it runs under:
\* "Blocks the request if the volume is not attached".
DetachedIsRefused ==
  \A w \in Reviewers : At(w, "allowed") => review[w].seen \/ review[w].failed # "none"
=============================================================================
