---------------------------- MODULE MCExpansion ----------------------------
(***************************************************************************)
(* Instances of Expansion for TLC: the volume of MCController, whose claim *)
(* grows in steps or at once.                                              *)
(***************************************************************************)
EXTENDS Expansion, MCController

ExpansionCalls ==
  {Create(n1, 2), Publish(v1, na), Unpublish(v1, na), Expand(v1, 3), Expand(v1, 4)}
=============================================================================
