------------------------------ MODULE MCStart ------------------------------
(***************************************************************************)
(* An instance of StartProperties for TLC.                                 *)
(***************************************************************************)
EXTENDS StartProperties

AnyLine == {Header("vCloud"), Header("other"), Header(""), Pair("MGMT_URL", "x"),
            Pair("MGMT_URL", ""), Pair("PROVIDER_TOKEN", "y"), Comment, TooLong}
AnyEndpoint == {[scheme |-> s, address |-> "a"] : s \in {"unix://", "unix:", "tcp://", ""}}
=============================================================================
