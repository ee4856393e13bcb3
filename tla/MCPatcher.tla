------------------------------ MODULE MCPatcher ------------------------------
(***************************************************************************)
(* Patcher for TLC: each script on its own, and the two that share a file. *)
(***************************************************************************)
EXTENDS Patcher

EachAndShared ==
    {{n} : n \in DOMAIN Scripts \ {"mtp_pp", "dspark_arch"}} \union {{"mtp_pp", "dspark_arch"}}
=============================================================================
