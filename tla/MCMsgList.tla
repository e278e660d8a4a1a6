------------------------------ MODULE MCMsgList ------------------------------
(***************************************************************************)
(* Instances of MsgList for TLC.                                           *)
(***************************************************************************)
EXTENDS MsgList

HmiJt808 == {8, 10}
Jt808Only == {10}

=============================================================================
