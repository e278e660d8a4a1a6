------------------------------ MODULE MCFrameRx ------------------------------
(***************************************************************************)
(* Instances of FrameRx for TLC.                                           *)
(***************************************************************************)
EXTENDS FrameRx

TwoLinks == {1, 2}

=============================================================================
