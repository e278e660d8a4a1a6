------------------------------ MODULE MCGsmLink ------------------------------
(***************************************************************************)
(* Instances of GsmLink for TLC: the sets of disturbances and of modem     *)
(* work the configurations name.                                           *)
(***************************************************************************)
EXTENDS GsmLink

AnyDisturbance == DisturbanceKinds
AuxAndClose == {"aux", "close"}

AllWork == BackgroundWork
ShortMessages == {"sms"}

=============================================================================
