--------------------------- MODULE MCMultiPacketRx ---------------------------
(***************************************************************************)
(* Instances of MultiPacketRx for TLC.                                     *)
(***************************************************************************)
EXTENDS MultiPacketRx

TwoIds == {"0x8606", "0x8900"}
OneHandled == {"0x8606"}
SmallOrLarge == {1, 3}

Repeated == {"again"}
AnyEvent == EventKinds

=============================================================================
