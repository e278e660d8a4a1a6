---------------------------- MODULE MCReportStore ----------------------------
(***************************************************************************)
(* Instances of ReportStore for TLC.                                       *)
(***************************************************************************)
EXTENDS ReportStore, FiniteSetsExt

OfflineKinds == {"offline", "loss", "refused", "reset"}
RestartKinds == {"restart", "tracking", "offline"}

OneSlot == {1}

(* The ids of the instances have four bits. *)
AndOfBits(a, b) ==
  MapThenSumSet(LAMBDA i : 2 ^ i,
    {i \in 0 .. 3 : (a \div 2 ^ i) % 2 = 1 /\ (b \div 2 ^ i) % 2 = 1})

=============================================================================
