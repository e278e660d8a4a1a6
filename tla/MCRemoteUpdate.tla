--------------------------- MODULE MCRemoteUpdate ---------------------------
(* The remote update on a small instance. *)
EXTENDS RemoteUpdate

CONSTANTS old, new, newer, other

AllFiles == {old, new, newer, other}
OtherProduct == {other}

Totals == [f \in AllFiles |-> 3]

(* A file for another product, two files of the same length, the second of *)
(* them again under another version text.                                  *)
Campaigns ==
  <<[file |-> other, ver |-> 1], [file |-> new, ver |-> 2],
    [file |-> newer, ver |-> 3], [file |-> newer, ver |-> 4]>>
PowerCuts == {"loss", "switch", "power"}

(* The platform returns to a file after a part of another one.             *)
BackAgain ==
  <<[file |-> new, ver |-> 2], [file |-> newer, ver |-> 3],
    [file |-> new, ver |-> 2]>>

=============================================================================
