---- MODULE MCPictureTx ----
(* The pictures on small instances. *)
EXTENDS PictureTx

(* Two pictures of one or two sectors; in three sectors the second of two  *)
(* large ones wraps around the ring and takes the place of the first.      *)
TwoPictures == [1 .. 2 -> 1 .. 2]
AllEvents == EventKinds \ {"cut"}

====
