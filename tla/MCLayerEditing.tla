---------------------------- MODULE MCLayerEditing ----------------------------
(***************************************************************************)
(* Two users, of two roles, and layers with up to two restriction areas of *)
(* two places.                                                             *)
(***************************************************************************)
EXTENDS LayerEditing, FiniteSets, TLC

CONSTANTS t1, t2

RolesOf == [u \in {"alice", "bob"} |-> IF u = "alice" THEN {"editor"} ELSE {"expert"}]

For(role, readwrite, where) == [roles |-> {role}, readwrite |-> readwrite, where |-> where]

(* The editors write in the north, and the experts everywhere; or the        *)
(* editors only read there, the south is written from the intranet, and the  *)
(* area of the experts has no limits.                                        *)
Layers ==
  {[public |-> FALSE,
    areas |-> {For("editor", TRUE, {"north"}), For("expert", TRUE, {"north", "south"})}],
   [public |-> FALSE,
    areas |-> {For("editor", FALSE, {"north"}), For("intranet", TRUE, {"south"}),
               For("expert", TRUE, Null)}]}

ThreadSymmetry == Permutations({t1, t2})
=============================================================================
