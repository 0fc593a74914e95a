------------------------- MODULE MCQgisAccessControl -------------------------
(* Two threads of QGIS Server, a read and a write area of one layer. *)
EXTENDS QgisAccessControl

CONSTANTS t1, t2

(* The layer is linked to the OGC server by the second modification, or is   *)
(* from the beginning.                                                       *)
LinkedBySecond == [k \in AreaKey |-> {1}]
AlwaysLinked == [k \in AreaKey |-> {}]
=============================================================================
