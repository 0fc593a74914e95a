--------------------------- MODULE RestrictionAreas ---------------------------
(***************************************************************************)
(* Who may read and write which features of a layer: the rules of the      *)
(* editing views of the geoportal, and those of the plugin of QGIS Server. *)
(*                                                                         *)
(* A geometry is a non-empty set of places; one contains another when it   *)
(* has all its places, and they intersect when they have one in common.    *)
(***************************************************************************)
CONSTANTS
  Role, Place,
  Anonymous, Intranet, Registered,   \* the roles that no user is given
  Null                               \* the NULL of SQL: no area, no geometry

Geometry == (SUBSET Place) \ {{}}

ASSUME RoleAssumption == {Anonymous, Intranet, Registered} \subseteq Role
ASSUME NullAssumption == \A g \in SUBSET Place : g # Null

(* RestrictionArea, with the roles it is given to. *)
Area == [roles : SUBSET Role, readwrite : BOOLEAN, where : {Null} \cup Geometry]

(* Layer, with the restriction areas it is attached to. *)
Layer == [public : BOOLEAN, areas : SUBSET Area]

(* get_roles_id: own is None without a user, and else the roles of the user. *)
RolesId(own, intranet) ==
  {Anonymous} \cup (IF intranet THEN {Intranet} ELSE {})
              \cup (IF own = Null THEN {} ELSE {Registered} \cup own)

-----------------------------------------------------------------------------
(* The geoportal *)

(* RestrictionArea.area.is_(None) or RestrictionArea.area.ST_Contains(g):    *)
(* nothing contains what has no geometry, but an area without limits.        *)
Covers(a, g) == IF a.where = Null THEN TRUE ELSE g # Null /\ g \subseteq a.where

Granted(l, roles) == {a \in l.areas : a.roles \cap roles # {}}

(* _get_geometry_check_base_query *)
Writable(l, roles) == {a \in Granted(l, roles) : a.readwrite}

(* _InsertCallback: a feature without geometry is not checked. *)
CanInsert(l, roles, g) == g = Null \/ \E a \in Writable(l, roles) : Covers(a, g)

(* mutant: only the old geometry is checked *)
CanUpdateOld(l, roles, old, new) == \E a \in Writable(l, roles) : Covers(a, old)

(* _UpdateCallback: one area has to contain the old geometry, and the new    *)
(* one when there is one in the request.                                     *)
CanUpdate(l, roles, old, new) ==
  \E a \in Writable(l, roles) : Covers(a, old) /\ (new = Null \/ Covers(a, new))

(* _DeleteCallback *)
CanDelete(l, roles, old) == \E a \in Writable(l, roles) : Covers(a, old)

Limits(areas) == UNION {a.where : a \in areas}

(* mutant: an area without limits is taken for one without places *)
ListedWithinLimits(l, roles, g) ==
  l.public \/ \E a \in Granted(l, roles) : a.where # Null /\ g # Null /\ g \subseteq a.where

(* _proto_read: what read_many lists of a layer, for a user. *)
Listed(l, roles, g) ==
  \/ l.public
  \/ \E a \in Granted(l, roles) : a.where = Null
  \/ /\ Granted(l, roles) # {} /\ g # Null
     /\ g \subseteq Limits(Granted(l, roles))

(* read_one, for a user. *)
CanReadOne(l, roles, g) ==
  l.public \/ g = Null \/ \E a \in Granted(l, roles) : Covers(a, g)

-----------------------------------------------------------------------------
(* QGIS Server: layers are those of GeoMapFish that contain the QGIS layer *)

(* The areas that get_restriction_areas collects. *)
QgisAreas(layers, roles, readwrite) ==
  UNION {{a \in Granted(l, roles) : readwrite => a.readwrite} : l \in layers}

(* get_restriction_areas *)
QgisAccess(layers, roles, readwrite) ==
  IF \/ ~readwrite /\ \E l \in layers : l.public
     \/ \E a \in QgisAreas(layers, roles, readwrite) : a.where = Null
    THEN "FULL"
    ELSE IF QgisAreas(layers, roles, readwrite) = {} THEN "NO" ELSE "AREA"

(* get_area, and the filters and allowToEdit that are made of it: what       *)
(* intersects the union of the areas.                                        *)
QgisAllows(layers, roles, readwrite, g) ==
  \/ QgisAccess(layers, roles, readwrite) = "FULL"
  \/ /\ QgisAccess(layers, roles, readwrite) = "AREA"
     /\ g \cap Limits(QgisAreas(layers, roles, readwrite)) # {}

(* layerPermissions *)
QgisPermission(layers, roles, readwrite) == QgisAccess(layers, roles, readwrite) # "NO"
=============================================================================
