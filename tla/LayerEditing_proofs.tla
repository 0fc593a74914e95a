-------------------------- MODULE LayerEditing_proofs --------------------------
(***************************************************************************)
(* How the rules of the three programs that apply the restriction areas    *)
(* agree, for any roles, areas and geometries; and that the editing views  *)
(* keep every geometry they write within an area of its writer.            *)
(***************************************************************************)
EXTENDS LayerEditing, TLAPS

(* Who can write a geometry with an area for it can read one feature with    *)
(* that geometry.                                                            *)
LEMMA WriteImpliesReadOne ==
  ASSUME NEW l \in Layer, NEW roles \in SUBSET Role, NEW g \in Geometry,
         NEW a \in Writable(l, roles), Covers(a, g)
  PROVE  CanReadOne(l, roles, g)
  BY DEF Writable, CanReadOne

(* A geometry that one of the granted areas covers lies within their union,  *)
(* or one of them has no limits.                                             *)
LEMMA CoveredWithinLimits ==
  ASSUME NEW l \in Layer, NEW roles \in SUBSET Role, NEW g \in Geometry,
         NEW a \in Granted(l, roles), Covers(a, g), a.where # Null
  PROVE  g \subseteq Limits(Granted(l, roles))
<1>1. g \subseteq a.where
  BY DEF Covers
<1> QED
  BY <1>1 DEF Limits

(* Whoever may read one feature that has a geometry finds it in the list of  *)
(* the layer: read_one tests the areas one by one, and _proto_read their     *)
(* union.                                                                    *)
THEOREM ReadOneIsListed ==
  ASSUME NEW l \in Layer, NEW roles \in SUBSET Role, NEW g \in Geometry,
         CanReadOne(l, roles, g)
  PROVE  Listed(l, roles, g)
<1>1. g # Null
  BY NullAssumption DEF Geometry
<1>2. CASE l.public
  BY <1>2 DEF Listed
<1>3. ASSUME NEW a \in Granted(l, roles), Covers(a, g)
      PROVE  Listed(l, roles, g)
  <2>1. CASE a.where = Null
    BY <1>3, <2>1 DEF Listed
  <2>2. CASE a.where # Null
    BY <1>1, <1>3, <2>2, CoveredWithinLimits DEF Listed
  <2> QED
    BY <2>1, <2>2
<1> QED
  BY <1>1, <1>2, <1>3 DEF CanReadOne

(* What the geoportal lets be written, QGIS Server lets be read and written, *)
(* whatever other layers of GeoMapFish contain the layer of QGIS.            *)
THEOREM WriteImpliesQgis ==
  ASSUME NEW layers \in SUBSET Layer, NEW l \in layers, NEW roles \in SUBSET Role,
         NEW g \in Geometry, NEW a \in Writable(l, roles), Covers(a, g),
         NEW readwrite \in BOOLEAN
  PROVE  QgisAllows(layers, roles, readwrite, g)
<1> DEFINE areas == QgisAreas(layers, roles, readwrite)
<1>1. a \in areas
  <2>1. a \in Granted(l, roles) /\ (readwrite => a.readwrite)
    BY DEF Writable
  <2>2. a \in {b \in Granted(l, roles) : readwrite => b.readwrite}
    BY <2>1
  <2> QED
    BY <2>2 DEF QgisAreas
<1>2. CASE QgisAccess(layers, roles, readwrite) = "FULL"
  BY <1>2 DEF QgisAllows
<1>3. CASE QgisAccess(layers, roles, readwrite) # "FULL"
  <2>1. \A b \in areas : b.where # Null
    BY <1>3 DEF QgisAccess
  <2>2. QgisAccess(layers, roles, readwrite) = "AREA"
    BY <1>1, <1>3 DEF QgisAccess
  <2>3. g \subseteq a.where
    BY <1>1, <2>1 DEF Covers
  <2>4. g # {} /\ g \cap Limits(areas) # {}
    BY <1>1, <2>3 DEF Geometry, Limits
  <2> QED
    BY <2>2, <2>4 DEF QgisAllows
<1> QED
  BY <1>2, <1>3

(* Without a permission on the layer, QGIS Server allows no geometry; with   *)
(* one, it allows some: layerPermissions and the filters agree.              *)
THEOREM PermissionsAndFilters ==
  ASSUME NEW layers \in SUBSET Layer, NEW roles \in SUBSET Role, NEW readwrite \in BOOLEAN,
         Geometry # {}
  PROVE  QgisPermission(layers, roles, readwrite)
           <=> \E g \in Geometry : QgisAllows(layers, roles, readwrite, g)
<1> DEFINE areas == QgisAreas(layers, roles, readwrite)
<1>1. QgisAccess(layers, roles, readwrite) \in {"NO", "AREA", "FULL"}
  BY DEF QgisAccess
<1>2. CASE QgisAccess(layers, roles, readwrite) = "NO"
  BY <1>2 DEF QgisPermission, QgisAllows
<1>3. CASE QgisAccess(layers, roles, readwrite) = "FULL"
  BY <1>3 DEF QgisPermission, QgisAllows
<1>4. CASE QgisAccess(layers, roles, readwrite) = "AREA"
  <2>1. areas # {} /\ \A b \in areas : b.where # Null
    BY <1>4 DEF QgisAccess
  <2>2. PICK a \in areas : a.where # Null
    BY <2>1
  <2>3. a \in Area
    BY DEF QgisAreas, Granted, Layer
  <2>4. a.where \in Geometry
    BY <2>2, <2>3 DEF Area
  <2>5. a.where \cap Limits(areas) # {}
    BY <2>4 DEF Geometry, Limits
  <2> QED
    BY <1>4, <2>4, <2>5 DEF QgisPermission, QgisAllows
<1> QED
  BY <1>1, <1>2, <1>3, <1>4
-----------------------------------------------------------------------------
(* The transactions *)

LEMMA RolesType ==
  ASSUME NEW u \in User
  PROVE  Roles(u) \in SUBSET Role
  BY UserAssumption, RoleAssumption DEF Roles, RolesId

LEMMA IdleType == Idle \in Tx /\ Nothing \in [Id -> {NoRow} \cup Row]
  BY DEF Idle, Nothing, Tx, Row

(* The requests keep the table, and what they keep of it, of their types.    *)
THEOREM TypeCorrect == Spec => []TypeOK
<1>1. Init => TypeOK
  <2> SUFFICES ASSUME Init PROVE TypeOK
    OBVIOUS
  <2>1. layer \in Layer
    BY LayerAssumption DEF Init
  <2>2. rows \in [Id -> {NoRow} \cup Row] /\ nextId \in 1 .. MaxId + 1
    BY MaxIdAssumption, IdleType DEF Init
  <2>3. tx \in [Thread -> Tx] /\ grantedTo \in [Id -> SUBSET Role]
    BY IdleType DEF Init
  <2>4. \A t \in Thread : tx[t].pc = "idle"
    BY DEF Init, Idle
  <2> QED
    BY <2>1, <2>2, <2>3, <2>4 DEF TypeOK
<1>2. TypeOK /\ [Next]_vars => TypeOK'
  <2> SUFFICES ASSUME TypeOK, [Next]_vars PROVE TypeOK'
    OBVIOUS
  <2> USE DEF TypeOK
  <2>1. ASSUME NEW t \in Thread, NEW u \in User, NEW i \in Id, NEW g \in Row, Update(t, u, i, g)
        PROVE  TypeOK'
    <3>1. [pc |-> "update", roles |-> Roles(u), id |-> i, geom |-> g, adds |-> Nothing] \in Tx
      BY RolesType, IdleType DEF Tx
    <3> QED
      BY <2>1, <3>1 DEF Update, Becomes
  <2>2. ASSUME NEW t \in Thread, NEW u \in User, NEW i \in Id, Delete(t, u, i)
        PROVE  TypeOK'
    <3>1. [pc |-> "delete", roles |-> Roles(u), id |-> i, geom |-> Null, adds |-> Nothing] \in Tx
      BY RolesType, IdleType DEF Tx, Row
    <3> QED
      BY <2>2, <3>1 DEF Delete, Becomes
  <2>3. ASSUME NEW t \in Thread, NEW u \in User, NEW g \in Row, Create(t, u, g)
        PROVE  TypeOK'
    <3>1. nextId \in Id /\ nextId' \in 1 .. MaxId + 1
      BY <2>3, MaxIdAssumption DEF Create, Id
    <3>2. tx[t].adds \in [Id -> {NoRow} \cup Row]
      BY DEF Tx
    <3>3. [tx[t].adds EXCEPT ![nextId] = g] \in [Id -> {NoRow} \cup Row]
      BY <3>1, <3>2
    <3>4. [pc |-> "create", roles |-> Roles(u), id |-> Null, geom |-> Null,
           adds |-> [tx[t].adds EXCEPT ![nextId] = g]] \in Tx
      BY <3>3, RolesType DEF Tx, Row
    <3> QED
      BY <2>3, <3>1, <3>4 DEF Create, Becomes
  <2>4. ASSUME NEW t \in Thread, UpdateWrite(t) PROVE TypeOK'
    <3>1. tx[t].id \in Id /\ tx[t].geom \in Row /\ tx[t].roles \in SUBSET Role
      BY <2>4 DEF UpdateWrite, Tx
    <3>2. rows' \in [Id -> {NoRow} \cup Row] /\ grantedTo' \in [Id -> SUBSET Role]
      BY <2>4, <3>1 DEF UpdateWrite
    <3> QED
      BY <2>4, <3>2, IdleType DEF UpdateWrite, Becomes, Idle
  <2>5. ASSUME NEW t \in Thread, CreateWrite(t) PROVE TypeOK'
    <3>1. tx[t].adds \in [Id -> {NoRow} \cup Row] /\ tx[t].roles \in SUBSET Role
      BY DEF Tx
    <3>2. rows' \in [Id -> {NoRow} \cup Row]
      BY <2>5, <3>1 DEF CreateWrite
    <3>3. grantedTo' \in [Id -> SUBSET Role]
      BY <2>5, <3>1 DEF CreateWrite
    <3> QED
      BY <2>5, <3>2, <3>3, IdleType DEF CreateWrite, Becomes, Idle
  <2>6. ASSUME NEW t \in Thread, DeleteWrite(t) PROVE TypeOK'
    <3>1. rows' \in [Id -> {NoRow} \cup Row] /\ grantedTo' \in [Id -> SUBSET Role]
      BY <2>6 DEF DeleteWrite
    <3> QED
      BY <2>6, <3>1, IdleType DEF DeleteWrite, Becomes, Idle
  <2>7. ASSUME NEW t \in Thread, Abort(t) PROVE TypeOK'
    BY <2>7, IdleType DEF Abort, Becomes, Idle
  <2>8. CASE UNCHANGED vars
    BY <2>8 DEF vars
  <2> QED
    BY <2>1, <2>2, <2>3, <2>4, <2>5, <2>6, <2>7, <2>8 DEF Next, Request, Write
<1> QED
  BY <1>1, <1>2, PTL DEF Spec
(* The inductive invariant.  PendingInv is what a request knows between its  *)
(* check and its write, and lets the second of them keep WrittenWithin,      *)
(* without a look at what the others have written.                           *)
EditInv == TypeOK /\ PendingInv /\ WrittenWithin

(* No new request and no write adds what is not allowed to what is pending.  *)
LEMMA PendingStep ==
  ASSUME TypeOK, TypeOK', PendingInv, [Next]_vars
  PROVE  PendingInv'
<1> DEFINE Fine(x) ==
      /\ x.pc = "update" /\ x.geom # Null =>
           \E a \in Writable(layer, x.roles) : Covers(a, x.geom)
      /\ \A i \in Id : x.pc = "create" /\ x.adds[i] \notin {Null, NoRow} =>
           \E a \in Writable(layer, x.roles) : Covers(a, x.adds[i])
<1>1. PendingInv <=> \A t \in Thread : Fine(tx[t])
  BY DEF PendingInv
<1>2. layer' = layer => (PendingInv' <=> \A t \in Thread : Fine(tx'[t]))
  BY DEF PendingInv
<1>3. Fine(Idle)
  BY DEF Idle
<1>4. ASSUME NEW t \in Thread, NEW x, Becomes(t, x), Fine(x), layer' = layer
      PROVE  PendingInv'
  <2>1. \A s \in Thread : Fine(tx'[s])
    BY <1>1, <1>4 DEF Becomes, TypeOK
  <2> QED
    BY <1>2, <1>4, <2>1
<1>5. ASSUME NEW t \in Thread, NEW u \in User, NEW i \in Id, NEW g \in Row, Update(t, u, i, g)
      PROVE  PendingInv'
  <2> DEFINE x == [pc |-> "update", roles |-> Roles(u), id |-> i, geom |-> g, adds |-> Nothing]
  <2>1. Fine(x)
    BY <1>5 DEF Update, CanUpdate
  <2> QED
    BY <1>4, <1>5, <2>1 DEF Update
<1>6. ASSUME NEW t \in Thread, NEW u \in User, NEW i \in Id, Delete(t, u, i)
      PROVE  PendingInv'
  <2> DEFINE x == [pc |-> "delete", roles |-> Roles(u), id |-> i, geom |-> Null, adds |-> Nothing]
  <2>1. Fine(x)
    OBVIOUS
  <2> QED
    BY <1>4, <1>6, <2>1 DEF Delete
<1>7. ASSUME NEW t \in Thread, NEW u \in User, NEW g \in Row, Create(t, u, g)
      PROVE  PendingInv'
  <2> DEFINE adds == [tx[t].adds EXCEPT ![nextId] = g]
             x == [pc |-> "create", roles |-> Roles(u), id |-> Null, geom |-> Null, adds |-> adds]
  <2>1. nextId \in Id /\ tx[t].adds \in [Id -> {NoRow} \cup Row]
    BY <1>7, MaxIdAssumption DEF TypeOK, Create, Id, Tx
  <2>2. ASSUME NEW i \in Id, adds[i] \notin {Null, NoRow}
        PROVE  \E a \in Writable(layer, Roles(u)) : Covers(a, adds[i])
    <3>1. CASE i = nextId
      BY <1>7, <2>1, <2>2, <3>1 DEF Create, CanInsert
    <3>2. CASE i # nextId
      <4>1. adds[i] = tx[t].adds[i]
        BY <2>1, <3>2
      <4>2. tx[t] # Idle
        BY <2>2, <4>1 DEF Idle, Nothing
      <4> QED
        BY <1>1, <1>7, <2>2, <4>1, <4>2 DEF Create
    <3> QED
      BY <3>1, <3>2
  <2>3. Fine(x)
    BY <2>2
  <2> QED
    BY <1>4, <1>7, <2>3 DEF Create
<1>8. ASSUME NEW t \in Thread, Write(t)
      PROVE  PendingInv'
  BY <1>3, <1>4, <1>8 DEF Write, UpdateWrite, CreateWrite, DeleteWrite, Abort
<1>9. CASE UNCHANGED vars
  BY <1>1, <1>2, <1>9 DEF vars
<1> QED
  BY <1>5, <1>6, <1>7, <1>8, <1>9 DEF Next, Request

(* What is pending is written with the roles it was allowed for.             *)
LEMMA WrittenStep ==
  ASSUME EditInv, [Next]_vars
  PROVE  WrittenWithin'
<1> USE DEF EditInv
<1>1. CASE rows' = rows /\ grantedTo' = grantedTo /\ layer' = layer
  BY <1>1 DEF WrittenWithin, WrittenBy
<1>2. ASSUME NEW t \in Thread, UpdateWrite(t), tx[t].geom # Null
      PROVE  WrittenWithin'
  <2>1. tx[t].id \in Id /\ layer' = layer
    BY <1>2 DEF UpdateWrite, TypeOK
  <2>2. /\ rows' = [rows EXCEPT ![tx[t].id] = tx[t].geom]
        /\ grantedTo' = [grantedTo EXCEPT ![tx[t].id] = tx[t].roles]
    BY <1>2 DEF UpdateWrite
  <2>3. ASSUME NEW i \in Id, NEW g \in Geometry, rows'[i] = g, grantedTo'[i] # {}
        PROVE  \E a \in Writable(layer, grantedTo'[i]) : Covers(a, g)
    <3>1. CASE i = tx[t].id
      BY <1>2, <2>1, <2>2, <2>3, <3>1 DEF UpdateWrite, PendingInv, TypeOK
    <3>2. CASE i # tx[t].id
      BY <2>1, <2>2, <2>3, <3>2 DEF WrittenWithin, WrittenBy, TypeOK
    <3> QED
      BY <3>1, <3>2
  <2> QED
    BY <2>1, <2>3 DEF WrittenWithin, WrittenBy
<1>3. ASSUME NEW t \in Thread, CreateWrite(t)
      PROVE  WrittenWithin'
  <2>1. ASSUME NEW i \in Id, NEW g \in Geometry, rows'[i] = g, grantedTo'[i] # {}
        PROVE  \E a \in Writable(layer, grantedTo'[i]) : Covers(a, g)
    <3>1. CASE tx[t].adds[i] # NoRow
      <4>1. tx[t].adds[i] = g /\ grantedTo'[i] = tx[t].roles
        BY <1>3, <2>1, <3>1 DEF CreateWrite
      <4>2. g # Null
        BY NullAssumption DEF Geometry
      <4> QED
        BY <1>3, <3>1, <4>1, <4>2 DEF CreateWrite, PendingInv
    <3>2. CASE tx[t].adds[i] = NoRow
      BY <1>3, <2>1, <3>2 DEF CreateWrite, WrittenWithin, WrittenBy
    <3> QED
      BY <3>1, <3>2
  <2>2. layer' = layer
    BY <1>3 DEF CreateWrite
  <2> QED
    BY <2>1, <2>2 DEF WrittenWithin, WrittenBy
<1>4. ASSUME NEW t \in Thread, DeleteWrite(t)
      PROVE  WrittenWithin'
  <2>1. ASSUME NEW i \in Id, NEW g \in Geometry, rows'[i] = g, grantedTo'[i] # {}
        PROVE  rows[i] = g /\ grantedTo'[i] = grantedTo[i]
    BY <1>4, <2>1, NoRowAssumption DEF DeleteWrite, TypeOK
  <2>2. layer' = layer
    BY <1>4 DEF DeleteWrite
  <2> QED
    BY <2>1, <2>2 DEF WrittenWithin, WrittenBy
<1>5. ASSUME NEW t \in Thread, NEW u \in User, Request(t, u)
      PROVE  rows' = rows /\ grantedTo' = grantedTo /\ layer' = layer
  BY <1>5 DEF Request, Update, Delete, Create
<1>6. ASSUME NEW t \in Thread, Abort(t) \/ (UpdateWrite(t) /\ tx[t].geom = Null)
      PROVE  rows' = rows /\ grantedTo' = grantedTo /\ layer' = layer
  BY <1>6 DEF Abort, UpdateWrite
<1>7. UNCHANGED vars => rows' = rows /\ grantedTo' = grantedTo /\ layer' = layer
  BY DEF vars
<1> QED
  BY <1>1, <1>2, <1>3, <1>4, <1>5, <1>6, <1>7 DEF Next, Write

(* Every geometry written through the views lies within an area its writer   *)
(* may write in, for any layer, areas, roles and number of requests at the   *)
(* same time.                                                                *)
THEOREM EditInvariant == Spec => [](PendingInv /\ WrittenWithin)
<1>1. Init => PendingInv /\ WrittenWithin
  BY DEF Init, PendingInv, WrittenWithin, WrittenBy, Idle
<1>2. TypeOK /\ TypeOK' /\ (PendingInv /\ WrittenWithin) /\ [Next]_vars
        => (PendingInv /\ WrittenWithin)'
  BY PendingStep, WrittenStep DEF EditInv
<1> QED
  BY <1>1, <1>2, TypeCorrect, PTL DEF Spec

(* Whoever wrote a geometry can read it in each of the three ways, and edit  *)
(* it through QGIS Server.                                                   *)
THEOREM WriterReadsCorrect == Spec => []WriterReads
<1>1. TypeOK /\ WrittenWithin => WriterReads
  <2> SUFFICES ASSUME TypeOK, WrittenWithin, NEW i \in Id, NEW g \in Geometry, WrittenBy(i, g)
               PROVE  /\ CanReadOne(layer, grantedTo[i], g)
                      /\ Listed(layer, grantedTo[i], g)
                      /\ \A readwrite \in BOOLEAN :
                           QgisAllows({layer}, grantedTo[i], readwrite, g)
    BY DEF WriterReads
  <2>1. layer \in Layer /\ grantedTo[i] \in SUBSET Role
    BY DEF TypeOK
  <2>2. PICK a \in Writable(layer, grantedTo[i]) : Covers(a, g)
    BY DEF WrittenWithin
  <2>3. CanReadOne(layer, grantedTo[i], g)
    BY <2>1, <2>2, WriteImpliesReadOne
  <2>4. Listed(layer, grantedTo[i], g)
    BY <2>1, <2>3, ReadOneIsListed
  <2>5. \A readwrite \in BOOLEAN : QgisAllows({layer}, grantedTo[i], readwrite, g)
    BY <2>1, <2>2, WriteImpliesQgis
  <2> QED
    BY <2>3, <2>4, <2>5
<1> QED
  BY <1>1, TypeCorrect, EditInvariant, PTL
=============================================================================
