----------------------------- MODULE LayerEditing -----------------------------
(***************************************************************************)
(* The views that create, update and delete the features of a layer, as    *)
(* transactions that run at the same time (READ COMMITTED).                *)
(*                                                                         *)
(* A request loads the feature and checks it; at the end of its            *)
(* transaction it writes what it has changed.  Of a feature, the geometry  *)
(* is modelled.  A request without a user, one that is refused, or whose   *)
(* feature does not exist, leaves the table alone and is not a step.       *)
(***************************************************************************)
EXTENDS RestrictionAreas, Naturals

CONSTANTS
  User,          \* the users
  UserRoles,     \* UserRoles[u]: their roles
  InIntranet,    \* the users whose requests come from the intranet
  Thread,        \* requests that may run at the same time
  LayerChoice,   \* the layers to look at
  MaxId,         \* bound: number of features ever created
  NoRow          \* there is no such feature

ASSUME UserAssumption == UserRoles \in [User -> SUBSET Role]
ASSUME LayerAssumption == LayerChoice \subseteq Layer
ASSUME NoRoleAssumption == \A r \in SUBSET Role : r # Null
ASSUME NoRowAssumption == NoRow # Null /\ \A g \in Geometry : g # NoRow
ASSUME MaxIdAssumption == MaxId \in Nat

Id == 1 .. MaxId

VARIABLES
  layer,      \* the layer: who may do what does not change
  rows,       \* rows[i]: the geometry of the committed feature i
  nextId,     \* the sequence of the primary key
  tx,         \* tx[t]: what request t has checked and not yet written
  grantedTo   \* history: the roles with which the geometry of i was written

vars == <<layer, rows, nextId, tx, grantedTo>>

-----------------------------------------------------------------------------
(* Types *)

Row == {Null} \cup Geometry

(* geom: the geometry in the request; adds: the features to insert. *)
Tx ==
  [pc : {"idle", "update", "create", "delete"}, roles : SUBSET Role,
   id : {Null} \cup Id, geom : Row, adds : [Id -> {NoRow} \cup Row]]

TypeOK ==
  /\ layer \in Layer
  /\ rows \in [Id -> {NoRow} \cup Row]
  /\ nextId \in 1 .. MaxId + 1
  /\ tx \in [Thread -> Tx]
  /\ \A t \in Thread : tx[t].pc \in {"update", "delete"} => tx[t].id \in Id
  /\ grantedTo \in [Id -> SUBSET Role]

Nothing == [i \in Id |-> NoRow]

Idle == [pc |-> "idle", roles |-> {}, id |-> Null, geom |-> Null, adds |-> Nothing]

(* The table is empty, or holds a feature that another program has put.      *)
Init ==
  /\ layer \in LayerChoice
  /\ \/ rows = Nothing /\ nextId = 1
     \/ /\ \E g \in Row : rows = [i \in Id |-> IF i = 1 THEN g ELSE NoRow]
        /\ nextId = 2 /\ MaxId >= 1
  /\ tx = [t \in Thread |-> Idle]
  /\ grantedTo = [i \in Id |-> {}]

-----------------------------------------------------------------------------
(* The requests *)

Becomes(t, x) == tx' = [tx EXCEPT ![t] = x]

Roles(u) == RolesId(UserRoles[u], u \in InIntranet)

(* update: the feature is loaded, and _UpdateCallback allows it. *)
Update(t, u, i, g) ==
  /\ tx[t] = Idle
  /\ rows[i] # NoRow
  /\ CanUpdate(layer, Roles(u), rows[i], g)
  /\ Becomes(t, [pc |-> "update", roles |-> Roles(u), id |-> i, geom |-> g, adds |-> Nothing])
  /\ UNCHANGED <<layer, rows, nextId, grantedTo>>

(* A geometry in the request is written over the one that is there by then.  *)
UpdateWrite(t) ==
  LET i == tx[t].id IN
  /\ tx[t].pc = "update" /\ rows[i] # NoRow
  /\ IF tx[t].geom = Null THEN UNCHANGED <<rows, grantedTo>>
     ELSE /\ rows' = [rows EXCEPT ![i] = tx[t].geom]
          /\ grantedTo' = [grantedTo EXCEPT ![i] = tx[t].roles]
  /\ Becomes(t, Idle)
  /\ UNCHANGED <<layer, nextId>>

(* create: the next feature of the collection, which _InsertCallback allows; *)
(* the identifiers come from a sequence, and are lost with a rollback.       *)
Create(t, u, g) ==
  /\ \/ tx[t] = Idle
     \/ tx[t].pc = "create" /\ tx[t].roles = Roles(u)
  /\ nextId <= MaxId
  /\ nextId' = nextId + 1
  /\ CanInsert(layer, Roles(u), g)
  /\ Becomes(t, [pc |-> "create", roles |-> Roles(u), id |-> Null, geom |-> Null,
                 adds |-> [tx[t].adds EXCEPT ![nextId] = g]])
  /\ UNCHANGED <<layer, rows, grantedTo>>

(* The whole collection is inserted; and so are the features before one that *)
(* is not valid, because the error is answered and not raised.               *)
CreateWrite(t) ==
  /\ tx[t].pc = "create"
  /\ rows' = [i \in Id |-> IF tx[t].adds[i] # NoRow THEN tx[t].adds[i] ELSE rows[i]]
  /\ grantedTo' = [i \in Id |-> IF tx[t].adds[i] # NoRow THEN tx[t].roles ELSE grantedTo[i]]
  /\ Becomes(t, Idle)
  /\ UNCHANGED <<layer, nextId>>

(* mutant: the identifier is not kept for the end of the transaction *)
DeleteWithoutId(t, u, i) ==
  /\ tx[t] = Idle
  /\ rows[i] # NoRow
  /\ CanDelete(layer, Roles(u), rows[i])
  /\ Becomes(t, [pc |-> "delete", roles |-> Roles(u), id |-> Null, geom |-> Null, adds |-> Nothing])
  /\ UNCHANGED <<layer, rows, nextId, grantedTo>>

(* delete: the feature is loaded, and _DeleteCallback allows it. *)
Delete(t, u, i) ==
  /\ tx[t] = Idle
  /\ rows[i] # NoRow
  /\ CanDelete(layer, Roles(u), rows[i])
  /\ Becomes(t, [pc |-> "delete", roles |-> Roles(u), id |-> i, geom |-> Null, adds |-> Nothing])
  /\ UNCHANGED <<layer, rows, nextId, grantedTo>>

(* Whether another request has deleted it in between or not. *)
DeleteWrite(t) ==
  /\ tx[t].pc = "delete"
  /\ rows' = [rows EXCEPT ![tx[t].id] = NoRow]
  /\ grantedTo' = [grantedTo EXCEPT ![tx[t].id] = {}]
  /\ Becomes(t, Idle)
  /\ UNCHANGED <<layer, nextId>>

(* A later feature of the collection is forbidden, a constraint is violated, *)
(* or the row to update is gone: the transaction is rolled back.             *)
Abort(t) ==
  /\ tx[t].pc # "idle"
  /\ Becomes(t, Idle)
  /\ UNCHANGED <<layer, rows, nextId, grantedTo>>

-----------------------------------------------------------------------------
Request(t, u) ==
  \/ \E i \in Id, g \in Row : Update(t, u, i, g)
  \/ \E i \in Id : Delete(t, u, i)
  \/ \E g \in Row : Create(t, u, g)

Write(t) == UpdateWrite(t) \/ CreateWrite(t) \/ DeleteWrite(t) \/ Abort(t)

Next ==
  \E t \in Thread :
    \/ \E u \in User : Request(t, u)
    \/ Write(t)

Spec == Init /\ [][Next]_vars

-----------------------------------------------------------------------------
(* Properties *)

(* A geometry that was written through the views lies within one area that   *)
(* its writer may write in, whatever the other requests wrote to the same    *)
(* feature after it was loaded and checked.                                  *)
WrittenBy(i, g) == rows[i] = g /\ grantedTo[i] # {}

WrittenWithin ==
  \A i \in Id, g \in Geometry :
    WrittenBy(i, g) => \E a \in Writable(layer, grantedTo[i]) : Covers(a, g)

(* Whoever wrote a geometry can read the feature, finds it in the list of    *)
(* the layer, and sees it in the maps of QGIS Server, which lets it be       *)
(* edited: three programs apply three forms of the rules.                    *)
WriterReads ==
  \A i \in Id, g \in Geometry :
    WrittenBy(i, g) =>
      /\ CanReadOne(layer, grantedTo[i], g)
      /\ Listed(layer, grantedTo[i], g)
      /\ \A readwrite \in BOOLEAN : QgisAllows({layer}, grantedTo[i], readwrite, g)

(* The invariant behind them: what a request is about to write was allowed   *)
(* with its roles.                                                           *)
PendingInv ==
  \A t \in Thread :
    /\ tx[t].pc = "update" /\ tx[t].geom # Null =>
         \E a \in Writable(layer, tx[t].roles) : Covers(a, tx[t].geom)
    /\ \A i \in Id : tx[t].pc = "create" /\ tx[t].adds[i] \notin {Null, NoRow} =>
         \E a \in Writable(layer, tx[t].roles) : Covers(a, tx[t].adds[i])

(* Who writes over a geometry may write both there and in its place: "we     *)
(* need both the "original" and "new" geometry to be within the restriction  *)
(* area".                                                                    *)
BothWithin ==
  [][\A t \in Thread :
       tx[t].pc = "update" /\ {rows[tx[t].id], rows'[tx[t].id]} \cap {Null, NoRow} = {}
         /\ rows'[tx[t].id] # rows[tx[t].id] /\ tx'[t] = Idle
       => CanUpdate(layer, tx[t].roles, rows[tx[t].id], rows'[tx[t].id])]_vars
=============================================================================
