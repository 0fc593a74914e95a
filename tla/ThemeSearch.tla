----------------------------- MODULE ThemeSearch -----------------------------
(***************************************************************************)
(* What a user finds and what a user is shown.  The script theme2fts fills the  *)
(* table tsearch out of the layer tree, role by role, the view fulltextsearch    *)
(* selects its rows by the roles of the user, and the view themes walks the       *)
(* same tree for the same roles: three programs that each decide who may see      *)
(* a theme, a group or a layer.                                                    *)
(***************************************************************************)
EXTENDS Naturals, FiniteSets

CONSTANTS
  Theme, Group, Layer,   \* rows of the tree
  Children,              \* the links of the tree: item to items
  Name,                  \* item to name; names are unique within a type, layers have five types
  Kind,                  \* layer to type
  Role, Interface,
  Anonymous,             \* the role that everybody has
  Exported,              \* the interfaces that the script exports: all but "api"
  Database,              \* the contents of the tables that are considered
  Visits,                \* the orders in which theme2fts may come to the items
  None

Item == Theme \cup Group \cup Layer

(* restricted: the roles of a theme; areas: the roles of the restriction areas of a layer; faulty:
   what the export refuses, for its name or because the OGC server does not know the layer. *)
Contents == [public : [Theme \cup Layer -> BOOLEAN], restricted : [Theme -> SUBSET Role],
             areas : [Layer -> SUBSET Role], interfaces : [Theme \cup Layer -> SUBSET Interface],
             faulty : SUBSET (Theme \cup Layer)]

ThemeSearchAssumption ==
  /\ IsFiniteSet(Group) /\ Layer \cap (Theme \cup Group) = {}
  /\ Children \in [Theme \cup Group -> SUBSET (Group \cup Layer)]
  /\ \A t \in Theme : Children[t] \subseteq Group
  /\ Kind \in [Layer -> {"wms", "wmts", "vectortiles", "cog"}]
  /\ Anonymous \in Role /\ None \notin Role /\ Exported \subseteq Interface
  /\ Visits \subseteq [Item -> Nat] /\ Database \subseteq Contents

VARIABLES
  db,              \* who may see what
  tsearch,         \* the rows of the table that have from_theme
  duplicate_name,  \* the option of the script
  fresh            \* history: the rows were made of db as it is

searchVars == <<db, tsearch, duplicate_name, fresh>>

Row == [action : {"add_theme", "add_group", "add_layer"}, data : {Name[x] : x \in Item},
        role : Role \cup {None}, interface : Interface]

TypeOK == db \in Contents /\ tsearch \in SUBSET Row /\ duplicate_name \in BOOLEAN /\ fresh \in BOOLEAN

-----------------------------------------------------------------------------
(* The items below an item, through so many levels of groups. *)
BelowTo[n \in 0..Cardinality(Group)] ==
  [x \in Theme \cup Group |->
     IF n = 0 THEN Children[x] ELSE Children[x] \cup UNION {BelowTo[n - 1][g] : g \in Children[x] \cap Group}]
Below == BelowTo[Cardinality(Group)]

Action(x) == IF x \in Theme THEN "add_theme" ELSE IF x \in Group THEN "add_group" ELSE "add_layer"
Entry(x)  == <<Action(x), Name[x]>>

(* A theme with the groups and layers below it that lead to one of the given layers. *)
Leading(t, layers) ==
  {x \in {t} \cup Below[t] : IF x \in Layer THEN x \in layers ELSE Below[x] \cap layers # {}}

-----------------------------------------------------------------------------
(* Theme._layers: the names of the layers of an interface that roles may see.  The query of the
   protected layers is made for layers WMS and WMTS. *)
LayerNames(roles, i) ==
  {Name[l] : l \in {k \in Layer : /\ i \in db.interfaces[k]
                                  /\ \/ db.public[k]
                                     \/ Kind[k] \in {"wms", "wmts"} /\ db.areas[k] \cap roles # {}}}

(* Theme._themes, _get_children, _group and _layer. *)
Shown(roles, i) ==
  LET layers == {l \in Layer : Name[l] \in LayerNames(roles, i) /\ l \notin db.faulty}
      themes == {t \in Theme : /\ db.public[t] \/ db.restricted[t] \cap roles # {}
                               /\ i \in db.interfaces[t] /\ t \notin db.faulty}
  IN UNION {Leading(t, layers) : t \in themes}

-----------------------------------------------------------------------------
(* mutant: whatever the interface *)
VisibleAnywhere(i, role) == {l \in Layer : db.public[l] \/ role \in db.areas[l]}

(* Import._layer_visible, of an interface; None stands for everybody. *)
Visible(i, role) == {l \in Layer : i \in db.interfaces[l] /\ (db.public[l] \/ role \in db.areas[l])}

(* Import._extract_themes_roles. *)
ThemeRoles(t) ==
  db.restricted[t]
    \cup (IF db.public[t] THEN UNION {db.areas[l] : l \in {k \in Below[t] \cap Layer : ~db.public[k]}} ELSE {})

(* Import._add_theme, _add_group and _add_layer: what a role finds on an interface, but for what is
   there for everybody. *)
PublicItems(i) ==
  UNION {Leading(t, Visible(i, None)) : t \in {u \in Theme : db.public[u] /\ i \in db.interfaces[u]}}
RoleItems(i, role) ==
  (UNION {Leading(t, Visible(i, role)) : t \in {u \in Theme : role \in ThemeRoles(u) /\ i \in db.interfaces[u]}})
    \ PublicItems(i)

Indexed(i, role) == IF role = None THEN PublicItems(i) ELSE RoleItems(i, role)

RowOf(x, i, role) == [action |-> Action(x), data |-> Name[x], role |-> role, interface |-> i]

(* Import._add_fts: an item is imported once for a role and an interface.  With --duplicate-name so is a
   name, with the item that is met first, whereas the help of the option says the opposite. *)
Imported(i, role, visited) ==
  LET items == Indexed(i, role)
      kept  == IF duplicate_name
               THEN {x \in items : \A y \in items : Name[y] = Name[x] => visited[x] <= visited[y]}
               ELSE items
  IN {RowOf(x, i, role) : x \in kept}

Init ==
  /\ db \in Database /\ duplicate_name \in BOOLEAN
  /\ tsearch = {} /\ fresh = FALSE

(* Import: the rows are deleted and made anew in one transaction. *)
Import ==
  /\ \E visited \in Visits :
       tsearch' = UNION {Imported(i, role, visited) : i \in Exported, role \in Role \cup {None}}
  /\ fresh' = TRUE
  /\ UNCHANGED <<db, duplicate_name>>

(* The administrator opens or closes a theme or a layer to everybody. *)
Edit(x) ==
  /\ db' = [db EXCEPT !.public[x] = ~@]
  /\ db' \in Database
  /\ fresh' = FALSE
  /\ UNCHANGED <<tsearch, duplicate_name>>

Next == Import \/ \E x \in Theme \cup Layer : Edit(x)

Spec == Init /\ [][Next]_searchVars

-----------------------------------------------------------------------------
(* FullTextSearchView: the rows that a user may find on an interface. *)
Found(roles, i) ==
  {<<row.action, row.data>> : row \in {r \in tsearch : r.role \in roles \cup {None} /\ r.interface = i}}

(* What the export leaves out although a user may see it: what has errors, and private layers that are
   neither WMS nor WMTS, whatever their restriction areas say. *)
LeftOut == db.faulty \cup {l \in Layer : ~db.public[l] /\ Kind[l] \notin {"wms", "wmts"}}

Under(x) == {x} \cup (IF x \in Layer THEN {} ELSE Below[x])

Incomplete == {y \in Item : Under(y) \cap LeftOut # {}} \cup UNION {Below[t] : t \in db.faulty \cap Theme}

(* What a user finds, the themes show, but for what leads to something that the export leaves out:
   theme2fts walks the tree for one role at a time, the themes for all roles of the user at once. *)
FoundIsShown ==
  fresh => \A roles \in {r \in SUBSET Role : Anonymous \in r}, i \in Exported :
             Found(roles, i) \subseteq {Entry(x) : x \in Shown(roles, i) \cup Incomplete}

(* What the themes show to a role, it finds, unless the name of the item or of a layer below is not
   its own: the export takes layers by their names, and so may the script. *)
ShownIsFound ==
  fresh => \A role \in Role, i \in Exported :
             {Entry(x) : x \in {y \in Shown({role}, i) : \A u \in Under(y) : \A z \in Item \ {u} : Name[z] # Name[u]}}
               \subseteq Found({role}, i)
=============================================================================
