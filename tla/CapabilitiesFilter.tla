-------------------------- MODULE CapabilitiesFilter --------------------------
(***************************************************************************)
(* A capabilities document on its way through the proxies: a SAX filter leaves *)
(* out the layers of WMS and WFS that the user has no right to, and those of   *)
(* TinyOWS that he cannot write.  The layers of the document are numbered in    *)
(* their order; texts come in the pieces in which the parser delivers them.     *)
(***************************************************************************)
EXTENDS Naturals, Sequences, FiniteSets

CONSTANTS
  Document,  \* [service, parent, names, wms_structure]: the parent of a layer, 0 without, its name and those
             \* of its styles, and which names are below which ones in the capabilities that roles do not change
  Database,  \* [rows, server, roles]: the rows of layers, the server that is asked and the roles of the user
  Server,
  Url,       \* the URL of an OGC server, for the service
  Lower,     \* a name in lower case
  Local,     \* the same without its namespace
  Piece      \* a part of a name that the parser has cut in two

CapabilitiesFilterAssumption ==
  /\ \A d \in Document : /\ d.service \in {"wms", "wfs", "wfst"}
                         /\ d.parent \in Seq(Nat) /\ d.names \in [DOMAIN d.parent -> Seq(DOMAIN Local)]
                         /\ \A n \in DOMAIN d.parent : d.parent[n] \in 0..(n - 1)
                         /\ d.service # "wms" => \A n \in DOMAIN d.parent : d.parent[n] = 0 /\ d.names[n] # <<>>
  /\ \A b \in Database : b.server \in Server /\ \A r \in b.rows : r.server \in Server
  /\ Piece \in DOMAIN Local /\ Local[Piece] = Piece /\ Piece \notin {Lower[name] : name \in DOMAIN Lower \ {Piece}}

VARIABLES
  document, database,
  started,     \* the last layer whose element was opened
  path,        \* layers_path
  texts,       \* the texts of the layer that are still to be read
  element,     \* [hidden, self_hidden, has_children, children_nb] of every layer
  downstream,  \* the layers that were written
  cut          \* history: the layers whose name was cut

filterVars == <<document, database, started, path, texts, element, downstream, cut>>

Layers == DOMAIN document.parent

(* What _Layer() makes of a new element. *)
NewLayer == [hidden |-> TRUE, self_hidden |-> FALSE, has_children |-> FALSE, children_nb |-> 0]

Init ==
  /\ document \in Document /\ database \in Database
  /\ started = 0 /\ path = <<>> /\ texts = <<>> /\ downstream = {} /\ cut = {}
  /\ element = [n \in Layers |-> NewLayer]

TypeOK ==
  /\ document \in Document /\ database \in Database
  /\ started \in Layers \cup {0} /\ path \in Seq(Layers) /\ texts \in Seq(DOMAIN Local)
  /\ element \in [Layers -> [hidden : BOOLEAN, self_hidden : BOOLEAN, has_children : BOOLEAN, children_nb : Nat]]
  /\ downstream \in SUBSET Layers /\ cut \in SUBSET Layers

-----------------------------------------------------------------------------
NamesOf(rows) == UNION {r.names : r \in rows}

(* get_ogc_server_wms_url_ids and get_ogc_server_wfs_url_ids, of the URL that is asked. *)
ogc_server_ids == {s \in Server : Url[s] = Url[database.server]}

get_private_layers(ids)   == {r \in database.rows : ~r.public /\ r.server \in ids}
get_protected_layers(ids) == {r \in get_private_layers(ids) : \E a \in r.areas : a.roles \cap database.roles # {}}
get_writable_layers(ids)  == {r \in database.rows : /\ r.server \in ids
                                                    /\ \E a \in r.areas : a.readwrite /\ a.roles \cap database.roles # {}}

(* filter_capabilities *)
layers_blacklist ==
  LET private == NamesOf(get_private_layers(ogc_server_ids) \ get_protected_layers(ogc_server_ids))
      below   == {p[2] : p \in {q \in document.wms_structure : q[1] \in private}}
  IN {Lower[name] : name \in private \cup below}

(* filter_wfst_capabilities *)
layers_whitelist == {Lower[name] : name \in NamesOf(get_writable_layers(ogc_server_ids))}

Keep(name) == IF document.service = "wfst" THEN Local[name] \in layers_whitelist ELSE Local[name] \notin layers_blacklist

(* TinyOWSProxy._is_allowed *)
IsAllowed(name) == Local[name] \in {Lower[own] : own \in NamesOf(get_writable_layers({database.server}))}

-----------------------------------------------------------------------------
Top       == path[Len(path)]
TopParent == path[Len(path) - 1]

(* mutant: a layer in a hidden one is looked at for itself *)
InheritNothing == NewLayer

(* A layer in one that is hidden is hidden too, but not in the first one. *)
Inherit == IF Len(path) > 1 THEN [NewLayer EXCEPT !.self_hidden = element[Top].self_hidden] ELSE NewLayer

(* startElement, of an element Layer or FeatureType *)
StartElement ==
  LET n == started + 1 IN
  /\ texts = <<>> /\ n \in Layers /\ document.parent[n] = (IF path = <<>> THEN 0 ELSE Top)
  /\ started' = n /\ path' = Append(path, n) /\ texts' = document.names[n]
  /\ element' = [m \in Layers |->
                   IF m = n THEN Inherit
                   ELSE IF m = document.parent[n]
                   THEN [element[m] EXCEPT !.has_children = TRUE, !.children_nb = @ + 1]
                   ELSE element[m]]
  /\ UNCHANGED <<document, database, downstream, cut>>

(* The end of the parser's buffer is in a name. *)
Cut ==
  /\ texts # <<>> /\ Head(texts) # Piece /\ cut = {}
  /\ texts' = <<Piece, Piece>> \o Tail(texts) /\ cut' = {Top}
  /\ UNCHANGED <<document, database, started, path, element, downstream>>

(* characters, in an element Name *)
Show == [m \in Layers |-> IF \E i \in DOMAIN path : path[i] = m THEN [element[m] EXCEPT !.hidden = FALSE] ELSE element[m]]

Hide == [m \in Layers |-> IF m = Top THEN [element[m] EXCEPT !.self_hidden = TRUE]
                          ELSE IF Len(path) > 1 /\ m = TopParent
                          THEN [element[m] EXCEPT !.children_nb = @ - 1] ELSE element[m]]

Characters ==
  /\ texts # <<>> /\ texts' = Tail(texts)
  /\ element' = IF element[Top].self_hidden THEN element ELSE IF Keep(Head(texts)) THEN Show ELSE Hide
  /\ UNCHANGED <<document, database, started, path, downstream, cut>>

(* The layers that a layer is in. *)
Above ==
  LET up[n \in Layers] == IF document.parent[n] = 0 THEN {} ELSE {document.parent[n]} \cup up[document.parent[n]]
  IN up

Below(n) == {m \in Layers : n \in Above[m]}

(* _add_child *)
Added(n) == ~element[n].hidden /\ ~(element[n].has_children /\ element[n].children_nb = 0)

(* endElement: the actions of the first layer are carried out when it ends, those of the others in turn. *)
EndElement ==
  /\ texts = <<>> /\ path # <<>> /\ (started + 1 \in Layers => document.parent[started + 1] # Top)
  /\ path' = SubSeq(path, 1, Len(path) - 1)
  /\ downstream' = IF Len(path) > 1 \/ element[Top].hidden THEN downstream
                   ELSE downstream \cup {Top} \cup {n \in Below(Top) : \A m \in {n} \cup (Above[n] \ {Top}) : Added(m)}
  /\ UNCHANGED <<document, database, started, texts, element, cut>>

Next == StartElement \/ Cut \/ Characters \/ EndElement

Spec == Init /\ [][Next]_filterVars

-----------------------------------------------------------------------------
Filtered == path = <<>> /\ started = Cardinality(Layers)

(* The name of a layer, that is none of a style; without names nobody looks at a layer for itself. *)
Named(n)   == document.names[n] # <<>>
Refused(n) == Named(n) /\ ~Keep(document.names[n][1])
First(n)   == document.parent[n] = 0

(* No style has the name of a layer that is refused: it would be taken for the name of its layer. *)
StylesDiffer == \A n \in Layers : \A i \in 2..Len(document.names[n]) : Keep(document.names[n][i])

(* A layer whose name is refused is not written, nor is one in it, unless the parser cut its name; the first
   layer is written when something in it is kept. *)
RefusedIsHidden ==
  Filtered => \A n \in downstream : \A m \in {n} \cup Above[n] :
                Refused(m) => \/ m \in cut
                              \/ First(m) /\ \E k \in Below(m) : Named(k) /\ (k \in cut \/ ~Refused(k))

(* A group all of whose layers are refused is not written without them. *)
NoEmptyGroup ==
  (Filtered /\ StylesDiffer) => \A n \in downstream \ cut :
    (~First(n) /\ \E k \in Below(n) : document.parent[k] = n)
      => \E k \in Below(n) : document.parent[k] = n /\ (k \in cut \/ ~Refused(k))

(* A layer whose name is kept and that is in none that is refused is written. *)
KeptIsShown ==
  (Filtered /\ StylesDiffer /\ cut = {})
    => \A n \in Layers : (/\ Named(n) /\ ~Refused(n) /\ Below(n) = {}
                          /\ \A m \in Above[n] : First(m) \/ ~Refused(m)) => n \in downstream

(* TinyOWS lists what it lets the user change, and other layers only when servers share its URL. *)
ListsWhatIsAllowed ==
  (Filtered /\ document.service = "wfst" /\ cut = {}) =>
    \A n \in Layers : /\ IsAllowed(document.names[n][1]) => n \in downstream
                      /\ (n \in downstream /\ ogc_server_ids = {database.server}) => IsAllowed(document.names[n][1])
=============================================================================
