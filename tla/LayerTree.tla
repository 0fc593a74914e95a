------------------------------- MODULE LayerTree -------------------------------
(***************************************************************************)
(* The tree of themes, groups and layers that administrators edit with     *)
(* forms, with the page of the layer tree and with the synchronizer of OGC *)
(* servers.                                                                *)
(*                                                                         *)
(* Each request is a transaction (READ COMMITTED): it sees what others     *)
(* have committed and what it has written itself, and validates when it    *)
(* reads.  Of an item, the name and the type are modelled, of a link, the  *)
(* row, of which the same group and item may have several; the order of    *)
(* the children and the other columns are left out.                        *)
(***************************************************************************)
EXTENDS Naturals, Sequences, FiniteSets

CONSTANTS
  Theme, Group, Layer,   \* the names of items of the three types
  Admin,                 \* requests that may run at the same time
  Document,              \* the capabilities, each as the calls of its walk
  None,                  \* no parent
  Start,                 \* trees to begin with, left by earlier requests
  MaxCopies,             \* bound: number of rows that link one item to one group
  MaxRequests            \* bound: number of requests

TreeGroup == Theme \cup Group
Item == TreeGroup \cup Layer

(* synchronize_layer visits an element before and after the elements in it:  *)
(* "get" with its parent, and "sort" with its children.                      *)
Call == [op : {"get", "sort"}, item : Item, parent : {None} \cup TreeGroup,
         kids : SUBSET (Item \ Theme)]

ASSUME TypesAssumption ==
  Theme \cap Group = {} /\ Theme \cap Layer = {} /\ Group \cap Layer = {} /\ None \notin Item
(* The calls of a walk over elements with distinct names: a theme is at the  *)
(* top and a group is not; an element comes before the elements in it, of    *)
(* which a group has some, and its children are sorted after them; a layer   *)
(* that is directly in a theme is not among its children.                    *)
IsWalk(d) ==
  \A n \in 1 .. Len(d) :
    LET Got(i, p) == \E m \in 1 .. n - 1 : d[m].op = "get" /\ d[m].item = i /\ d[m].parent = p
    IN  /\ d[n].op = "get" =>
             /\ d[n].item \in Theme => d[n].parent = None
             /\ d[n].item \in Group => d[n].parent # None
             /\ d[n].parent # None => \E p \in {None} \cup TreeGroup : Got(d[n].parent, p)
             /\ \A m \in 1 .. Len(d) : d[m].op = "get" /\ d[m].item = d[n].item => m = n
             /\ d[n].item \in Group =>
                  \E m \in 1 .. Len(d) : d[m].op = "get" /\ d[m].parent = d[n].item
        /\ d[n].op = "sort" =>
             /\ d[n].item \in TreeGroup
             /\ d[n].item \in Theme => d[n].kids \subseteq Group
             /\ \A i \in d[n].kids : Got(i, d[n].item)

ASSUME DocumentAssumption == Document \subseteq Seq(Call) /\ \A d \in Document : IsWalk(d)
ASSUME BoundsAssumption == MaxCopies \in Nat /\ MaxRequests \in Nat

VARIABLES
  items,    \* the rows of treeitem
  rows,     \* the rows of layergroup_treeitem
  req,      \* req[a]: the transaction of a
  slip,     \* history: commits that no validation has seen as a whole
  requests  \* number of requests that have started

vars == <<items, rows, req, slip, requests>>

-----------------------------------------------------------------------------
(* Types *)

Row == [group : TreeGroup, item : Item, copy : 1 .. MaxCopies]
Option == {"parents", "ordering", "clean"}

(* doc, at: the walk of the synchronizer and the next call of it; todo: the  *)
(* groups that are still to be looked at when empty ones are removed.        *)
Request ==
  [pc : {"idle", "write", "walk", "check", "clean"},
   make : SUBSET Item, del : SUBSET Item, add : SUBSET Row, drop : SUBSET Row,
   opts : SUBSET Option, doc : Document \cup {<<>>}, at : Nat \ {0}, todo : SUBSET Group,
   unchecked : BOOLEAN, raced : BOOLEAN]

TypeOK ==
  /\ items \subseteq Item
  /\ rows \subseteq Row
  /\ req \in [Admin -> Request]
  /\ slip \subseteq {"race", "new", "sync"}
  /\ requests \in 0 .. MaxRequests

Idle ==
  [pc |-> "idle", make |-> {}, del |-> {}, add |-> {}, drop |-> {}, opts |-> {}, doc |-> <<>>,
   at |-> 1, todo |-> {}, unchecked |-> FALSE, raced |-> FALSE]

Init ==
  /\ \E tree \in Start : items = tree.items /\ rows = tree.rows /\ slip = tree.slip
  /\ requests = 0
  /\ req = [a \in Admin |-> Idle]

-----------------------------------------------------------------------------
(* The tree *)

(* What a transaction sees. *)
RowsOf(x) == (rows \ x.drop) \cup x.add
ItemsOf(x) == (items \cup x.make) \ x.del

Children(R, g) == {r \in R : r.group = g}
Parents(R, i) == {r \in R : r.item = i}
GroupsOf(R, i) == {r.group : r \in Parents(R, i)}
ItemsIn(R) == {r.item : r \in R}

ClosedUpwards(R, A) == \A r \in R : r.item \in A => r.group \in A

Single(R) == \A q, r \in R : q.group = r.group /\ q.item = r.item => q = r

Proper(I, R) ==
  \A r \in R :
    /\ {r.group, r.item} \subseteq I
    /\ r.item \notin Theme
    /\ r.group \in Theme => r.item \in Group

(* The recursive query for the groups above an item. *)
Above(R, i) ==
  {h \in TreeGroup : \A A \in SUBSET TreeGroup :
     GroupsOf(R, i) \subseteq A /\ ClosedUpwards(R, A) => h \in A}

Acyclic(R) == \A g \in TreeGroup : g \notin Above(R, g)

(* UNION ALL comes to an end when no group above is above itself. *)
QueryEnds(R, i) == \A h \in {i} \cup Above(R, i) : h \notin Above(R, h)

(* What the requests left before: slip says where a cycle or a copy is from. *)
ASSUME StartAssumption ==
  \A tree \in Start :
    /\ tree.items \subseteq Item /\ tree.rows \subseteq Row
    /\ tree.slip \subseteq {"race", "new", "sync"}
    /\ Proper(tree.items, tree.rows)
    /\ ~ Acyclic(tree.rows) => tree.slip # {}
    /\ ~ Single(tree.rows) => "race" \in tree.slip

(* n rows that link i to g, with primary keys that nobody else has. *)
Free(g, i) ==
  LET used == rows \cup UNION {req[b].add \cup req[b].drop : b \in Admin}
  IN  {k \in 1 .. MaxCopies : [group |-> g, item |-> i, copy |-> k] \notin used}

Copies(g, i, n) == {C \in SUBSET Free(g, i) : Cardinality(C) = n}

Room(g, i, n) == Copies(g, i, n) # {}

NewRows(g, i, n) ==
  {[group |-> g, item |-> i, copy |-> k] : k \in CHOOSE C \in Copies(g, i, n) : TRUE}

-----------------------------------------------------------------------------
(* The forms and the page of the layer tree *)

Becomes(a, x) == req' = [req EXCEPT ![a] = x] /\ UNCHANGED <<items, rows, slip>>

Begin(a) == req[a] = Idle /\ requests < MaxRequests /\ requests' = requests + 1

Continue(a, x) == Becomes(a, x) /\ UNCHANGED requests

(* mutant: a theme may get any item *)
CandidatesOfAnyType(g) == (items \ Theme) \ (Above(rows, g) \cup {g})

(* mutant: what is above is proposed too *)
CandidatesAbove(g) == ((items \ Theme) \ {g}) \cap (IF g \in Theme THEN Group ELSE Item)

(* treeitems: the items that are proposed as children of an existing group.  *)
Candidates(g) ==
  ((items \ Theme) \ (Above(rows, g) \cup {g})) \cap (IF g \in Theme THEN Group ELSE Item)

(* A form is saved: some of the links are kept, and other items are added.   *)
Save(a, g, keep, more) ==
  /\ Begin(a)
  /\ g \in items
  /\ QueryEnds(rows, g)
  /\ keep \subseteq Children(rows, g)
  /\ more \cap ItemsIn(Children(rows, g)) = {}
  /\ ItemsIn(keep) \cup more \subseteq Candidates(g)
  /\ \A i \in more : Room(g, i, 1)
  /\ Becomes(a, [Idle EXCEPT !.pc = "write", !.drop = Children(rows, g) \ keep,
                             !.add = UNION {NewRows(g, i, 1) : i \in more}])

(* A new item, whose form may name a parent; nothing is above it yet. *)
NewCandidates(i) ==
  IF i \in Layer THEN {} ELSE (items \ Theme) \cap (IF i \in Theme THEN Group ELSE Item)

NewParents(i) == items \cap (IF i \in Theme THEN {} ELSE IF i \in Layer THEN Group ELSE TreeGroup)

New(a, i, children, parent) ==
  /\ Begin(a)
  /\ i \notin items
  /\ children \subseteq NewCandidates(i)
  /\ parent \in {None} \cup NewParents(i)
  /\ \A c \in children : Room(i, c, 1)
  /\ parent # None => Room(parent, i, 1)
  /\ Becomes(a, [Idle EXCEPT !.pc = "write", !.make = {i},
       !.add = (UNION {NewRows(i, c, 1) : c \in children})
               \cup (IF parent = None THEN {} ELSE NewRows(parent, i, 1)),
       !.unchecked = (parent # None /\ children # {})])

(* unlink: one_or_none takes no link of which there are two. *)
Unlink(a, r) ==
  /\ Begin(a)
  /\ {q \in Children(rows, r.group) : q.item = r.item} = {r}
  /\ Becomes(a, [Idle EXCEPT !.pc = "write", !.drop = {r}])

(* delete: the links of an item, on both sides, are deleted with it. *)
Delete(a, i) ==
  /\ Begin(a)
  /\ i \in items
  /\ Becomes(a, [Idle EXCEPT !.pc = "write", !.del = {i},
                             !.drop = Parents(rows, i) \cup Children(rows, i)])

-----------------------------------------------------------------------------
(* The synchronizer of an OGC server *)

(* mutant: the links that an item had are kept *)
DroppedNothing(x, R) == x

(* It only removes from the transaction what it has written itself. *)
Dropped(x, R) == [x EXCEPT !.drop = @ \cup (R \cap rows), !.add = @ \ R]

(* synchronize, or check when nothing is walked. *)
SyncStart(a, d, opts) ==
  /\ Begin(a)
  /\ Becomes(a, [Idle EXCEPT !.pc = "walk", !.doc = d, !.opts = opts,
                             !.unchecked = ("ordering" \in opts /\ "parents" \notin opts)])

CheckStart(a, d) ==
  /\ Begin(a)
  /\ Becomes(a, [Idle EXCEPT !.pc = "check", !.doc = d, !.opts = {"clean"}])

Walking(a, op) ==
  /\ req[a].pc = "walk"
  /\ req[a].at <= Len(req[a].doc)
  /\ req[a].doc[req[a].at].op = op

Proceed(a, x) == Continue(a, [x EXCEPT !.at = @ + 1])

(* mutant: what has no parent is linked all the same *)
WantedAnyway(c) == {c.parent} \ (IF c.item \in Layer THEN Theme ELSE {})

(* Layers are put into groups only. *)
Wanted(c) == {c.parent} \ ({None} \cup (IF c.item \in Layer THEN Theme ELSE {}))

LinkTo(ps, i) == UNION {NewRows(p, i, 1) : p \in ps}

(* get_theme, get_layer_group, get_layer_wms: what is not there is created   *)
(* with its parent; what is there keeps its parents or is moved.             *)
GetItem(a) ==
  /\ Walking(a, "get")
  /\ LET c == req[a].doc[req[a].at]
         old == Parents(RowsOf(req[a]), c.item)
         moved == /\ "parents" \in req[a].opts /\ c.item \notin Theme
                  /\ \/ GroupsOf(RowsOf(req[a]), c.item) # Wanted(c)
                     \/ Cardinality(old) > 1
     IN IF c.item \notin ItemsOf(req[a])
        THEN /\ \A p \in Wanted(c) : Room(p, c.item, 1)
             /\ Proceed(a, [req[a] EXCEPT !.make = @ \cup {c.item},
                                        !.add = @ \cup LinkTo(Wanted(c), c.item)])
        ELSE IF moved
        THEN /\ \A p \in Wanted(c) : Room(p, c.item, 1)
             /\ Proceed(a, [Dropped(req[a], old) EXCEPT !.add = @ \cup LinkTo(Wanted(c), c.item)])
        ELSE Proceed(a, req[a])

(* mutant: every child of the document gets a link *)
MissingAnyway(R, g, kids, i) == IF i \in kids THEN 1 ELSE 0

(* _set_children with the order: what has exactly one link keeps it, and     *)
(* everything else gets one more each time it is listed.                     *)
Missing(R, g, kids, i) ==
  LET n == Cardinality({r \in Children(R, g) : r.item = i})
  IN  IF n = 1 THEN 0 ELSE IF i \in kids THEN 1 ELSE n

(* The children of the document come first.  Nothing is done when this is    *)
(* how they are listed already, which it may be when each has one link.      *)
SortItem(a) ==
  /\ Walking(a, "sort")
  /\ LET c == req[a].doc[req[a].at]
         missing(i) == Missing(RowsOf(req[a]), c.item, c.kids, i)
     IN \/ /\ "ordering" \in req[a].opts /\ c.kids # {}
           /\ \A i \in Item : Room(c.item, i, missing(i))
           /\ Proceed(a, [req[a] EXCEPT
                !.add = @ \cup UNION {NewRows(c.item, i, missing(i)) : i \in Item}])
        \/ /\ "ordering" \in req[a].opts => \A i \in c.kids : missing(i) = 0
           /\ Proceed(a, req[a])

(* The items in I are deleted, and their links with them. *)
Without(x, I) ==
  LET gone == {r \in RowsOf(x) : r.item \in I \/ r.group \in I}
  IN  [Dropped(x, gone) EXCEPT !.make = @ \ I, !.del = @ \cup (I \cap items)]

(* check_layers: with clean, the layers that the document does not have are  *)
(* deleted.                                                                  *)
Known(d) == {d[n].item : n \in 1 .. Len(d)}

CheckLayers(a) ==
  /\ req[a].pc = "check" \/ (req[a].pc = "walk" /\ req[a].at > Len(req[a].doc))
  /\ IF "clean" \in req[a].opts
     THEN Continue(a, [Without(req[a], (ItemsOf(req[a]) \cap Layer) \ Known(req[a].doc)) EXCEPT
                         !.pc = "clean", !.todo = ItemsOf(req[a]) \cap Group])
     ELSE Continue(a, [req[a] EXCEPT !.pc = "write"])

(* Each group once, in the order of a query: a group is deleted when it has  *)
(* no links to children.  When its children were sorted before, they may be  *)
(* remembered although they are gone.                                        *)
CleanGroup(a, g) ==
  /\ req[a].pc = "clean" /\ g \in req[a].todo
  /\ \/ /\ Children(RowsOf(req[a]), g) = {}
        /\ Continue(a, [Without(req[a], {g} \cap ItemsOf(req[a])) EXCEPT !.todo = @ \ {g}])
     \/ /\ Children(RowsOf(req[a]), g) # {} \/ "ordering" \in req[a].opts
        /\ Continue(a, [req[a] EXCEPT !.todo = @ \ {g}])

-----------------------------------------------------------------------------
(* The end of a transaction *)

Ready(a) == req[a].pc = "write" \/ (req[a].pc = "clean" /\ req[a].todo = {})

(* The unique names and the foreign keys: a link needs both its ends, and a  *)
(* group that got a child in the meantime can not be deleted; the links to   *)
(* an item are deleted with it.                                              *)
Allowed(a) ==
  /\ req[a].make \cap items = {}
  /\ \A r \in req[a].add : {r.group, r.item} \subseteq ItemsOf(req[a])
  /\ \A r \in RowsOf(req[a]) : r.group \notin req[a].del

Slips(a) ==
  IF req[a].add = {} THEN {}
  ELSE (IF req[a].raced THEN {"race"} ELSE {})
       \cup (IF ~ req[a].unchecked THEN {} ELSE IF req[a].doc = <<>> THEN {"new"} ELSE {"sync"})

Commit(a) ==
  /\ Ready(a) /\ Allowed(a)
  /\ UNCHANGED requests
  /\ items' = ItemsOf(req[a])
  /\ rows' = {r \in RowsOf(req[a]) : r.item \notin req[a].del}
  /\ slip' = slip \cup Slips(a)
  /\ req' = [b \in Admin |-> IF b = a THEN Idle
                             ELSE IF req[b] = Idle THEN req[b]
                             ELSE [req[b] EXCEPT !.raced = TRUE]]

(* A constraint is violated, the OGC server does not answer, or it was a dry *)
(* run.                                                                      *)
Abort(a) ==
  /\ req[a].pc # "idle"
  /\ Continue(a, Idle)

-----------------------------------------------------------------------------
Edit(a) ==
  \/ \E g \in TreeGroup : \E keep \in SUBSET Children(rows, g), more \in SUBSET (Item \ Theme) :
       Save(a, g, keep, more)
  \/ \E i \in Item, children \in SUBSET (Item \ Theme), parent \in {None} \cup TreeGroup :
       New(a, i, children, parent)
  \/ \E r \in rows : Unlink(a, r)
  \/ \E i \in Item : Delete(a, i)

Sync(a) ==
  \/ \E d \in Document, opts \in SUBSET Option : SyncStart(a, d, opts)
  \/ \E d \in Document : CheckStart(a, d)
  \/ GetItem(a) \/ SortItem(a) \/ CheckLayers(a)
  \/ \E g \in Group : CleanGroup(a, g)

Next == \E a \in Admin : Edit(a) \/ Sync(a) \/ Commit(a) \/ Abort(a)

Spec == Init /\ [][Next]_vars

-----------------------------------------------------------------------------
(* Properties *)

(* The client shows themes that hold groups, and groups that hold groups and *)
(* layers: no request, alone or with others, leaves a layer directly in a    *)
(* theme, a theme in a group, or a link without one of its ends.             *)
TreeInv == Proper(items, rows)

(* What a request holds: its links join what they may, and unless it was     *)
(* overtaken, it sees links between items that it sees, without a cycle      *)
(* unless there was one, and without copies unless there were some.          *)
Sound(x) ==
  /\ \A r \in x.add : r.item \notin Theme /\ (r.group \in Theme => r.item \in Group)
  /\ ~ x.raced =>
       /\ \A r \in RowsOf(x) : {r.group, r.item} \subseteq ItemsOf(x)
       /\ Single(rows) => Single(RowsOf(x))
       /\ Acyclic(rows) /\ ~ x.unchecked => Acyclic(RowsOf(x))

(* The items that a walk has got are there, and have the parents that they   *)
(* have in the document when these are forced, to the end of the request.    *)
Walked(x) ==
  ~ x.raced =>
    /\ x.pc = "walk" => /\ x.del = {}
                        /\ "ordering" \in x.opts => x.unchecked \/ "parents" \in x.opts
    /\ \A n \in 1 .. Len(x.doc) :
         LET c == x.doc[n] IN
         c.op = "get" =>
           /\ x.pc = "walk" /\ n < x.at => c.item \in ItemsOf(x)
           /\ "parents" \in x.opts /\ (x.pc = "walk" => n < x.at) =>
                GroupsOf(RowsOf(x), c.item) = Wanted(c)

PendingInv == \A a \in Admin : Sound(req[a]) /\ Walked(req[a])

(* The tree gets a cycle only by one of three kinds of requests: one that    *)
(* another overtook between its validation and its commit, a new group that  *)
(* is given a parent and children at once, or a synchronization that orders  *)
(* the children but keeps the parents.                                       *)
CycleOnlyUnchecked == ~ Acyclic(rows) => slip # {}

(* The same item is twice in a group only if a request was overtaken: then   *)
(* it can no longer be unlinked.                                             *)
CopiesOnlyByRace == ~ Single(rows) => "race" \in slip

(* "force_parents: overwrite parents of each node with those from the        *)
(* capabilities": after a synchronization that nobody overtook, each item of *)
(* the document has the parent that it has there, and no other, whatever     *)
(* ordering and cleaning did after it was moved.                             *)
Synchronized(a, R) ==
  \A n \in 1 .. Len(req[a].doc) :
    LET c == req[a].doc[n] IN
    c.op = "get" => GroupsOf(R, c.item) = Wanted(c)

ParentsOfCapabilities ==
  [][\A a \in Admin :
       Commit(a) /\ "parents" \in req[a].opts /\ ~ req[a].raced
       => Synchronized(a, rows')]_vars
=============================================================================
