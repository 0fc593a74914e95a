--------------------------- MODULE LayerTree_proofs ---------------------------
(***************************************************************************)
(* The links of the layer tree join what they may; a cycle comes about     *)
(* only by the three kinds of requests that nothing validates as a whole,  *)
(* a double link only by requests that overtake each other; and a          *)
(* synchronization that was not overtaken puts every item where the        *)
(* capabilities have it.                                                   *)
(***************************************************************************)
EXTENDS LayerTree, FiniteSetTheorems, TLAPS

IInv ==
  /\ TypeOK /\ TreeInv /\ PendingInv
  /\ CycleOnlyUnchecked /\ CopiesOnlyByRace

-----------------------------------------------------------------------------
(* Acyclic trees *)

(* What is above an item is closed upwards and holds its groups.             *)
LEMMA AboveClosed ==
  ASSUME NEW R \in SUBSET Row, NEW i
  PROVE  /\ GroupsOf(R, i) \subseteq Above(R, i)
         /\ ClosedUpwards(R, Above(R, i))
         /\ Above(R, i) \subseteq TreeGroup
<1>1. \A r \in R : r.group \in TreeGroup
  BY DEF Row
<1>2. GroupsOf(R, i) \subseteq Above(R, i)
  BY <1>1 DEF Above, GroupsOf, Parents
<1>3. ClosedUpwards(R, Above(R, i))
  BY <1>1 DEF Above, ClosedUpwards
<1> QED
  BY <1>2, <1>3 DEF Above

(* It is the smallest such set.                                              *)
LEMMA AboveSmallest ==
  ASSUME NEW R \in SUBSET Row, NEW i, NEW A \in SUBSET TreeGroup,
         GroupsOf(R, i) \subseteq A, ClosedUpwards(R, A)
  PROVE  Above(R, i) \subseteq A
  BY DEF Above

(* Taking links away, or adding copies of links, makes no cycle.             *)
LEMMA AcyclicSameLinks ==
  ASSUME NEW R \in SUBSET Row, NEW Q \in SUBSET Row, Acyclic(R),
         \A q \in Q : \E r \in R : r.group = q.group /\ r.item = q.item
  PROVE  Acyclic(Q)
<1> SUFFICES ASSUME NEW g \in TreeGroup
             PROVE  g \notin Above(Q, g)
  BY DEF Acyclic
<1> DEFINE A == Above(R, g)
<1>1. GroupsOf(R, g) \subseteq A /\ ClosedUpwards(R, A) /\ A \subseteq TreeGroup
  BY AboveClosed
<1>2. GroupsOf(Q, g) \subseteq A
  BY <1>1 DEF GroupsOf, Parents
<1>3. ClosedUpwards(Q, A)
  BY <1>1 DEF ClosedUpwards
<1>4. Above(Q, g) \subseteq A
  BY <1>1, <1>2, <1>3, AboveSmallest
<1> QED
  BY <1>4 DEF Acyclic

(* The rule of the forms: children that are neither the group itself nor     *)
(* above it make no cycle.                                                   *)
LEMMA AcyclicGrows ==
  ASSUME NEW R \in SUBSET Row, NEW Q \in SUBSET Row, Acyclic(R),
         NEW g \in TreeGroup, NEW S, g \notin S, Above(R, g) \cap S = {},
         \A q \in Q : \/ \E r \in R : r.group = q.group /\ r.item = q.item
                      \/ q.group = g /\ q.item \in S
  PROVE  Acyclic(Q)
<1> SUFFICES ASSUME NEW h \in TreeGroup
             PROVE  h \notin Above(Q, h)
  BY DEF Acyclic
<1> DEFINE H == Above(R, h)
           G == Above(R, g)
<1>1. /\ GroupsOf(R, h) \subseteq H /\ ClosedUpwards(R, H) /\ H \subseteq TreeGroup
      /\ GroupsOf(R, g) \subseteq G /\ ClosedUpwards(R, G) /\ G \subseteq TreeGroup
  BY AboveClosed
<1>2. h \notin H /\ g \notin G
  BY DEF Acyclic
<1>3. CASE h \notin S /\ H \cap S = {}
  <2>1. GroupsOf(Q, h) \subseteq H
    BY <1>1, <1>3 DEF GroupsOf, Parents
  <2>2. ClosedUpwards(Q, H)
    BY <1>1, <1>3 DEF ClosedUpwards
  <2>3. Above(Q, h) \subseteq H
    BY <1>1, <2>1, <2>2, AboveSmallest
  <2> QED
    BY <1>2, <2>3
<1>4. CASE h \in S \/ H \cap S # {}
  <2> DEFINE A == H \cup {g} \cup G
  <2>1. GroupsOf(Q, h) \subseteq A
    BY <1>1 DEF GroupsOf, Parents
  <2>2. ClosedUpwards(R, A)
    BY <1>1 DEF ClosedUpwards, GroupsOf, Parents
  <2>3. ClosedUpwards(Q, A)
    <3> SUFFICES ASSUME NEW q \in Q, q.item \in A
                 PROVE  q.group \in A
      BY DEF ClosedUpwards
    <3>1. CASE \E r \in R : r.group = q.group /\ r.item = q.item
      BY <2>2, <3>1 DEF ClosedUpwards
    <3>2. CASE q.group = g
      BY <3>2
    <3> QED
      BY <3>1, <3>2
  <2>4. Above(Q, h) \subseteq A
    BY <1>1, <2>1, <2>3, AboveSmallest
  <2>5. h # g
    BY <1>4
  <2>6. h \notin G
    <3> SUFFICES ASSUME h \in G PROVE FALSE
      OBVIOUS
    <3>1. GroupsOf(R, h) \subseteq G
      BY <1>1 DEF ClosedUpwards, GroupsOf, Parents
    <3>2. H \subseteq G
      BY <1>1, <3>1, AboveSmallest
    <3> QED
      BY <1>4, <3>2
  <2> QED
    BY <1>2, <2>4, <2>5, <2>6
<1> QED
  BY <1>3, <1>4

(* Groups below which nothing is linked: what is above them stays in a set   *)
(* that holds the groups of its members.                                     *)
LEMMA AboveWithin ==
  ASSUME NEW R \in SUBSET Row, NEW A \in SUBSET TreeGroup, ClosedUpwards(R, A), NEW i \in A
  PROVE  Above(R, i) \subseteq A
<1>1. GroupsOf(R, i) \subseteq A
  BY DEF ClosedUpwards, GroupsOf, Parents
<1> QED
  BY <1>1, AboveSmallest

-----------------------------------------------------------------------------
(* New rows *)

LEMMA FreeFinite ==
  ASSUME NEW g, NEW i
  PROVE  Free(g, i) \subseteq 1 .. MaxCopies /\ IsFiniteSet(Free(g, i))
<1>1. Free(g, i) \subseteq 1 .. MaxCopies
  BY DEF Free
<1>2. IsFiniteSet(1 .. MaxCopies)
  BY FS_Interval, BoundsAssumption
<1> QED
  BY <1>1, <1>2, FS_Subset

(* What is made where there is room are rows that link the item to the       *)
(* group, as many as were asked for.                                         *)
LEMMA NewRowsFacts ==
  ASSUME NEW g \in TreeGroup, NEW i \in Item, NEW n, Room(g, i, n)
  PROVE  /\ NewRows(g, i, n) \in SUBSET Row
         /\ \A r \in NewRows(g, i, n) : r.group = g /\ r.item = i
         /\ n = 0 => NewRows(g, i, n) = {}
         /\ n = 1 => /\ NewRows(g, i, n) # {}
                     /\ \A q, r \in NewRows(g, i, n) : q = r
<1> DEFINE C == CHOOSE D \in Copies(g, i, n) : TRUE
<1>1. C \in Copies(g, i, n)
  BY DEF Room
<1>2. C \subseteq Free(g, i) /\ Cardinality(C) = n
  BY <1>1 DEF Copies
<1>3. C \subseteq 1 .. MaxCopies /\ IsFiniteSet(C)
  BY <1>2, FreeFinite, FS_Subset
<1>4. NewRows(g, i, n) = {[group |-> g, item |-> i, copy |-> k] : k \in C}
  BY DEF NewRows
<1> HIDE DEF C
<1>5. NewRows(g, i, n) \in SUBSET Row
  BY <1>3, <1>4 DEF Row
<1>6. \A r \in NewRows(g, i, n) : r.group = g /\ r.item = i
  BY <1>4
<1>7. ASSUME n = 0 PROVE NewRows(g, i, n) = {}
  <2>1. C = {}
    BY <1>2, <1>3, <1>7, FS_EmptySet
  <2> QED
    BY <1>4, <2>1
<1>8. ASSUME n = 1
      PROVE  /\ NewRows(g, i, n) # {}
             /\ \A q, r \in NewRows(g, i, n) : q = r
  <2>1. PICK k : C = {k}
    BY <1>2, <1>3, <1>8, FS_Singleton
  <2> QED
    BY <1>4, <2>1
<1> QED
  BY <1>5, <1>6, <1>7, <1>8

-----------------------------------------------------------------------------
(* A step of one request, which leaves the tree as it is *)

LEMMA BecomesKeeps ==
  ASSUME IInv, NEW a \in Admin, NEW x \in Request, Becomes(a, x),
         requests' \in 0 .. MaxRequests, Sound(x), Walked(x)
  PROVE  IInv'
<1>1. rows' = rows /\ items' = items /\ slip' = slip
  BY DEF Becomes
<1>2. req' = [req EXCEPT ![a] = x] /\ req \in [Admin -> Request]
  BY DEF Becomes, IInv, TypeOK
<1>3. TypeOK'
  BY <1>1, <1>2 DEF IInv, TypeOK
<1>4. TreeInv'
  BY <1>1 DEF IInv, TreeInv, Proper
<1>5. PendingInv'
  <2> SUFFICES ASSUME NEW b \in Admin
               PROVE  Sound(req[b])' /\ Walked(req[b])'
    BY DEF PendingInv
  <2>1. Sound(req'[b]) /\ Walked(req'[b])
    <3>1. CASE b = a
      BY <1>2, <3>1
    <3>2. CASE b # a
      BY <1>2, <3>2 DEF IInv, PendingInv
    <3> QED
      BY <3>1, <3>2
  <2>2. Sound(req[b])'
    BY <2>1, <1>1 DEF Sound, RowsOf, ItemsOf
  <2>3. Walked(req[b])'
    BY <2>1, <1>1 DEF Walked, RowsOf, ItemsOf
  <2> QED
    BY <2>2, <2>3
<1>6. CycleOnlyUnchecked' /\ CopiesOnlyByRace'
  BY <1>1 DEF IInv, CycleOnlyUnchecked, CopiesOnlyByRace
<1> QED
  BY <1>3, <1>4, <1>5, <1>6 DEF IInv
-----------------------------------------------------------------------------
(* Forms, unlink and delete *)

LEMMA IdleFacts ==
  /\ Idle \in Request
  /\ Idle.pc = "idle" /\ Idle.make = {} /\ Idle.del = {} /\ Idle.add = {} /\ Idle.drop = {}
  /\ Idle.opts = {} /\ Idle.doc = <<>> /\ Idle.at = 1 /\ Idle.todo = {}
  /\ Idle.unchecked = FALSE /\ Idle.raced = FALSE
  BY DEF Idle, Request

(* An idle request sees the tree as it is.                                   *)
LEMMA IdleSound ==
  ASSUME IInv
  PROVE  Sound(Idle) /\ Walked(Idle) /\ RowsOf(Idle) = rows /\ ItemsOf(Idle) = items
<1>1. RowsOf(Idle) = rows /\ ItemsOf(Idle) = items
  BY IdleFacts DEF RowsOf, ItemsOf
<1>2. Sound(Idle)
  BY <1>1, IdleFacts DEF Sound, IInv, TreeInv, Proper
<1>3. Walked(Idle)
  BY IdleFacts DEF Walked
<1> QED
  BY <1>1, <1>2, <1>3

(* A request without a document has walked nothing.                          *)
LEMMA NoDocumentWalked ==
  ASSUME NEW x, x.doc = <<>>, x.pc # "walk"
  PROVE  Walked(x)
  BY DEF Walked

(* What a form adds: links of one group or to one item, between items that   *)
(* are there.                                                                *)
LEMMA SaveKeeps ==
  ASSUME IInv, NEW a \in Admin, NEW g \in TreeGroup, NEW keep \in SUBSET Children(rows, g),
         NEW more \in SUBSET (Item \ Theme), Save(a, g, keep, more)
  PROVE  IInv'
<1> DEFINE new == UNION {NewRows(g, i, 1) : i \in more}
           x == [Idle EXCEPT !.pc = "write", !.drop = Children(rows, g) \ keep, !.add = new]
<1>1. /\ x.pc = "write" /\ x.make = {} /\ x.del = {} /\ x.add = new
      /\ x.drop = Children(rows, g) \ keep /\ x.opts = {} /\ x.doc = <<>>
      /\ x.unchecked = FALSE /\ x.raced = FALSE
  BY DEF Idle
<1>2. /\ new \in SUBSET Row
      /\ \A r \in new : r.group = g /\ r.item \in more
      /\ \A q, r \in new : q.item = r.item => q = r
  <2>1. \A i \in more : Room(g, i, 1) /\ i \in Item
    BY DEF Save
  <2>2. \A i \in more : /\ NewRows(g, i, 1) \in SUBSET Row
                        /\ \A r \in NewRows(g, i, 1) : r.group = g /\ r.item = i
                        /\ \A q, r \in NewRows(g, i, 1) : q = r
    BY <2>1, NewRowsFacts
  <2>3. \A r \in new : \E i \in more : r \in NewRows(g, i, 1)
    OBVIOUS
  <2> QED
    BY <2>2, <2>3
<1> HIDE DEF new
<1>3. x \in Request
  <2>1. Children(rows, g) \ keep \in SUBSET Row
    BY DEF IInv, TypeOK, Children
  <2> QED
    BY <1>2, <2>1, IdleFacts DEF Request
<1>4. /\ more \subseteq items \ Theme /\ g \in items
      /\ g \notin more /\ Above(rows, g) \cap more = {}
      /\ g \in Theme => more \subseteq Group
      /\ \A r \in rows : r.group = g => r.item \notin more
  BY DEF Save, Candidates, ItemsIn, Children
<1> HIDE DEF x
<1>5. RowsOf(x) = (rows \ (Children(rows, g) \ keep)) \cup new /\ ItemsOf(x) = items
  BY <1>1 DEF RowsOf, ItemsOf
<1>6. RowsOf(x) \subseteq rows \cup new
  BY <1>5
<1>7. Sound(x)
  <2>1. \A r \in x.add : r.item \notin Theme /\ (r.group \in Theme => r.item \in Group)
    BY <1>1, <1>2, <1>4
  <2>2. \A r \in RowsOf(x) : {r.group, r.item} \subseteq ItemsOf(x)
    BY <1>2, <1>4, <1>5, <1>6 DEF IInv, TreeInv, Proper
  <2>3. Single(rows) => Single(RowsOf(x))
    BY <1>2, <1>4, <1>6 DEF Single
  <2>4. Acyclic(rows) => Acyclic(RowsOf(x))
    <3>1. rows \in SUBSET Row /\ RowsOf(x) \in SUBSET Row
      BY <1>2, <1>6 DEF IInv, TypeOK
    <3>2. \A q \in RowsOf(x) : \/ \E r \in rows : r.group = q.group /\ r.item = q.item
                               \/ q.group = g /\ q.item \in more
      BY <1>2, <1>6
    <3> QED
      BY <1>4, <3>1, <3>2, AcyclicGrows
  <2> QED
    BY <1>1, <2>1, <2>2, <2>3, <2>4 DEF Sound
<1>8. Walked(x)
  BY <1>1, NoDocumentWalked
<1>9. Becomes(a, x) /\ requests' \in 0 .. MaxRequests
  <2>1. Becomes(a, x)
    BY DEF Save, x, new
  <2>2. requests' = requests + 1 /\ requests < MaxRequests /\ requests \in 0 .. MaxRequests
    BY DEF Save, Begin, IInv, TypeOK
  <2>3. requests' \in 0 .. MaxRequests
    BY <2>2, BoundsAssumption
  <2> QED
    BY <2>1, <2>3
<1> QED
  BY <1>3, <1>7, <1>8, <1>9, BecomesKeeps

(* A request that starts is one more, and its slot was idle.                 *)
LEMMA Begins ==
  ASSUME IInv, NEW a \in Admin, Begin(a)
  PROVE  req[a] = Idle /\ requests' \in 0 .. MaxRequests
<1>1. requests' = requests + 1 /\ requests < MaxRequests /\ requests \in 0 .. MaxRequests
  BY DEF Begin, IInv, TypeOK
<1> QED
  BY <1>1, BoundsAssumption DEF Begin

(* Nothing is linked to what is not there.                                   *)
LEMMA NothingAboveNew ==
  ASSUME IInv, NEW i \in Item, i \notin items
  PROVE  /\ \A r \in rows : r.group # i /\ r.item # i
         /\ Above(rows, i) = {}
         /\ \A g \in TreeGroup \cap items : i \notin Above(rows, g)
<1>1. rows \in SUBSET Row /\ items \subseteq Item
  BY DEF IInv, TypeOK
<1>2. \A r \in rows : r.group # i /\ r.item # i
  BY DEF IInv, TreeInv, Proper
<1>3. Above(rows, i) = {}
  <2>1. GroupsOf(rows, i) = {} /\ ClosedUpwards(rows, {})
    BY <1>2 DEF GroupsOf, Parents, ClosedUpwards
  <2> QED
    BY <1>1, <2>1, AboveSmallest
<1>4. ASSUME NEW g \in TreeGroup \cap items
      PROVE  i \notin Above(rows, g)
  <2>1. ClosedUpwards(rows, TreeGroup \cap items)
    BY <1>1 DEF ClosedUpwards, IInv, TreeInv, Proper, Row
  <2>2. Above(rows, g) \subseteq TreeGroup \cap items
    BY <1>1, <2>1, AboveWithin
  <2> QED
    BY <2>2
<1> QED
  BY <1>2, <1>3, <1>4

LEMMA NewKeeps ==
  ASSUME IInv, NEW a \in Admin, NEW i \in Item, NEW children \in SUBSET (Item \ Theme),
         NEW parent \in {None} \cup TreeGroup, New(a, i, children, parent)
  PROVE  IInv'
<1> DEFINE down == UNION {NewRows(i, c, 1) : c \in children}
           up == IF parent = None THEN {} ELSE NewRows(parent, i, 1)
           both == (parent # None /\ children # {})
           x == [Idle EXCEPT !.pc = "write", !.make = {i}, !.add = down \cup up,
                             !.unchecked = both]
<1>1. /\ i \notin items
      /\ children \subseteq items
      /\ i \in Layer => children = {}
      /\ i \in Theme => children \subseteq Group
      /\ parent # None => /\ parent \in items /\ i \notin Theme
                          /\ parent \in Theme => i \in Group
  BY TypesAssumption DEF New, NewCandidates, NewParents, Item, TreeGroup
<1>2. /\ down \in SUBSET Row
      /\ \A r \in down : r.group = i /\ r.item \in children
      /\ \A q, r \in down : q.item = r.item => q = r
  <2>1. \A c \in children : Room(i, c, 1) /\ c \in Item /\ i \in TreeGroup
    BY <1>1 DEF New, Item
  <2>2. \A c \in children : /\ NewRows(i, c, 1) \in SUBSET Row
                            /\ \A r \in NewRows(i, c, 1) : r.group = i /\ r.item = c
                            /\ \A q, r \in NewRows(i, c, 1) : q = r
    BY <2>1, NewRowsFacts
  <2>3. \A r \in down : \E c \in children : r \in NewRows(i, c, 1)
    OBVIOUS
  <2> QED
    BY <2>2, <2>3
<1>3. /\ up \in SUBSET Row
      /\ \A r \in up : r.group = parent /\ r.item = i /\ parent # None
      /\ \A q, r \in up : q = r
  <2>1. CASE parent = None
    BY <2>1
  <2>2. CASE parent # None
    <3>1. parent \in TreeGroup /\ Room(parent, i, 1)
      BY <2>2 DEF New
    <3> QED
      BY <2>2, <3>1, NewRowsFacts
  <2> QED
    BY <2>1, <2>2
<1>4. parent = None => up = {}
  OBVIOUS
<1>5. children = {} => down = {}
  OBVIOUS
<1> HIDE DEF down, up
<1>6. /\ x.pc = "write" /\ x.make = {i} /\ x.del = {} /\ x.add = down \cup up
      /\ x.drop = {} /\ x.opts = {} /\ x.doc = <<>> /\ x.raced = FALSE
  BY DEF Idle
<1>7. x.unchecked = both
  BY DEF Idle
<1>8. x \in Request
  <2>1. both \in BOOLEAN
    OBVIOUS
  <2> HIDE DEF both
  <2> QED
    BY <1>2, <1>3, <2>1, IdleFacts DEF Request
<1> HIDE DEF x
<1>9. RowsOf(x) = rows \cup (down \cup up) /\ ItemsOf(x) = items \cup {i}
  BY <1>6 DEF RowsOf, ItemsOf
<1>10. Sound(x)
  <2>0. /\ \A r \in rows : r.group # i /\ r.item # i
        /\ Above(rows, i) = {}
        /\ \A g \in TreeGroup \cap items : i \notin Above(rows, g)
    BY <1>1, NothingAboveNew
  <2>1. \A r \in x.add : r.item \notin Theme /\ (r.group \in Theme => r.item \in Group)
    BY <1>1, <1>2, <1>3, <1>6
  <2>2. \A r \in RowsOf(x) : {r.group, r.item} \subseteq ItemsOf(x)
    BY <1>1, <1>2, <1>3, <1>9 DEF IInv, TreeInv, Proper
  <2>3. Single(rows) => Single(RowsOf(x))
    BY <1>1, <1>2, <1>3, <1>9, <2>0 DEF Single
  <2>4. ASSUME Acyclic(rows), ~ x.unchecked
        PROVE  Acyclic(RowsOf(x))
    <3>1. rows \in SUBSET Row /\ RowsOf(x) \in SUBSET Row
      BY <1>2, <1>3, <1>9 DEF IInv, TypeOK
    <3>2. CASE children = {} /\ parent = None
      BY <1>4, <1>5, <1>9, <2>4, <3>2
    <3>3. CASE children # {}
      <4>1. parent = None /\ i \in TreeGroup
        BY <1>1, <1>7, <2>4, <3>3 DEF Item
      <4>2. \A q \in RowsOf(x) : \/ \E r \in rows : r.group = q.group /\ r.item = q.item
                                 \/ q.group = i /\ q.item \in children
        BY <1>2, <1>4, <1>9, <4>1
      <4> QED
        BY <1>1, <2>0, <2>4, <3>1, <4>1, <4>2, AcyclicGrows
    <3>4. CASE children = {} /\ parent # None
      <4>1. parent \in TreeGroup \cap items /\ parent # i
        BY <1>1, <3>4
      <4>2. \A q \in RowsOf(x) : \/ \E r \in rows : r.group = q.group /\ r.item = q.item
                                 \/ q.group = parent /\ q.item \in {i}
        BY <1>3, <1>5, <1>9, <3>4
      <4>3. parent \notin {i} /\ Above(rows, parent) \cap {i} = {}
        BY <2>0, <4>1
      <4> QED
        BY <2>4, <3>1, <4>1, <4>2, <4>3, AcyclicGrows
    <3> QED
      BY <3>2, <3>3, <3>4
  <2> QED
    BY <2>1, <2>2, <2>3, <2>4 DEF Sound
<1>11. Walked(x)
  BY <1>6, NoDocumentWalked
<1>12. Becomes(a, x) /\ requests' \in 0 .. MaxRequests
  <2>1. Becomes(a, x)
    BY DEF New, x, down, up
  <2> QED
    BY <2>1, Begins DEF New
<1> QED
  BY <1>8, <1>10, <1>11, <1>12, BecomesKeeps

(* Fewer links between the items that are there.                             *)
LEMMA FewerLinksSound ==
  ASSUME IInv, NEW x, x.add = {}, RowsOf(x) \subseteq rows,
         \A r \in RowsOf(x) : {r.group, r.item} \subseteq ItemsOf(x)
  PROVE  Sound(x)
<1>1. rows \in SUBSET Row /\ RowsOf(x) \in SUBSET Row
  BY DEF IInv, TypeOK
<1>2. Single(rows) => Single(RowsOf(x))
  BY DEF Single
<1>3. Acyclic(rows) => Acyclic(RowsOf(x))
  BY <1>1, AcyclicSameLinks
<1> QED
  BY <1>2, <1>3 DEF Sound

LEMMA UnlinkKeeps ==
  ASSUME IInv, NEW a \in Admin, NEW r \in rows, Unlink(a, r)
  PROVE  IInv'
<1> DEFINE x == [Idle EXCEPT !.pc = "write", !.drop = {r}]
<1>1. /\ x.pc = "write" /\ x.make = {} /\ x.del = {} /\ x.add = {} /\ x.drop = {r}
      /\ x.doc = <<>>
  BY DEF Idle
<1>2. x \in Request
  <2>1. {r} \in SUBSET Row
    BY DEF IInv, TypeOK
  <2> QED
    BY <2>1, IdleFacts DEF Request
<1>3. Becomes(a, x) /\ requests' \in 0 .. MaxRequests
  BY Begins DEF Unlink
<1> HIDE DEF x
<1>4. RowsOf(x) = rows \ {r} /\ ItemsOf(x) = items
  BY <1>1 DEF RowsOf, ItemsOf
<1>5. Sound(x)
  BY <1>1, <1>4, FewerLinksSound DEF IInv, TreeInv, Proper
<1>6. Walked(x)
  BY <1>1, NoDocumentWalked
<1> QED
  BY <1>2, <1>3, <1>5, <1>6, BecomesKeeps

LEMMA DeleteKeeps ==
  ASSUME IInv, NEW a \in Admin, NEW i \in Item, Delete(a, i)
  PROVE  IInv'
<1> DEFINE gone == Parents(rows, i) \cup Children(rows, i)
           x == [Idle EXCEPT !.pc = "write", !.del = {i}, !.drop = gone]
<1>1. /\ x.pc = "write" /\ x.make = {} /\ x.del = {i} /\ x.add = {} /\ x.drop = gone
      /\ x.doc = <<>>
  BY DEF Idle
<1>2. x \in Request
  <2>1. gone \in SUBSET Row
    BY DEF IInv, TypeOK, Parents, Children
  <2> HIDE DEF gone
  <2> QED
    BY <2>1, IdleFacts DEF Request
<1>3. Becomes(a, x) /\ requests' \in 0 .. MaxRequests
  BY Begins DEF Delete
<1> HIDE DEF x
<1>4. RowsOf(x) = rows \ gone /\ ItemsOf(x) = items \ {i}
  BY <1>1 DEF RowsOf, ItemsOf
<1>5. \A r \in rows \ gone : r.group # i /\ r.item # i
  BY DEF Parents, Children
<1> HIDE DEF gone
<1>6. Sound(x)
  BY <1>1, <1>4, <1>5, FewerLinksSound DEF IInv, TreeInv, Proper
<1>7. Walked(x)
  BY <1>1, NoDocumentWalked
<1> QED
  BY <1>2, <1>3, <1>6, <1>7, BecomesKeeps

LEMMA AbortKeeps ==
  ASSUME IInv, NEW a \in Admin, Abort(a)
  PROVE  IInv'
<1>1. Becomes(a, Idle) /\ requests' = requests
  BY DEF Abort, Continue
<1>2. requests' \in 0 .. MaxRequests
  BY <1>1 DEF IInv, TypeOK
<1> QED
  BY <1>1, <1>2, IdleFacts, IdleSound, BecomesKeeps

-----------------------------------------------------------------------------
(* The synchronizer *)

LEMMA SyncStartKeeps ==
  ASSUME IInv, NEW a \in Admin, NEW d \in Document, NEW opts \in SUBSET Option,
         SyncStart(a, d, opts)
  PROVE  IInv'
<1> DEFINE loose == ("ordering" \in opts /\ "parents" \notin opts)
           x == [Idle EXCEPT !.pc = "walk", !.doc = d, !.opts = opts, !.unchecked = loose]
<1>1. /\ x.pc = "walk" /\ x.make = {} /\ x.del = {} /\ x.add = {} /\ x.drop = {}
      /\ x.doc = d /\ x.at = 1 /\ x.opts = opts
      /\ x.unchecked = loose
  BY DEF Idle
<1>2. x \in Request
  <2>1. loose \in BOOLEAN /\ d \in Document \cup {<<>>}
    OBVIOUS
  <2> HIDE DEF loose
  <2> QED
    BY <2>1, IdleFacts DEF Request
<1>3. Becomes(a, x) /\ requests' \in 0 .. MaxRequests
  BY Begins DEF SyncStart
<1> HIDE DEF x
<1>4. RowsOf(x) = rows /\ ItemsOf(x) = items
  BY <1>1 DEF RowsOf, ItemsOf
<1>5. Sound(x)
  BY <1>1, <1>4, FewerLinksSound DEF IInv, TreeInv, Proper
<1>6. Walked(x)
  <2>1. d \in Seq(Call)
    BY DocumentAssumption
  <2>2. \A n \in 1 .. Len(d) : ~ (n < 1)
    BY <2>1
  <2> QED
    BY <1>1, <2>2 DEF Walked
<1> QED
  BY <1>2, <1>3, <1>5, <1>6, BecomesKeeps

LEMMA CheckStartKeeps ==
  ASSUME IInv, NEW a \in Admin, NEW d \in Document, CheckStart(a, d)
  PROVE  IInv'
<1> DEFINE x == [Idle EXCEPT !.pc = "check", !.doc = d, !.opts = {"clean"}]
<1>1. /\ x.pc = "check" /\ x.make = {} /\ x.del = {} /\ x.add = {} /\ x.drop = {}
      /\ x.doc = d /\ x.opts = {"clean"}
  BY DEF Idle
<1>2. x \in Request
  <2>1. {"clean"} \in SUBSET Option /\ d \in Document \cup {<<>>}
    BY DEF Option
  <2> QED
    BY <2>1, IdleFacts DEF Request
<1>3. Becomes(a, x) /\ requests' \in 0 .. MaxRequests
  BY Begins DEF CheckStart
<1> HIDE DEF x
<1>4. RowsOf(x) = rows /\ ItemsOf(x) = items
  BY <1>1 DEF RowsOf, ItemsOf
<1>5. Sound(x)
  BY <1>1, <1>4, FewerLinksSound DEF IInv, TreeInv, Proper
<1>6. Walked(x)
  BY <1>1 DEF Walked
<1> QED
  BY <1>2, <1>3, <1>5, <1>6, BecomesKeeps

(* What a call of a walk is made of.                                         *)
LEMMA WalkFacts ==
  ASSUME IInv, NEW a \in Admin, NEW op, Walking(a, op)
  PROVE  LET x == req[a]
             c == x.doc[x.at]
         IN  /\ x \in Request /\ Sound(x) /\ Walked(x)
             /\ x.pc = "walk" /\ x.doc \in Document /\ x.doc \in Seq(Call) /\ IsWalk(x.doc)
             /\ x.at \in 1 .. Len(x.doc) /\ x.at + 1 \in Nat \ {0}
             /\ c \in Call /\ c.op = op
<1> DEFINE x == req[a]
<1>1. x \in Request /\ Sound(x) /\ Walked(x)
  BY DEF IInv, TypeOK, PendingInv
<1>2. x.pc = "walk" /\ x.at <= Len(x.doc) /\ x.doc[x.at].op = op
  BY DEF Walking
<1>3. x.doc \in Document \cup {<<>>} /\ x.at \in Nat \ {0}
  BY <1>1 DEF Request
<1>4. x.doc \in Document /\ x.doc \in Seq(Call) /\ IsWalk(x.doc)
  <2>1. CASE x.doc = <<>>
    BY <1>2, <1>3, <2>1
  <2>2. CASE x.doc # <<>>
    BY <1>3, <2>2, DocumentAssumption
  <2> QED
    BY <2>1, <2>2
<1>5. x.at \in 1 .. Len(x.doc)
  BY <1>2, <1>3, <1>4
<1> QED
  BY <1>1, <1>2, <1>3, <1>4, <1>5

(* What IsWalk says of a "get": parents come first, and names are distinct.  *)
IsCall(d, n, op) ==
  d \in Seq(Call) /\ IsWalk(d) /\ n \in 1 .. Len(d) /\ d[n].op = op

LEMMA GetFacts ==
  ASSUME NEW d, NEW n, IsCall(d, n, "get")
  PROVE  /\ d[n] \in Call
         /\ d[n].item \in Theme => d[n].parent = None
         /\ d[n].parent # None => \E m \in 1 .. n - 1 : d[m].op = "get" /\ d[m].item = d[n].parent
         /\ \A m \in 1 .. Len(d) : d[m].op = "get" /\ d[m].item = d[n].item => m = n
  BY DEF IsWalk, IsCall

(* An element of the document, and a set of links to the parent it has.       *)
Linkable(c, L) ==
  /\ c \in Call
  /\ c.item \in Theme => c.parent = None
  /\ \A p \in Wanted(c) : Room(p, c.item, 1)
  /\ L = LinkTo(Wanted(c), c.item)

LEMMA LinkFacts ==
  ASSUME NEW c, NEW L, Linkable(c, L)
  PROVE  /\ L \in SUBSET Row
         /\ \A r \in L : /\ r.group = c.parent /\ r.item = c.item /\ c.parent # None
                         /\ r.item \notin Theme
                         /\ r.group \in Theme => r.item \in Group
         /\ \A q, r \in L : q = r
         /\ GroupsOf(L, c.item) = Wanted(c)
<1>0. /\ c.item \in Theme => c.parent = None
      /\ \A p \in Wanted(c) : Room(p, c.item, 1)
      /\ L = LinkTo(Wanted(c), c.item)
  BY DEF Linkable
<1>1. c.item \in Item /\ c.parent \in {None} \cup TreeGroup
  BY DEF Call, Linkable
<1>2. Wanted(c) \subseteq {c.parent} \ {None}
  BY DEF Wanted
<1>3. \A p \in Wanted(c) : /\ NewRows(p, c.item, 1) \in SUBSET Row
                           /\ \A r \in NewRows(p, c.item, 1) : r.group = p /\ r.item = c.item
                           /\ NewRows(p, c.item, 1) # {}
                           /\ \A q, r \in NewRows(p, c.item, 1) : q = r
  BY <1>0, <1>1, <1>2, NewRowsFacts
<1>4. \A r \in L : \E p \in Wanted(c) : r \in NewRows(p, c.item, 1)
  BY <1>0 DEF LinkTo
<1>5. \A p \in Wanted(c) : \E r \in L : r \in NewRows(p, c.item, 1)
  BY <1>0, <1>3 DEF LinkTo
<1>6. \A r \in L : r \in Row /\ r.group \in Wanted(c) /\ r.group = c.parent /\ r.item = c.item
  BY <1>2, <1>3, <1>4
<1>7. \A q, r \in L : q = r
  BY <1>2, <1>3, <1>4
<1>8. GroupsOf(L, c.item) = Wanted(c)
  <2>1. \A p \in Wanted(c) : \E r \in L : r.group = p /\ r.item = c.item
    BY <1>3, <1>5
  <2> QED
    BY <1>6, <2>1 DEF GroupsOf, Parents
<1>9. \A r \in L : r.item \notin Theme /\ (r.group \in Theme => r.item \in Group)
  BY <1>0, <1>1, <1>2, <1>6 DEF Wanted, Item, TreeGroup
<1> QED
  BY <1>2, <1>6, <1>7, <1>8, <1>9

(* A "get" turns x into y, with L the link to the parent and no other.       *)
Linked(a, x, c, L, y) ==
  /\ x = req[a] /\ c = x.doc[x.at] /\ L = LinkTo(Wanted(c), c.item)
  /\ \A p \in Wanted(c) : Room(p, c.item, 1)
  /\ y \in Request
  /\ y.pc = x.pc /\ y.doc = x.doc /\ y.at = x.at + 1 /\ y.opts = x.opts
  /\ y.unchecked = x.unchecked /\ y.raced = x.raced /\ y.del = x.del
  /\ y.add \subseteq x.add \cup L
  /\ RowsOf(y) = {r \in RowsOf(x) : r.item # c.item} \cup L
  /\ ~ x.raced => ItemsOf(y) = ItemsOf(x) \cup {c.item}
  /\ c.item \notin ItemsOf(x) \/ "parents" \in x.opts

(* An item that is not there, or that is moved, ends up with the link that   *)
(* the document gives it and no other.                                       *)
LEMMA LinkedSound ==
  ASSUME IInv, NEW a \in Admin, Walking(a, "get"),
         NEW x, NEW c, NEW L, NEW y, Linked(a, x, c, L, y)
  PROVE  Sound(y) /\ Walked(y)
<1> DEFINE d == x.doc
           i == c.item
           R == {r \in RowsOf(x) : r.item # i}
<1>0. /\ x = req[a] /\ c = d[x.at] /\ L = LinkTo(Wanted(c), i)
      /\ \A p \in Wanted(c) : Room(p, i, 1)
      /\ RowsOf(y) = R \cup L
  BY DEF Linked
<1>1. /\ x \in Request /\ Sound(x) /\ Walked(x)
      /\ x.pc = "walk" /\ d \in Seq(Call) /\ IsWalk(d)
      /\ x.at \in 1 .. Len(d) /\ c \in Call /\ c.op = "get" /\ i \in Item
  BY <1>0, WalkFacts DEF Call
<1>2. /\ i \in Theme => c.parent = None
      /\ c.parent # None => \E m \in 1 .. x.at - 1 : d[m].op = "get" /\ d[m].item = c.parent
      /\ \A m \in 1 .. Len(d) : d[m].op = "get" /\ d[m].item = i => m = x.at
  <2>1. IsCall(d, x.at, "get")
    BY <1>0, <1>1 DEF IsCall
  <2>2. c = d[x.at]
    BY <1>0
  <2> HIDE DEF d
  <2> QED
    BY <2>1, <2>2, GetFacts
<1>3. /\ L \in SUBSET Row
      /\ \A r \in L : /\ r.group = c.parent /\ r.item = i /\ c.parent # None
                      /\ r.item \notin Theme
                      /\ r.group \in Theme => r.item \in Group
      /\ \A q, r \in L : q = r
      /\ GroupsOf(L, i) = Wanted(c)
  <2>1. Linkable(c, L)
    BY <1>0, <1>1, <1>2 DEF Linkable
  <2> HIDE DEF i, d
  <2>2. /\ L \in SUBSET Row
        /\ \A r \in L : /\ r.group = c.parent /\ r.item = c.item /\ c.parent # None
                        /\ r.item \notin Theme
                        /\ r.group \in Theme => r.item \in Group
        /\ \A q, r \in L : q = r
        /\ GroupsOf(L, c.item) = Wanted(c)
    BY <2>1, LinkFacts
  <2> QED
    BY <2>2 DEF i
<1>4. R \subseteq RowsOf(x) /\ \A r \in R : r.item # i
  OBVIOUS
<1>5. /\ RowsOf(y) = R \cup L
      /\ y.add \subseteq x.add \cup L
      /\ y.unchecked = x.unchecked /\ y.raced = x.raced /\ y.pc = x.pc /\ y.at = x.at + 1
      /\ y.doc = d /\ y.opts = x.opts /\ y.del = x.del
  BY <1>0 DEF Linked
<1>10. ~ x.raced => ItemsOf(y) = ItemsOf(x) \cup {i}
  BY DEF Linked
<1>11. i \notin ItemsOf(x) \/ "parents" \in x.opts
  BY DEF Linked
<1> HIDE DEF R
<1>6. rows \in SUBSET Row /\ R \in SUBSET Row /\ RowsOf(y) \in SUBSET Row
  <2>1. RowsOf(x) \in SUBSET Row
    BY <1>1 DEF RowsOf, Request, IInv, TypeOK
  <2> QED
    BY <1>3, <1>4, <1>5, <2>1 DEF IInv, TypeOK
<1>7. \A r \in y.add : r.item \notin Theme /\ (r.group \in Theme => r.item \in Group)
  BY <1>1, <1>3, <1>5 DEF Sound
<1>8. CASE x.raced
  BY <1>5, <1>7, <1>8 DEF Sound, Walked
<1>9. CASE ~ x.raced
  <2>0. \A r \in RowsOf(x) : r.item # i => r \in R
    BY DEF R
  <2>1. /\ \A r \in RowsOf(x) : {r.group, r.item} \subseteq ItemsOf(x)
        /\ Single(rows) => Single(RowsOf(x))
        /\ Acyclic(rows) /\ ~ x.unchecked => Acyclic(RowsOf(x))
    BY <1>1, <1>9 DEF Sound
  <2>2. /\ x.del = {}
        /\ \A n \in 1 .. Len(d) :
             d[n].op = "get" /\ n < x.at =>
               /\ d[n].item \in ItemsOf(x)
               /\ "parents" \in x.opts => GroupsOf(RowsOf(x), d[n].item) = Wanted(d[n])
    BY <1>1, <1>9 DEF Walked
  <2>3. c.parent # None => c.parent \in ItemsOf(x) /\ c.parent # i
    <3>1. SUFFICES ASSUME c.parent # None
                   PROVE  c.parent \in ItemsOf(x) /\ c.parent # i
      OBVIOUS
    <3>2. PICK m \in 1 .. x.at - 1 : d[m].op = "get" /\ d[m].item = c.parent
      BY <1>2, <3>1
    <3>3. m \in 1 .. Len(d) /\ m < x.at
      BY <1>1
    <3> QED
      BY <1>2, <2>2, <3>2, <3>3
  <2>4. \A r \in RowsOf(y) : {r.group, r.item} \subseteq ItemsOf(y)
    <3>1. ItemsOf(y) = ItemsOf(x) \cup {i}
      BY <1>9, <1>10
    <3>2. \A r \in R : {r.group, r.item} \subseteq ItemsOf(y)
      BY <1>4, <2>1, <3>1
    <3>3. \A r \in L : {r.group, r.item} \subseteq ItemsOf(y)
      <4> SUFFICES ASSUME NEW r \in L
                   PROVE  r.group \in ItemsOf(y) /\ r.item \in ItemsOf(y)
        OBVIOUS
      <4>1. r.group = c.parent /\ r.item = i /\ c.parent # None
        BY <1>3
      <4> QED
        BY <2>3, <3>1, <4>1
    <3> QED
      BY <1>5, <3>2, <3>3
  <2>5. Single(rows) => Single(RowsOf(y))
    BY <1>3, <1>4, <1>5, <2>1 DEF Single
  <2>6. ASSUME Acyclic(rows), ~ x.unchecked
        PROVE  Acyclic(RowsOf(y))
    <3>1. Acyclic(R)
      <4>1. RowsOf(x) \in SUBSET Row
        BY <1>1 DEF RowsOf, Request, IInv, TypeOK
      <4> QED
        BY <1>4, <1>6, <2>1, <2>6, <4>1, AcyclicSameLinks
    <3>2. CASE c.parent = None
      BY <1>3, <1>5, <3>1, <3>2
    <3>3. CASE c.parent # None
      <4> DEFINE A == {g \in TreeGroup :
                         /\ "parents" \in x.opts => \E m \in 1 .. x.at - 1 :
                                                      d[m].op = "get" /\ d[m].item = g
                         /\ "parents" \notin x.opts => g \in ItemsOf(x)}
      <4>1. c.parent \in TreeGroup /\ c.parent \in A
        BY <1>1, <1>2, <2>3, <3>3 DEF Call
      <4>2. i \notin A
        <5>1. CASE "parents" \in x.opts
          <6>1. \A m \in 1 .. x.at - 1 : ~ (d[m].op = "get" /\ d[m].item = i)
            BY <1>1, <1>2
          <6> QED
            BY <5>1, <6>1
        <5>2. CASE "parents" \notin x.opts
          BY <1>11, <5>2
        <5> QED
          BY <5>1, <5>2
      <4>3. ClosedUpwards(R, A)
        <5> SUFFICES ASSUME NEW r \in R, r.item \in A
                     PROVE  r.group \in A
          BY DEF ClosedUpwards
        <5>1. r \in RowsOf(x) /\ r.group \in TreeGroup
          BY <1>4, <1>6 DEF Row
        <5>2. CASE "parents" \in x.opts
          <6>1. PICK m \in 1 .. x.at - 1 : d[m].op = "get" /\ d[m].item = r.item
            BY <5>2
          <6>2. m \in 1 .. Len(d) /\ m < x.at
            BY <1>1
          <6>3. r.group \in Wanted(d[m])
            <7>1. r.group \in GroupsOf(RowsOf(x), d[m].item)
              BY <5>1, <6>1 DEF GroupsOf, Parents
            <7> QED
              BY <2>2, <5>2, <6>1, <6>2, <7>1
          <6>4. r.group = d[m].parent /\ d[m].parent # None
            BY <6>3 DEF Wanted
          <6>5. \E k \in 1 .. m - 1 : d[k].op = "get" /\ d[k].item = r.group
            <7>1. IsCall(d, m, "get")
              BY <1>1, <6>1, <6>2 DEF IsCall
            <7> QED
              BY <6>4, <7>1, GetFacts
          <6>6. \E k \in 1 .. x.at - 1 : d[k].op = "get" /\ d[k].item = r.group
            <7>1. \A k \in 1 .. m - 1 : k \in 1 .. x.at - 1
              BY <1>1, <6>2
            <7> QED
              BY <6>5, <7>1
          <6> QED
            BY <5>1, <5>2, <6>6
        <5>3. CASE "parents" \notin x.opts
          BY <2>1, <5>1, <5>3
        <5> QED
          BY <5>2, <5>3
      <4>4. A \in SUBSET TreeGroup
        OBVIOUS
      <4> HIDE DEF A
      <4>5. Above(R, c.parent) \subseteq A
        BY <1>6, <4>1, <4>3, <4>4, AboveWithin
      <4>6. c.parent \notin {i} /\ Above(R, c.parent) \cap {i} = {}
        BY <4>1, <4>2, <4>5
      <4>7. \A q \in RowsOf(y) : \/ \E r \in R : r.group = q.group /\ r.item = q.item
                                 \/ q.group = c.parent /\ q.item \in {i}
        BY <1>3, <1>5
      <4> DEFINE Q == RowsOf(y)
                 S == {i}
                 p == c.parent
      <4>8. /\ R \in SUBSET Row /\ Q \in SUBSET Row /\ Acyclic(R)
            /\ p \in TreeGroup /\ p \notin S /\ Above(R, p) \cap S = {}
            /\ \A q \in Q : \/ \E r \in R : r.group = q.group /\ r.item = q.item
                            \/ q.group = p /\ q.item \in S
        BY <1>6, <3>1, <4>1, <4>6, <4>7
      <4> HIDE DEF Q, S, p
      <4>9. Acyclic(Q)
        BY <4>8, AcyclicGrows
      <4> QED
        BY <4>9 DEF Q
    <3> QED
      BY <3>2, <3>3
  <2>7. Sound(y)
    BY <1>5, <1>7, <2>4, <2>5, <2>6 DEF Sound
  <2>8. GroupsOf(RowsOf(y), i) = Wanted(c)
    BY <1>3, <1>4, <1>5 DEF GroupsOf, Parents
  <2>9. \A j : j # i => GroupsOf(RowsOf(y), j) = GroupsOf(RowsOf(x), j)
    BY <1>3, <1>4, <1>5, <2>0 DEF GroupsOf, Parents
  <2>10. ASSUME NEW n \in 1 .. Len(d), d[n].op = "get", n < x.at + 1
         PROVE  /\ d[n].item \in ItemsOf(y)
                /\ "parents" \in x.opts => GroupsOf(RowsOf(y), d[n].item) = Wanted(d[n])
    <3>1. CASE n = x.at
      BY <1>0, <1>9, <1>10, <2>8, <3>1
    <3>2. CASE n # x.at
      <4>1. n < x.at
        BY <1>1, <2>10, <3>2
      <4>2. d[n].item # i
        BY <1>2, <2>10, <3>2
      <4> QED
        BY <1>9, <1>10, <2>2, <2>9, <2>10, <4>1, <4>2
    <3> QED
      BY <3>1, <3>2
  <2>11. Walked(y)
    BY <1>1, <1>5, <2>2, <2>10 DEF Walked
  <2> QED
    BY <2>7, <2>11
<1> QED
  BY <1>8, <1>9

LEMMA ContinueKeeps ==
  ASSUME IInv, NEW a \in Admin, NEW x \in Request, Continue(a, x), Sound(x), Walked(x)
  PROVE  IInv'
<1>1. Becomes(a, x) /\ requests' = requests
  BY DEF Continue
<1>2. requests' \in 0 .. MaxRequests
  BY <1>1 DEF IInv, TypeOK
<1> QED
  BY <1>1, <1>2, BecomesKeeps

LEMMA WritesMore ==
  ASSUME NEW x \in Request, NEW I \in SUBSET Item, NEW A \in SUBSET Row
  PROVE  [x EXCEPT !.make = I, !.add = A] \in Request
  BY DEF Request

LEMMA AddsMore ==
  ASSUME NEW x \in Request, NEW A \in SUBSET Row
  PROVE  LET z == [x EXCEPT !.add = x.add \cup A]
         IN  /\ z \in Request
             /\ z.pc = x.pc /\ z.doc = x.doc /\ z.at = x.at /\ z.opts = x.opts
             /\ z.unchecked = x.unchecked /\ z.raced = x.raced /\ z.del = x.del
             /\ z.make = x.make /\ z.drop = x.drop /\ z.add = x.add \cup A
<1>1. x.add \cup A \in SUBSET Row
  BY DEF Request
<1> QED
  BY <1>1 DEF Request

(* What a call creates.                                                      *)
GetsNew(a, x, c, L) ==
  /\ Walking(a, "get") /\ x = req[a] /\ c = x.doc[x.at] /\ L = LinkTo(Wanted(c), c.item)
  /\ (\A p \in Wanted(c) : Room(p, c.item, 1)) /\ c.item \notin ItemsOf(x)
  /\ Proceed(a, [x EXCEPT !.make = @ \cup {c.item}, !.add = @ \cup L])

LEMMA GetNewKeeps ==
  ASSUME IInv, NEW a \in Admin, NEW x, NEW c, NEW L, GetsNew(a, x, c, L)
  PROVE  IInv'
<1>0. Walking(a, "get") /\ x = req[a] /\ c = x.doc[x.at] /\ c.item \notin ItemsOf(x)
  BY Zenon DEF GetsNew
<1>00. L = LinkTo(Wanted(c), c.item) /\ \A p \in Wanted(c) : Room(p, c.item, 1)
  BY Zenon DEF GetsNew
<1>1. /\ x \in Request /\ Walked(x) /\ x.pc = "walk" /\ x.doc \in Seq(Call) /\ IsWalk(x.doc)
      /\ x.at \in 1 .. Len(x.doc) /\ x.at + 1 \in Nat \ {0}
      /\ c \in Call /\ c.op = "get" /\ c.item \in Item
  BY <1>0, WalkFacts DEF Call
<1>2. /\ L \in SUBSET Row
      /\ \A r \in L : r.item \notin Theme /\ (r.group \in Theme => r.item \in Group)
  <2>0. IsCall(x.doc, x.at, "get")
    BY <1>0, <1>1 DEF IsCall
  <2>1. c.item \in Theme => c.parent = None
    BY <1>0, <2>0, GetFacts
  <2>2. Linkable(c, L)
    BY <1>00, <1>1, <2>1 DEF Linkable
  <2> QED
    BY <2>2, LinkFacts
<1> DEFINE z == [x EXCEPT !.make = x.make \cup {c.item}, !.add = x.add \cup L]
           y == [z EXCEPT !.at = z.at + 1]
<1>3. z \in Request
  <2>1. x.make \cup {c.item} \in SUBSET Item /\ x.add \cup L \in SUBSET Row
    BY <1>1, <1>2 DEF Request
  <2> QED
    BY <1>1, <2>1, WritesMore
<1>4. /\ z.pc = x.pc /\ z.doc = x.doc /\ z.at = x.at /\ z.opts = x.opts
      /\ z.unchecked = x.unchecked /\ z.raced = x.raced /\ z.del = x.del /\ z.drop = x.drop
      /\ z.make = x.make \cup {c.item} /\ z.add = x.add \cup L
  BY <1>1 DEF Request
<1>5. Continue(a, y)
  BY DEF GetsNew, Proceed
<1> HIDE DEF z
<1>6. y \in Request
  BY <1>1, <1>3, <1>4 DEF Request
<1>7. /\ y.pc = x.pc /\ y.doc = x.doc /\ y.at = x.at + 1 /\ y.opts = x.opts
      /\ y.unchecked = x.unchecked /\ y.raced = x.raced /\ y.del = x.del /\ y.drop = x.drop
      /\ y.make = x.make \cup {c.item} /\ y.add = x.add \cup L
  BY <1>3, <1>4 DEF Request
<1> HIDE DEF y
<1>8. RowsOf(y) = {r \in RowsOf(x) : r.item # c.item} \cup L \/ x.raced
  <2>1. RowsOf(y) = RowsOf(x) \cup L
    BY <1>7 DEF RowsOf
  <2>2. ASSUME ~ x.raced
        PROVE  \A r \in RowsOf(x) : r.item # c.item
    BY <1>0, <2>2, WalkFacts DEF Sound
  <2> QED
    BY <2>1, <2>2
<1>9. ~ x.raced => ItemsOf(y) = ItemsOf(x) \cup {c.item}
  <2>1. ~ x.raced => x.del = {}
    BY <1>1 DEF Walked
  <2> QED
    BY <1>7, <2>1 DEF ItemsOf
<1>10. Sound(y) /\ Walked(y)
  <2>1. CASE ~ x.raced
    <3>1. /\ RowsOf(y) = {r \in RowsOf(x) : r.item # c.item} \cup L
          /\ y.add \subseteq x.add \cup L
          /\ c.item \notin ItemsOf(x) \/ "parents" \in x.opts
      BY <1>0, <1>7, <1>8, <2>1
    <3>2. Linked(a, x, c, L, y)
      BY <1>0, <1>00, <1>6, <1>7, <1>9, <3>1 DEF Linked
    <3> QED
      BY <1>0, <3>2, LinkedSound
  <2>2. CASE x.raced
    <3>1. \A r \in y.add : r.item \notin Theme /\ (r.group \in Theme => r.item \in Group)
      <4>1. \A r \in x.add : r.item \notin Theme /\ (r.group \in Theme => r.item \in Group)
        BY <1>0, WalkFacts DEF Sound
      <4>2. \A r \in L : r.item \notin Theme /\ (r.group \in Theme => r.item \in Group)
        BY <1>2
      <4> QED
        BY <1>7, <4>1, <4>2
    <3> QED
      BY <1>7, <2>2, <3>1 DEF Sound, Walked
  <2> QED
    BY <2>1, <2>2
<1> QED
  BY <1>1, <1>5, <1>6, <1>10, ContinueKeeps

LEMMA DropsMore ==
  ASSUME IInv, NEW x \in Request, NEW R \in SUBSET Row
  PROVE  /\ Dropped(x, R) \in Request
         /\ LET z == Dropped(x, R)
            IN  /\ z.pc = x.pc /\ z.doc = x.doc /\ z.at = x.at /\ z.opts = x.opts
                /\ z.unchecked = x.unchecked /\ z.raced = x.raced /\ z.del = x.del
                /\ z.make = x.make /\ z.todo = x.todo
                /\ z.drop = x.drop \cup (R \cap rows) /\ z.add = x.add \ R
                /\ RowsOf(z) = RowsOf(x) \ R /\ ItemsOf(z) = ItemsOf(x)
<1> DEFINE D == x.drop \cup (R \cap rows)
           A == x.add \ R
           z == [x EXCEPT !.drop = D, !.add = A]
<1>1. D \in SUBSET Row /\ A \in SUBSET Row /\ rows \in SUBSET Row
  BY DEF Request, IInv, TypeOK
<1>2. Dropped(x, R) = z
  BY DEF Dropped
<1> HIDE DEF D, A
<1>3. z \in Request
  BY <1>1 DEF Request
<1>4. /\ z.pc = x.pc /\ z.doc = x.doc /\ z.at = x.at /\ z.opts = x.opts
      /\ z.unchecked = x.unchecked /\ z.raced = x.raced /\ z.del = x.del
      /\ z.make = x.make /\ z.todo = x.todo /\ z.drop = D /\ z.add = A
  BY DEF Request
<1> HIDE DEF z
<1>5. RowsOf(z) = RowsOf(x) \ R /\ ItemsOf(z) = ItemsOf(x)
  BY <1>4 DEF RowsOf, ItemsOf, D, A
<1> QED
  BY <1>2, <1>3, <1>4, <1>5 DEF D, A

(* What a call moves.                                                        *)
Moves(a, x, c, L) ==
  /\ Walking(a, "get") /\ x = req[a] /\ c = x.doc[x.at] /\ L = LinkTo(Wanted(c), c.item)
  /\ (\A p \in Wanted(c) : Room(p, c.item, 1)) /\ c.item \in ItemsOf(x) /\ "parents" \in x.opts
  /\ Proceed(a, [Dropped(x, Parents(RowsOf(x), c.item)) EXCEPT !.add = @ \cup L])

LEMMA GetMovedKeeps ==
  ASSUME IInv, NEW a \in Admin, NEW x, NEW c, NEW L, Moves(a, x, c, L)
  PROVE  IInv'
<1>0. /\ Walking(a, "get") /\ x = req[a] /\ c = x.doc[x.at]
      /\ c.item \in ItemsOf(x) /\ "parents" \in x.opts
  BY Zenon DEF Moves
<1>00. L = LinkTo(Wanted(c), c.item) /\ \A p \in Wanted(c) : Room(p, c.item, 1)
  BY Zenon DEF Moves
<1>1. /\ x \in Request /\ Walked(x) /\ x.pc = "walk" /\ x.doc \in Seq(Call) /\ IsWalk(x.doc)
      /\ x.at \in 1 .. Len(x.doc) /\ x.at + 1 \in Nat \ {0}
      /\ c \in Call /\ c.op = "get" /\ c.item \in Item
  BY <1>0, WalkFacts DEF Call
<1>2. /\ L \in SUBSET Row
      /\ \A r \in L : r.item \notin Theme /\ (r.group \in Theme => r.item \in Group)
  <2>0. IsCall(x.doc, x.at, "get")
    BY <1>0, <1>1 DEF IsCall
  <2>1. c.item \in Theme => c.parent = None
    BY <1>0, <2>0, GetFacts
  <2>2. Linkable(c, L)
    BY <1>00, <1>1, <2>1 DEF Linkable
  <2> QED
    BY <2>2, LinkFacts
<1> DEFINE old == Parents(RowsOf(x), c.item)
           z == Dropped(x, old)
           w == [z EXCEPT !.add = z.add \cup L]
           y == [w EXCEPT !.at = w.at + 1]
<1>3. old \in SUBSET Row /\ old \subseteq RowsOf(x)
  BY <1>1 DEF Parents, RowsOf, Request, IInv, TypeOK
<1>4. RowsOf(x) \ old = {r \in RowsOf(x) : r.item # c.item}
  BY DEF Parents
<1>5. Continue(a, y)
  BY DEF Moves, Proceed
<1> HIDE DEF old
<1>6. /\ z \in Request
      /\ z.pc = x.pc /\ z.doc = x.doc /\ z.at = x.at /\ z.opts = x.opts
      /\ z.unchecked = x.unchecked /\ z.raced = x.raced /\ z.del = x.del
      /\ z.make = x.make /\ z.add \subseteq x.add
      /\ RowsOf(z) = RowsOf(x) \ old /\ ItemsOf(z) = ItemsOf(x)
  <2>1. /\ z \in Request
        /\ z.pc = x.pc /\ z.doc = x.doc /\ z.at = x.at /\ z.opts = x.opts
        /\ z.unchecked = x.unchecked /\ z.raced = x.raced /\ z.del = x.del
        /\ z.make = x.make /\ z.add = x.add \ old
        /\ RowsOf(z) = RowsOf(x) \ old /\ ItemsOf(z) = ItemsOf(x)
    BY <1>1, <1>3, DropsMore
  <2> HIDE DEF z
  <2> QED
    BY <2>1
<1> HIDE DEF z
<1>7. /\ w \in Request
      /\ w.pc = z.pc /\ w.doc = z.doc /\ w.at = z.at /\ w.opts = z.opts
      /\ w.unchecked = z.unchecked /\ w.raced = z.raced /\ w.del = z.del
      /\ w.make = z.make /\ w.drop = z.drop /\ w.add = z.add \cup L
  BY <1>2, <1>6, AddsMore
<1> HIDE DEF w
<1>8. /\ y \in Request
      /\ y.pc = w.pc /\ y.doc = w.doc /\ y.at = w.at + 1 /\ y.opts = w.opts
      /\ y.unchecked = w.unchecked /\ y.raced = w.raced /\ y.del = w.del
      /\ y.make = w.make /\ y.drop = w.drop /\ y.add = w.add
  BY <1>1, <1>6, <1>7 DEF Request
<1> HIDE DEF y
<1>9. RowsOf(y) = {r \in RowsOf(x) : r.item # c.item} \cup L
  <2>1. RowsOf(y) = RowsOf(z) \cup L
    BY <1>7, <1>8 DEF RowsOf
  <2> QED
    BY <1>4, <1>6, <2>1
<1>10. ItemsOf(y) = ItemsOf(x) \cup {c.item}
  <2>1. ItemsOf(y) = ItemsOf(z)
    BY <1>7, <1>8 DEF ItemsOf
  <2> QED
    BY <1>0, <1>6, <2>1
<1>11. Linked(a, x, c, L, y)
  <2>1. /\ y.pc = x.pc /\ y.doc = x.doc /\ y.at = x.at + 1 /\ y.opts = x.opts
        /\ y.unchecked = x.unchecked /\ y.raced = x.raced /\ y.del = x.del
        /\ y.add \subseteq x.add \cup L
    BY <1>6, <1>7, <1>8
  <2> QED
    BY <1>0, <1>00, <1>8, <1>9, <1>10, <2>1 DEF Linked
<1> QED
  <2>1. Sound(y) /\ Walked(y)
    BY <1>0, <1>11, LinkedSound
  <2> QED
    BY <1>5, <1>8, <2>1, ContinueKeeps

(* What a call leaves as it is.                                              *)
Keeps(a, x, c, op) ==
  /\ Walking(a, op) /\ x = req[a] /\ c = x.doc[x.at]
  /\ op = "get" =>
       /\ c.item \in ItemsOf(x)
       /\ "parents" \in x.opts /\ c.item \notin Theme => GroupsOf(RowsOf(x), c.item) = Wanted(c)
  /\ Proceed(a, x)

LEMMA KeptKeeps ==
  ASSUME IInv, NEW a \in Admin, NEW op, NEW x, NEW c, Keeps(a, x, c, op)
  PROVE  IInv'
<1> DEFINE d == x.doc
           y == [x EXCEPT !.at = x.at + 1]
<1>0. /\ Walking(a, op) /\ x = req[a] /\ c = x.doc[x.at]
      /\ op = "get" =>
           /\ c.item \in ItemsOf(x)
           /\ "parents" \in x.opts /\ c.item \notin Theme => GroupsOf(RowsOf(x), c.item) = Wanted(c)
  BY DEF Keeps
<1>1. /\ x \in Request /\ Sound(x) /\ Walked(x) /\ x.pc = "walk" /\ d \in Seq(Call) /\ IsWalk(d)
      /\ x.at \in 1 .. Len(d) /\ x.at + 1 \in Nat \ {0}
      /\ c \in Call /\ c.op = op /\ c.item \in Item
  BY <1>0, WalkFacts DEF Call
<1>2. Continue(a, y)
  BY DEF Keeps, Proceed
<1>3. /\ y \in Request
      /\ y.pc = x.pc /\ y.doc = x.doc /\ y.at = x.at + 1 /\ y.opts = x.opts
      /\ y.unchecked = x.unchecked /\ y.raced = x.raced /\ y.del = x.del
      /\ y.make = x.make /\ y.drop = x.drop /\ y.add = x.add
  BY <1>1 DEF Request
<1> HIDE DEF y
<1>4. RowsOf(y) = RowsOf(x) /\ ItemsOf(y) = ItemsOf(x)
  BY <1>3 DEF RowsOf, ItemsOf
<1>5. Sound(y)
  BY <1>1, <1>3, <1>4 DEF Sound
<1>6. op = "get" /\ "parents" \in x.opts => GroupsOf(RowsOf(x), c.item) = Wanted(c)
  <2>1. CASE c.item \in Theme /\ op = "get"
    <3>1. c.parent = None
      <4>1. IsCall(x.doc, x.at, "get")
        BY <1>0, <1>1, <2>1 DEF IsCall
      <4> QED
        BY <1>0, <2>1, <4>1, GetFacts
    <3>2. Wanted(c) = {}
      BY <3>1 DEF Wanted
    <3>3. \A r \in RowsOf(x) : r.item \notin Theme
      BY <1>1 DEF RowsOf, Sound, IInv, TreeInv, Proper
    <3>4. GroupsOf(RowsOf(x), c.item) = {}
      BY <2>1, <3>3 DEF GroupsOf, Parents
    <3> QED
      BY <3>2, <3>4
  <2>2. CASE c.item \notin Theme
    BY <1>0, <2>2
  <2> QED
    BY <2>1, <2>2
<1>7. Walked(y)
  <2>1. ASSUME ~ x.raced
        PROVE  /\ x.del = {}
               /\ \A n \in 1 .. Len(d) :
                    d[n].op = "get" /\ n < x.at =>
                      /\ d[n].item \in ItemsOf(x)
                      /\ "parents" \in x.opts => GroupsOf(RowsOf(x), d[n].item) = Wanted(d[n])
    BY <1>1, <2>1 DEF Walked
  <2>2. ASSUME ~ x.raced, NEW n \in 1 .. Len(d), d[n].op = "get", n < x.at + 1
        PROVE  /\ d[n].item \in ItemsOf(x)
               /\ "parents" \in x.opts => GroupsOf(RowsOf(x), d[n].item) = Wanted(d[n])
    <3>1. CASE n = x.at
      BY <1>0, <1>1, <1>6, <2>2, <3>1
    <3>2. CASE n # x.at
      <4>1. n < x.at
        BY <1>1, <2>2, <3>2
      <4> QED
        BY <2>1, <2>2, <4>1
    <3> QED
      BY <3>1, <3>2
  <2> QED
    BY <1>1, <1>3, <1>4, <2>1, <2>2 DEF Walked
<1> QED
  BY <1>2, <1>3, <1>5, <1>7, ContinueKeeps

LEMMA GetItemKeeps ==
  ASSUME IInv, NEW a \in Admin, GetItem(a)
  PROVE  IInv'
<1> DEFINE x == req[a]
           c == x.doc[x.at]
           L == LinkTo(Wanted(c), c.item)
           old == Parents(RowsOf(x), c.item)
<1>1. Walking(a, "get")
  BY DEF GetItem
<1>2. CASE c.item \notin ItemsOf(x)
  <2>1. /\ \A p \in Wanted(c) : Room(p, c.item, 1)
        /\ Proceed(a, [x EXCEPT !.make = @ \cup {c.item}, !.add = @ \cup L])
    BY <1>2 DEF GetItem
  <2>2. GetsNew(a, x, c, L)
    BY <1>1, <1>2, <2>1, Zenon DEF GetsNew
  <2> QED
    BY <2>2, GetNewKeeps
<1>3. CASE c.item \in ItemsOf(x)
  <2> DEFINE moved == /\ "parents" \in x.opts /\ c.item \notin Theme
                      /\ \/ GroupsOf(RowsOf(x), c.item) # Wanted(c)
                         \/ Cardinality(old) > 1
  <2>1. CASE moved
    <3>1. /\ \A p \in Wanted(c) : Room(p, c.item, 1)
          /\ Proceed(a, [Dropped(x, old) EXCEPT !.add = @ \cup L])
      BY <1>3, <2>1, Zenon DEF GetItem
    <3>2. Moves(a, x, c, L)
      BY <1>1, <1>3, <2>1, <3>1, Zenon DEF Moves
    <3> QED
      BY <3>2, GetMovedKeeps
  <2>2. CASE ~ moved
    <3>1. Proceed(a, x)
      BY <1>3, <2>2 DEF GetItem
    <3>2. Keeps(a, x, c, "get")
      BY <1>1, <1>3, <2>2, <3>1 DEF Keeps
    <3> QED
      BY <3>2, KeptKeeps
  <2> QED
    BY <2>1, <2>2
<1> QED
  BY <1>2, <1>3

(* What a call that sorts adds: for a child of the document that has not     *)
(* exactly one link to the group, or for a child that has several.           *)
LEMMA MissingFacts ==
  ASSUME NEW R, NEW g, NEW kids, NEW i, Missing(R, g, kids, i) # 0
  PROVE  /\ i \in kids \/ \E r \in R : r.group = g /\ r.item = i
         /\ Single(R) => /\ i \in kids /\ Missing(R, g, kids, i) = 1
                         /\ \A r \in R : ~ (r.group = g /\ r.item = i)
<1> DEFINE C == {r \in Children(R, g) : r.item = i}
           n == Cardinality(C)
<1>1. n # 1 /\ Missing(R, g, kids, i) = IF i \in kids THEN 1 ELSE n
  BY DEF Missing
<1>2. \A r : r \in C <=> r \in R /\ r.group = g /\ r.item = i
  BY DEF Children
<1> HIDE DEF C
<1>3. C = {} => n = 0
  BY FS_EmptySet
<1>4. Single(R) => C = {}
  <2> SUFFICES ASSUME Single(R), C # {}
               PROVE  FALSE
    OBVIOUS
  <2>1. PICK r : r \in C
    OBVIOUS
  <2>2. C = {r}
    BY <1>2, <2>1 DEF Single
  <2>3. n = 1
    BY <2>2, FS_Singleton
  <2> QED
    BY <1>1, <2>3
<1> HIDE DEF n
<1> QED
  BY <1>1, <1>2, <1>3, <1>4

(* The links that an ordering of the children kids of g adds to the links R. *)
Spread(R, g, kids) == UNION {NewRows(g, i, Missing(R, g, kids, i)) : i \in Item}

LEMMA SpreadFacts ==
  ASSUME NEW R, NEW g \in TreeGroup, NEW kids,
         \A i \in Item : Room(g, i, Missing(R, g, kids, i))
  PROVE  /\ Spread(R, g, kids) \in SUBSET Row
         /\ \A r \in Spread(R, g, kids) :
              /\ r.group = g
              /\ r.item \in kids \/ \E q \in R : q.group = g /\ q.item = r.item
         /\ Single(R) => Single(R \cup Spread(R, g, kids))
<1> DEFINE N == Spread(R, g, kids)
<1>1. \A r \in N : \E i \in Item : r \in NewRows(g, i, Missing(R, g, kids, i))
  BY DEF Spread
<1>2. ASSUME NEW i \in Item
      PROVE  /\ NewRows(g, i, Missing(R, g, kids, i)) \in SUBSET Row
             /\ \A r \in NewRows(g, i, Missing(R, g, kids, i)) : r.group = g /\ r.item = i
             /\ Missing(R, g, kids, i) = 0 => NewRows(g, i, Missing(R, g, kids, i)) = {}
             /\ Missing(R, g, kids, i) = 1 =>
                  \A q, r \in NewRows(g, i, Missing(R, g, kids, i)) : q = r
  BY NewRowsFacts
<1> HIDE DEF N
<1>3. \A r \in N : /\ r \in Row /\ r.group = g /\ r.item \in Item
                   /\ Missing(R, g, kids, r.item) # 0
                   /\ r \in NewRows(g, r.item, Missing(R, g, kids, r.item))
  BY <1>1, <1>2
<1>4. \A r \in N : r.item \in kids \/ \E q \in R : q.group = g /\ q.item = r.item
  <2> SUFFICES ASSUME NEW r \in N
               PROVE  r.item \in kids \/ \E q \in R : q.group = g /\ q.item = r.item
    OBVIOUS
  <2> DEFINE i == r.item
  <2>1. Missing(R, g, kids, i) # 0
    BY <1>3
  <2> HIDE DEF i
  <2>2. i \in kids \/ \E q \in R : q.group = g /\ q.item = i
    BY <2>1, MissingFacts
  <2> QED
    BY <2>2 DEF i
<1>5. ASSUME Single(R)
      PROVE  Single(R \cup N)
  <2>1. ASSUME NEW r \in N
        PROVE  /\ \A q \in R : ~ (q.group = g /\ q.item = r.item)
               /\ \A q \in N : q.item = r.item => q = r
    <3> DEFINE i == r.item
    <3>1. i \in Item /\ Missing(R, g, kids, i) # 0
      BY <1>3
    <3> HIDE DEF i
    <3>2. Missing(R, g, kids, i) = 1 /\ \A q \in R : ~ (q.group = g /\ q.item = i)
      BY <1>5, <3>1, MissingFacts
    <3>3. \A q, t \in NewRows(g, i, Missing(R, g, kids, i)) : q = t
      BY <1>2, <3>1, <3>2
    <3>4. \A q \in N : q.item = i => q \in NewRows(g, i, Missing(R, g, kids, i))
      BY <1>3
    <3> QED
      BY <3>2, <3>3, <3>4 DEF i
  <2> QED
    BY <1>3, <1>5, <2>1 DEF Single
<1> QED
  BY <1>3, <1>4, <1>5 DEF N

LEMMA SortFacts ==
  ASSUME NEW d, NEW n, IsCall(d, n, "sort")
  PROVE  /\ d[n] \in Call /\ d[n].item \in TreeGroup
         /\ d[n].item \in Theme => d[n].kids \subseteq Group
         /\ d[n].kids \subseteq Item \ Theme
         /\ \A i \in d[n].kids : \E m \in 1 .. n - 1 :
              d[m].op = "get" /\ d[m].item = i /\ d[m].parent = d[n].item
<1>1. d[n] \in Call
  BY DEF IsCall
<1>2. d[n].kids \subseteq Item \ Theme
  BY <1>1 DEF Call
<1>3. /\ d[n].item \in TreeGroup
      /\ d[n].item \in Theme => d[n].kids \subseteq Group
      /\ \A i \in d[n].kids : \E m \in 1 .. n - 1 :
           d[m].op = "get" /\ d[m].item = i /\ d[m].parent = d[n].item
  BY DEF IsWalk, IsCall
<1> QED
  BY <1>1, <1>2, <1>3

(* The children are added in the order of the document.                      *)
Sorts(a, x, g, kids) ==
  /\ Walking(a, "sort") /\ x = req[a] /\ g = x.doc[x.at].item /\ kids = x.doc[x.at].kids
  /\ "ordering" \in x.opts /\ \A i \in Item : Room(g, i, Missing(RowsOf(x), g, kids, i))
  /\ Proceed(a, [x EXCEPT !.add = @ \cup Spread(RowsOf(x), g, kids)])

LEMMA SortAddsKeeps ==
  ASSUME IInv, NEW a \in Admin, NEW x, NEW g, NEW kids, Sorts(a, x, g, kids)
  PROVE  IInv'
<1> DEFINE d == x.doc
           N == Spread(RowsOf(x), g, kids)
           z == [x EXCEPT !.add = x.add \cup N]
           y == [z EXCEPT !.at = z.at + 1]
<1>0. /\ Walking(a, "sort") /\ x = req[a] /\ g = d[x.at].item /\ kids = d[x.at].kids
      /\ "ordering" \in x.opts
      /\ \A i \in Item : Room(g, i, Missing(RowsOf(x), g, kids, i))
  BY Zenon DEF Sorts
<1>1. /\ x \in Request /\ Sound(x) /\ Walked(x) /\ x.pc = "walk" /\ d \in Seq(Call) /\ IsWalk(d)
      /\ x.at \in 1 .. Len(d) /\ x.at + 1 \in Nat \ {0} /\ d[x.at].op = "sort"
  BY <1>0, WalkFacts
<1>2. /\ g \in TreeGroup /\ g # None
      /\ g \in Theme => kids \subseteq Group
      /\ kids \subseteq Item \ Theme
      /\ \A i \in kids : \E m \in 1 .. x.at - 1 :
           d[m].op = "get" /\ d[m].item = i /\ d[m].parent = g
  <2>1. /\ d[x.at].item \in TreeGroup
        /\ d[x.at].item \in Theme => d[x.at].kids \subseteq Group
        /\ d[x.at].kids \subseteq Item \ Theme
        /\ \A i \in d[x.at].kids : \E m \in 1 .. x.at - 1 :
             d[m].op = "get" /\ d[m].item = i /\ d[m].parent = d[x.at].item
    <3>1. IsCall(d, x.at, "sort")
      BY <1>1 DEF IsCall
    <3> QED
      BY <3>1, SortFacts
  <2>2. d[x.at].item # None
    BY <2>1, TypesAssumption DEF Item
  <2>3. g = d[x.at].item /\ kids = d[x.at].kids
    BY <1>0
  <2> HIDE DEF d
  <2> QED
    BY <2>1, <2>2, <2>3
<1>3. Continue(a, y)
  BY DEF Sorts, Proceed
<1>4. /\ N \in SUBSET Row
      /\ \A r \in N : /\ r.group = g
                      /\ r.item \in kids \/ \E q \in RowsOf(x) : q.group = g /\ q.item = r.item
      /\ Single(RowsOf(x)) => Single(RowsOf(x) \cup N)
  <2>1. g \in TreeGroup
    BY <1>2
  <2>2. \A i \in Item : Room(g, i, Missing(RowsOf(x), g, kids, i))
    BY <1>0
  <2> QED
    BY <2>1, <2>2, SpreadFacts
<1> HIDE DEF N
<1>5. /\ z \in Request
      /\ z.pc = x.pc /\ z.doc = x.doc /\ z.at = x.at /\ z.opts = x.opts
      /\ z.unchecked = x.unchecked /\ z.raced = x.raced /\ z.del = x.del
      /\ z.make = x.make /\ z.drop = x.drop /\ z.add = x.add \cup N
  BY <1>1, <1>4, AddsMore
<1> HIDE DEF z
<1>6. /\ y \in Request
      /\ y.pc = x.pc /\ y.doc = x.doc /\ y.at = x.at + 1 /\ y.opts = x.opts
      /\ y.unchecked = x.unchecked /\ y.raced = x.raced /\ y.del = x.del
      /\ y.make = x.make /\ y.drop = x.drop /\ y.add = x.add \cup N
  BY <1>1, <1>5 DEF Request
<1> HIDE DEF y
<1>7. RowsOf(y) = RowsOf(x) \cup N /\ ItemsOf(y) = ItemsOf(x)
  BY <1>6 DEF RowsOf, ItemsOf
<1>8. RowsOf(x) \in SUBSET Row /\ RowsOf(y) \in SUBSET Row
  BY <1>1, <1>4, <1>7 DEF RowsOf, Request, IInv, TypeOK
<1>9. \A r \in N : \/ r.item \in kids
                   \/ \E q \in RowsOf(x) : q.group = r.group /\ q.item = r.item
  BY <1>4
<1>10. \A r \in y.add : r.item \notin Theme /\ (r.group \in Theme => r.item \in Group)
  <2>1. \A r \in RowsOf(x) : r.item \notin Theme /\ (r.group \in Theme => r.item \in Group)
    BY <1>1 DEF RowsOf, Sound, IInv, TreeInv, Proper
  <2>2. \A r \in x.add : r.item \notin Theme /\ (r.group \in Theme => r.item \in Group)
    BY <1>1 DEF Sound
  <2>3. ASSUME NEW r \in N
        PROVE  r.item \notin Theme /\ (r.group \in Theme => r.item \in Group)
    <3>1. r.group = g
      BY <1>4
    <3>2. CASE r.item \in kids
      BY <1>2, <3>1, <3>2
    <3>3. CASE \E q \in RowsOf(x) : q.group = r.group /\ q.item = r.item
      <4>1. PICK q \in RowsOf(x) : q.group = r.group /\ q.item = r.item
        BY <3>3
      <4>2. q.item \notin Theme /\ (q.group \in Theme => q.item \in Group)
        BY <2>1
      <4> QED
        BY <4>1, <4>2
    <3> QED
      BY <1>9, <3>2, <3>3
  <2> QED
    BY <1>6, <2>2, <2>3
<1>11. CASE x.raced
  <2>1. Sound(y) /\ Walked(y)
    BY <1>6, <1>10, <1>11 DEF Sound, Walked
  <2> QED
    BY <1>3, <1>6, <2>1, ContinueKeeps
<1>12. CASE ~ x.raced
  <2>1. /\ \A r \in RowsOf(x) : {r.group, r.item} \subseteq ItemsOf(x)
        /\ Single(rows) => Single(RowsOf(x))
        /\ Acyclic(rows) /\ ~ x.unchecked => Acyclic(RowsOf(x))
    BY <1>1, <1>12 DEF Sound
  <2>2. /\ x.del = {} /\ (x.unchecked \/ "parents" \in x.opts)
        /\ \A n \in 1 .. Len(d) :
             d[n].op = "get" /\ n < x.at =>
               /\ d[n].item \in ItemsOf(x)
               /\ "parents" \in x.opts => GroupsOf(RowsOf(x), d[n].item) = Wanted(d[n])
    BY <1>0, <1>1, <1>12 DEF Walked
  <2>3. ASSUME NEW i \in kids
        PROVE  /\ g \in ItemsOf(x) /\ i \in ItemsOf(x)
               /\ "parents" \in x.opts => \E r \in RowsOf(x) : r.group = g /\ r.item = i
    <3>1. PICK m \in 1 .. x.at - 1 : d[m].op = "get" /\ d[m].item = i /\ d[m].parent = g
      BY <1>2, <2>3
    <3>2. m \in 1 .. Len(d) /\ m < x.at
      BY <1>1
    <3>3. i \in ItemsOf(x) /\ ("parents" \in x.opts => GroupsOf(RowsOf(x), i) = Wanted(d[m]))
      BY <2>2, <3>1, <3>2
    <3> DEFINE p == d[m].parent
    <3>0. p # None
      BY <1>2, <3>1
    <3>9. \E k \in 1 .. m - 1 : d[k].op = "get" /\ d[k].item = p
      <4>1. IsCall(d, m, "get")
        BY <1>1, <3>1, <3>2 DEF IsCall
      <4> QED
        BY <3>0, <4>1, GetFacts
    <3>4. PICK k \in 1 .. m - 1 : d[k].op = "get" /\ d[k].item = g
      BY <3>1, <3>9
    <3>5. k \in 1 .. Len(d) /\ k < x.at
      BY <1>1, <3>2
    <3>6. g \in ItemsOf(x)
      BY <2>2, <3>4, <3>5
    <3>7. g \in Wanted(d[m])
      BY <1>2, <3>1, TypesAssumption DEF Wanted
    <3>8. "parents" \in x.opts => \E r \in RowsOf(x) : r.group = g /\ r.item = i
      BY <3>3, <3>7 DEF GroupsOf, Parents
    <3> QED
      BY <3>3, <3>6, <3>8
  <2>4. \A r \in RowsOf(y) : {r.group, r.item} \subseteq ItemsOf(y)
    <3>1. ASSUME NEW r \in N
          PROVE  r.group \in ItemsOf(x) /\ r.item \in ItemsOf(x)
      <4>1. r.group = g
        BY <1>4
      <4>2. CASE r.item \in kids
        BY <2>3, <4>1, <4>2
      <4>3. CASE \E q \in RowsOf(x) : q.group = r.group /\ q.item = r.item
        <5>1. PICK q \in RowsOf(x) : q.group = r.group /\ q.item = r.item
          BY <4>3
        <5>2. q.group \in ItemsOf(x) /\ q.item \in ItemsOf(x)
          BY <2>1
        <5> QED
          BY <5>1, <5>2
      <4> QED
        BY <1>9, <4>2, <4>3
    <3> QED
      BY <1>7, <2>1, <3>1
  <2>5. Single(rows) => Single(RowsOf(y))
    BY <1>4, <1>7, <2>1
  <2>6. ASSUME "parents" \in x.opts
        PROVE  \A q \in RowsOf(y) : \E r \in RowsOf(x) : r.group = q.group /\ r.item = q.item
    <3>1. ASSUME NEW q \in N
          PROVE  \E r \in RowsOf(x) : r.group = q.group /\ r.item = q.item
      <4>1. CASE q.item \in kids
        BY <1>4, <2>3, <2>6, <4>1
      <4> QED
        BY <1>9, <4>1
    <3> QED
      BY <1>7, <3>1
  <2>7. ASSUME Acyclic(rows), ~ x.unchecked
        PROVE  Acyclic(RowsOf(y))
    BY <1>8, <2>1, <2>2, <2>6, <2>7, AcyclicSameLinks
  <2>8. Sound(y)
    BY <1>6, <1>10, <2>4, <2>5, <2>7 DEF Sound
  <2>9. ASSUME NEW n \in 1 .. Len(d), d[n].op = "get", n < x.at + 1
        PROVE  /\ d[n].item \in ItemsOf(y)
               /\ "parents" \in x.opts => GroupsOf(RowsOf(y), d[n].item) = Wanted(d[n])
    <3>1. n < x.at
      BY <1>1, <2>9
    <3>2. "parents" \in x.opts => GroupsOf(RowsOf(y), d[n].item) = GroupsOf(RowsOf(x), d[n].item)
      BY <1>7, <2>6 DEF GroupsOf, Parents
    <3> QED
      BY <1>7, <2>2, <2>9, <3>1, <3>2
  <2>10. Walked(y)
    BY <1>1, <1>6, <2>2, <2>9 DEF Walked
  <2> QED
    BY <1>3, <1>6, <2>8, <2>10, ContinueKeeps
<1> QED
  BY <1>11, <1>12

LEMMA SortItemKeeps ==
  ASSUME IInv, NEW a \in Admin, SortItem(a)
  PROVE  IInv'
<1> DEFINE x == req[a]
           g == x.doc[x.at].item
           kids == x.doc[x.at].kids
<1>1. Walking(a, "sort")
  BY DEF SortItem
<1>2. CASE Proceed(a, x)
  <2>1. Keeps(a, x, x.doc[x.at], "sort")
    BY <1>1, <1>2 DEF Keeps
  <2> QED
    BY <2>1, KeptKeeps
<1>3. CASE /\ "ordering" \in x.opts /\ kids # {}
           /\ \A i \in Item : Room(g, i, Missing(RowsOf(x), g, kids, i))
           /\ Proceed(a, [x EXCEPT !.add =
                @ \cup UNION {NewRows(g, i, Missing(RowsOf(x), g, kids, i)) : i \in Item}])
  <2>1. Sorts(a, x, g, kids)
    BY <1>1, <1>3, Zenon DEF Sorts, Spread
  <2> QED
    BY <2>1, SortAddsKeeps
<1> QED
  BY <1>2, <1>3, Zenon DEF SortItem

(* Items are taken away, with their links.                                   *)
LEMMA WithoutFacts ==
  ASSUME IInv, NEW x \in Request, NEW I \in SUBSET Item
  PROVE  LET w == Without(x, I)
         IN  /\ w \in Request
             /\ w.pc = x.pc /\ w.doc = x.doc /\ w.at = x.at /\ w.opts = x.opts
             /\ w.unchecked = x.unchecked /\ w.raced = x.raced /\ w.todo = x.todo
             /\ w.add \subseteq x.add
             /\ RowsOf(w) = {r \in RowsOf(x) : r.item \notin I /\ r.group \notin I}
             /\ ItemsOf(w) = ItemsOf(x) \ I
<1> DEFINE gone == {r \in RowsOf(x) : r.item \in I \/ r.group \in I}
           z == Dropped(x, gone)
           m == z.make \ I
           k == z.del \cup (I \cap items)
           w == [z EXCEPT !.make = m, !.del = k]
<1>1. gone \in SUBSET Row
  BY DEF RowsOf, Request, IInv, TypeOK
<1>2. RowsOf(x) \ gone = {r \in RowsOf(x) : r.item \notin I /\ r.group \notin I}
  OBVIOUS
<1>3. Without(x, I) = w
  BY DEF Without
<1> HIDE DEF gone
<1>4. /\ z \in Request
      /\ z.pc = x.pc /\ z.doc = x.doc /\ z.at = x.at /\ z.opts = x.opts
      /\ z.unchecked = x.unchecked /\ z.raced = x.raced /\ z.del = x.del
      /\ z.make = x.make /\ z.todo = x.todo /\ z.add \subseteq x.add
      /\ RowsOf(z) = RowsOf(x) \ gone /\ ItemsOf(z) = ItemsOf(x)
  BY <1>1, DropsMore
<1> HIDE DEF z
<1>5. m \in SUBSET Item /\ k \in SUBSET Item
  BY <1>4 DEF Request, IInv, TypeOK
<1>6. ItemsOf(z) \ I = (items \cup m) \ k
  BY <1>4 DEF ItemsOf
<1> HIDE DEF m, k
<1>7. /\ w \in Request
      /\ w.pc = z.pc /\ w.doc = z.doc /\ w.at = z.at /\ w.opts = z.opts
      /\ w.unchecked = z.unchecked /\ w.raced = z.raced /\ w.todo = z.todo
      /\ w.add = z.add /\ w.drop = z.drop /\ w.make = m /\ w.del = k
  BY <1>4, <1>5 DEF Request
<1> HIDE DEF w
<1>8. RowsOf(w) = RowsOf(z) /\ ItemsOf(w) = ItemsOf(z) \ I
  BY <1>6, <1>7 DEF RowsOf, ItemsOf
<1> QED
  BY <1>2, <1>3, <1>4, <1>7, <1>8

(* The rest of a request sees the same links, or the links between fewer     *)
(* items.                                                                    *)
LEMMA FewerItemsSound ==
  ASSUME IInv, NEW x \in Request, Sound(x), NEW I \in SUBSET Item, NEW y,
         y.unchecked = x.unchecked, y.raced = x.raced, y.add \subseteq x.add,
         RowsOf(y) = {r \in RowsOf(x) : r.item \notin I /\ r.group \notin I},
         ItemsOf(y) = ItemsOf(x) \ I
  PROVE  Sound(y)
<1>1. RowsOf(x) \in SUBSET Row /\ RowsOf(y) \in SUBSET Row
  BY DEF RowsOf, Request, IInv, TypeOK
<1>2. \A r \in y.add : r.item \notin Theme /\ (r.group \in Theme => r.item \in Group)
  BY DEF Sound
<1>3. ASSUME ~ x.raced
      PROVE  /\ \A r \in RowsOf(y) : {r.group, r.item} \subseteq ItemsOf(y)
             /\ Single(rows) => Single(RowsOf(y))
             /\ Acyclic(rows) /\ ~ y.unchecked => Acyclic(RowsOf(y))
  <2>1. /\ \A r \in RowsOf(x) : {r.group, r.item} \subseteq ItemsOf(x)
        /\ Single(rows) => Single(RowsOf(x))
        /\ Acyclic(rows) /\ ~ x.unchecked => Acyclic(RowsOf(x))
    BY <1>3 DEF Sound
  <2>2. \A r \in RowsOf(y) : {r.group, r.item} \subseteq ItemsOf(y)
    BY <2>1
  <2>3. Single(rows) => Single(RowsOf(y))
    BY <2>1 DEF Single
  <2>4. Acyclic(RowsOf(x)) => Acyclic(RowsOf(y))
    <3>1. \A q \in RowsOf(y) : \E r \in RowsOf(x) : r.group = q.group /\ r.item = q.item
      OBVIOUS
    <3> QED
      BY <1>1, <3>1, AcyclicSameLinks
  <2> QED
    BY <2>1, <2>2, <2>3, <2>4
<1> QED
  BY <1>2, <1>3 DEF Sound

(* The document of a request, which is empty for a form.                     *)
LEMMA DocFacts ==
  ASSUME NEW x \in Request
  PROVE  x.doc \in Seq(Call) /\ x.at \in Nat /\ \A n \in 1 .. Len(x.doc) : IsWalk(x.doc)
<1>1. x.doc \in Document \cup {<<>>} /\ x.at \in Nat
  BY DEF Request
<1>2. CASE x.doc \in Document
  BY <1>1, <1>2, DocumentAssumption
<1>3. CASE x.doc = <<>>
  BY <1>1, <1>3
<1> QED
  BY <1>1, <1>2, <1>3

(* After the walk, the items of the document are where it has them.          *)
LEMMA AfterWalk ==
  ASSUME NEW x \in Request, Walked(x), ~ x.raced, "parents" \in x.opts,
         x.pc # "walk" \/ x.at > Len(x.doc)
  PROVE  \A n \in 1 .. Len(x.doc) :
           x.doc[n].op = "get" => GroupsOf(RowsOf(x), x.doc[n].item) = Wanted(x.doc[n])
<1>1. x.doc \in Seq(Call) /\ x.at \in Nat
  BY DocFacts
<1> SUFFICES ASSUME NEW n \in 1 .. Len(x.doc), x.doc[n].op = "get"
             PROVE  GroupsOf(RowsOf(x), x.doc[n].item) = Wanted(x.doc[n])
  OBVIOUS
<1>2. x.pc = "walk" => n < x.at
  <2>1. Len(x.doc) \in Nat
    BY <1>1
  <2> QED
    BY <1>1, <2>1
<1> QED
  BY <1>2 DEF Walked

LEMMA CheckLayersKeeps ==
  ASSUME IInv, NEW a \in Admin, CheckLayers(a)
  PROVE  IInv'
<1> DEFINE x == req[a]
           d == x.doc
<1>1. x \in Request /\ Sound(x) /\ Walked(x)
  BY DEF IInv, TypeOK, PendingInv
<1>2. x.pc # "walk" \/ x.at > Len(d)
  BY DEF CheckLayers
<1>3. CASE "clean" \notin x.opts
  <2> DEFINE y == [x EXCEPT !.pc = "write"]
  <2>1. Continue(a, y)
    BY <1>3 DEF CheckLayers
  <2>2. /\ y \in Request
        /\ y.pc = "write" /\ y.doc = d /\ y.opts = x.opts /\ y.unchecked = x.unchecked
        /\ y.raced = x.raced /\ y.add = x.add /\ y.drop = x.drop /\ y.make = x.make
        /\ y.del = x.del
    BY <1>1 DEF Request
  <2> HIDE DEF y
  <2>3. RowsOf(y) = RowsOf(x) /\ ItemsOf(y) = ItemsOf(x)
    BY <2>2 DEF RowsOf, ItemsOf
  <2>4. Sound(y)
    BY <1>1, <2>2, <2>3 DEF Sound
  <2>5. Walked(y)
    BY <1>1, <1>2, <2>2, <2>3, AfterWalk DEF Walked
  <2> QED
    BY <2>1, <2>2, <2>4, <2>5, ContinueKeeps
<1>4. CASE "clean" \in x.opts
  <2> DEFINE I == (ItemsOf(x) \cap Layer) \ Known(d)
             T == ItemsOf(x) \cap Group
             w == Without(x, I)
             y == [w EXCEPT !.pc = "clean", !.todo = T]
  <2>1. Continue(a, y)
    BY <1>4 DEF CheckLayers
  <2>2. I \in SUBSET Layer /\ I \in SUBSET Item /\ T \in SUBSET Group
    BY DEF Item
  <2>3. \A n \in 1 .. Len(d) : d[n].item \notin I
    BY DEF Known
  <2> HIDE DEF I, T
  <2>4. /\ w \in Request
        /\ w.pc = x.pc /\ w.doc = d /\ w.at = x.at /\ w.opts = x.opts
        /\ w.unchecked = x.unchecked /\ w.raced = x.raced /\ w.add \subseteq x.add
        /\ RowsOf(w) = {r \in RowsOf(x) : r.item \notin I /\ r.group \notin I}
        /\ ItemsOf(w) = ItemsOf(x) \ I
    BY <1>1, <2>2, WithoutFacts
  <2> HIDE DEF w
  <2>5. /\ y \in Request
        /\ y.pc = "clean" /\ y.doc = w.doc /\ y.opts = w.opts /\ y.unchecked = w.unchecked
        /\ y.raced = w.raced /\ y.add = w.add /\ y.drop = w.drop /\ y.make = w.make
        /\ y.del = w.del
    BY <2>2, <2>4 DEF Request
  <2> HIDE DEF y
  <2>6. RowsOf(y) = RowsOf(w) /\ ItemsOf(y) = ItemsOf(w)
    BY <2>5 DEF RowsOf, ItemsOf
  <2>7. Sound(y)
    <3>1. /\ y.unchecked = x.unchecked /\ y.raced = x.raced /\ y.add \subseteq x.add
          /\ RowsOf(y) = {r \in RowsOf(x) : r.item \notin I /\ r.group \notin I}
          /\ ItemsOf(y) = ItemsOf(x) \ I
      BY <2>4, <2>5, <2>6
    <3> QED
      BY <1>1, <2>2, <3>1, FewerItemsSound
  <2>8. \A r \in RowsOf(x) : r.group \notin I
    BY <1>1, <2>2, TypesAssumption DEF RowsOf, Request, IInv, TypeOK, Row, TreeGroup
  <2>9. \A i : i \notin I => GroupsOf(RowsOf(y), i) = GroupsOf(RowsOf(x), i)
    BY <2>4, <2>6, <2>8 DEF GroupsOf, Parents
  <2>10. Walked(y)
    <3> SUFFICES ASSUME ~ x.raced, "parents" \in x.opts,
                        NEW n \in 1 .. Len(d), d[n].op = "get"
                 PROVE  GroupsOf(RowsOf(y), d[n].item) = Wanted(d[n])
      BY <2>4, <2>5 DEF Walked
    <3>1. GroupsOf(RowsOf(x), d[n].item) = Wanted(d[n])
      BY <1>1, <1>2, AfterWalk
    <3> QED
      BY <2>3, <2>9, <3>1
  <2> QED
    BY <2>1, <2>5, <2>7, <2>10, ContinueKeeps
<1> QED
  BY <1>3, <1>4

(* A group of the document is never empty here: what it has in the document  *)
(* was moved into it.                                                        *)
LEMMA CleanGroupKeeps ==
  ASSUME IInv, NEW a \in Admin, NEW g \in Group, CleanGroup(a, g)
  PROVE  IInv'
<1> DEFINE x == req[a]
           d == x.doc
<1>1. x \in Request /\ Sound(x) /\ Walked(x) /\ x.pc = "clean"
  BY DEF IInv, TypeOK, PendingInv, CleanGroup
<1>2. d \in Seq(Call) /\ \A n \in 1 .. Len(d) : IsWalk(d)
  BY <1>1, DocFacts
<1>3. CASE Continue(a, [x EXCEPT !.todo = @ \ {g}])
  <2> DEFINE y == [x EXCEPT !.todo = x.todo \ {g}]
  <2>1. Continue(a, y)
    BY <1>3
  <2>2. /\ y \in Request
        /\ y.pc = x.pc /\ y.doc = d /\ y.opts = x.opts /\ y.unchecked = x.unchecked
        /\ y.raced = x.raced /\ y.add = x.add /\ y.drop = x.drop /\ y.make = x.make
        /\ y.del = x.del /\ y.at = x.at
    BY <1>1 DEF Request
  <2> HIDE DEF y
  <2>3. RowsOf(y) = RowsOf(x) /\ ItemsOf(y) = ItemsOf(x)
    BY <2>2 DEF RowsOf, ItemsOf
  <2>4. Sound(y)
    BY <1>1, <2>2, <2>3 DEF Sound
  <2>5. Walked(y)
    BY <1>1, <2>2, <2>3 DEF Walked
  <2> QED
    BY <2>1, <2>2, <2>4, <2>5, ContinueKeeps
<1>4. CASE /\ Children(RowsOf(x), g) = {}
           /\ Continue(a, [Without(x, {g} \cap ItemsOf(x)) EXCEPT !.todo = @ \ {g}])
  <2> DEFINE I == {g} \cap ItemsOf(x)
             w == Without(x, I)
             y == [w EXCEPT !.todo = w.todo \ {g}]
  <2>1. Continue(a, y)
    BY <1>4
  <2>2. I \in SUBSET {g} /\ I \in SUBSET Item
    BY DEF Item, TreeGroup
  <2> HIDE DEF I
  <2>4. /\ w \in Request
        /\ w.pc = x.pc /\ w.doc = d /\ w.at = x.at /\ w.opts = x.opts
        /\ w.unchecked = x.unchecked /\ w.raced = x.raced /\ w.add \subseteq x.add
        /\ RowsOf(w) = {r \in RowsOf(x) : r.item \notin I /\ r.group \notin I}
        /\ ItemsOf(w) = ItemsOf(x) \ I
    BY <1>1, <2>2, WithoutFacts
  <2> HIDE DEF w
  <2>5. /\ y \in Request
        /\ y.pc = w.pc /\ y.doc = w.doc /\ y.opts = w.opts /\ y.unchecked = w.unchecked
        /\ y.raced = w.raced /\ y.add = w.add /\ y.drop = w.drop /\ y.make = w.make
        /\ y.del = w.del
    BY <2>2, <2>4 DEF Request
  <2> HIDE DEF y
  <2>6. RowsOf(y) = RowsOf(w) /\ ItemsOf(y) = ItemsOf(w)
    BY <2>5 DEF RowsOf, ItemsOf
  <2>7. Sound(y)
    <3>1. /\ y.unchecked = x.unchecked /\ y.raced = x.raced /\ y.add \subseteq x.add
          /\ RowsOf(y) = {r \in RowsOf(x) : r.item \notin I /\ r.group \notin I}
          /\ ItemsOf(y) = ItemsOf(x) \ I
      BY <2>4, <2>5, <2>6
    <3> QED
      BY <1>1, <2>2, <3>1, FewerItemsSound
  <2>8. \A r \in RowsOf(x) : r.group # g
    BY <1>4 DEF Children
  <2>9. \A i : i # g => GroupsOf(RowsOf(y), i) = GroupsOf(RowsOf(x), i)
    BY <2>2, <2>4, <2>6, <2>8 DEF GroupsOf, Parents
  <2>10. Walked(y)
    <3> SUFFICES ASSUME ~ x.raced, "parents" \in x.opts,
                        NEW n \in 1 .. Len(d), d[n].op = "get"
                 PROVE  GroupsOf(RowsOf(y), d[n].item) = Wanted(d[n])
      BY <1>1, <2>4, <2>5 DEF Walked
    <3>1. \A k \in 1 .. Len(d) : d[k].op = "get" => GroupsOf(RowsOf(x), d[k].item) = Wanted(d[k])
      BY <1>1, AfterWalk
    <3>2. d[n].item # g
      <4> SUFFICES ASSUME d[n].item = g
                   PROVE  FALSE
        OBVIOUS
      <4>1. IsWalk(d)
        BY <1>2
      <4>2. PICK m \in 1 .. Len(d) : d[m].op = "get" /\ d[m].parent = g
        BY <1>2, <4>1 DEF IsWalk
      <4>3. g # None /\ g \notin Theme
        BY TypesAssumption DEF Item, TreeGroup
      <4>4. g \in Wanted(d[m])
        BY <4>2, <4>3 DEF Wanted
      <4>5. g \in GroupsOf(RowsOf(x), d[m].item)
        BY <3>1, <4>2, <4>4
      <4> QED
        BY <2>8, <4>5 DEF GroupsOf, Parents
    <3> QED
      BY <2>9, <3>1, <3>2
  <2> QED
    BY <2>1, <2>5, <2>7, <2>10, ContinueKeeps
<1> QED
  BY <1>3, <1>4 DEF CleanGroup

-----------------------------------------------------------------------------
(* The end of a transaction *)

(* What nobody overtook is committed as it was seen.                         *)
LEMMA CommittedRows ==
  ASSUME NEW x, Sound(x), ~ x.raced
  PROVE  {r \in RowsOf(x) : r.item \notin x.del} = RowsOf(x)
<1>1. \A r \in RowsOf(x) : r.item \in ItemsOf(x)
  BY DEF Sound
<1> QED
  BY <1>1 DEF ItemsOf

LEMMA CommitKeeps ==
  ASSUME IInv, NEW a \in Admin, Commit(a)
  PROVE  IInv'
<1> DEFINE x == req[a]
<1>1. x \in Request /\ Sound(x) /\ Walked(x)
  BY DEF IInv, TypeOK, PendingInv
<1>2. /\ requests' = requests
      /\ items' = ItemsOf(x)
      /\ rows' = {r \in RowsOf(x) : r.item \notin x.del}
      /\ slip' = slip \cup Slips(a)
      /\ \A r \in x.add : {r.group, r.item} \subseteq ItemsOf(x)
      /\ \A r \in RowsOf(x) : r.group \notin x.del
  BY DEF Commit, Allowed
<1>3. req' = [b \in Admin |-> IF b = a THEN Idle
                              ELSE IF req[b] = Idle THEN req[b]
                              ELSE [req[b] EXCEPT !.raced = TRUE]]
  BY DEF Commit
<1>4. rows \in SUBSET Row /\ rows' \in SUBSET Row /\ items' \subseteq Item
  BY <1>1, <1>2 DEF RowsOf, ItemsOf, Request, IInv, TypeOK
<1>5. Slips(a) \subseteq {"race", "new", "sync"}
  BY DEF Slips
<1>6. TypeOK'
  <2>1. \A b \in Admin : req'[b] \in Request
    <3> SUFFICES ASSUME NEW b \in Admin
                 PROVE  req'[b] \in Request
      OBVIOUS
    <3>1. req[b] \in Request /\ Idle \in Request
      BY IdleFacts DEF IInv, TypeOK
    <3>2. [req[b] EXCEPT !.raced = TRUE] \in Request
      BY <3>1 DEF Request
    <3> QED
      BY <1>3, <3>1, <3>2
  <2>2. req' \in [Admin -> Request]
    BY <1>3, <2>1
  <2>3. requests' \in 0 .. MaxRequests /\ slip' \subseteq {"race", "new", "sync"}
    BY <1>2, <1>5 DEF IInv, TypeOK
  <2> QED
    BY <1>4, <2>2, <2>3 DEF TypeOK
<1>7. TreeInv'
  <2> SUFFICES ASSUME NEW r \in rows'
               PROVE  /\ r.group \in items' /\ r.item \in items'
                      /\ r.item \notin Theme
                      /\ r.group \in Theme => r.item \in Group
    BY DEF TreeInv, Proper
  <2>1. r \in RowsOf(x) /\ r.item \notin x.del /\ r.group \notin x.del
    BY <1>2
  <2>2. CASE r \in x.add
    BY <1>1, <1>2, <2>2 DEF Sound
  <2>3. CASE r \in rows
    BY <1>2, <2>1, <2>3 DEF ItemsOf, IInv, TreeInv, Proper
  <2> QED
    BY <2>1, <2>2, <2>3 DEF RowsOf
<1>8. PendingInv'
  <2> SUFFICES ASSUME NEW b \in Admin
               PROVE  Sound(req[b])' /\ Walked(req[b])'
    BY DEF PendingInv
  <2>1. CASE req'[b] = Idle
    <3>1. RowsOf(Idle)' = rows' /\ ItemsOf(Idle)' = items'
      BY IdleFacts DEF RowsOf, ItemsOf
    <3>2. Sound(Idle)'
      BY <1>7, <3>1, IdleFacts DEF Sound, TreeInv, Proper
    <3>3. Walked(Idle)'
      BY IdleFacts DEF Walked
    <3> QED
      BY <2>1, <3>2, <3>3 DEF Sound, Walked, RowsOf, ItemsOf
  <2>2. CASE req'[b] # Idle
    <3> DEFINE y == [req[b] EXCEPT !.raced = TRUE]
    <3>1. req'[b] = y
      BY <1>3, <2>2
    <3>2. req[b] \in Request /\ Sound(req[b])
      BY DEF IInv, TypeOK, PendingInv
    <3>3. y.raced = TRUE /\ y.add = req[b].add
      BY <3>2 DEF Request
    <3> HIDE DEF y
    <3>4. \A r \in y.add : r.item \notin Theme /\ (r.group \in Theme => r.item \in Group)
      BY <3>2, <3>3 DEF Sound
    <3> QED
      BY <3>1, <3>3, <3>4 DEF Sound, Walked
  <2> QED
    BY <2>1, <2>2
<1>9. CASE x.add = {}
  <2>1. rows' \subseteq rows
    BY <1>2, <1>9 DEF RowsOf
  <2>2. Acyclic(rows) => Acyclic(rows')
    BY <1>4, <2>1, AcyclicSameLinks
  <2>3. CycleOnlyUnchecked'
    BY <1>2, <2>2 DEF CycleOnlyUnchecked, Acyclic, Above, GroupsOf, Parents, ClosedUpwards,
                      IInv
  <2>4. CopiesOnlyByRace'
    BY <1>2, <2>1 DEF CopiesOnlyByRace, Single, IInv
  <2> QED
    BY <1>6, <1>7, <1>8, <2>3, <2>4 DEF IInv
<1>10. CASE x.add # {}
  <2>1. x.raced => "race" \in slip'
    BY <1>2, <1>10 DEF Slips
  <2>2. x.unchecked => slip' # {}
    BY <1>2, <1>10 DEF Slips
  <2>3. ~ x.raced => rows' = RowsOf(x)
    BY <1>1, <1>2, CommittedRows
  <2>4. ~ x.raced /\ ~ x.unchecked /\ Acyclic(rows) => Acyclic(RowsOf(x))
    BY <1>1 DEF Sound
  <2>5. ~ x.raced /\ Single(rows) => Single(RowsOf(x))
    BY <1>1 DEF Sound
  <2>6. slip \subseteq slip'
    BY <1>2
  <2>7. ~ Acyclic(rows) => slip # {}
    BY DEF IInv, CycleOnlyUnchecked
  <2>8. ~ Single(rows) => "race" \in slip
    BY DEF IInv, CopiesOnlyByRace
  <2>9. CASE slip' # {} /\ "race" \in slip'
    BY <1>6, <1>7, <1>8, <2>9 DEF IInv, CycleOnlyUnchecked, CopiesOnlyByRace
  <2>10. CASE "race" \notin slip'
    <3>1. rows' = RowsOf(x) /\ Single(rows')
      BY <2>1, <2>3, <2>5, <2>6, <2>8, <2>10
    <3>2. slip' = {} => Acyclic(rows')
      BY <2>1, <2>2, <2>3, <2>4, <2>6, <2>7, <2>10
    <3>3. CycleOnlyUnchecked'
      BY <3>2 DEF CycleOnlyUnchecked, Acyclic, Above, GroupsOf, Parents, ClosedUpwards
    <3>4. CopiesOnlyByRace'
      BY <3>1 DEF CopiesOnlyByRace, Single
    <3> QED
      BY <1>6, <1>7, <1>8, <3>3, <3>4 DEF IInv
  <2> QED
    BY <2>9, <2>10
<1> QED
  BY <1>9, <1>10

-----------------------------------------------------------------------------
(* The invariant *)

LEMMA InitIInv == Init => IInv
<1> SUFFICES ASSUME Init
             PROVE  IInv
  OBVIOUS
<1>1. PICK tree \in Start : items = tree.items /\ rows = tree.rows /\ slip = tree.slip
  BY DEF Init
<1>2. /\ items \subseteq Item /\ rows \subseteq Row
      /\ slip \subseteq {"race", "new", "sync"}
      /\ Proper(items, rows)
      /\ ~ Acyclic(rows) => slip # {}
      /\ ~ Single(rows) => "race" \in slip
  BY <1>1, StartAssumption
<1>3. req = [a \in Admin |-> Idle] /\ requests = 0
  BY DEF Init
<1>4. TypeOK
  <2>1. req \in [Admin -> Request]
    BY <1>3, IdleFacts
  <2>2. requests \in 0 .. MaxRequests
    BY <1>3, BoundsAssumption
  <2> QED
    BY <1>2, <2>1, <2>2 DEF TypeOK
<1>5. PendingInv
  <2>1. RowsOf(Idle) = rows /\ ItemsOf(Idle) = items
    BY IdleFacts DEF RowsOf, ItemsOf
  <2>2. Sound(Idle)
    BY <1>2, <2>1, IdleFacts DEF Sound, Proper
  <2>3. Walked(Idle)
    BY IdleFacts DEF Walked
  <2> QED
    BY <1>3, <2>2, <2>3 DEF PendingInv
<1> QED
  BY <1>2, <1>4, <1>5 DEF IInv, TreeInv, CycleOnlyUnchecked, CopiesOnlyByRace

LEMMA NextIInv == IInv /\ [Next]_vars => IInv'
<1> SUFFICES ASSUME IInv, [Next]_vars
             PROVE  IInv'
  OBVIOUS
<1>1. ASSUME NEW a \in Admin, Edit(a)
      PROVE  IInv'
  <2>1. ASSUME NEW g \in TreeGroup, NEW keep \in SUBSET Children(rows, g),
               NEW more \in SUBSET (Item \ Theme), Save(a, g, keep, more)
        PROVE  IInv'
    BY <2>1, SaveKeeps
  <2>2. ASSUME NEW i \in Item, NEW children \in SUBSET (Item \ Theme),
               NEW parent \in {None} \cup TreeGroup, New(a, i, children, parent)
        PROVE  IInv'
    BY <2>2, NewKeeps
  <2>3. ASSUME NEW r \in rows, Unlink(a, r)
        PROVE  IInv'
    BY <2>3, UnlinkKeeps
  <2>4. ASSUME NEW i \in Item, Delete(a, i)
        PROVE  IInv'
    BY <2>4, DeleteKeeps
  <2> QED
    BY <1>1, <2>1, <2>2, <2>3, <2>4 DEF Edit
<1>2. ASSUME NEW a \in Admin, Sync(a)
      PROVE  IInv'
  <2>1. ASSUME NEW d \in Document, NEW opts \in SUBSET Option, SyncStart(a, d, opts)
        PROVE  IInv'
    BY <2>1, SyncStartKeeps
  <2>2. ASSUME NEW d \in Document, CheckStart(a, d)
        PROVE  IInv'
    BY <2>2, CheckStartKeeps
  <2>3. ASSUME NEW g \in Group, CleanGroup(a, g)
        PROVE  IInv'
    BY <2>3, CleanGroupKeeps
  <2> QED
    BY <1>2, <2>1, <2>2, <2>3, GetItemKeeps, SortItemKeeps, CheckLayersKeeps DEF Sync
<1>3. ASSUME UNCHANGED vars
      PROVE  IInv'
  <2>1. /\ items' = items /\ rows' = rows /\ req' = req /\ slip' = slip
        /\ requests' = requests
    BY <1>3 DEF vars
  <2>2. TypeOK' /\ TreeInv' /\ CycleOnlyUnchecked' /\ CopiesOnlyByRace'
    BY <2>1 DEF IInv, TypeOK, TreeInv, CycleOnlyUnchecked, CopiesOnlyByRace
  <2>3. PendingInv'
    BY <2>1 DEF IInv, PendingInv, Sound, Walked, RowsOf, ItemsOf
  <2> QED
    BY <2>2, <2>3 DEF IInv
<1> QED
  BY <1>1, <1>2, <1>3, CommitKeeps, AbortKeeps DEF Next

LEMMA Invariance == Spec => []IInv
  BY InitIInv, NextIInv, PTL DEF Spec

(* Every variable keeps its type: the links that a request has written and   *)
(* those that it has removed are rows of the table, as in treegroup.py and   *)
(* ogcserver_synchronizer.py.                                                *)
THEOREM TypeCorrect == Spec => []TypeOK
<1>1. IInv => TypeOK
  BY DEF IInv
<1> QED
  BY <1>1, Invariance, PTL

(* For any number of administrators and any items: themes hold groups only,  *)
(* and no link is left without one of its ends.                              *)
THEOREM TreeCorrect == Spec => []TreeInv
<1>1. IInv => TreeInv
  BY DEF IInv
<1> QED
  BY <1>1, Invariance, PTL

(* What a request sees until it commits: links between items, acyclic and    *)
(* single as the tree was, and every item that was walked in its place.      *)
THEOREM PendingCorrect == Spec => []PendingInv
<1>1. IInv => PendingInv
  BY DEF IInv
<1> QED
  BY <1>1, Invariance, PTL

(* The tree gets a cycle only when a request was overtaken, by a new group   *)
(* with a parent and children, or by ordering without parents.               *)
THEOREM CycleOnlyUncheckedCorrect == Spec => []CycleOnlyUnchecked
<1>1. IInv => CycleOnlyUnchecked
  BY DEF IInv
<1> QED
  BY <1>1, Invariance, PTL

(* An item is twice in a group only when a request was overtaken.            *)
THEOREM CopiesOnlyByRaceCorrect == Spec => []CopiesOnlyByRace
<1>1. IInv => CopiesOnlyByRace
  BY DEF IInv
<1> QED
  BY <1>1, Invariance, PTL

(* A synchronization that forces the parents and that nobody overtook leaves *)
(* every item of the capabilities in its place, for any document.            *)
THEOREM ParentsCorrect == Spec => ParentsOfCapabilities
<1>1. ASSUME IInv, NEW a \in Admin, Commit(a), "parents" \in req[a].opts, ~ req[a].raced
      PROVE  Synchronized(a, rows')
  <2>1. req[a] \in Request /\ Sound(req[a]) /\ Walked(req[a])
    BY <1>1 DEF IInv, TypeOK, PendingInv
  <2>2. req[a].pc # "walk"
    BY <1>1 DEF Commit, Ready
  <2>3. rows' = RowsOf(req[a])
    BY <1>1, <2>1, CommittedRows DEF Commit
  <2> QED
    BY <1>1, <2>1, <2>2, <2>3, AfterWalk DEF Synchronized
<1>2. IInv => [\A a \in Admin : Commit(a) /\ "parents" \in req[a].opts /\ ~ req[a].raced
                                => Synchronized(a, rows')]_vars
  BY <1>1
<1> QED
  BY <1>2, Invariance, PTL DEF ParentsOfCapabilities
=============================================================================
