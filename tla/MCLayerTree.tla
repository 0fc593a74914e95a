------------------------------ MODULE MCLayerTree ------------------------------
(***************************************************************************)
(* A theme, two groups and a layer, and three capabilities documents.      *)
(***************************************************************************)
EXTENDS LayerTree, TLC

CONSTANTS a1, a2

Admins == Permutations({a1, a2})

Get(i, p) == [op |-> "get", item |-> i, parent |-> p, kids |-> {}]
Sort(i, p, ks) == [op |-> "sort", item |-> i, parent |-> p, kids |-> ks]

(* A layer in a group in a group. *)
Nested ==
  << Get("t", None), Get("g1", "t"), Get("g2", "g1"), Get("l", "g2"),
     Sort("g2", "g1", {"l"}), Sort("g1", "t", {"g2"}), Sort("t", None, {"g1"}) >>

(* A layer that is directly in the theme; and an empty document. *)
Direct == << Get("t", None), Get("l", "t"), Sort("t", None, {}) >>

Documents == {Nested, Direct, << >>}

Link(g, i) == [group |-> g, item |-> i, copy |-> 1]

All == {"t", "g1", "g2", "l"}

Tree(is, rs, sl) == [items |-> is, rows |-> rs, slip |-> sl]

(* Empty, flat, with the groups in one another in both ways, with a group in *)
(* two places, with a layer that is linked twice, and with a cycle.          *)
Trees ==
  {Tree({}, {}, {}),
   Tree({"t", "g2", "l"}, {Link("t", "g2"), Link("g2", "l")}, {}),
   Tree(All, {Link("t", "g1"), Link("t", "g2"), Link("g1", "l")}, {}),
   Tree(All, {Link("t", "g1"), Link("g1", "g2"), Link("g2", "l")}, {}),
   Tree(All, {Link("t", "g2"), Link("g2", "g1"), Link("g1", "l")}, {}),
   Tree(All, {Link("t", "g2"), Link("t", "g1"), Link("g2", "g1"), Link("g2", "l")}, {}),
   Tree(All, {Link("t", "g1"), Link("g1", "g2"), Link("g2", "l"), [Link("g2", "l") EXCEPT !.copy = 2]}, {"race"}),
   Tree(All, {Link("t", "g1"), Link("g1", "g2"), Link("g2", "g1"), Link("g2", "l")}, {"new"})}
=============================================================================
