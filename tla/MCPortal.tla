------------------------------- MODULE MCPortal -------------------------------
(***************************************************************************)
(* The values of the constants of Portal for TLC.                              *)
(***************************************************************************)
EXTENDS Portal, TLC

CONSTANTS
  t1, t2,                      \* threads and requests
  n1, n2, m1,                  \* user names and an address
  theme1, theme2, group1, group2, layer1, layer2, layer3, anon, role1, desktop,
  u3, ref1, axis, f1, f2, f3, f4, server1, server2

-----------------------------------------------------------------------------
(* Accounts: two requests of an account with one second factor and a password that the user chooses.
   Oidc: one request at a time and two tabs of a browser. *)
FirstSubject == [username |-> n1, email |-> m1]

(* Two themes, one of which has both groups; layers of three types, two with the name of another item. *)
TwoThemes   == theme1 :> {group1} @@ theme2 :> {group1, group2} @@ group1 :> {layer1} @@ group2 :> {layer2, layer3}
Names       == theme1 :> "One" @@ theme2 :> "Two" @@ group1 :> "Group" @@ group2 :> "A"
                 @@ layer1 :> "Layer" @@ layer2 :> "B" @@ layer3 :> "A"
ThreeKinds  == layer1 :> "wms" @@ layer2 :> "vectortiles" @@ layer3 :> "wmts"
TwoOrders   == {[x \in Themes \cup Groups \cup TreeLayers |-> IF x = layer3 THEN n ELSE 1] : n \in {0, 2}}

TreeContents ==
  {[public     |-> [x \in Themes \cup TreeLayers |-> x \in public],
    restricted |-> theme1 :> restricted @@ theme2 :> {role1},
    areas      |-> layer1 :> area @@ layer2 :> {role1} @@ layer3 :> {anon},
    interfaces |-> [x \in Themes \cup TreeLayers |-> IF x \in off THEN {} ELSE {desktop}],
    faulty     |-> faulty] :
     public \in SUBSET (TreeLayers \cup {theme1}), restricted \in {{}, {anon}}, area \in {{anon}, {role1}},
     off \in {{}, {layer1}}, faulty \in {{}, {layer3}}}

(* Two requests, two references, two URLs and one that is short already. *)
ShortReference == u3 :> ref1

(* Layers without time, with lists of instants, with intervals in and out of phase, with a time that cannot be
   parsed, with several names, with a child without a name, ... *)
Values(values, min_def) ==
  [interval |-> None, values |-> values, start |-> 0, end |-> 0, min_def |-> min_def, max_def |-> None]
Every(start, end, min_def) ==
  [interval |-> 2, values |-> {}, start |-> start, end |-> end, min_def |-> min_def, max_def |-> min_def]

TimedLayer(extents, mode, widget, dimension, faulty) ==
  [extents |-> extents, mode |-> mode, widget |-> widget, dimensions |-> axis :> dimension, faulty |-> faulty,
   known |-> TRUE, nameless |-> FALSE]

TimedLayers ==
  {TimedLayer(<<>>, "disabled", "slider", "x", FALSE),
   [TimedLayer(<<>>, "value", "slider", "absent", FALSE) EXCEPT !.known = FALSE],
   [TimedLayer(<<>>, "value", "slider", "absent", FALSE) EXCEPT !.nameless = TRUE],
   TimedLayer(<<>>, "value", "slider", "absent", FALSE),
   TimedLayer(<<Values({1}, 1)>>, "value", "slider", None, FALSE),
   TimedLayer(<<Values({1}, 1)>>, "value", "slider", "x", TRUE),
   TimedLayer(<<Values({2, 3}, None), Values({4}, None)>>, "value", "slider", "y", FALSE),
   TimedLayer(<<Values({2}, None)>>, "range", "slider", "absent", FALSE),
   TimedLayer(<<Values({5}, 5), None>>, "value", "slider", "x", FALSE),
   TimedLayer(<<Values({5}, 5)>>, "value", "datepicker", "x", FALSE),
   TimedLayer(<<Every(3, 5, None)>>, "value", "slider", "y", FALSE),
   TimedLayer(<<Every(1, 3, 3), Every(5, 7, None)>>, "value", "slider", "absent", FALSE),
   TimedLayer(<<Every(4, 6, 4)>>, "value", "slider", "absent", FALSE)}

(* Trees of four layers, with names and without, one with a style that has the name of a layer; the structure
   that was asked for without roles is complete or empty.  Lists of feature types in a namespace. *)
Tree(parent, names, structure) ==
  [service |-> "wms", parent |-> parent, names |-> names,
   wms_structure |-> IF structure
                     THEN {<<names[q[1]][1], names[q[2]][1]>> : q \in
                             {p \in (1..4) \X (2..4) : /\ names[p[1]] # <<>> /\ names[p[2]] # <<>>
                                                      /\ p[1] \in {1, parent[p[2]], parent[parent[p[2]]]}
                                                      /\ p[1] < p[2]}}
                     ELSE {}]
Types(service) ==
  [service |-> service, parent |-> <<0, 0, 0>>, names |-> <<<<"ms:a">>, <<"b">>, <<"ms:c">>>>,
   wms_structure |-> {<<"root", "a">>, <<"root", "b">>}]

Named == <<<<"root">>, <<"a">>, <<"b">>, <<"c">>>>

Documents ==
  {Tree(parent, Named, structure) :
     parent \in {<<0, 1, 2, 3>>, <<0, 1, 2, 2>>, <<0, 1, 2, 1>>, <<0, 1, 1, 3>>, <<0, 1, 1, 1>>}, structure \in BOOLEAN}
  \cup {Tree(<<0, 1, 2, 3>>, [Named EXCEPT ![i] = <<>>], TRUE) : i \in {1, 2}}
  \cup {Tree(<<0, 1, 2, 2>>, [Named EXCEPT ![2] = text], TRUE) : text \in {<<>>, <<"a", "c">>}}
  \cup {Types(service) : service \in {"wfs", "wfst"}}

(* Every set of private layers; some of an user, and with a name in capitals, and of another server. *)
Rights(private, own, capitals, other) ==
  [server |-> server1, roles |-> {role1},
   rows |-> {[names  |-> {IF name = "root" /\ capitals THEN "ROOT" ELSE name},
              server |-> IF name = "c" THEN other ELSE server1,
              public |-> name \notin private,
              areas  |-> IF name \in own THEN {[roles |-> {role1}, readwrite |-> name # "a"]} ELSE {}] :
             name \in {"root", "a", "b", "c"}}]

DocumentNames == {"root", "a", "b", "c", "ROOT", "ms:a", "ms:c", "piece"}

AllRights ==
  UNION {{Rights(private, {}, FALSE, server1), Rights(private, {"a", "b", "c"}, TRUE, server2),
          Rights(private, {"c"}, TRUE, server1)} : private \in SUBSET {"root", "a", "b", "c"}}
Urls       == server1 :> "url" @@ server2 :> "url"
LowerNames == [x \in DocumentNames |-> IF x = "ROOT" THEN "root" ELSE x]
LocalNames == [x \in DocumentNames |->
                 CASE x = "ROOT" -> "root" [] x = "ms:a" -> "a" [] x = "ms:c" -> "c" [] OTHER -> x]

(* A file that is the owner's, a new one that a pattern leaves to the owner, one that is moved, and its new
   place, which is in the template. *)
OneMove == {<<f3, f4>>}

-----------------------------------------------------------------------------
(* What is said of undisturbed accounts, of browsers whose answers reached them and of fresh rows; the
   browser of an expired account and the rows of a setup that creates none do not matter together. *)
Bound == /\ part = "account" => ~disturbed /\ ~(expired /\ loggedIn)
         /\ part = "oidc" => ~overlapped /\ (setup.create_user \/ rows[n2] = None)
         /\ part = "search" => fresh \/ tsearch = {}
         /\ part = "short" => Cardinality(answered) + Cardinality(sent) <= 3

ThreadSymmetry == Permutations({t1, t2})
===============================================================================
