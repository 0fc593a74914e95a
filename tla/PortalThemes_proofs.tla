-------------------------- MODULE PortalThemes_proofs --------------------------
(***************************************************************************)
(* What is proved of the parts of Portal that answer with what a user may see: *)
(* the times of a block, the search beside the themes and the capabilities     *)
(* that the proxies filter; and the types of all parts.                        *)
(***************************************************************************)
EXTENDS Portal_proofs, Raster_proofs, Sequences, FiniteSetTheorems, WellFoundedInduction, TLAPS

(* The times and the dimensions of a block. *)

Modes   == {"value", "range"}
Widgets == {"slider", "datepicker"}
Shown   == [extent : {None} \cup Block!Extent, mode : {None} \cup Modes, widget : {None} \cup Widgets]

BlockTypes ==
  /\ layers \in Seq(Input) /\ at \in 1..(Len(layers) + 1) /\ block_part \in Nat
  /\ refused \in SUBSET (1..Len(layers)) /\ failed \in BOOLEAN
  /\ time \in [layer : 0..Len(layers), extent : {None} \cup Block!Extent,
               mode : {None} \cup Modes, widget : {None} \cup Widgets]
  /\ node \in [1..Len(layers) -> Shown]

(* An extent has the interval of an extent of a layer with time, and starts where that one does. *)
StartsAs(e, l, i) ==
  /\ Block!HasTime(layers[l]) /\ layers[l].extents[i] # None
  /\ layers[l].extents[i].interval = e.interval /\ layers[l].extents[i].start = e.start

Started(e) == \E l \in DOMAIN layers : \E i \in DOMAIN layers[l].extents : StartsAs(e, l, i)

(* The time has a mode and a widget, and starts as an extent of a layer. *)
TimeInv ==
  /\ time.extent = None => time.layer = 0 /\ time.mode = None /\ time.widget = None
  /\ time.extent # None => time.mode # None /\ time.widget # None /\ Started(time.extent)

(* What was merged of a layer that was not refused. *)
Merged(l, i) ==
  /\ l \in DOMAIN layers \ refused /\ i \in DOMAIN layers[l].extents /\ Block!HasTime(layers[l])
  /\ l < at \/ (l = at /\ i < block_part)

Within(e, f) ==
  e.interval = f.interval /\ e.values \subseteq f.values /\ f.start <= e.start /\ e.end <= f.end

Has(shown, l, i) ==
  /\ shown.mode = layers[l].mode /\ shown.widget = layers[l].widget
  /\ layers[l].extents[i] # None /\ Within(layers[l].extents[i], shown.extent)

(* The time has all that was merged, and the layer that shows it is the only one that had time. *)
MergedInv ==
  \A l \in DOMAIN layers : \A i \in DOMAIN layers[l].extents : Merged(l, i) =>
    /\ time.extent # None /\ Has(time, l, i)
    /\ time.layer # 0 => l = time.layer /\ Has(node[l], l, i)

NodeInv ==
  \A l \in DOMAIN layers : /\ l # time.layer => node[l] = Block!NoTime
                           /\ l = time.layer => node[l].extent # None /\ Started(node[l].extent)

DoneInv == \A l \in DOMAIN layers \ refused : l < at /\ Block!HasTime(layers[l]) => layers[l].extents # <<>>

DimensionsInv ==
  \A l \in DOMAIN layers \ refused : (l < at \/ (l = at /\ block_part > 0)) =>
    \A d \in Dimensions : layers[l].dimensions[d] \notin {Block!Absent, None} => dimensions[d] = layers[l].dimensions[d]

BlockInv == BlockTypes /\ TimeInv /\ MergedInv /\ NodeInv /\ DoneInv /\ DimensionsInv /\ Block!FailsOnlyForMix

-----------------------------------------------------------------------------
(* What the assumption says of a layer. *)
LEMMA InputIs ==
  ASSUME NEW l \in Input
  PROVE  /\ l.extents \in Seq({None} \cup Block!Extent)
         /\ l.mode \in {"disabled"} \cup Modes /\ l.widget \in Widgets
  BY PortalAssumption DEF Block!BlockMergeAssumption, Modes, Widgets

LEMMA NoneIsNoTime == None \notin Modes /\ None \notin Widgets /\ None \notin Block!Extent
  BY PortalAssumption DEF Block!BlockMergeAssumption, Modes, Widgets

LEMMA BestOfTwo ==
  ASSUME NEW a \in Nat, NEW b \in Nat
  PROVE  /\ Block!Lowest({a, b}) \in {a, b} /\ Block!Lowest({a, b}) <= a /\ Block!Lowest({a, b}) <= b
         /\ Block!Highest({a, b}) \in {a, b} /\ Block!Highest({a, b}) >= a /\ Block!Highest({a, b}) >= b
  <1>1. \E x \in {a, b} : \A y \in {a, b} : x <= y
    OBVIOUS
  <1>2. \E x \in {a, b} : \A y \in {a, b} : x >= y
    OBVIOUS
  <1>3. Block!Lowest({a, b}) \in {a, b} /\ \A y \in {a, b} : Block!Lowest({a, b}) <= y
    BY <1>1 DEF Block!Lowest
  <1>4. Block!Highest({a, b}) \in {a, b} /\ \A y \in {a, b} : Block!Highest({a, b}) >= y
    BY <1>2 DEF Block!Highest
  <1> QED
    BY <1>3, <1>4

(* Two extents of one interval are joined in a range that has both, and starts with one of them. *)
LEMMA JoinedIs ==
  ASSUME NEW e \in Block!Extent, NEW f \in Block!Extent, e.interval = f.interval
  PROVE  /\ Block!Joined(e, f) \in Block!Extent /\ Within(e, Block!Joined(e, f)) /\ Within(f, Block!Joined(e, f))
         /\ Block!Joined(e, f).start \in {e.start, f.start}
  <1> DEFINE start == Block!Lowest({e.start, f.start})
             end == Block!Highest({e.end, f.end})
             min_def == Block!MinNone(e.min_def, f.min_def)
             max_def == Block!MaxNone(e.max_def, f.max_def)
  <1>1. Block!Joined(e, f) = [interval |-> e.interval, values |-> e.values \cup f.values, start |-> start, end |-> end,
                              min_def |-> min_def, max_def |-> max_def]
    BY DEF Block!Joined
  <1>2. min_def \in Nat \cup {None} /\ max_def \in Nat \cup {None}
    BY BestOfTwo DEF Block!Extent, Block!MinNone, Block!MaxNone
  <1>3. /\ e.start \in Nat /\ f.start \in Nat /\ e.end \in Nat /\ f.end \in Nat
        /\ e.values \subseteq Nat /\ f.values \subseteq Nat /\ e.interval \in {None} \cup (Nat \ {0})
    BY DEF Block!Extent
  <1>4. start \in {e.start, f.start} /\ start <= e.start /\ start <= f.start
    BY <1>3, BestOfTwo
  <1>5. end \in {e.end, f.end} /\ e.end <= end /\ f.end <= end
    BY <1>3, BestOfTwo
  <1> HIDE DEF min_def, max_def, start, end
  <1>6. Block!Joined(e, f) \in Block!Extent
    BY <1>1, <1>2, <1>3, <1>4, <1>5 DEF Block!Extent
  <1> QED
    BY <1>1, <1>4, <1>5, <1>6 DEF Within

LEMMA WithinIsTransitive ==
  ASSUME NEW e \in Block!Extent, NEW f \in Block!Extent, NEW g \in Block!Extent, Within(e, f), Within(f, g)
  PROVE  Within(e, g)
  BY DEF Within, Block!Extent

(* A range that has another one has its instants too, if it starts as one in phase with it does. *)
LEMMA InstantsAreKept ==
  ASSUME NEW e \in Block!Extent, NEW f \in Block!Extent, NEW g \in Block!Extent, Within(e, g),
         f.interval = g.interval, f.start = g.start, f.interval # None => Block!InPhase(e, f)
  PROVE  Block!Instants(e) \subseteq Block!Instants(g)
  <1>1. CASE e.interval = None
    BY <1>1 DEF Within, Block!Instants
  <1>2. CASE e.interval # None
    <2> DEFINE d == e.interval
    <2>1. /\ d \in Nat \ {0} /\ g.interval = d /\ f.interval = d /\ g.start \in Nat /\ e.start \in Nat
          /\ g.start <= e.start /\ e.end <= g.end /\ e.end \in Nat /\ g.end \in Nat
      BY <1>2 DEF Within, Block!Extent
    <2>2. PICK n \in Nat : e.start = g.start + n * d
      <3>1. CASE Block!OnGrid(e.start, f)
        BY <2>1, <3>1 DEF Block!OnGrid
      <3>2. CASE Block!OnGrid(f.start, e)
        <4>1. 0..(f.start - e.start) # {}
          BY <3>2 DEF Block!OnGrid
        <4>2. e.start = g.start
          BY <2>1, <4>1
        <4>3. 0 * d = 0
          BY <2>1
        <4> QED
          BY <2>1, <4>2, <4>3
      <3> QED
        BY <1>2, <2>1, <3>1, <3>2 DEF Block!InPhase
    <2> SUFFICES ASSUME NEW x \in e.start..e.end, Block!OnGrid(x, e)
                 PROVE  x \in g.start..g.end /\ Block!OnGrid(x, g)
      BY <1>2, <2>1 DEF Block!Instants
    <2>3. PICK m \in Nat : x = e.start + m * d
      BY <2>1 DEF Block!OnGrid
    <2>4. x \in g.start..g.end /\ x \in Nat
      BY <2>1
    <2> HIDE DEF d
    <2>5. (n + m) * d = n * d + m * d
      BY <2>1
    <2>6. x = g.start + (n + m) * d
      <3>1. n * d \in Nat /\ m * d \in Nat
        BY <2>1
      <3> QED
        BY <2>1, <2>2, <2>3, <2>5, <3>1
    <2>7. \A k \in Nat : k <= k * d
      BY <2>1
    <2>8. n + m \in 0..(x - g.start)
      <3>1. n + m \in Nat /\ (n + m) * d \in Nat /\ n + m <= (n + m) * d
        BY <2>1, <2>7
      <3> QED
        BY <2>1, <2>4, <2>6, <3>1
    <2>9. Block!OnGrid(x, g)
      BY <2>1, <2>6, <2>8 DEF Block!OnGrid, d
    <2> QED
      BY <2>4, <2>9
  <1> QED
    BY <1>1, <1>2

(* The layer that is exported, and what becomes of the time. *)
LEMMA CurrentIs ==
  ASSUME BlockInv, at <= Len(layers)
  PROVE  /\ Len(layers) \in Nat /\ DOMAIN layers = 1..Len(layers) /\ at \in 1..Len(layers) /\ at \in Nat
         /\ at \in DOMAIN layers /\ Block!Current = layers[at] /\ layers[at] \in Input
         /\ layers[at].extents \in Seq({None} \cup Block!Extent)
         /\ layers[at].mode \in {"disabled"} \cup Modes /\ layers[at].widget \in Widgets
  <1>1. Len(layers) \in Nat /\ DOMAIN layers = 1..Len(layers)
    BY DEF BlockInv, BlockTypes
  <1>2. at \in 1..Len(layers) /\ at \in Nat
    BY <1>1 DEF BlockInv, BlockTypes
  <1>3. layers[at] \in Input
    BY <1>1, <1>2 DEF BlockInv, BlockTypes
  <1> QED
    BY <1>1, <1>2, <1>3, InputIs DEF Block!Current

LEMMA ExtendedIs ==
  ASSUME BlockInv, Block!Merging, Block!Parsed, ~Block!Mixes
  PROVE  /\ Block!Extended \in Block!Extent /\ Block!Extended # None /\ Started(Block!Extended)
         /\ layers[at].extents[block_part] \in Block!Extent /\ layers[at].extents[block_part] # None
         /\ Within(layers[at].extents[block_part], Block!Extended)
         /\ time.extent # None => time.extent \in Block!Extent /\ Within(time.extent, Block!Extended)
  <1> DEFINE new == layers[at].extents[block_part]
  <1>1. /\ Block!Current = layers[at] /\ block_part \in DOMAIN layers[at].extents /\ at \in DOMAIN layers
        /\ new \in Block!Extent /\ new # None /\ Block!HasTime(layers[at])
    BY CurrentIs DEF Block!Merging, Block!Exporting, Block!Parsed, Block!Timed
  <1>2. StartsAs(new, at, block_part)
    BY <1>1 DEF StartsAs
  <1>3. CASE time.extent = None
    <2>1. Block!Extended = new
      BY <1>1, <1>3 DEF Block!Extended
    <2>2. Within(new, new)
      BY <1>1 DEF Within, Block!Extent
    <2> QED
      BY <1>1, <1>2, <1>3, <2>1, <2>2 DEF Started
  <1>4. CASE time.extent # None
    <2>1. /\ time.extent \in Block!Extent /\ time.extent.interval = new.interval /\ Started(time.extent)
      BY <1>1, <1>4 DEF BlockInv, BlockTypes, TimeInv, Block!Mixes
    <2>2. Block!Extended = Block!Joined(time.extent, new)
      BY <1>1, <1>4 DEF Block!Extended
    <2> HIDE DEF new
    <2>3. /\ Block!Extended \in Block!Extent /\ Within(time.extent, Block!Extended) /\ Within(new, Block!Extended)
          /\ Block!Extended.start \in {time.extent.start, new.start}
      BY <1>1, <2>1, <2>2, JoinedIs
    <2>4. Started(Block!Extended)
      <3>1. CASE Block!Extended.start = new.start
        <4>1. StartsAs(Block!Extended, at, block_part)
          BY <1>2, <2>3, <3>1 DEF StartsAs, Within
        <4> QED
          BY <1>1, <4>1 DEF Started
      <3>2. CASE Block!Extended.start = time.extent.start
        BY <2>1, <2>3, <3>2 DEF Started, StartsAs, Within
      <3> QED
        BY <2>3, <3>1, <3>2
    <2>5. Block!Extended # None
      BY <2>3, NoneIsNoTime
    <2> QED
      BY <1>1, <2>1, <2>3, <2>4, <2>5 DEF new
  <1> QED
    BY <1>3, <1>4

(* The dimensions of a layer are kept, or it is refused. *)
LEMMA MergeDimensionsKeeps == ASSUME BlockInv, Block!MergeDimensions PROVE BlockInv'
  <1>1. /\ at <= Len(layers) /\ block_part = 0 /\ block_part' = 1
        /\ dimensions' = [name \in Dimensions |-> Block!Kept(name)]
        /\ UNCHANGED <<layers, at, time, node, failed>>
    BY DEF Block!MergeDimensions
  <1>2. at \in DOMAIN layers /\ Block!Current = layers[at] /\ at \in 1..Len(layers) /\ at \in Nat
        /\ DOMAIN layers = 1..Len(layers)
    BY <1>1, CurrentIs
  <1>3. refused \subseteq refused' /\ refused' \in SUBSET (1..Len(layers))
        /\ (at \notin refused' => ~ \E name \in Dimensions : Block!Wrong(name))
    <2>1. CASE ~ \E name \in Dimensions : Block!Wrong(name)
      BY <1>2, <2>1 DEF BlockInv, BlockTypes, Block!MergeDimensions, Block!Refuse
    <2>2. CASE \E name \in Dimensions : Block!Wrong(name)
      <3>1. refused' = refused \cup {at}
        BY <2>2 DEF Block!MergeDimensions, Block!Refuse
      <3> QED
        BY <1>2, <3>1 DEF BlockInv, BlockTypes
    <2> QED
      BY <2>1, <2>2
  <1>4. BlockTypes' /\ TimeInv' /\ NodeInv'
    BY <1>1, <1>3 DEF BlockInv, BlockTypes, TimeInv, NodeInv, Started, StartsAs
  <1>5. MergedInv'
    <2> SUFFICES ASSUME NEW l \in DOMAIN layers, NEW i \in DOMAIN layers[l].extents, Merged(l, i)'
                 PROVE  Merged(l, i)
      BY <1>1 DEF BlockInv, MergedInv, Has
    <2>1. layers[l].extents \in Seq({None} \cup Block!Extent)
      BY InputIs DEF BlockInv, BlockTypes
    <2>2. i \in Nat /\ i > 0 /\ l \in Nat
      BY <1>2, <2>1
    <2>3. /\ l \in DOMAIN layers \ refused' /\ Block!HasTime(layers[l])
          /\ l < at \/ (l = at /\ i < 1)
      BY <1>1 DEF Merged
    <2> QED
      BY <1>3, <2>2, <2>3 DEF Merged
  <1>6. DoneInv'
    BY <1>1, <1>3 DEF BlockInv, DoneInv
  <1>7. DimensionsInv'
    <2> SUFFICES ASSUME NEW l \in DOMAIN layers \ refused', l <= at, NEW d \in Dimensions,
                        layers[l].dimensions[d] \notin {Block!Absent, None}
                 PROVE  dimensions'[d] = layers[l].dimensions[d]
      BY <1>1, <1>2 DEF BlockInv, BlockTypes, DimensionsInv
    <2>1. dimensions'[d] = Block!Kept(d)
      BY <1>1
    <2>2. CASE l = at
      BY <1>2, <1>3, <2>1, <2>2 DEF Block!Kept, Block!Wrong
    <2>3. CASE l < at
      <3>1. dimensions[d] = layers[l].dimensions[d]
        BY <1>3, <2>3 DEF BlockInv, DimensionsInv
      <3> QED
        BY <2>1, <3>1 DEF Block!Kept
    <2> QED
      BY <1>2, <2>2, <2>3 DEF BlockInv, BlockTypes
  <1>8. Block!FailsOnlyForMix'
    BY <1>1 DEF BlockInv, Block!FailsOnlyForMix
  <1> QED
    BY <1>4, <1>5, <1>6, <1>7, <1>8 DEF BlockInv

(* What one more extent changes of what was merged. *)
LEMMA OneMore ==
  ASSUME BlockInv, Block!Merging, Block!Parsed, UNCHANGED <<layers, at, refused>>, block_part' = block_part + 1,
         NEW l \in DOMAIN layers, NEW i \in DOMAIN layers[l].extents, Merged(l, i)'
  PROVE  Merged(l, i) \/ (l = at /\ i = block_part)
  <1>1. layers[l].extents \in Seq({None} \cup Block!Extent)
    BY InputIs DEF BlockInv, BlockTypes
  <1> QED
    BY <1>1 DEF Merged, BlockInv, BlockTypes

LEMMA HadIsKept ==
  ASSUME BlockInv, time.extent # None, NEW e \in Block!Extent, Within(time.extent, e),
         NEW l \in DOMAIN layers, NEW i \in DOMAIN layers[l].extents, Has(time, l, i)
  PROVE  layers[l].extents[i] # None /\ Within(layers[l].extents[i], e)
  <1>1. layers[l].extents \in Seq({None} \cup Block!Extent) /\ layers[l].extents[i] # None
    BY InputIs DEF BlockInv, BlockTypes, Has
  <1>2. layers[l].extents[i] \in Block!Extent /\ time.extent \in Block!Extent
    BY <1>1 DEF BlockInv, BlockTypes
  <1> QED
    BY <1>1, <1>2, WithinIsTransitive DEF Has

(* What no extent of a layer that stays changes. *)
LEMMA RestKeeps ==
  ASSUME BlockInv, Block!Merging, UNCHANGED <<layers, at, dimensions, refused, failed>>, block_part' = block_part + 1
  PROVE  DoneInv' /\ DimensionsInv' /\ Block!FailsOnlyForMix'
  <1>1. block_part > 0 /\ block_part \in Nat
    BY DEF BlockInv, BlockTypes, Block!Merging, Block!Exporting
  <1>2. DoneInv'
    BY DEF BlockInv, DoneInv, Block!HasTime
  <1>3. DimensionsInv'
    BY <1>1 DEF BlockInv, DimensionsInv
  <1>4. Block!FailsOnlyForMix'
    BY DEF Block!Merging, Block!Exporting, Block!FailsOnlyForMix
  <1> QED
    BY <1>2, <1>3, <1>4

(* The first layer with time shows it. *)
LEMMA ShowOnLayerKeeps == ASSUME BlockInv, Block!ShowOnLayer PROVE BlockInv'
  <1> DEFINE shown == [extent |-> Block!Extended, mode |-> layers[at].mode, widget |-> layers[at].widget]
  <1>1. /\ Block!Merging /\ Block!Parsed /\ ~Block!Mixes /\ ~Block!Disagrees
        /\ time.layer = at \/ time.extent = None
        /\ block_part' = block_part + 1
        /\ UNCHANGED <<layers, at, dimensions, refused, failed>>
    BY DEF Block!ShowOnLayer
  <1>2. /\ at \in DOMAIN layers /\ Block!Current = layers[at] /\ layers[at].mode \in Modes /\ layers[at].widget \in Widgets
        /\ block_part \in DOMAIN layers[at].extents /\ at \in 1..Len(layers)
        /\ Len(layers) \in Nat /\ DOMAIN layers = 1..Len(layers) /\ at \in Nat
    <2>1. at <= Len(layers)
      BY <1>1 DEF Block!Merging, Block!Exporting
    <2>2. Block!HasTime(Block!Current) /\ block_part \in DOMAIN Block!Current.extents
      BY <1>1 DEF Block!Parsed, Block!Timed
    <2>3. layers[at].mode # "disabled"
      BY <2>1, <2>2, CurrentIs DEF Block!HasTime
    <2> QED
      BY <2>1, <2>2, <2>3, CurrentIs
  <1>3. /\ time' = [layer |-> at, extent |-> Block!Extended, mode |-> layers[at].mode, widget |-> layers[at].widget]
        /\ node' = [node EXCEPT ![at] = shown]
    BY <1>2 DEF Block!ShowOnLayer
  <1>4. /\ Block!Extended \in Block!Extent /\ Block!Extended # None /\ Started(Block!Extended)
        /\ layers[at].extents[block_part] # None /\ Within(layers[at].extents[block_part], Block!Extended)
        /\ time.extent # None => time.extent \in Block!Extent /\ Within(time.extent, Block!Extended)
    BY <1>1, ExtendedIs
  <1>5. shown \in Shown /\ shown.extent = Block!Extended /\ shown.mode = layers[at].mode /\ shown.widget = layers[at].widget
    BY <1>2, <1>4 DEF Shown
  <1>6. /\ time' \in [layer : 0..Len(layers), extent : {None} \cup Block!Extent,
                      mode : {None} \cup Modes, widget : {None} \cup Widgets]
        /\ time'.layer = at /\ time'.extent = Block!Extended /\ time'.mode = layers[at].mode
        /\ time'.widget = layers[at].widget
    BY <1>2, <1>3, <1>4
  <1> HIDE DEF shown
  <1>7. BlockTypes'
    BY <1>1, <1>3, <1>5, <1>6 DEF BlockInv, BlockTypes
  <1>8. TimeInv'
    BY <1>1, <1>2, <1>4, <1>6, NoneIsNoTime DEF TimeInv, Started, StartsAs
  <1>9. \A l \in DOMAIN layers : node'[l] = IF l = at THEN shown ELSE node[l]
    BY <1>3 DEF BlockInv, BlockTypes
  <1>10. MergedInv'
    <2> SUFFICES ASSUME NEW l \in DOMAIN layers, NEW i \in DOMAIN layers[l].extents, Merged(l, i)'
                 PROVE  /\ time'.extent # None /\ Has(time, l, i)'
                        /\ l = time'.layer /\ Has(node[l], l, i)'
      BY <1>1 DEF MergedInv
    <2>1. Merged(l, i) \/ (l = at /\ i = block_part)
      BY <1>1, OneMore
    <2>2. l = at /\ layers[l].extents[i] # None /\ Within(layers[l].extents[i], Block!Extended)
      <3>1. CASE Merged(l, i)
        <4>1. time.extent # None /\ Has(time, l, i) /\ (time.layer # 0 => l = time.layer)
          BY <3>1 DEF BlockInv, MergedInv
        <4>2. time.layer = at /\ l = at
          BY <1>1, <1>2, <4>1 DEF BlockInv, BlockTypes
        <4> QED
          BY <1>4, <4>1, <4>2, HadIsKept
      <3>2. CASE l = at /\ i = block_part
        BY <1>4, <3>2
      <3> QED
        BY <2>1, <3>1, <3>2
    <2> QED
      BY <1>1, <1>4, <1>5, <1>6, <1>9, <2>2 DEF Has
  <1>11. NodeInv'
    <2> SUFFICES ASSUME NEW l \in DOMAIN layers
                 PROVE  /\ l # at => node'[l] = Block!NoTime
                        /\ l = at => node'[l].extent # None /\ Started(node'[l].extent)
      BY <1>1, <1>6 DEF NodeInv, Started, StartsAs
    <2>1. l # at => l # time.layer
      BY <1>1 DEF BlockInv, BlockTypes, TimeInv
    <2> QED
      BY <1>4, <1>5, <1>9, <2>1 DEF BlockInv, NodeInv
  <1> QED
    BY <1>1, <1>7, <1>8, <1>10, <1>11, RestKeeps DEF BlockInv

(* The second one hides it, and the block shows it. *)
LEMMA ShowOnBlockKeeps == ASSUME BlockInv, Block!ShowOnBlock PROVE BlockInv'
  <1>1. /\ Block!Merging /\ Block!Parsed /\ ~Block!Mixes /\ ~Block!Disagrees
        /\ time.layer # at /\ time.extent # None
        /\ time' = [time EXCEPT !.layer = 0, !.extent = Block!Extended] /\ node' = Block!Hidden
        /\ block_part' = block_part + 1
        /\ UNCHANGED <<layers, at, dimensions, refused, failed>>
    BY DEF Block!ShowOnBlock
  <1>2. /\ at \in DOMAIN layers /\ Block!Current = layers[at]
        /\ block_part \in DOMAIN layers[at].extents /\ at \in 1..Len(layers)
        /\ Len(layers) \in Nat /\ DOMAIN layers = 1..Len(layers) /\ at \in Nat
    <2>1. at <= Len(layers)
      BY <1>1 DEF Block!Merging, Block!Exporting
    <2>2. Block!HasTime(Block!Current) /\ block_part \in DOMAIN Block!Current.extents
      BY <1>1 DEF Block!Parsed, Block!Timed
    <2>3. layers[at].mode # "disabled"
      BY <2>1, <2>2, CurrentIs DEF Block!HasTime
    <2> QED
      BY <2>1, <2>2, <2>3, CurrentIs
  <1>3. /\ Block!Extended \in Block!Extent /\ Block!Extended # None /\ Started(Block!Extended)
        /\ layers[at].extents[block_part] # None /\ Within(layers[at].extents[block_part], Block!Extended)
        /\ Within(time.extent, Block!Extended)
    BY <1>1, ExtendedIs
  <1>4. time.mode = layers[at].mode /\ time.widget = layers[at].widget
    BY <1>1, <1>2 DEF Block!Disagrees, BlockInv, TimeInv
  <1>5. /\ time' \in [layer : 0..Len(layers), extent : {None} \cup Block!Extent,
                      mode : {None} \cup Modes, widget : {None} \cup Widgets]
        /\ time'.layer = 0 /\ time'.extent = Block!Extended /\ time'.mode = time.mode /\ time'.widget = time.widget
    <2>1. 0 \in 0..Len(layers)
      BY <1>2
    <2> QED
      BY <1>1, <1>3, <2>1 DEF BlockInv, BlockTypes
  <1>6. node' \in [1..Len(layers) -> Shown] /\ \A l \in DOMAIN layers : node'[l] = Block!NoTime
    <2>1. Block!NoTime \in Shown
      BY DEF Block!NoTime, Shown
    <2>2. CASE time.layer = 0
      BY <1>1, <2>2 DEF BlockInv, BlockTypes, NodeInv, Block!Hidden
    <2>3. CASE time.layer # 0
      <3>1. node' = [node EXCEPT ![time.layer] = Block!NoTime]
        BY <1>1, <2>3 DEF Block!Hidden
      <3>2. \A l \in 1..Len(layers) : node'[l] = IF l = time.layer THEN Block!NoTime ELSE node[l]
        BY <3>1 DEF BlockInv, BlockTypes
      <3>3. node' \in [1..Len(layers) -> Shown]
        BY <2>1, <3>1 DEF BlockInv, BlockTypes
      <3> QED
        BY <1>2, <3>2, <3>3 DEF BlockInv, NodeInv
    <2> QED
      BY <2>2, <2>3
  <1>7. BlockTypes'
    BY <1>1, <1>5, <1>6 DEF BlockInv, BlockTypes
  <1>8. TimeInv'
    BY <1>1, <1>2, <1>3, <1>5 DEF BlockInv, TimeInv, Started, StartsAs
  <1>9. MergedInv'
    <2> SUFFICES ASSUME NEW l \in DOMAIN layers, NEW i \in DOMAIN layers[l].extents, Merged(l, i)'
                 PROVE  time'.extent # None /\ Has(time, l, i)'
      BY <1>1, <1>5 DEF MergedInv
    <2>1. Merged(l, i) \/ (l = at /\ i = block_part)
      BY <1>1, OneMore
    <2>2. CASE Merged(l, i)
      <3>1. Has(time, l, i)
        BY <2>2 DEF BlockInv, MergedInv
      <3>2. layers[l].extents[i] # None /\ Within(layers[l].extents[i], Block!Extended)
        BY <1>1, <1>3, <3>1, HadIsKept
      <3> QED
        BY <1>1, <1>3, <1>5, <3>1, <3>2 DEF Has
    <2>3. CASE l = at /\ i = block_part
      BY <1>1, <1>3, <1>4, <1>5, <2>3 DEF Has
    <2> QED
      BY <2>1, <2>2, <2>3
  <1>10. NodeInv'
    BY <1>1, <1>5, <1>6 DEF NodeInv, BlockInv, BlockTypes
  <1> QED
    BY <1>1, <1>7, <1>8, <1>9, <1>10, RestKeeps DEF BlockInv

(* What was merged does not grow when a layer is refused. *)
LEMMA RefusedIsNotMerged ==
  ASSUME BlockInv, Block!Merging, Block!Refuse, Block!NextLayer, UNCHANGED layers,
         NEW l \in DOMAIN layers, NEW i \in DOMAIN layers[l].extents, Merged(l, i)'
  PROVE  Merged(l, i)
  <1>1. layers[l].extents \in Seq({None} \cup Block!Extent)
    BY InputIs DEF BlockInv, BlockTypes
  <1> QED
    BY <1>1 DEF Merged, BlockInv, BlockTypes, Block!Refuse, Block!NextLayer, Block!Merging

(* A time that is refused after it was merged is not shown on its layer, but has been merged. *)
LEMMA RefuseTimeKeeps == ASSUME BlockInv, Block!RefuseTime PROVE BlockInv'
  <1>1. /\ Block!Merging /\ Block!Timed /\ (Block!Parsed => ~Block!Mixes /\ Block!Disagrees)
        /\ Block!Refuse /\ Block!NextLayer /\ UNCHANGED <<layers, node, dimensions, failed>>
    BY DEF Block!RefuseTime
  <1>2. /\ at \in DOMAIN layers /\ Block!Current = layers[at]
        /\ block_part \in DOMAIN layers[at].extents /\ at \in 1..Len(layers)
        /\ Len(layers) \in Nat /\ DOMAIN layers = 1..Len(layers) /\ at \in Nat
    BY <1>1, CurrentIs DEF Block!Merging, Block!Exporting, Block!Timed, BlockInv, BlockTypes
  <1>3. refused' = refused \cup {at} /\ refused' \in SUBSET (1..Len(layers))
        /\ at' = at + 1 /\ block_part' = 0 /\ at' \in 1..(Len(layers) + 1)
    <2>1. refused' = refused \cup {at} /\ at' = at + 1 /\ block_part' = 0
      BY <1>1 DEF Block!Refuse, Block!NextLayer
    <2>2. refused' \in SUBSET (1..Len(layers))
      BY <1>2, <2>1 DEF BlockInv, BlockTypes
    <2>3. at + 1 \in 1..(Len(layers) + 1)
      BY <1>2
    <2> QED
      BY <2>1, <2>2, <2>3
  <1>4. /\ time' \in [layer : 0..Len(layers), extent : {None} \cup Block!Extent,
                      mode : {None} \cup Modes, widget : {None} \cup Widgets]
        /\ time'.layer = time.layer /\ time'.mode = time.mode /\ time'.widget = time.widget
        /\ time.extent = None => time'.extent = None
        /\ time.extent # None =>
             /\ time'.extent \in Block!Extent /\ time'.extent # None /\ Started(time'.extent)
             /\ Within(time.extent, time'.extent)
    <2>1. CASE ~Block!Parsed
      <3>1. time' = time
        BY <2>1 DEF Block!RefuseTime
      <3>2. time.extent # None => time.extent \in Block!Extent /\ Within(time.extent, time.extent)
        BY DEF BlockInv, BlockTypes, Within, Block!Extent
      <3> QED
        BY <3>1, <3>2 DEF BlockInv, BlockTypes, TimeInv
    <2>2. CASE Block!Parsed
      <3>1. ~Block!Mixes /\ Block!Disagrees
        BY <1>1, <2>2
      <3>2. time.extent # None
        BY <3>1 DEF Block!Disagrees, BlockInv, TimeInv
      <3>3. /\ Block!Extended \in Block!Extent /\ Block!Extended # None /\ Started(Block!Extended)
            /\ Within(time.extent, Block!Extended)
        BY <1>1, <2>2, <3>1, <3>2, ExtendedIs
      <3>4. time' = [time EXCEPT !.extent = Block!Extended]
        BY <2>2 DEF Block!RefuseTime
      <3>5. /\ time' \in [layer : 0..Len(layers), extent : {None} \cup Block!Extent,
                          mode : {None} \cup Modes, widget : {None} \cup Widgets]
            /\ time'.layer = time.layer /\ time'.mode = time.mode /\ time'.widget = time.widget
            /\ time'.extent = Block!Extended
        BY <3>3, <3>4 DEF BlockInv, BlockTypes
      <3> QED
        BY <3>2, <3>3, <3>5
    <2> QED
      BY <2>1, <2>2
  <1>5. BlockTypes'
    BY <1>1, <1>3, <1>4 DEF BlockInv, BlockTypes
  <1>6. TimeInv'
    BY <1>1, <1>4 DEF BlockInv, TimeInv, Started, StartsAs
  <1>7. MergedInv'
    <2> SUFFICES ASSUME NEW l \in DOMAIN layers, NEW i \in DOMAIN layers[l].extents, Merged(l, i)'
                 PROVE  /\ time'.extent # None /\ Has(time', l, i)
                        /\ time'.layer # 0 => l = time'.layer /\ Has(node[l], l, i)
      BY <1>1 DEF MergedInv, Has
    <2>1. Merged(l, i)
      BY <1>1, RefusedIsNotMerged
    <2>2. /\ time.extent # None /\ Has(time, l, i)
          /\ time.layer # 0 => l = time.layer /\ Has(node[l], l, i)
      BY <2>1 DEF BlockInv, MergedInv
    <2>3. layers[l].extents[i] # None /\ Within(layers[l].extents[i], time'.extent)
      BY <1>4, <2>2, HadIsKept
    <2>4. Has(time', l, i)
      BY <1>4, <2>2, <2>3 DEF Has
    <2>5. time'.extent # None
      BY <1>4, <2>2
    <2>6. time'.layer = time.layer
      BY <1>4
    <2> QED
      BY <2>2, <2>4, <2>5, <2>6
  <1>8. NodeInv'
    BY <1>1, <1>4 DEF BlockInv, NodeInv, Started, StartsAs
  <1>9. DoneInv' /\ DimensionsInv'
    BY <1>1, <1>2, <1>3 DEF BlockInv, BlockTypes, DoneInv, DimensionsInv, Block!Merging, Block!Exporting
  <1>10. Block!FailsOnlyForMix'
    BY <1>1 DEF BlockInv, Block!FailsOnlyForMix
  <1> QED
    BY <1>5, <1>6, <1>7, <1>8, <1>9, <1>10 DEF BlockInv

LEMMA FailKeeps == ASSUME BlockInv, Block!Fail PROVE BlockInv'
  <1>1. /\ Block!Exporting /\ (Block!Current.nameless \/ (Block!Parsed /\ Block!Mixes)) /\ failed' = TRUE
        /\ UNCHANGED <<layers, at, block_part, time, node, dimensions, refused>>
    BY DEF Block!Fail
  <1>2. at \in DOMAIN layers /\ Block!Current = layers[at]
    BY <1>1, CurrentIs DEF Block!Exporting
  <1>3. Block!FailsOnlyForMix'
    <2>1. CASE Block!Current.nameless
      BY <1>1, <1>2, <2>1 DEF Block!FailsOnlyForMix
    <2>2. CASE Block!Parsed /\ Block!Mixes
      <3>1. /\ block_part \in DOMAIN layers[at].extents /\ Block!HasTime(layers[at])
            /\ layers[at].extents[block_part] # None
            /\ time.extent # None /\ time.extent.interval # layers[at].extents[block_part].interval
        BY <1>2, <2>2 DEF Block!Mixes, Block!Parsed, Block!Timed
      <3>2. PICK l \in DOMAIN layers : \E i \in DOMAIN layers[l].extents : StartsAs(time.extent, l, i)
        BY <3>1 DEF BlockInv, TimeInv, Started
      <3>3. PICK i \in DOMAIN layers[l].extents : StartsAs(time.extent, l, i)
        BY <3>2
      <3>4. /\ Block!HasTime(layers[l]) /\ None \notin {layers[l].extents[i], layers[at].extents[block_part]}
            /\ layers[l].extents[i].interval # layers[at].extents[block_part].interval
        BY <3>1, <3>3 DEF StartsAs
      <3> QED
        BY <1>1, <1>2, <3>1, <3>4 DEF Block!FailsOnlyForMix
    <2> QED
      BY <1>1, <2>1, <2>2
  <1>4. BlockTypes' /\ TimeInv' /\ NodeInv' /\ DoneInv' /\ DimensionsInv'
    BY <1>1 DEF BlockInv, BlockTypes, TimeInv, NodeInv, DoneInv, DimensionsInv, Started, StartsAs
  <1>5. MergedInv'
    BY <1>1 DEF BlockInv, MergedInv, Merged, Has
  <1> QED
    BY <1>3, <1>4, <1>5 DEF BlockInv

(* A layer is done when all its extents are merged. *)
LEMMA LayerDoneKeeps == ASSUME BlockInv, Block!LayerDone PROVE BlockInv'
  <1>1. /\ Block!Merging /\ ~Block!Timed /\ Block!NextLayer
        /\ UNCHANGED <<layers, time, node, dimensions, failed>>
    BY DEF Block!LayerDone
  <1>2. /\ at \in DOMAIN layers /\ Block!Current = layers[at] /\ at \in 1..Len(layers)
        /\ layers[at].extents \in Seq({None} \cup Block!Extent)
        /\ Len(layers) \in Nat /\ DOMAIN layers = 1..Len(layers) /\ at \in Nat
    BY <1>1, CurrentIs DEF Block!Merging, Block!Exporting, BlockInv, BlockTypes
  <1>3. /\ refused \subseteq refused' /\ refused' \in SUBSET (1..Len(layers))
        /\ at \notin refused' => ~Block!HasTime(layers[at]) \/ layers[at].extents # <<>>
        /\ at' = at + 1 /\ block_part' = 0 /\ at' \in 1..(Len(layers) + 1) /\ block_part > 0
    <2>1. at' = at + 1 /\ block_part' = 0 /\ at + 1 \in 1..(Len(layers) + 1) /\ block_part > 0
      BY <1>1, <1>2 DEF Block!NextLayer, Block!Merging, Block!Exporting
    <2>2. CASE Block!HasTime(layers[at]) /\ layers[at].extents = <<>>
      <3>1. refused' = refused \cup {at}
        BY <1>2, <2>2 DEF Block!LayerDone, Block!Refuse
      <3> QED
        BY <1>2, <2>1, <3>1 DEF BlockInv, BlockTypes
    <2>3. CASE ~(Block!HasTime(layers[at]) /\ layers[at].extents = <<>>)
      <3>1. refused' = refused
        BY <1>2, <2>3 DEF Block!LayerDone
      <3> QED
        BY <2>1, <2>3, <3>1 DEF BlockInv, BlockTypes
    <2> QED
      BY <2>2, <2>3
  <1>4. BlockTypes' /\ TimeInv' /\ NodeInv'
    BY <1>1, <1>3 DEF BlockInv, BlockTypes, TimeInv, NodeInv, Started, StartsAs
  <1>5. MergedInv'
    <2> SUFFICES ASSUME NEW l \in DOMAIN layers, NEW i \in DOMAIN layers[l].extents, Merged(l, i)'
                 PROVE  Merged(l, i)
      BY <1>1 DEF BlockInv, MergedInv, Has
    <2>1. l \in 1..Len(layers) /\ at \in 1..Len(layers)
      BY <1>2 DEF BlockInv, BlockTypes
    <2>2. l <= at /\ l \notin refused /\ Block!HasTime(layers[l]) /\ l \in DOMAIN layers
      <3>1. l \in DOMAIN layers \ refused' /\ Block!HasTime(layers[l]) /\ (l < at + 1 \/ (l = at + 1 /\ i < 0))
        BY <1>1, <1>3 DEF Merged
      <3>2. layers[l].extents \in Seq({None} \cup Block!Extent)
        BY InputIs DEF BlockInv, BlockTypes
      <3> QED
        BY <1>3, <2>1, <3>1, <3>2
    <2>3. CASE l = at
      <3>1. block_part \notin DOMAIN layers[at].extents
        BY <1>1, <1>2, <2>2, <2>3 DEF Block!Timed
      <3>2. i < block_part
        BY <1>2, <1>3, <2>3, <3>1 DEF BlockInv, BlockTypes
      <3> QED
        BY <2>2, <2>3, <3>2 DEF Merged
    <2>4. CASE l < at
      BY <2>2, <2>4 DEF Merged
    <2> QED
      BY <2>1, <2>2, <2>3, <2>4
  <1>6. \A l \in DOMAIN layers \ refused' : l \notin refused /\ (l < at' => l < at \/ l = at)
    BY <1>2, <1>3
  <1>7. DoneInv'
    BY <1>1, <1>3, <1>6 DEF BlockInv, DoneInv
  <1>8. DimensionsInv'
    <2> SUFFICES ASSUME NEW l \in DOMAIN layers \ refused', l < at', NEW d \in Dimensions,
                        layers[l].dimensions[d] \notin {Block!Absent, None}
                 PROVE  dimensions[d] = layers[l].dimensions[d]
      BY <1>1, <1>3 DEF DimensionsInv
    <2> QED
      BY <1>3, <1>6 DEF BlockInv, DimensionsInv
  <1>9. Block!FailsOnlyForMix'
    BY <1>1 DEF BlockInv, Block!FailsOnlyForMix
  <1> QED
    BY <1>4, <1>5, <1>7, <1>8, <1>9 DEF BlockInv

LEMMA BlockInitially == ASSUME Block!Init PROVE BlockInv
  <1>1. /\ at = 1 /\ block_part = 0 /\ node = [l \in 1..Len(layers) |-> Block!NoTime]
        /\ time = [layer |-> 0, extent |-> None, mode |-> None, widget |-> None]
        /\ refused = {} /\ failed = FALSE
    BY DEF Block!Init
  <1>2. layers \in Seq(Input)
    BY DEF Block!Init
  <1>3. BlockTypes
    <2>1. Block!NoTime \in Shown
      BY DEF Block!NoTime, Shown
    <2>2. Len(layers) \in Nat /\ 1 \in 1..(Len(layers) + 1) /\ 0 \in 0..Len(layers)
      BY <1>2
    <2>3. node \in [1..Len(layers) -> Shown]
      BY <1>1, <2>1
    <2>4. time \in [layer : 0..Len(layers), extent : {None} \cup Block!Extent,
                    mode : {None} \cup Modes, widget : {None} \cup Widgets]
      BY <1>1, <2>2
    <2> QED
      BY <1>1, <1>2, <2>2, <2>3, <2>4 DEF BlockTypes
  <1>4. TimeInv /\ NodeInv /\ Block!FailsOnlyForMix
    BY <1>1, <1>2 DEF TimeInv, NodeInv, Block!FailsOnlyForMix
  <1>5. MergedInv
    <2> SUFFICES ASSUME NEW l \in DOMAIN layers, NEW i \in DOMAIN layers[l].extents PROVE ~Merged(l, i)
      BY DEF MergedInv
    <2>1. layers[l].extents \in Seq({None} \cup Block!Extent)
      BY <1>2, InputIs
    <2> QED
      BY <1>1, <1>2, <2>1 DEF Merged
  <1>6. DoneInv /\ DimensionsInv
    BY <1>1, <1>2 DEF DoneInv, DimensionsInv
  <1> QED
    BY <1>3, <1>4, <1>5, <1>6 DEF BlockInv

LEMMA BlockStep == ASSUME BlockInv, [Block!Next]_blockVars PROVE BlockInv'
  <1>1. CASE UNCHANGED blockVars
    <2>1. UNCHANGED <<layers, at, block_part, time, node, dimensions, refused, failed>>
      BY <1>1 DEF blockVars
    <2>2. BlockTypes' /\ TimeInv' /\ NodeInv' /\ DoneInv' /\ DimensionsInv' /\ Block!FailsOnlyForMix'
      BY <2>1 DEF BlockInv, BlockTypes, TimeInv, NodeInv, DoneInv, DimensionsInv, Block!FailsOnlyForMix,
         Started, StartsAs
    <2>3. MergedInv'
      BY <2>1 DEF BlockInv, MergedInv, Merged, Has
    <2> QED
      BY <2>2, <2>3 DEF BlockInv
  <1>2. CASE Block!Next
    BY <1>2, MergeDimensionsKeeps, ShowOnLayerKeeps, ShowOnBlockKeeps, RefuseTimeKeeps, FailKeeps, LayerDoneKeeps
       DEF Block!Next
  <1> QED
    BY <1>1, <1>2

LEMMA OnlyBlock == ASSUME part = "block", [PortalNext]_vars PROVE part' = "block" /\ [Block!Next]_blockVars
  <1>1. CASE UNCHANGED vars
    BY <1>1 DEF vars, blockVars
  <1>2. CASE PortalNext
    BY <1>2 DEF PortalNext, In, Block!Next
  <1> QED
    BY <1>1, <1>2

LEMMA BlockKept == PortalSpec => [](part = "block" => BlockInv)
  <1> DEFINE Inv == part = "block" => BlockInv
  <1>1. PortalInit => Inv
    BY BlockInitially DEF PortalInit, BlockInit
  <1>2. Inv /\ [PortalNext]_vars => Inv'
    <2>1. CASE part = "block"
      BY <2>1, OnlyBlock, BlockStep
    <2>2. CASE part # "block"
      BY <2>2 DEF PortalNext, In, vars
    <2> QED
      BY <2>1, <2>2
  <1> QED
    BY <1>1, <1>2, PTL DEF PortalSpec

(* What starts as an extent of a layer covers all that lies within it. *)
LEMMA StartedCovers ==
  ASSUME BlockInv, NEW l \in DOMAIN layers, NEW i \in DOMAIN layers[l].extents, layers[l].extents[i] # None,
         NEW e \in Block!Extent, Started(e), Within(layers[l].extents[i], e)
  PROVE  Block!CoversExtent(e, layers[l].extents[i])
  <1> DEFINE own == layers[l].extents[i]
  <1>1. own \in Block!Extent
    <2>1. layers[l].extents \in Seq({None} \cup Block!Extent)
      BY InputIs DEF BlockInv, BlockTypes
    <2> QED
      BY <2>1
  <1>2. PICK k \in DOMAIN layers : \E j \in DOMAIN layers[k].extents : StartsAs(e, k, j)
    BY DEF Started
  <1>3. PICK j \in DOMAIN layers[k].extents : StartsAs(e, k, j)
    BY <1>2
  <1> DEFINE first == layers[k].extents[j]
  <1>4. /\ first \in Block!Extent /\ first # None /\ Block!HasTime(layers[k])
        /\ first.interval = e.interval /\ first.start = e.start
    <2>1. layers[k].extents \in Seq({None} \cup Block!Extent)
      BY InputIs DEF BlockInv, BlockTypes
    <2> QED
      BY <1>3, <2>1 DEF StartsAs
  <1>5. Block!Aligned(own) => (first.interval # None => Block!InPhase(own, first))
    BY <1>4 DEF Block!Aligned, Within
  <1> HIDE DEF own, first
  <1>6. Within(own, e) /\ own # None
    BY DEF own
  <1>7. Block!Aligned(own) => Block!Instants(own) \subseteq Block!Instants(e)
    BY <1>1, <1>4, <1>5, <1>6, InstantsAreKept
  <1>8. Block!CoversExtent(e, own)
    BY <1>6, <1>7 DEF Block!CoversExtent, Within
  <1> QED
    BY <1>8 DEF own

LEMMA BlockServes == ASSUME BlockInv PROVE Block!LayersAreServed
  <1> SUFFICES ASSUME Block!Finished, NEW l \in Block!Exported
               PROVE  /\ Block!HasTime(layers[l]) =>
                           /\ Block!Covers(IF Block!BlockTime # Block!NoTime THEN Block!BlockTime ELSE node[l], layers[l])
                           /\ Block!BlockTime # Block!NoTime => node[l] = Block!NoTime
                      /\ \A d \in Dimensions : layers[l].dimensions[d] \notin {Block!Absent, None}
                                                 => dimensions[d] = layers[l].dimensions[d]
    BY DEF Block!LayersAreServed
  <1>1. l \in DOMAIN layers \ refused /\ l \in 1..Len(layers) /\ l < at /\ layers[l].extents \in Seq({None} \cup Block!Extent)
    BY InputIs DEF Block!Exported, Block!Finished, BlockInv, BlockTypes
  <1>2. \A d \in Dimensions : layers[l].dimensions[d] \notin {Block!Absent, None}
                                => dimensions[d] = layers[l].dimensions[d]
    BY <1>1 DEF BlockInv, DimensionsInv
  <1>3. ASSUME Block!HasTime(layers[l])
        PROVE  /\ Block!Covers(IF Block!BlockTime # Block!NoTime THEN Block!BlockTime ELSE node[l], layers[l])
               /\ Block!BlockTime # Block!NoTime => node[l] = Block!NoTime
    <2>1. \A i \in DOMAIN layers[l].extents : Merged(l, i)
      BY <1>1, <1>3 DEF Merged
    <2>2. 1 \in DOMAIN layers[l].extents
      BY <1>1, <1>3 DEF BlockInv, DoneInv
    <2>3. \A i \in DOMAIN layers[l].extents :
             /\ time.extent # None /\ Has(time, l, i)
             /\ time.layer # 0 => l = time.layer /\ Has(node[l], l, i)
      BY <1>1, <2>1 DEF BlockInv, MergedInv
    <2>4. time.extent # None
      BY <2>2, <2>3
    <2>5. CASE time.layer = 0
      <3> DEFINE shown == [extent |-> time.extent, mode |-> time.mode, widget |-> time.widget]
      <3>1. Block!BlockTime = shown
        BY <2>4, <2>5 DEF Block!BlockTime
      <3>2. shown.extent = time.extent /\ shown.mode = time.mode /\ shown.widget = time.widget
        OBVIOUS
      <3>3. shown # Block!NoTime
        BY <2>4, <3>2 DEF Block!NoTime
      <3> HIDE DEF shown
      <3>4. Block!Covers(shown, layers[l])
        <4>1. time.extent \in Block!Extent /\ Started(time.extent)
          BY <2>4 DEF BlockInv, BlockTypes, TimeInv
        <4>2. \A i \in DOMAIN layers[l].extents : Block!CoversExtent(shown.extent, layers[l].extents[i])
          BY <1>1, <2>3, <3>2, <4>1, StartedCovers DEF Has
        <4> QED
          BY <2>2, <2>3, <3>2, <3>3, <4>2 DEF Block!Covers, Has
      <3>5. node[l] = Block!NoTime
        BY <1>1, <2>5 DEF BlockInv, NodeInv
      <3> QED
        BY <3>1, <3>3, <3>4, <3>5
    <2>6. CASE time.layer # 0
      <3>1. Block!BlockTime = Block!NoTime
        BY <2>6 DEF Block!BlockTime
      <3>2. l = time.layer
        BY <2>2, <2>3, <2>6
      <3>3. node[l].extent # None /\ node[l].extent \in Block!Extent /\ Started(node[l].extent)
        BY <1>1, <3>2 DEF BlockInv, NodeInv, BlockTypes, Shown
      <3>4. node[l] # Block!NoTime
        BY <3>3 DEF Block!NoTime
      <3>5. Block!Covers(node[l], layers[l])
        <4>1. \A i \in DOMAIN layers[l].extents : Block!CoversExtent(node[l].extent, layers[l].extents[i])
          BY <1>1, <2>3, <2>6, <3>3, StartedCovers DEF Has
        <4> QED
          BY <2>2, <2>3, <2>6, <3>4, <4>1 DEF Block!Covers, Has
      <3> QED
        BY <3>1, <3>5
    <2> QED
      BY <2>5, <2>6
  <1> QED
    BY <1>2, <1>3

(* A known layer with time that is exported gets its range, mode, widget and dimensions, and all its instants
   unless another layer of the block has them in another phase, whatever of the other layers was refused; and
   nothing but a mix of intervals, or a layer without a name in the capabilities, lets the themes fail. *)
THEOREM TimesOfLayersAreServed == PortalSpec => []TimesAreServed
  <1>1. (part = "block" => BlockInv) => TimesAreServed
    BY BlockServes DEF TimesAreServed, BlockInv
  <1> QED
    BY <1>1, BlockKept, PTL

-----------------------------------------------------------------------------
(* The items below an item.  Induction over the levels is over the set of those for which a fact holds. *)

LEMMA LeastNumber == ASSUME NEW S \in SUBSET Nat, S # {} PROVE \E n \in S : \A k \in S : n <= k
  <1>1. PICK n \in S : \A k \in S : <<k, n>> \notin OpToRel(<, Nat)
    BY WFMin, NatLessThanWellFounded, Zenon
  <1>2. \A k \in S : ~(k < n)
    BY <1>1, Zenon DEF OpToRel
  <1> QED
    BY <1>2

LEMMA InductionOverSet == ASSUME NEW S \in SUBSET Nat, 0 \in S, \A n \in S : n + 1 \in S PROVE S = Nat
  <1> SUFFICES ASSUME S # Nat PROVE FALSE
    OBVIOUS
  <1>1. PICK n \in Nat \ S : \A k \in Nat \ S : n <= k
    BY LeastNumber
  <1>2. n # 0 /\ n - 1 \in Nat
    BY <1>1
  <1>3. n - 1 \in S
    BY <1>1, <1>2
  <1> QED
    BY <1>1, <1>3

Parents == Themes \cup Groups
Depth   == Cardinality(Groups)

(* One level of items, and one more. *)
Links       == [x \in Parents |-> Children[x]]
Level(prev) == [x \in Parents |-> Children[x] \cup UNION {prev[g] : g \in Children[x] \cap Groups}]

LEMMA SameCardinalityHere == \A S : Search!Cardinality(S) = Cardinality(S)
  BY DEF Search!Cardinality, Cardinality

LEMMA DepthIs == IsFiniteSet(Groups) /\ Depth \in Nat /\ Search!Cardinality(Groups) = Depth
  <1>1. IsFiniteSet(Groups)
    BY PortalAssumption DEF Search!ThemeSearchAssumption, Search!IsFiniteSet, IsFiniteSet
  <1> QED
    BY <1>1, FS_CardinalityType, SameCardinalityHere DEF Depth

LEMMA ChildrenAre ==
  /\ Children \in [Parents -> SUBSET (Groups \cup TreeLayers)] /\ TreeLayers \cap Parents = {}
  /\ \A t \in Themes : Children[t] \subseteq Groups
  BY PortalAssumption DEF Search!ThemeSearchAssumption, Parents

LEMMA BelowToIs ==
  \A n \in 0..Depth : Search!BelowTo[n] = IF n = 0 THEN Links ELSE Level(Search!BelowTo[n - 1])
  <1> DEFINE Def(f, m) == f = [n \in 0..m |-> IF n = 0 THEN Links ELSE Level(f[n - 1])]
             S == {m \in Nat : \E f : Def(f, m)}
  <1>1. 0 \in S
    <2>1. Def([n \in 0..0 |-> Links], 0)
      OBVIOUS
    <2> QED
      BY <2>1
  <1>2. ASSUME NEW m \in S PROVE m + 1 \in S
    <2>1. PICK f : Def(f, m)
      OBVIOUS
    <2> DEFINE next == [n \in 0..(m + 1) |-> IF n = 0 THEN Links ELSE Level(f[n - 1])]
    <2>2. \A n \in 0..m : next[n] = f[n]
      BY <2>1
    <2>3. \A n \in 0..(m + 1) : n # 0 => n - 1 \in 0..m
      OBVIOUS
    <2>4. \A n \in 0..(m + 1) : n # 0 => Level(f[n - 1]) = Level(next[n - 1])
      BY <2>2, <2>3
    <2>5. next = [n \in 0..(m + 1) |-> IF n = 0 THEN Links ELSE Level(f[n - 1])]
      OBVIOUS
    <2> HIDE DEF next
    <2>6. Def(next, m + 1)
      BY <2>4, <2>5
    <2> QED
      BY <2>6
  <1>3. S = Nat
    BY <1>1, <1>2, InductionOverSet
  <1>4. \E f : Def(f, Depth)
    BY <1>3, DepthIs
  <1>5. Search!BelowTo = CHOOSE f : Def(f, Depth)
    BY DepthIs DEF Search!BelowTo, Links, Level, Parents
  <1>6. Def(Search!BelowTo, Depth)
    BY <1>4, <1>5
  <1> QED
    BY <1>6

(* What is below x, through n levels of groups at most. *)
To(n, x) == Search!BelowTo[n][x]

LEMMA ToIs ==
  /\ \A x \in Parents : To(0, x) = Children[x]
  /\ \A n \in 0..Depth : n + 1 <= Depth =>
       \A x \in Parents : To(n + 1, x) = Children[x] \cup UNION {To(n, g) : g \in Children[x] \cap Groups}
  <1>1. \A x \in Parents : To(0, x) = Children[x]
    <2>1. 0 \in 0..Depth
      BY DepthIs
    <2>2. Search!BelowTo[0] = Links
      BY <2>1, BelowToIs
    <2> QED
      BY <2>2 DEF To, Links
  <1>2. ASSUME NEW n \in 0..Depth, n + 1 <= Depth, NEW x \in Parents
        PROVE  To(n + 1, x) = Children[x] \cup UNION {To(n, g) : g \in Children[x] \cap Groups}
    <2>1. n + 1 \in 0..Depth /\ n + 1 # 0 /\ (n + 1) - 1 = n
      BY <1>2, DepthIs
    <2>2. Search!BelowTo[n + 1] = Level(Search!BelowTo[n])
      BY <2>1, BelowToIs
    <2> QED
      BY <2>2 DEF To, Level
  <1> QED
    BY <1>1, <1>2

LEMMA ToTypes == \A n \in 0..Depth : \A x \in Parents : To(n, x) \subseteq Groups \cup TreeLayers
  <1> DEFINE S == {n \in Nat : n <= Depth => \A x \in Parents : To(n, x) \subseteq Groups \cup TreeLayers}
  <1>1. 0 \in S
    BY ToIs, ChildrenAre
  <1>2. ASSUME NEW n \in S PROVE n + 1 \in S
    <2> SUFFICES ASSUME n + 1 <= Depth, NEW x \in Parents PROVE To(n + 1, x) \subseteq Groups \cup TreeLayers
      OBVIOUS
    <2>1. n \in 0..Depth /\ \A y \in Parents : To(n, y) \subseteq Groups \cup TreeLayers
      BY DepthIs
    <2>2. To(n + 1, x) = Children[x] \cup UNION {To(n, g) : g \in Children[x] \cap Groups}
      BY <2>1, ToIs
    <2> QED
      BY <2>1, <2>2, ChildrenAre DEF Parents
  <1>3. S = Nat
    BY <1>1, <1>2, InductionOverSet
  <1> QED
    BY <1>3, DepthIs

(* One level more adds what is below the groups that are there. *)
LEMMA OneLevelMore ==
  \A n \in 0..Depth : n + 1 <= Depth =>
    \A x \in Parents : To(n + 1, x) = To(n, x) \cup UNION {Children[g] : g \in To(n, x) \cap Groups}
  <1> DEFINE More(n) == \A x \in Parents : To(n + 1, x) = To(n, x) \cup UNION {Children[g] : g \in To(n, x) \cap Groups}
             S == {n \in Nat : n + 1 <= Depth => More(n)}
  <1>1. 0 \in S
    <2> SUFFICES ASSUME 1 <= Depth, NEW x \in Parents
                 PROVE  To(0 + 1, x) = To(0, x) \cup UNION {Children[g] : g \in To(0, x) \cap Groups}
      OBVIOUS
    <2>1. To(0, x) = Children[x] /\ \A g \in Groups : To(0, g) = Children[g]
      BY ToIs DEF Parents
    <2>2. 0 \in 0..Depth /\ 0 + 1 <= Depth
      BY DepthIs
    <2>3. To(0 + 1, x) = Children[x] \cup UNION {To(0, g) : g \in Children[x] \cap Groups}
      BY <2>2, ToIs
    <2> QED
      BY <2>1, <2>3
  <1>2. ASSUME NEW n \in S PROVE n + 1 \in S
    <2> SUFFICES ASSUME n + 2 <= Depth, NEW x \in Parents
                 PROVE  To((n + 1) + 1, x) = To(n + 1, x) \cup UNION {Children[g] : g \in To(n + 1, x) \cap Groups}
      OBVIOUS
    <2>1. n \in 0..Depth /\ n + 1 \in 0..Depth /\ n + 1 <= Depth /\ (n + 1) + 1 <= Depth /\ More(n)
      BY DepthIs
    <2>2. \A y \in Parents : To(n + 1, y) = Children[y] \cup UNION {To(n, g) : g \in Children[y] \cap Groups}
      BY <2>1, ToIs
    <2>3. To((n + 1) + 1, x) = Children[x] \cup UNION {To(n + 1, g) : g \in Children[x] \cap Groups}
      BY <2>1, ToIs
    <2>4. \A g \in Groups : g \in Parents
      BY DEF Parents
    <2>5. ASSUME NEW y \in To((n + 1) + 1, x)
          PROVE  y \in To(n + 1, x) \cup UNION {Children[g] : g \in To(n + 1, x) \cap Groups}
      <3>1. CASE y \in Children[x]
        BY <2>2, <3>1
      <3>2. ASSUME NEW g \in Children[x] \cap Groups, y \in To(n + 1, g)
            PROVE  y \in To(n + 1, x) \cup UNION {Children[h] : h \in To(n + 1, x) \cap Groups}
        <4>1. CASE y \in To(n, g)
          BY <2>2, <4>1
        <4>2. CASE \E h \in To(n, g) \cap Groups : y \in Children[h]
          <5>1. PICK h \in To(n, g) \cap Groups : y \in Children[h]
            BY <4>2
          <5>2. h \in To(n + 1, x)
            BY <2>2, <5>1
          <5> QED
            BY <5>1, <5>2
        <4> QED
          BY <2>1, <2>4, <3>2, <4>1, <4>2
      <3> QED
        BY <2>3, <3>1, <3>2
    <2>6. To(n + 1, x) \subseteq To((n + 1) + 1, x)
      <3>1. \A g \in Groups : To(n, g) \subseteq To(n + 1, g)
        BY <2>1, <2>4
      <3> QED
        BY <2>2, <2>3, <3>1
    <2>7. ASSUME NEW h \in To(n + 1, x) \cap Groups, NEW y \in Children[h] PROVE y \in To((n + 1) + 1, x)
      <3>1. CASE h \in Children[x]
        BY <2>2, <2>3, <2>4, <3>1
      <3>2. ASSUME NEW g \in Children[x] \cap Groups, h \in To(n, g) PROVE y \in To((n + 1) + 1, x)
        <4>1. y \in To(n + 1, g)
          BY <2>1, <2>4, <3>2
        <4> QED
          BY <2>3, <4>1
      <3> QED
        BY <2>2, <3>1, <3>2
    <2> QED
      BY <2>5, <2>6, <2>7
  <1>3. S = Nat
    BY <1>1, <1>2, InductionOverSet
  <1>4. \A n \in 0..Depth : n \in S
    BY <1>3, DepthIs
  <1>5. \A n \in S : n + 1 <= Depth => More(n)
    BY DEF S
  <1> QED
    BY Zenon, <1>4, <1>5

LEMMA SomeGroups == \A T \in SUBSET Groups : IsFiniteSet(T) /\ Cardinality(T) \in Nat /\ Cardinality(T) <= Depth
  <1> SUFFICES ASSUME NEW T \in SUBSET Groups
               PROVE  IsFiniteSet(T) /\ Cardinality(T) \in Nat /\ Cardinality(T) <= Depth
    OBVIOUS
  <1>1. IsFiniteSet(T) /\ Cardinality(T) <= Cardinality(Groups)
    BY DepthIs, FS_Subset
  <1> QED
    BY <1>1, FS_CardinalityType DEF Depth

(* There are as many levels as groups, so that nothing is left below. *)
LEMMA BelowIsClosed ==
  ASSUME NEW x \in Parents, NEW g \in To(Depth, x) \cap Groups
  PROVE  Children[g] \subseteq To(Depth, x)
  <1> DEFINE Inner(n) == To(n, x) \cap Groups
             Closed(n) == \A h \in Inner(n) : Children[h] \subseteq To(n, x)
             S == {n \in Nat : n <= Depth => Closed(n) \/ Cardinality(Inner(n)) > n}
  <1>1. \A n \in 0..Depth : IsFiniteSet(Inner(n)) /\ Cardinality(Inner(n)) \in Nat /\ Cardinality(Inner(n)) <= Depth
    BY SomeGroups
  <1>2. 0 \in S
    <2>1. CASE Inner(0) = {}
      BY <2>1
    <2>2. CASE Inner(0) # {}
      <3>1. IsFiniteSet(Inner(0)) /\ Cardinality(Inner(0)) \in Nat
        BY <1>1, DepthIs
      <3>2. Cardinality(Inner(0)) # 0
        BY <2>2, <3>1, FS_EmptySet
      <3> QED
        BY <3>1, <3>2
    <2> QED
      BY <2>1, <2>2
  <1>3. ASSUME NEW n \in S PROVE n + 1 \in S
    <2> SUFFICES ASSUME n + 1 <= Depth, ~Closed(n + 1) PROVE Cardinality(Inner(n + 1)) > n + 1
      OBVIOUS
    <2>1. n \in 0..Depth /\ n + 1 \in 0..Depth /\ n <= Depth
      BY DepthIs
    <2>2. To(n + 1, x) = To(n, x) \cup UNION {Children[h] : h \in Inner(n)}
      BY <2>1, OneLevelMore
    <2>3. Inner(n) \subseteq Inner(n + 1) /\ Inner(n) # Inner(n + 1)
      BY <2>2
    <2>4. ~Closed(n)
      BY <2>2
    <2>5. Cardinality(Inner(n)) > n
      BY <2>1, <2>4
    <2> HIDE DEF Inner
    <2>6. /\ IsFiniteSet(Inner(n + 1)) /\ Cardinality(Inner(n)) \in Nat /\ Cardinality(Inner(n + 1)) \in Nat
      BY <1>1, <2>1
    <2>7. Cardinality(Inner(n)) < Cardinality(Inner(n + 1))
      BY <2>3, <2>6, FS_Subset
    <2> QED
      BY <2>1, <2>5, <2>6, <2>7
  <1>4. S = Nat
    BY <1>2, <1>3, InductionOverSet
  <1>5. Closed(Depth)
    <2>1. Depth \in S /\ Cardinality(Inner(Depth)) \in Nat /\ Cardinality(Inner(Depth)) <= Depth
      BY <1>1, <1>4, DepthIs
    <2> HIDE DEF Inner, Closed
    <2> QED
      BY <2>1, DepthIs
  <1> QED
    BY <1>5

LEMMA BelowIs ==
  /\ \A x \in Parents : /\ Search!Below[x] \subseteq Groups \cup TreeLayers /\ Children[x] \subseteq Search!Below[x]
                        /\ \A y \in Search!Below[x] \cap Groups : Search!Below[y] \subseteq Search!Below[x]
  <1>1. \A x \in Parents : Search!Below[x] = To(Depth, x)
    BY DepthIs DEF Search!Below, To
  <1>2. \A x \in Parents : To(Depth, x) \subseteq Groups \cup TreeLayers
    BY ToTypes, DepthIs
  <1>3. \A x \in Parents : Children[x] \subseteq To(Depth, x)
    <2>1. CASE Depth = 0
      BY <2>1, ToIs
    <2>2. CASE Depth # 0
      <3>1. Depth - 1 \in 0..Depth /\ (Depth - 1) + 1 = Depth
        BY <2>2, DepthIs
      <3> QED
        BY <3>1, ToIs
    <2> QED
      BY <2>1, <2>2
  <1>4. ASSUME NEW x \in Parents, NEW y \in To(Depth, x) \cap Groups PROVE To(Depth, y) \subseteq To(Depth, x)
    <2> DEFINE S == {n \in Nat : n <= Depth => \A z \in To(Depth, x) \cap Groups : To(n, z) \subseteq To(Depth, x)}
    <2>1. 0 \in S
      BY ToIs, BelowIsClosed DEF Parents
    <2>2. ASSUME NEW n \in S PROVE n + 1 \in S
      <3> SUFFICES ASSUME n + 1 <= Depth, NEW z \in To(Depth, x) \cap Groups PROVE To(n + 1, z) \subseteq To(Depth, x)
        OBVIOUS
      <3>1. n \in 0..Depth /\ n + 1 <= Depth
        BY DepthIs
      <3>2. To(n + 1, z) = Children[z] \cup UNION {To(n, g) : g \in Children[z] \cap Groups}
        BY <3>1, ToIs DEF Parents
      <3>3. Children[z] \subseteq To(Depth, x)
        BY BelowIsClosed
      <3> QED
        BY <3>1, <3>2, <3>3
    <2>3. S = Nat
      BY <2>1, <2>2, InductionOverSet
    <2> QED
      BY <2>3, DepthIs
  <1> QED
    BY <1>1, <1>2, <1>3, <1>4 DEF Parents

-----------------------------------------------------------------------------
(* The full-text search and the themes. *)

(* The rows that one run of theme2fts makes. *)
ImportedRows(visited) == UNION {Search!Imported(i, role, visited) : i \in ExportedTo, role \in Roles \cup {None}}

SearchInv == Search!TypeOK /\ db \in Tables /\ (fresh => \E visited \in Visits : tsearch = ImportedRows(visited))

Items == Themes \cup Groups \cup TreeLayers

LEMMA ContentsAre ==
  ASSUME SearchInv
  PROVE  /\ \A x \in Themes \cup TreeLayers : db.public[x] \in BOOLEAN /\ db.interfaces[x] \subseteq Interfaces
         /\ \A t \in Themes : db.restricted[t] \subseteq Roles
         /\ \A l \in TreeLayers : db.areas[l] \subseteq Roles /\ None \notin db.areas[l]
         /\ db.faulty \subseteq Themes \cup TreeLayers
  BY PortalAssumption DEF SearchInv, Search!TypeOK, Search!Contents, Search!ThemeSearchAssumption

LEMMA LeadingAre ==
  ASSUME NEW t \in Themes, NEW some
  PROVE  /\ Search!Leading(t, some) \subseteq {t} \cup Search!Below[t]
         /\ Search!Leading(t, some) \subseteq Items
         /\ \A x \in {t} \cup Search!Below[t] :
              x \in Search!Leading(t, some) <=> IF x \in TreeLayers THEN x \in some ELSE Search!Below[x] \cap some # {}
  BY BelowIs DEF Search!Leading, Parents, Items

(* Who sees a layer: the script and the export decide alike, but for the name. *)
Sees(l, roles, i) == i \in db.interfaces[l] /\ (db.public[l] \/ db.areas[l] \cap roles # {})

LEMMA VisibleAre ==
  ASSUME SearchInv, NEW i
  PROVE  /\ Search!Visible(i, None) = {l \in TreeLayers : i \in db.interfaces[l] /\ db.public[l]}
         /\ \A role \in Roles : Search!Visible(i, role) = {l \in TreeLayers : Sees(l, {role}, i)}
  BY ContentsAre DEF Search!Visible, Sees

LEMMA IndexedAre ==
  ASSUME SearchInv, NEW i, NEW role \in Roles \cup {None}, NEW x \in Search!Indexed(i, role)
  PROVE  \E t \in Themes : /\ i \in db.interfaces[t] /\ x \in Search!Leading(t, Search!Visible(i, role))
                           /\ db.public[t] \/ (role \in Roles /\ role \in db.restricted[t])
  <1>1. CASE x \in Search!PublicItems(i) /\ role = None
    BY <1>1 DEF Search!PublicItems
  <1>2. CASE x \in Search!RoleItems(i, role)
    <2>1. PICK t \in Themes : /\ role \in Search!ThemeRoles(t) /\ i \in db.interfaces[t]
                              /\ x \in Search!Leading(t, Search!Visible(i, role))
      BY <1>2 DEF Search!RoleItems
    <2>2. CASE db.public[t]
      BY <2>1, <2>2
    <2>3. CASE ~db.public[t]
      <3>1. role \in db.restricted[t]
        BY <2>1, <2>3 DEF Search!ThemeRoles
      <3> QED
        BY <2>1, <3>1, ContentsAre
    <2> QED
      BY <2>2, <2>3
  <1> QED
    BY <1>1, <1>2 DEF Search!Indexed

LEMMA RowsAre ==
  ASSUME SearchInv, NEW visited \in Visits
  PROVE  /\ ImportedRows(visited) \subseteq Search!Row
         /\ \A row \in ImportedRows(visited) :
              \E x \in Search!Indexed(row.interface, row.role) :
                /\ row = Search!RowOf(x, row.interface, row.role)
                /\ row.interface \in ExportedTo /\ row.role \in Roles \cup {None}
  <1> SUFFICES ASSUME NEW i \in ExportedTo, NEW role \in Roles \cup {None}, NEW row \in Search!Imported(i, role, visited)
               PROVE  row \in Search!Row /\ \E x \in Search!Indexed(i, role) :
                                              row = Search!RowOf(x, i, role) /\ row.interface = i /\ row.role = role
    BY DEF ImportedRows
  <1>1. PICK x \in Search!Indexed(i, role) : row = Search!RowOf(x, i, role)
    BY DEF Search!Imported
  <1>2. x \in Items
    BY IndexedAre, LeadingAre
  <1>3. i \in Interfaces
    BY PortalAssumption DEF Search!ThemeSearchAssumption
  <1>4. row = [action |-> Search!Action(x), data |-> ItemName[x], role |-> role, interface |-> i]
    BY <1>1 DEF Search!RowOf
  <1>5. Search!Action(x) \in {"add_theme", "add_group", "add_layer"}
    BY DEF Search!Action
  <1>6. row.interface = i /\ row.role = role
    BY <1>4
  <1>7. ItemName[x] \in {ItemName[y] : y \in Search!Item}
    BY <1>2 DEF Search!Item, Items
  <1>8. row \in Search!Row
    BY <1>3, <1>4, <1>5, <1>7 DEF Search!Row
  <1> QED
    BY <1>1, <1>6, <1>8

LEMMA SearchInitially == ASSUME Search!Init PROVE SearchInv
  BY PortalAssumption DEF Search!Init, SearchInv, Search!TypeOK, Search!ThemeSearchAssumption

LEMMA SearchStep == ASSUME SearchInv, [Search!Import \/ \E x \in Edited : Search!Edit(x)]_searchVars PROVE SearchInv'
  <1>1. CASE UNCHANGED searchVars
    <2>1. UNCHANGED <<db, tsearch, duplicate_name, fresh>>
      BY <1>1 DEF searchVars
    <2>2. \A visited : ImportedRows(visited)' = ImportedRows(visited)
      BY <2>1 DEF ImportedRows, Search!Imported, Search!Indexed, Search!PublicItems, Search!RoleItems, Search!ThemeRoles,
         Search!Visible
    <2> QED
      BY <2>1, <2>2 DEF SearchInv, Search!TypeOK
  <1>2. CASE Search!Import
    <2>1. /\ fresh' = TRUE /\ UNCHANGED <<db, duplicate_name>>
          /\ \E visited \in Visits : tsearch' = ImportedRows(visited)
      BY <1>2 DEF Search!Import, ImportedRows
    <2>2. \A visited : ImportedRows(visited)' = ImportedRows(visited)
      BY <2>1 DEF ImportedRows, Search!Imported, Search!Indexed, Search!PublicItems, Search!RoleItems, Search!ThemeRoles,
         Search!Visible
    <2>3. tsearch' \in SUBSET Search!Row
      BY <2>1, RowsAre
    <2> QED
      BY <2>1, <2>2, <2>3 DEF SearchInv, Search!TypeOK
  <1>3. CASE \E x \in Edited : Search!Edit(x)
    <2>1. db' \in Tables /\ fresh' = FALSE /\ UNCHANGED <<tsearch, duplicate_name>>
      BY <1>3 DEF Search!Edit
    <2>2. db' \in Search!Contents
      BY <2>1, PortalAssumption DEF Search!ThemeSearchAssumption
    <2> QED
      BY <2>1, <2>2 DEF SearchInv, Search!TypeOK
  <1> QED
    BY <1>1, <1>2, <1>3

(* What a role finds leads to a layer that it sees. *)
LEMMA WhatIsFoundIsShown == ASSUME SearchInv PROVE Search!FoundIsShown
  <1> SUFFICES ASSUME fresh, NEW roles \in SUBSET Roles, NEW i \in ExportedTo, NEW row \in tsearch,
                      row.role \in roles \cup {None}, row.interface = i
               PROVE  \E x \in Search!Shown(roles, i) \cup Search!Incomplete : <<row.action, row.data>> = Search!Entry(x)
    <2>1. ASSUME NEW roles \in SUBSET Roles, NEW i \in ExportedTo, NEW entry \in Search!Found(roles, i)
          PROVE  \E row \in tsearch : /\ entry = <<row.action, row.data>>
                                      /\ row.role \in roles \cup {None} /\ row.interface = i
      BY <2>1 DEF Search!Found
    <2> SUFFICES ASSUME fresh, NEW roles \in SUBSET Roles, NEW i \in ExportedTo, NEW entry \in Search!Found(roles, i)
                 PROVE  entry \in {Search!Entry(x) : x \in Search!Shown(roles, i) \cup Search!Incomplete}
      BY Zenon DEF Search!FoundIsShown
    <2> QED
      BY <2>1
  <1>1. PICK visited \in Visits : tsearch = ImportedRows(visited)
    BY DEF SearchInv
  <1>2. PICK x \in Search!Indexed(i, row.role) : row = Search!RowOf(x, i, row.role) /\ row.role \in Roles \cup {None}
    BY <1>1, RowsAre
  <1>3. <<row.action, row.data>> = Search!Entry(x)
    BY <1>2 DEF Search!RowOf, Search!Entry
  <1> DEFINE role == row.role
  <1>4. PICK t \in Themes : /\ i \in db.interfaces[t] /\ x \in Search!Leading(t, Search!Visible(i, role))
                            /\ db.public[t] \/ (role \in Roles /\ role \in db.restricted[t])
    BY <1>2, IndexedAre
  <1>5. x \in {t} \cup Search!Below[t] /\ x \in Items
        /\ IF x \in TreeLayers THEN x \in Search!Visible(i, role) ELSE Search!Below[x] \cap Search!Visible(i, role) # {}
    BY <1>4, LeadingAre
  <1>6. ASSUME x \notin Search!Incomplete PROVE x \in Search!Shown(roles, i)
    <2> DEFINE layersShown == {l \in TreeLayers : ItemName[l] \in Search!LayerNames(roles, i) /\ l \notin db.faulty}
               themesShown == {u \in Themes : /\ db.public[u] \/ db.restricted[u] \cap roles # {}
                                              /\ i \in db.interfaces[u] /\ u \notin db.faulty}
    <2>1. Search!Under(x) \cap Search!LeftOut = {}
      BY <1>5, <1>6 DEF Search!Incomplete, Search!Item, Items
    <2>2. \A u \in db.faulty \cap Themes : x \notin Search!Below[u]
      BY <1>6 DEF Search!Incomplete
    <2>3. t \notin db.faulty
      BY <1>5, <2>1, <2>2 DEF Search!Under, Search!LeftOut
    <2>4. role \in Roles => role \in roles
      BY PortalAssumption DEF Search!ThemeSearchAssumption
    <2>5. t \in themesShown
      BY <1>4, <2>3, <2>4
    <2>6. ASSUME NEW l \in Search!Visible(i, role), l \in Search!Under(x) PROVE l \in layersShown
      <3>1. l \in TreeLayers /\ i \in db.interfaces[l] /\ (db.public[l] \/ role \in db.areas[l])
        BY <2>6 DEF Search!Visible
      <3>2. l \notin Search!LeftOut
        BY <2>1, <2>6
      <3>3. l \notin db.faulty /\ (db.public[l] \/ (Kind[l] \in {"wms", "wmts"} /\ db.areas[l] \cap roles # {}))
        <4>1. CASE db.public[l]
          BY <3>2, <4>1 DEF Search!LeftOut
        <4>2. CASE ~db.public[l]
          <5>1. role \in db.areas[l] /\ role \in roles
            BY <1>2, <2>4, <3>1, <4>2, ContentsAre
          <5> QED
            BY <3>1, <3>2, <4>2, <5>1 DEF Search!LeftOut
        <4> QED
          BY <4>1, <4>2
      <3> QED
        BY <3>1, <3>3 DEF Search!LayerNames
    <2>7. x \in Search!Leading(t, layersShown)
      <3>1. CASE x \in TreeLayers
        <4>1. x \in layersShown
          BY <1>5, <2>6, <3>1 DEF Search!Under
        <4> HIDE DEF layersShown
        <4> QED
          BY <1>5, <3>1, <4>1, LeadingAre
      <3>2. CASE x \notin TreeLayers
        <4>1. PICK l \in Search!Below[x] : l \in Search!Visible(i, role)
          BY <1>5, <3>2
        <4>2. l \in layersShown
          BY <2>6, <3>2, <4>1 DEF Search!Under
        <4> HIDE DEF layersShown
        <4> QED
          BY <1>5, <3>2, <4>1, <4>2, LeadingAre
      <3> QED
        BY <3>1, <3>2
    <2>8. Search!Shown(roles, i) = UNION {Search!Leading(u, layersShown) : u \in themesShown}
      BY DEF Search!Shown
    <2> HIDE DEF layersShown, themesShown
    <2> QED
      BY <2>5, <2>7, <2>8
  <1> QED
    BY <1>3, <1>6

(* An item that is shown to a role, and whose names are its own, is one that is imported for the role. *)
LEMMA ShownIsIndexed ==
  ASSUME SearchInv, NEW role \in Roles, NEW i \in ExportedTo, NEW y \in Search!Shown({role}, i),
         \A u \in Search!Under(y) : \A z \in Items \ {u} : ItemName[z] # ItemName[u]
  PROVE  y \in Items /\ \E r \in {None, role} : y \in Search!Indexed(i, r)
  <1> DEFINE layersShown == {l \in TreeLayers : ItemName[l] \in Search!LayerNames({role}, i) /\ l \notin db.faulty}
             themesShown == {u \in Themes : /\ db.public[u] \/ db.restricted[u] \cap {role} # {}
                                            /\ i \in db.interfaces[u] /\ u \notin db.faulty}
  <1>1. Search!Shown({role}, i) = UNION {Search!Leading(u, layersShown) : u \in themesShown}
    BY DEF Search!Shown
  <1>2. PICK t \in themesShown : y \in Search!Leading(t, layersShown)
    BY <1>1
  <1>3. t \in Themes /\ i \in db.interfaces[t] /\ (db.public[t] \/ role \in db.restricted[t])
    OBVIOUS
  <1>4. y \in {t} \cup Search!Below[t] /\ y \in Items
        /\ IF y \in TreeLayers THEN y \in layersShown ELSE Search!Below[y] \cap layersShown # {}
    <2> HIDE DEF layersShown
    <2> QED
      BY <1>2, <1>3, LeadingAre
  <1>5. PICK l \in layersShown : l \in Search!Under(y) /\ (IF y \in TreeLayers THEN l = y ELSE l \in Search!Below[y])
    BY <1>4 DEF Search!Under
  <1>6. l \in TreeLayers /\ Sees(l, {role}, i)
    <2>1. PICK k \in TreeLayers : /\ ItemName[k] = ItemName[l] /\ i \in db.interfaces[k]
                                  /\ db.public[k] \/ (Kind[k] \in {"wms", "wmts"} /\ db.areas[k] \cap {role} # {})
      BY DEF Search!LayerNames
    <2>2. k = l
      BY <1>5, <2>1 DEF Items
    <2> QED
      BY <2>1, <2>2 DEF Sees
  <1> HIDE DEF layersShown
  <1>7. ASSUME NEW some, l \in some PROVE y \in Search!Leading(t, some)
    BY <1>3, <1>4, <1>5, <1>7, LeadingAre
  <1>8. l \in Search!Visible(i, role)
    BY <1>6, VisibleAre
  <1>9. ASSUME role \in Search!ThemeRoles(t) PROVE y \in Search!Indexed(i, role) \/ y \in Search!Indexed(i, None)
    <2>1. y \in Search!Leading(t, Search!Visible(i, role))
      BY <1>7, <1>8
    <2>2. role # None
      BY PortalAssumption DEF Search!ThemeSearchAssumption
    <2>3. y \in UNION {Search!Leading(u, Search!Visible(i, role)) :
                        u \in {v \in Themes : role \in Search!ThemeRoles(v) /\ i \in db.interfaces[v]}}
      <3> HIDE DEF themesShown
      <3>1. t \in {v \in Themes : role \in Search!ThemeRoles(v) /\ i \in db.interfaces[v]}
        BY <1>3, <1>9
      <3> QED
        BY <2>1, <3>1
    <2>4. CASE y \in Search!PublicItems(i)
      BY <2>4 DEF Search!Indexed
    <2>5. CASE y \notin Search!PublicItems(i)
      <3>1. y \in Search!RoleItems(i, role)
        BY Zenon, <2>3, <2>5 DEF Search!RoleItems
      <3> QED
        BY <2>2, <3>1 DEF Search!Indexed
    <2> QED
      BY <2>4, <2>5
  <1>10. CASE role \in db.restricted[t]
    <2>1. role \in Search!ThemeRoles(t)
      BY <1>10 DEF Search!ThemeRoles
    <2> QED
      BY <1>4, <1>9, <2>1
  <1>11. CASE db.public[t] /\ db.public[l]
    <2>1. l \in Search!Visible(i, None)
      BY <1>6, <1>11, VisibleAre DEF Sees
    <2>2. y \in Search!Leading(t, Search!Visible(i, None))
      BY <1>7, <2>1
    <2>3. y \in Search!PublicItems(i)
      BY <1>3, <1>11, <2>2 DEF Search!PublicItems
    <2> QED
      BY <1>4, <2>3 DEF Search!Indexed
  <1>12. CASE db.public[t] /\ ~db.public[l]
    <2>1. role \in db.areas[l]
      BY <1>6, <1>12 DEF Sees
    <2>2. l \in Search!Below[t]
      <3>1. CASE y \in TreeLayers
        BY <1>3, <1>4, <1>5, <3>1, ChildrenAre DEF Parents
      <3>2. CASE y \notin TreeLayers
        <4>1. l \in Search!Below[y]
          BY <1>5, <3>2
        <4>2. y = t \/ y \in Search!Below[t] \cap Groups
          BY <1>3, <1>4, <3>2, BelowIs DEF Parents
        <4> QED
          BY <1>3, <4>1, <4>2, BelowIs DEF Parents
      <3> QED
        BY <3>1, <3>2
    <2>3. role \in Search!ThemeRoles(t)
      BY <1>6, <1>12, <2>1, <2>2 DEF Search!ThemeRoles
    <2> QED
      BY <1>4, <1>9, <2>3
  <1> QED
    BY <1>3, <1>4, <1>10, <1>11, <1>12

LEMMA WhatIsShownIsFound == ASSUME SearchInv PROVE Search!ShownIsFound
  <1> SUFFICES ASSUME fresh, NEW role \in Roles, NEW i \in ExportedTo, NEW y \in Search!Shown({role}, i),
                      \A u \in Search!Under(y) : \A z \in Items \ {u} : ItemName[z] # ItemName[u]
               PROVE  Search!Entry(y) \in Search!Found({role}, i)
    BY Zenon DEF Search!ShownIsFound, Search!Item, Items
  <1>1. PICK visited \in Visits : tsearch = ImportedRows(visited)
    BY DEF SearchInv
  <1>2. y \in Items
    BY ShownIsIndexed
  <1>3. PICK r \in {None, role} : y \in Search!Indexed(i, r)
    BY ShownIsIndexed
  <1>4. y \in Search!Under(y)
    BY DEF Search!Under
  <1>5. visited[y] \in Nat
    BY <1>2, PortalAssumption DEF Search!ThemeSearchAssumption, Search!Item, Items
  <1>6. \A z \in Search!Indexed(i, r) : ItemName[z] = ItemName[y] => visited[y] <= visited[z]
    <2> SUFFICES ASSUME NEW z \in Search!Indexed(i, r), ItemName[z] = ItemName[y] PROVE z = y
      BY <1>5
    <2>1. z \in Items
      BY <1>3, IndexedAre, LeadingAre
    <2> QED
      BY <1>4, <2>1
  <1>7. Search!RowOf(y, i, r) \in Search!Imported(i, r, visited)
    BY <1>3, <1>6 DEF Search!Imported
  <1>8. Search!RowOf(y, i, r) \in tsearch
    BY <1>1, <1>3, <1>7 DEF ImportedRows
  <1>9. /\ Search!RowOf(y, i, r).role = r /\ Search!RowOf(y, i, r).interface = i
        /\ <<Search!RowOf(y, i, r).action, Search!RowOf(y, i, r).data>> = Search!Entry(y)
    BY DEF Search!RowOf, Search!Entry
  <1> QED
    BY <1>3, <1>8, <1>9 DEF Search!Found

LEMMA OnlySearch ==
  ASSUME part = "search", [PortalNext]_vars
  PROVE  part' = "search" /\ [Search!Import \/ \E x \in Edited : Search!Edit(x)]_searchVars
  <1>1. CASE UNCHANGED vars
    BY <1>1 DEF vars, searchVars
  <1>2. CASE PortalNext
    BY <1>2 DEF PortalNext, In
  <1> QED
    BY <1>1, <1>2

LEMMA SearchKept == PortalSpec => [](part = "search" => SearchInv)
  <1> DEFINE Inv == part = "search" => SearchInv
  <1>1. PortalInit => Inv
    BY SearchInitially DEF PortalInit, SearchInit
  <1>2. Inv /\ [PortalNext]_vars => Inv'
    <2>1. CASE part = "search"
      BY <2>1, OnlySearch, SearchStep
    <2>2. CASE part # "search"
      BY <2>2 DEF PortalNext, In, vars
    <2> QED
      BY <2>1, <2>2
  <1> QED
    BY <1>1, <1>2, PTL DEF PortalSpec

(* The script that fills the search and the view that makes the themes decide alike, for any tree of themes, groups
   and layers, even one that goes round: nobody finds what the themes do not show, nor is shown what is not found. *)
THEOREM SearchIsTheThemes == PortalSpec => []SearchAndThemesAgree
  <1>1. (part = "search" => SearchInv) => SearchAndThemesAgree
    BY WhatIsFoundIsShown, WhatIsShownIsFound DEF SearchAndThemesAgree
  <1> QED
    BY <1>1, SearchKept, PTL

-----------------------------------------------------------------------------
(* The filter of capabilities: the layers of a document and those that they are in. *)

N           == Len(document.parent)
ParentOf(n) == document.parent[n]
NamesIn(n)  == document.names[n]
Over(n)     == Filter!Above[n]
Way(n)      == {n} \cup Over(n)
Inside(n)   == ParentOf(n) # 0

LEMMA DocumentIs ==
  ASSUME document \in Document
  PROVE  /\ N \in Nat /\ Filter!Layers = 1..N
         /\ \A n \in 1..N : ParentOf(n) \in 0..(n - 1) /\ NamesIn(n) \in Seq(DOMAIN Local)
         /\ \A n \in 1..N : Inside(n) => ParentOf(n) \in 1..N /\ ParentOf(n) < n
         /\ document.service = "wfst" => \A n \in 1..N : ~Inside(n) /\ NamesIn(n) # <<>>
  <1>1. /\ document.parent \in Seq(Nat) /\ document.names \in [DOMAIN document.parent -> Seq(DOMAIN Local)]
        /\ \A n \in DOMAIN document.parent : document.parent[n] \in 0..(n - 1)
        /\ document.service # "wms" =>
             \A n \in DOMAIN document.parent : document.parent[n] = 0 /\ document.names[n] # <<>>
    BY PortalAssumption DEF Filter!CapabilitiesFilterAssumption
  <1>2. N \in Nat /\ DOMAIN document.parent = 1..N
    BY <1>1 DEF N
  <1>3. \A n \in 1..N : ParentOf(n) \in 0..(n - 1) /\ NamesIn(n) \in Seq(DOMAIN Local)
    BY <1>1, <1>2 DEF ParentOf, NamesIn
  <1>4. Filter!Layers = 1..N
    BY <1>2 DEF Filter!Layers
  <1>5. ASSUME NEW n \in 1..N, Inside(n) PROVE ParentOf(n) \in 1..N /\ ParentOf(n) < n
    <2>1. n \in Nat /\ n <= N /\ ParentOf(n) \in 0..(n - 1) /\ ParentOf(n) # 0
      BY <1>2, <1>3, <1>5 DEF Inside
    <2> QED
      BY <1>2, <2>1
  <1>6. document.service = "wfst" => \A n \in 1..N : ~Inside(n) /\ NamesIn(n) # <<>>
    BY <1>1, <1>2 DEF Inside, ParentOf, NamesIn
  <1> QED
    BY <1>4, <1>5, <1>6, <1>2, <1>3

(* What holds of a layer when it does of the one that it is in holds of all. *)
LEMMA LayersInduction ==
  ASSUME document \in Document, NEW S \in SUBSET (1..N), \A n \in 1..N : (Inside(n) => ParentOf(n) \in S) => n \in S
  PROVE  S = 1..N
  <1> SUFFICES ASSUME S # 1..N PROVE FALSE
    OBVIOUS
  <1>1. (1..N) \ S \in SUBSET Nat /\ (1..N) \ S # {}
    <2>1. (1..N) \ S # {}
      BY Zenon
    <2>2. \A n \in 1..N : n \in Nat
      BY DocumentIs
    <2> QED
      BY <2>1, <2>2
  <1>2. PICK n \in (1..N) \ S : \A k \in (1..N) \ S : n <= k
    BY <1>1, LeastNumber
  <1>3. Inside(n) => ParentOf(n) \in S
    BY <1>2, DocumentIs
  <1> QED
    BY <1>2, <1>3

LEMMA OverIs ==
  ASSUME document \in Document
  PROVE  \A n \in 1..N : Over(n) = IF Inside(n) THEN {ParentOf(n)} \cup Over(ParentOf(n)) ELSE {}
  <1> DEFINE Def(f, m) == f = [n \in 1..m |-> IF ParentOf(n) = 0 THEN {} ELSE {ParentOf(n)} \cup f[ParentOf(n)]]
             S == {m \in Nat : m <= N => \E f : Def(f, m)}
  <1>1. 0 \in S
    <2>1. Def([n \in 1..0 |-> {}], 0)
      OBVIOUS
    <2> QED
      BY <2>1
  <1>2. ASSUME NEW m \in S PROVE m + 1 \in S
    <2> SUFFICES ASSUME m + 1 <= N PROVE \E f : Def(f, m + 1)
      OBVIOUS
    <2>0. m <= N /\ m \in Nat
      BY DocumentIs
    <2>1. PICK f : Def(f, m)
      BY <2>0
    <2> DEFINE next == [n \in 1..(m + 1) |-> IF ParentOf(n) = 0 THEN {} ELSE {ParentOf(n)} \cup f[ParentOf(n)]]
    <2>2. \A n \in 1..m : next[n] = f[n]
      <3>1. \A n \in 1..m : n \in 1..(m + 1)
        OBVIOUS
      <3>2. \A n \in 1..m : f[n] = IF ParentOf(n) = 0 THEN {} ELSE {ParentOf(n)} \cup f[ParentOf(n)]
        BY Zenon, <2>1
      <3> QED
        BY <3>1, <3>2
    <2>3. \A n \in 1..(m + 1) : ParentOf(n) # 0 => ParentOf(n) \in 1..m
      <3>1. \A n \in 1..(m + 1) : n \in 1..N /\ ParentOf(n) \in 0..(n - 1)
        BY DocumentIs
      <3> QED
        BY <3>1
    <2>4. \A n \in 1..(m + 1) : ParentOf(n) # 0 => f[ParentOf(n)] = next[ParentOf(n)]
      BY <2>2, <2>3
    <2>5. next = [n \in 1..(m + 1) |-> IF ParentOf(n) = 0 THEN {} ELSE {ParentOf(n)} \cup f[ParentOf(n)]]
      OBVIOUS
    <2> HIDE DEF next
    <2>6. Def(next, m + 1)
      BY <2>4, <2>5
    <2> QED
      BY <2>6
  <1>3. S = Nat
    BY <1>1, <1>2, InductionOverSet
  <1>4. \E f : Def(f, N)
    <2>1. N \in Nat
      BY DocumentIs
    <2>2. N \in S
      BY <1>3, <2>1
    <2>3. N <= N
      BY <2>1
    <2> QED
      BY <2>2, <2>3
  <1>5. Filter!Above = CHOOSE f : Def(f, N)
    BY DocumentIs DEF Filter!Above, ParentOf
  <1>6. Def(Filter!Above, N)
    BY <1>4, <1>5
  <1> QED
    BY <1>6 DEF Over, Inside

(* The layers that a layer is in come one in the other, from the only one that is in none. *)
LEMMA WayIs ==
  ASSUME document \in Document
  PROVE  \A n \in 1..N : /\ Over(n) \subseteq 1..(n - 1) /\ n \notin Over(n) /\ Way(n) \subseteq 1..n
                         /\ \A m \in Over(n) : Over(m) \subseteq Over(n)
                         /\ \A m, k \in Way(n) : Inside(m) \/ Inside(k) \/ m = k
                         /\ \A m \in Over(n) : \E c \in Way(n) : ParentOf(c) = m
  <1> DEFINE P(n) == /\ Over(n) \subseteq 1..(n - 1)
                     /\ \A m \in Over(n) : Over(m) \subseteq Over(n)
                     /\ \A m, k \in Way(n) : Inside(m) \/ Inside(k) \/ m = k
                     /\ \A m \in Over(n) : \E c \in Way(n) : ParentOf(c) = m
             S == {n \in 1..N : P(n)}
  <1>1. ASSUME NEW n \in 1..N, Inside(n) => ParentOf(n) \in S PROVE P(n)
    <2>1. CASE ~Inside(n)
      BY <2>1, OverIs DEF Way
    <2>2. CASE Inside(n)
      <3> DEFINE p == ParentOf(n)
      <3>1. p \in 1..N /\ p < n /\ P(p)
        <4>1. p \in S
          BY <1>1, <2>2
        <4>2. p < n
          BY <2>2, DocumentIs
        <4> QED
          BY <4>1, <4>2
      <3>2. Over(n) = Way(p)
        BY <2>2, OverIs DEF Way
      <3>3. Over(n) \subseteq 1..(n - 1)
        BY <3>1, <3>2 DEF Way
      <3>4. \A m \in Over(n) : Over(m) \subseteq Over(n)
        BY <3>1, <3>2 DEF Way
      <3>5. Way(n) = {n} \cup Way(p)
        BY <3>2 DEF Way
      <3>6. \A m, k \in Way(n) : Inside(m) \/ Inside(k) \/ m = k
        BY <2>2, <3>1, <3>5
      <3>7. \A m \in Over(n) : \E c \in Way(n) : ParentOf(c) = m
        <4> SUFFICES ASSUME NEW m \in Over(n) PROVE \E c \in Way(n) : ParentOf(c) = m
          OBVIOUS
        <4>1. CASE m = p
          BY <4>1 DEF Way
        <4>2. CASE m \in Over(p)
          BY <3>1, <3>5, <4>2
        <4> QED
          BY <3>2, <4>1, <4>2 DEF Way
      <3> QED
        BY <3>3, <3>4, <3>6, <3>7
    <2> QED
      BY <2>1, <2>2
  <1>2. S = 1..N
    <2> HIDE DEF P
    <2> QED
      BY <1>1, LayersInduction
  <1>3. \A n \in 1..N : P(n)
    BY <1>2
  <1> QED
    BY <1>3 DEF Way

LEMMA SameDocument ==
  ASSUME UNCHANGED <<document, database>>
  PROVE  /\ N' = N /\ (Filter!Layers)' = Filter!Layers /\ (Filter!StylesDiffer <=> (Filter!StylesDiffer)')
         /\ \A n : /\ ParentOf(n)' = ParentOf(n) /\ NamesIn(n)' = NamesIn(n) /\ Over(n)' = Over(n) /\ Way(n)' = Way(n)
                   /\ (Inside(n) <=> Inside(n)') /\ (Filter!Named(n) <=> Filter!Named(n)')
                   /\ (Filter!Refused(n) <=> Filter!Refused(n)')
         /\ \A t : Filter!Keep(t) <=> Filter!Keep(t)'
  <1>1. N' = N /\ (Filter!Layers)' = Filter!Layers
    BY DEF N, Filter!Layers
  <1>2. \A n : ParentOf(n)' = ParentOf(n) /\ NamesIn(n)' = NamesIn(n) /\ (Inside(n) <=> Inside(n)')
    BY DEF ParentOf, NamesIn, Inside
  <1>3. \A n : Over(n)' = Over(n) /\ Way(n)' = Way(n)
    BY DEF Over, Way, Filter!Above, Filter!Layers
  <1>4. \A t : Filter!Keep(t) <=> Filter!Keep(t)'
    BY DEF Filter!Keep, Filter!layers_whitelist, Filter!layers_blacklist, Filter!get_writable_layers,
       Filter!get_private_layers, Filter!get_protected_layers, Filter!ogc_server_ids
  <1>5. \A n : (Filter!Named(n) <=> Filter!Named(n)') /\ (Filter!Refused(n) <=> Filter!Refused(n)')
    BY <1>4 DEF Filter!Named, Filter!Refused
  <1>6. Filter!StylesDiffer <=> (Filter!StylesDiffer)'
    BY <1>1, <1>4 DEF Filter!StylesDiffer
  <1> QED
    BY <1>1, <1>2, <1>3, <1>4, <1>5, <1>6

(* What may let a layer show: a name that is kept, and no layer on the way to it that was refused, but for the first. *)
MayBeSeen(n) == Filter!Named(n) /\ (n \in cut \/ ~Filter!Refused(n))
Leads(m, k)  == /\ m \in Way(k) /\ MayBeSeen(k)
                /\ \A j \in Way(k) \ Over(m) : Inside(j) /\ Filter!Refused(j) => j \in cut

OnPath(n)   == \E i \in DOMAIN path : path[i] = n
Inherits(n) == Inside(n) /\ Inside(ParentOf(n)) /\ element[ParentOf(n)].self_hidden

(* The filter has looked at the name of a layer. *)
Looked(n) == path = <<>> \/ n # Filter!Top \/ Len(texts) < Len(NamesIn(n))

(* The layers in one that count as its children. *)
Counted(m) == {k \in 1..started : /\ ParentOf(k) = m
                                  /\ element[k].self_hidden => Inside(m) /\ element[m].self_hidden}

FilterElement == [hidden : BOOLEAN, self_hidden : BOOLEAN, has_children : BOOLEAN, children_nb : Nat]

FilterTypes ==
  /\ document \in Document /\ database \in Rows /\ started \in 0..N
  /\ path \in Seq(1..N) /\ texts \in Seq(DOMAIN Local)
  /\ element \in [1..N -> FilterElement] /\ downstream \in SUBSET (1..started) /\ cut \in SUBSET (1..N)

PathInv ==
  /\ \A i \in DOMAIN path : path[i] <= started /\ Over(path[i]) = {path[j] : j \in 1..(i - 1)}
  /\ \A i \in DOMAIN path : ParentOf(path[i]) = IF i = 1 THEN 0 ELSE path[i - 1]
  /\ \A i, j \in DOMAIN path : 1 < i /\ i < j /\ element[path[i]].self_hidden => element[path[j]].self_hidden

TextsInv ==
  texts # <<>> =>
    /\ path # <<>> /\ Filter!Top = started /\ Filter!Named(Filter!Top)
    /\ \/ Filter!Top \in cut
       \/ /\ texts = NamesIn(Filter!Top) /\ element[Filter!Top].hidden
          /\ element[Filter!Top].self_hidden <=> Inherits(Filter!Top)
       \/ /\ Len(texts) < Len(NamesIn(Filter!Top))
          /\ \A i \in DOMAIN texts : \E j \in 2..Len(NamesIn(Filter!Top)) : texts[i] = NamesIn(Filter!Top)[j]

(* One layer. *)
NotStarted(n) == n > started => element[n] = Filter!NewLayer
RefusedInv(n) == Filter!Named(n) /\ Filter!Refused(n) /\ n \notin cut /\ Looked(n) => element[n].self_hidden
InheritInv(n) == Inherits(n) => element[n].self_hidden
VisibleInv(n) == ~element[n].hidden => \E k \in 1..started : Leads(n, k)
SeenInv(n)    == Filter!Named(n) /\ ~Filter!Refused(n) /\ n \notin cut /\ Looked(n) /\ ~Inherits(n)
                   => \A m \in Way(n) : ~element[m].hidden
ReasonInv(n)  == Filter!StylesDiffer /\ cut = {} /\ element[n].self_hidden
                   => \E m \in Way(n) : Filter!Refused(m) /\ (m = n \/ Inside(m))
NotBothInv(n) == Filter!StylesDiffer /\ n \notin cut /\ Inside(n) /\ ~element[n].hidden => ~element[n].self_hidden
ChildrenInv(n) == /\ element[n].children_nb = Cardinality(Counted(n))
                  /\ element[n].has_children <=> \E k \in 1..started : ParentOf(k) = n

(* What is written. *)
Stays(n)      == ~element[n].hidden /\ (~Inside(n) \/ Filter!Added(n))
WrittenInv(n) == n \in downstream <=> \A m \in Way(n) : ~OnPath(m) /\ Stays(m)

LayerInv(n) == /\ RefusedInv(n) /\ InheritInv(n) /\ VisibleInv(n) /\ SeenInv(n) /\ ReasonInv(n) /\ NotBothInv(n)
               /\ ChildrenInv(n) /\ WrittenInv(n)

FilterInv == /\ FilterTypes /\ PathInv /\ TextsInv /\ (\A n \in 1..N : NotStarted(n)) /\ (\A n \in 1..started : LayerInv(n))

LEMMA SequenceIs ==
  ASSUME NEW T, NEW s \in Seq(T)
  PROVE  /\ Len(s) \in Nat /\ DOMAIN s = 1..Len(s) /\ (s # <<>> <=> Len(s) > 0)
         /\ \A i \in DOMAIN s : s[i] \in T
  OBVIOUS

LEMMA PathIs ==
  ASSUME FilterTypes, PathInv, path # <<>>
  PROVE  /\ Len(path) \in Nat /\ Len(path) > 0 /\ DOMAIN path = 1..Len(path) /\ Filter!Top = path[Len(path)]
         /\ Filter!Top \in 1..N /\ Filter!Top <= started
         /\ Way(Filter!Top) = {path[j] : j \in DOMAIN path}
         /\ \A m : OnPath(m) <=> m \in Way(Filter!Top)
         /\ (Len(path) > 1) <=> Inside(Filter!Top)
         /\ Inside(Filter!Top) => Filter!TopParent = ParentOf(Filter!Top)
         /\ \A j \in Way(Filter!Top) : Inside(j) /\ element[j].self_hidden => element[Filter!Top].self_hidden
         /\ path[1] \in Way(Filter!Top) /\ ~Inside(path[1])
  <1>1. /\ Len(path) \in Nat /\ Len(path) > 0 /\ DOMAIN path = 1..Len(path) /\ Filter!Top = path[Len(path)]
        /\ \A i \in DOMAIN path : path[i] \in 1..N
    BY SequenceIs DEF FilterTypes, Filter!Top
  <1> DEFINE top == Len(path)
  <1>2. top \in DOMAIN path
    BY <1>1
  <1>3. Filter!Top \in 1..N /\ Filter!Top <= started
    BY <1>1, <1>2 DEF PathInv
  <1>4. Way(Filter!Top) = {path[j] : j \in DOMAIN path}
    <2>1. Over(Filter!Top) = {path[j] : j \in 1..(top - 1)}
      BY <1>1, <1>2 DEF PathInv
    <2>2. 1..top = 1..(top - 1) \cup {top}
      BY <1>1
    <2> QED
      BY <1>1, <2>1, <2>2 DEF Way
  <1>5. \A m : OnPath(m) <=> m \in Way(Filter!Top)
    BY <1>4 DEF OnPath
  <1>6. ParentOf(Filter!Top) = IF top = 1 THEN 0 ELSE path[top - 1]
    BY <1>1, <1>2 DEF PathInv
  <1>7. top > 1 => path[top - 1] \in 1..N
    BY <1>1
  <1>8. (top > 1) <=> Inside(Filter!Top)
    BY <1>1, <1>6, <1>7 DEF Inside
  <1>9. Inside(Filter!Top) => Filter!TopParent = ParentOf(Filter!Top)
    BY <1>1, <1>6, <1>8 DEF Filter!TopParent
  <1>10. ASSUME NEW j \in Way(Filter!Top), Inside(j), element[j].self_hidden PROVE element[Filter!Top].self_hidden
    <2>1. PICK i \in DOMAIN path : j = path[i]
      BY <1>4
    <2>2. i # 1
      BY <1>10, <2>1 DEF PathInv, Inside
    <2>3. i \in Nat /\ 1 < i /\ i <= top
      BY <1>1, <2>2
    <2>4. CASE i = top
      BY <1>1, <1>10, <2>1, <2>4
    <2>5. CASE i < top
      BY <1>1, <1>2, <1>10, <2>1, <2>3, <2>5 DEF PathInv
    <2> QED
      BY <2>3, <2>4, <2>5, <1>1
  <1>11. path[1] \in Way(Filter!Top) /\ ~Inside(path[1])
    <2>1. 1 \in DOMAIN path
      BY <1>1
    <2> QED
      BY <1>4, <2>1 DEF PathInv, Inside
  <1> QED
    BY <1>1, <1>3, <1>4, <1>5, <1>8, <1>9, <1>10, <1>11

LEMMA NamesAre ==
  ASSUME FilterTypes
  PROVE  \A n \in 1..N : /\ Len(NamesIn(n)) \in Nat /\ DOMAIN NamesIn(n) = 1..Len(NamesIn(n))
                         /\ Filter!Named(n) <=> Len(NamesIn(n)) > 0
                         /\ Filter!Refused(n) <=> Filter!Named(n) /\ ~Filter!Keep(NamesIn(n)[1])
  <1> SUFFICES ASSUME NEW n \in 1..N
               PROVE  /\ Len(NamesIn(n)) \in Nat /\ DOMAIN NamesIn(n) = 1..Len(NamesIn(n))
                      /\ Filter!Named(n) <=> Len(NamesIn(n)) > 0
                      /\ Filter!Refused(n) <=> Filter!Named(n) /\ ~Filter!Keep(NamesIn(n)[1])
    OBVIOUS
  <1>1. NamesIn(n) \in Seq(DOMAIN Local)
    BY DocumentIs DEF FilterTypes
  <1>2. Len(NamesIn(n)) \in Nat /\ DOMAIN NamesIn(n) = 1..Len(NamesIn(n)) /\ (NamesIn(n) # <<>> <=> Len(NamesIn(n)) > 0)
    BY <1>1
  <1>3. Filter!Named(n) <=> NamesIn(n) # <<>>
    BY DEF Filter!Named, NamesIn
  <1>4. Filter!Refused(n) <=> Filter!Named(n) /\ ~Filter!Keep(NamesIn(n)[1])
    BY DEF Filter!Refused, NamesIn
  <1> QED
    BY <1>2, <1>3, <1>4

(* Nobody counts a layer that has none in it. *)
LEMMA CountedIs ==
  ASSUME FilterTypes
  PROVE  \A m : IsFiniteSet(Counted(m)) /\ Cardinality(Counted(m)) \in Nat /\ (Cardinality(Counted(m)) = 0 <=> Counted(m) = {})
  <1> SUFFICES ASSUME NEW m
               PROVE  IsFiniteSet(Counted(m)) /\ Cardinality(Counted(m)) \in Nat
                      /\ (Cardinality(Counted(m)) = 0 <=> Counted(m) = {})
    OBVIOUS
  <1>1. started \in Nat
    BY DocumentIs DEF FilterTypes
  <1>2. IsFiniteSet(1..started)
    BY <1>1, FS_Interval
  <1>3. Counted(m) \subseteq 1..started
    BY DEF Counted
  <1>4. IsFiniteSet(Counted(m))
    BY <1>2, <1>3, FS_Subset
  <1>5. Cardinality(Counted(m)) \in Nat
    BY <1>4, FS_CardinalityType
  <1>6. Cardinality(Counted(m)) = 0 <=> Counted(m) = {}
    BY <1>4, FS_EmptySet
  <1> QED
    BY <1>4, <1>5, <1>6

LEMMA InstanceConstants == ASSUME FilterTypes PROVE Filter!Layers = 1..N /\ N \in Nat /\ started \in Nat
  BY DocumentIs DEF FilterTypes

LEMMA OneMoreChild ==
  ASSUME NEW e \in FilterElement, NEW f, f = [e EXCEPT !.has_children = TRUE, !.children_nb = @ + 1]
  PROVE  /\ f \in FilterElement /\ f.hidden = e.hidden /\ f.self_hidden = e.self_hidden
         /\ f.has_children /\ f.children_nb = e.children_nb + 1
  <1> DEFINE g == [e EXCEPT !.has_children = TRUE]
  <1>1. /\ g \in FilterElement /\ g.hidden = e.hidden /\ g.self_hidden = e.self_hidden
        /\ g.has_children /\ g.children_nb = e.children_nb
    BY DEF FilterElement
  <1>2. f = [g EXCEPT !.children_nb = e.children_nb + 1]
    OBVIOUS
  <1> HIDE DEF g
  <1>3. e.children_nb + 1 \in Nat
    BY DEF FilterElement
  <1>4. f \in FilterElement
    BY <1>1, <1>2, <1>3 DEF FilterElement
  <1>5. /\ f.hidden = g.hidden /\ f.self_hidden = g.self_hidden /\ f.has_children = g.has_children
        /\ f.children_nb = e.children_nb + 1
    BY <1>1, <1>2, <1>3 DEF FilterElement
  <1> QED
    BY <1>1, <1>4, <1>5

(* Another element begins. *)
LEMMA StartIs ==
  ASSUME FilterInv, Filter!StartElement, NEW n, n = started + 1
  PROVE  /\ n \in 1..N /\ started' = n /\ UNCHANGED <<document, database, downstream, cut>>
         /\ texts = <<>> /\ texts' = NamesIn(n)
         /\ path' \in Seq(1..N) /\ Len(path') = Len(path) + 1 /\ path'[Len(path')] = n
         /\ \A i \in DOMAIN path : path'[i] = path[i]
         /\ Inside(n) <=> path # <<>>
         /\ path # <<>> => ParentOf(n) = Filter!Top
         /\ element' \in [1..N -> FilterElement]
         /\ \A m \in 1..N : m # n => /\ element'[m].hidden = element[m].hidden
                                     /\ element'[m].self_hidden = element[m].self_hidden
                                     /\ m # ParentOf(n) => element'[m] = element[m]
         /\ Inside(n) => /\ element'[ParentOf(n)].has_children
                         /\ element'[ParentOf(n)].children_nb = element[ParentOf(n)].children_nb + 1
         /\ element'[n].hidden /\ ~element'[n].has_children /\ element'[n].children_nb = 0
         /\ element'[n].self_hidden <=> Inherits(n)
  <1>1. n \in 1..N
    BY InstanceConstants DEF FilterInv, Filter!StartElement
  <1>2. /\ started' = n /\ UNCHANGED <<document, database, downstream, cut>> /\ texts = <<>> /\ texts' = NamesIn(n)
        /\ path' = Append(path, n)
    BY DEF Filter!StartElement, NamesIn
  <1>3. ParentOf(n) = IF path = <<>> THEN 0 ELSE Filter!Top
    BY DEF Filter!StartElement, ParentOf
  <1>4. path \in Seq(1..N) /\ element \in [1..N -> FilterElement]
    BY DEF FilterInv, FilterTypes
  <1>5. path' \in Seq(1..N) /\ Len(path') = Len(path) + 1 /\ path'[Len(path')] = n /\ \A i \in DOMAIN path : path'[i] = path[i]
    BY <1>1, <1>2, <1>4
  <1>6. path # <<>> => Filter!Top \in 1..N /\ ((Len(path) > 1) <=> Inside(Filter!Top))
    BY PathIs DEF FilterInv
  <1>7. path = <<>> => ~(Len(path) > 1)
    BY <1>4
  <1>8. (Inside(n) <=> path # <<>>) /\ (path # <<>> => ParentOf(n) = Filter!Top)
    BY <1>3, <1>6, InstanceConstants DEF Inside
  <1> DEFINE p == ParentOf(n)
  <1>9. element' = [m \in 1..N |->
                      IF m = n THEN Filter!Inherit
                      ELSE IF m = p THEN [element[m] EXCEPT !.has_children = TRUE, !.children_nb = @ + 1] ELSE element[m]]
    BY InstanceConstants DEF FilterInv, Filter!StartElement, ParentOf
  <1> HIDE DEF p
  <1>10. /\ Filter!Inherit \in FilterElement /\ Filter!Inherit.hidden /\ ~Filter!Inherit.has_children
         /\ Filter!Inherit.children_nb = 0
         /\ Filter!Inherit.self_hidden <=> Len(path) > 1 /\ element[Filter!Top].self_hidden
    <2>1. CASE Len(path) > 1
      <3>1. Filter!Top \in 1..N /\ element[Filter!Top] \in FilterElement
        BY <1>4, <1>6, <1>7, <2>1
      <3> QED
        BY <2>1, <3>1 DEF Filter!Inherit, Filter!NewLayer, FilterElement
    <2>2. CASE ~(Len(path) > 1)
      BY <2>2 DEF Filter!Inherit, Filter!NewLayer, FilterElement
    <2> QED
      BY <2>1, <2>2
  <1>11. ASSUME NEW m \in 1..N
         PROVE  /\ element'[m] \in FilterElement
                /\ m # n => /\ element'[m].hidden = element[m].hidden
                            /\ element'[m].self_hidden = element[m].self_hidden
                            /\ m # p => element'[m] = element[m]
                            /\ m = p => element'[m].has_children /\ element'[m].children_nb = element[m].children_nb + 1
    <2>1. element[m] \in FilterElement
      BY <1>4
    <2>2. CASE m = n
      BY <1>9, <1>10, <2>2
    <2>3. CASE m # n /\ m = p
      <3>1. element'[m] = [element[m] EXCEPT !.has_children = TRUE, !.children_nb = @ + 1]
        BY <1>9, <2>3
      <3>2. /\ element'[m] \in FilterElement /\ element'[m].hidden = element[m].hidden
            /\ element'[m].self_hidden = element[m].self_hidden
            /\ element'[m].has_children /\ element'[m].children_nb = element[m].children_nb + 1
        <4> DEFINE e == element[m]
        <4>1. e \in FilterElement
          BY <2>1
        <4> HIDE DEF e
        <4>2. element'[m] = [e EXCEPT !.has_children = TRUE, !.children_nb = @ + 1]
          BY <3>1 DEF e
        <4> QED
          BY <4>1, <4>2, OneMoreChild DEF e
      <3> QED
        BY <2>3, <3>2
    <2>4. CASE m # n /\ m # p
      BY <1>9, <2>1, <2>4
    <2> QED
      BY <2>2, <2>3, <2>4
  <1>12. element' \in [1..N -> FilterElement]
    BY <1>9, <1>11
  <1>13. Inside(n) => p \in 1..N /\ p # n
    BY <1>1, DocumentIs DEF FilterInv, FilterTypes, p
  <1>14. element'[n] = Filter!Inherit
    BY <1>1, <1>9
  <1>15. element'[n].self_hidden <=> Inherits(n)
    BY <1>6, <1>7, <1>8, <1>10, <1>14 DEF Inherits
  <1>16. Inside(n) => element'[p].has_children /\ element'[p].children_nb = element[p].children_nb + 1
    BY <1>11, <1>13
  <1> USE DEF p
  <1> QED
    BY <1>1, <1>2, <1>5, <1>8, <1>10, <1>11, <1>12, <1>14, <1>15, <1>16

LEMMA StartKeeps == ASSUME FilterInv, Filter!StartElement PROVE FilterInv'
  <1> DEFINE n == started + 1
             last == Len(path)
  <1>1. /\ FilterTypes /\ PathInv /\ TextsInv /\ (\A m \in 1..N : NotStarted(m)) /\ (\A m \in 1..started : LayerInv(m))
        /\ document \in Document /\ N \in Nat /\ started \in Nat /\ started \in 0..N
    BY InstanceConstants DEF FilterInv, FilterTypes
  <1>2. /\ n \in 1..N /\ started' = n /\ UNCHANGED <<document, database, downstream, cut>>
        /\ texts = <<>> /\ texts' = NamesIn(n)
        /\ path' \in Seq(1..N) /\ Len(path') = last + 1 /\ path'[Len(path')] = n
        /\ \A i \in DOMAIN path : path'[i] = path[i]
        /\ Inside(n) <=> path # <<>>
        /\ path # <<>> => ParentOf(n) = Filter!Top
    BY StartIs
  <1>3. /\ element' \in [1..N -> FilterElement]
        /\ \A m \in 1..N : m # n => /\ element'[m].hidden = element[m].hidden
                                    /\ element'[m].self_hidden = element[m].self_hidden
                                    /\ m # ParentOf(n) => element'[m] = element[m]
        /\ Inside(n) => /\ element'[ParentOf(n)].has_children
                        /\ element'[ParentOf(n)].children_nb = element[ParentOf(n)].children_nb + 1
        /\ element'[n].hidden /\ ~element'[n].has_children /\ element'[n].children_nb = 0
        /\ element'[n].self_hidden <=> Inherits(n)
    BY StartIs
  <1>4. /\ N' = N /\ (Filter!StylesDiffer <=> (Filter!StylesDiffer)')
        /\ \A m : /\ ParentOf(m)' = ParentOf(m) /\ NamesIn(m)' = NamesIn(m) /\ Over(m)' = Over(m) /\ Way(m)' = Way(m)
                  /\ (Inside(m) <=> Inside(m)') /\ (Filter!Named(m) <=> Filter!Named(m)')
                  /\ (Filter!Refused(m) <=> Filter!Refused(m)')
    BY <1>2, SameDocument
  <1>5. last \in Nat /\ DOMAIN path = 1..last /\ DOMAIN path' = 1..(last + 1) /\ path' # <<>> /\ (Filter!Top)' = n
        /\ (path = <<>> <=> last = 0) /\ \A i \in 1..last : path[i] \in 1..N /\ path[i] <= started /\ path[i] # n
    <2>1. path \in Seq(1..N)
      BY <1>1 DEF FilterTypes
    <2>2. last \in Nat /\ DOMAIN path = 1..last /\ (path # <<>> <=> last > 0) /\ \A i \in DOMAIN path : path[i] \in 1..N
      <3> DEFINE T == 1..N
      <3>1. path \in Seq(T)
        BY <2>1
      <3> HIDE DEF T
      <3>2. Len(path) \in Nat /\ DOMAIN path = 1..Len(path) /\ (path # <<>> <=> Len(path) > 0) /\ \A i \in DOMAIN path : path[i] \in T
        BY <3>1, SequenceIs
      <3> QED
        BY <3>2 DEF T
    <2>3. \A i \in 1..last : path[i] <= started
      BY <1>1, <2>2 DEF PathInv
    <2>4. DOMAIN path' = 1..(last + 1) /\ path' # <<>>
      BY <1>2, <2>2, SequenceIs
    <2>5. (Filter!Top)' = n
      BY <1>2 DEF Filter!Top
    <2> QED
      BY <1>1, <2>2, <2>3, <2>4, <2>5
  <1>6. \A m \in 1..started : m \in 1..N /\ m # n /\ (Inside(m) => ParentOf(m) \in 1..started) /\ Way(m) \subseteq 1..started
    <2>1. \A m \in 1..N : (Inside(m) => ParentOf(m) \in 1..N /\ ParentOf(m) < m) /\ Way(m) \subseteq 1..m
      BY <1>1, DocumentIs, WayIs
    <2> QED
      BY <1>1, <2>1
  <1>7. Inside(n) => ParentOf(n) \in 1..started
    BY <1>1, <1>2, DocumentIs
  <1>8. path # <<>> => /\ Filter!Top \in 1..N /\ (last > 1 <=> Inside(Filter!Top))
                       /\ Way(Filter!Top) = {path[j] : j \in DOMAIN path}
                       /\ \A j \in Way(Filter!Top) : Inside(j) /\ element[j].self_hidden => element[Filter!Top].self_hidden
    BY <1>1, PathIs
  <1>9. \A m \in 1..started : Inherits(m)' <=> Inherits(m)
    BY <1>3, <1>4, <1>6 DEF Inherits
  <1>10. \A m \in 1..N : m = n => (Inherits(m)' <=> Inherits(m))
    <2>1. Inside(n) => ParentOf(n) \in 1..N /\ ParentOf(n) # n
      BY <1>6, <1>7
    <2> SUFFICES ASSUME NEW m \in 1..N, m = n PROVE Inherits(m)' <=> Inherits(m)
      OBVIOUS
    <2> QED
      BY <1>3, <1>4, <2>1 DEF Inherits
  <1>11. \A m : OnPath(m)' <=> OnPath(m) \/ m = n
    <2>1. DOMAIN path' = DOMAIN path \cup {last + 1} /\ path'[last + 1] = n
      BY <1>2, <1>5
    <2> QED
      BY <1>2, <2>1 DEF OnPath
  <1> HIDE DEF n, last
  <1>12. FilterTypes'
    <2>1. texts' \in Seq(DOMAIN Local)
      BY <1>1, <1>2, DocumentIs
    <2>2. downstream' \in SUBSET (1..started') /\ started' \in 0..N
      BY <1>1, <1>2 DEF FilterTypes, n
    <2> QED
      BY <1>1, <1>2, <1>3, <1>4, <2>1, <2>2 DEF FilterTypes
  <1>13. PathInv'
    <2>1. ASSUME NEW i \in DOMAIN path'
          PROVE  /\ path'[i] <= started' /\ Over(path'[i]) = {path'[j] : j \in 1..(i - 1)}
                 /\ ParentOf(path'[i]) = IF i = 1 THEN 0 ELSE path'[i - 1]
      <3>1. CASE i \in 1..last
        <4>1. path'[i] = path[i] /\ path[i] <= started /\ Over(path[i]) = {path[j] : j \in 1..(i - 1)}
              /\ ParentOf(path[i]) = IF i = 1 THEN 0 ELSE path[i - 1]
          BY <1>1, <1>2, <1>5, <3>1 DEF PathInv
        <4>2. \A j \in 1..(i - 1) : path'[j] = path[j]
          <5>1. i \in Nat /\ i <= last /\ last \in Nat
            BY <1>5, <3>1
          <5>2. \A j \in 1..(i - 1) : j \in 1..last
            BY <5>1
          <5> QED
            BY <1>2, <1>5, <5>2
        <4>3. {path'[j] : j \in 1..(i - 1)} = {path[j] : j \in 1..(i - 1)}
          BY <4>2
        <4>4. i # 1 => i - 1 \in 1..(i - 1)
          BY <1>5, <3>1
        <4> QED
          BY <1>1, <1>2, <4>1, <4>2, <4>3, <4>4 DEF n
      <3>2. CASE i = last + 1
        <4>1. path'[i] = n /\ i - 1 = last
          BY <1>2, <1>5, <3>2
        <4>2. {path'[j] : j \in 1..(i - 1)} = {path[j] : j \in DOMAIN path}
          BY <1>2, <1>5, <4>1
        <4>3. Over(n) = IF Inside(n) THEN Way(ParentOf(n)) ELSE {}
          BY <1>1, <1>2, OverIs DEF Way
        <4>4. Over(n) = {path[j] : j \in DOMAIN path}
          BY <1>2, <1>5, <1>8, <4>3
        <4>5. ParentOf(n) = IF i = 1 THEN 0 ELSE path'[i - 1]
          <5>1. CASE path = <<>>
            BY <1>2, <1>5, <3>2, <5>1 DEF Inside
          <5>2. CASE path # <<>>
            BY <1>2, <1>5, <3>2, <5>2 DEF Filter!Top, last
          <5> QED
            BY <5>1, <5>2
        <4> QED
          <5>1. path'[i] <= started'
            BY <1>1, <1>2, <4>1
          <5>2. Over(path'[i]) = {path'[j] : j \in 1..(i - 1)}
            BY <4>1, <4>2, <4>4
          <5>3. ParentOf(path'[i]) = IF i = 1 THEN 0 ELSE path'[i - 1]
            BY <4>1, <4>5
          <5> QED
            BY <5>1, <5>2, <5>3
      <3>3. i \in 1..last \/ i = last + 1
        <4>1. last \in Nat /\ i \in 1..(last + 1)
          BY <1>5, <2>1
        <4> QED
          BY <4>1
      <3> QED
        BY <3>1, <3>2, <3>3
    <2>2. ASSUME NEW i \in DOMAIN path', NEW j \in DOMAIN path', 1 < i, i < j, element'[path'[i]].self_hidden
          PROVE  element'[path'[j]].self_hidden
      <3>1. i \in 1..last /\ path'[i] = path[i] /\ element[path[i]].self_hidden
        BY <1>2, <1>3, <1>5, <2>2
      <3>2. CASE j \in 1..last
        <4>1. element[path[j]].self_hidden
          BY <1>1, <1>5, <2>2, <3>1, <3>2 DEF PathInv
        <4> QED
          BY <1>2, <1>3, <1>5, <3>2, <4>1
      <3>3. CASE j = last + 1
        <4>1. path # <<>> /\ last > 1
          BY <1>5, <2>2, <3>1
        <4>2. path[i] \in Way(Filter!Top)
          BY <1>5, <1>8, <3>1, <4>1
        <4>3. ParentOf(path[i]) = path[i - 1] /\ i - 1 \in 1..last
          BY <1>1, <1>5, <2>2, <3>1 DEF PathInv
        <4>4. Inside(path[i])
          BY <1>5, <4>3 DEF Inside
        <4>5. element[Filter!Top].self_hidden
          BY <1>8, <3>1, <4>1, <4>2, <4>4
        <4>6. Inherits(n)
          BY <1>2, <1>8, <4>1, <4>5 DEF Inherits
        <4> QED
          BY <1>2, <1>3, <3>3, <4>6
      <3> QED
        BY <1>5, <3>2, <3>3
    <2> QED
      BY <1>4, <2>1, <2>2 DEF PathInv
  <1>14. TextsInv'
    <2>1. (Filter!Top)' \in 1..N /\ (Filter!Top)' = n
      BY <1>2, <1>5
    <2>2. NamesIn(Filter!Top)' = texts' /\ (Inherits(Filter!Top)' <=> Inherits(n))
      BY <1>2, <1>4, <1>10, <2>1 DEF NamesIn, Inherits, Inside, ParentOf
    <2>3. element'[(Filter!Top)'].hidden /\ (element'[(Filter!Top)'].self_hidden <=> Inherits(n))
      BY <1>3, <2>1
    <2>4. texts' # <<>> => Filter!Named(Filter!Top)'
      BY <2>2 DEF Filter!Named, NamesIn
    <2> QED
      BY <1>2, <1>5, <2>1, <2>2, <2>3, <2>4 DEF TextsInv
  <1>15. \A m \in 1..N : NotStarted(m)'
    <2> SUFFICES ASSUME NEW m \in 1..N, m > started' PROVE element'[m] = Filter!NewLayer
      BY DEF NotStarted, Filter!NewLayer
    <2>1. m # n /\ m > started /\ m \in Nat
      BY <1>1, <1>2 DEF n
    <2>2. m # ParentOf(n)
      BY <1>1, <1>7, <2>1 DEF Inside
    <2> QED
      BY <1>1, <1>3, <2>1, <2>2 DEF NotStarted
  <1>16. \A m \in 1..N : Filter!Named(m) => Looked(m)
    <2>1. \A m \in 1..N : Filter!Named(m) => Len(NamesIn(m)) > 0
      BY <1>1, NamesAre
    <2>2. Len(texts) = 0
      BY <1>2
    <2> QED
      BY <2>1, <2>2 DEF Looked
  <1>17. ASSUME NEW m \in 1..started PROVE LayerInv(m)'
    <2>1. LayerInv(m) /\ m \in 1..N /\ m # n
      BY <1>1, <1>6
    <2>2. \A k \in Way(m) : /\ k \in 1..N /\ k # n /\ element'[k].hidden = element[k].hidden
                            /\ element'[k].self_hidden = element[k].self_hidden
                            /\ k # ParentOf(n) => element'[k] = element[k]
      BY <1>3, <1>6
    <2>3. element'[m].hidden = element[m].hidden /\ element'[m].self_hidden = element[m].self_hidden
      BY <1>3, <2>1
    <2>4. RefusedInv(m)'
      BY <1>2, <1>4, <1>16, <2>1, <2>3 DEF RefusedInv, LayerInv
    <2>5. InheritInv(m)'
      BY <1>9, <2>1, <2>3 DEF InheritInv, LayerInv
    <2>6. VisibleInv(m)'
      <3>1. ~element'[m].hidden => \E k \in 1..started : Leads(m, k)
        BY <2>1, <2>3 DEF VisibleInv, LayerInv
      <3>2. \A k : Leads(m, k)' <=> Leads(m, k)
        BY <1>2, <1>4 DEF Leads, MayBeSeen
      <3>3. \A k \in 1..started : k \in 1..started'
        BY <1>1, <1>2 DEF n
      <3> QED
        BY <3>1, <3>2, <3>3 DEF VisibleInv
    <2>7. SeenInv(m)'
      BY <1>2, <1>4, <1>9, <1>16, <2>1, <2>2 DEF SeenInv, LayerInv
    <2>8. ReasonInv(m)'
      BY <1>2, <1>4, <2>1, <2>3 DEF ReasonInv, LayerInv
    <2>9. NotBothInv(m)'
      BY <1>2, <1>4, <2>1, <2>3 DEF NotBothInv, LayerInv
    <2>10. ChildrenInv(m)'
      <3>1. \A k \in 1..started' : k \in 1..started \/ k = n
        BY <1>1, <1>2 DEF n
      <3>2. \A k \in 1..started : /\ k \in 1..started' /\ k # n
                                 /\ element'[k].self_hidden = element[k].self_hidden
        BY <1>1, <1>2, <1>3, <1>6 DEF n
      <3>3. n \in 1..started' /\ n \notin 1..started
        BY <1>1, <1>2 DEF n
      <3>4. ChildrenInv(m) /\ element[m] \in FilterElement
        BY <1>1, <2>1 DEF LayerInv, FilterTypes
      <3>5. CASE m = ParentOf(n)
        <4>1. Inside(n)
          BY <1>1, <2>1, <3>5, DocumentIs DEF Inside
        <4>2. element'[n].self_hidden => Inside(m) /\ element'[m].self_hidden
          BY <1>3, <2>3, <3>5 DEF Inherits
        <4>3. Counted(m)' = Counted(m) \cup {n}
          <5>1. ASSUME NEW k \in Counted(m)' PROVE k \in Counted(m) \cup {n}
            BY <1>4, <2>3, <3>1, <3>2 DEF Counted
          <5>2. ASSUME NEW k \in Counted(m) \cup {n} PROVE k \in Counted(m)'
            BY <1>4, <2>3, <3>2, <3>3, <3>5, <4>2 DEF Counted
          <5> QED
            BY <5>1, <5>2
        <4>4. n \notin Counted(m)
          BY <3>3 DEF Counted
        <4>5. Cardinality(Counted(m)') = Cardinality(Counted(m)) + 1
          BY <1>1, <4>3, <4>4, CountedIs, FS_AddElement
        <4>6. element'[m].has_children /\ element'[m].children_nb = element[m].children_nb + 1
          BY <1>3, <3>5, <4>1
        <4>7. ParentOf(n) = m
          BY <3>5
        <4> QED
          BY <1>4, <3>3, <3>4, <4>5, <4>6, <4>7 DEF ChildrenInv
      <3>6. CASE m # ParentOf(n)
        <4>1. element'[m] = element[m]
          BY <1>3, <2>1, <3>6
        <4>2. Counted(m)' = Counted(m)
          <5>1. ASSUME NEW k \in Counted(m)' PROVE k \in Counted(m)
            BY <1>4, <2>3, <3>1, <3>2, <3>6 DEF Counted
          <5>2. ASSUME NEW k \in Counted(m) PROVE k \in Counted(m)'
            BY <1>4, <2>3, <3>2 DEF Counted
          <5> QED
            BY <5>1, <5>2
        <4>3. (\E k \in 1..started : ParentOf(k) = m) <=> \E k \in 1..started' : ParentOf(k) = m
          BY <3>1, <3>2, <3>6
        <4> QED
          BY <1>4, <3>4, <4>1, <4>2, <4>3 DEF ChildrenInv
      <3> QED
        BY <3>5, <3>6
    <2>11. WrittenInv(m)'
      <3>1. \A k \in Way(m) : ~OnPath(k) => (Stays(k)' <=> Stays(k))
        <4> SUFFICES ASSUME NEW k \in Way(m), ~OnPath(k) PROVE Stays(k)' <=> Stays(k)
          OBVIOUS
        <4>1. k # ParentOf(n)
          <5>1. ASSUME k = ParentOf(n) PROVE FALSE
            <6>0. k # 0
              BY <1>1, <2>2
            <6>1. path # <<>> /\ k = Filter!Top
              BY <1>2, <5>1, <6>0 DEF Inside
            <6>2. k \in Way(Filter!Top)
              BY <6>1 DEF Way
            <6>3. OnPath(k)
              BY <1>1, <6>1, <6>2, PathIs
            <6> QED
              BY <6>3
          <5> QED
            BY <5>1
        <4>2. element'[k] = element[k]
          BY <2>2, <4>1
        <4> QED
          BY <1>4, <4>2 DEF Stays, Filter!Added
      <3>2. \A k \in Way(m) : OnPath(k)' <=> OnPath(k)
        BY <1>11, <2>2
      <3>3. m \in downstream <=> \A k \in Way(m) : ~OnPath(k) /\ Stays(k)
        BY <2>1 DEF LayerInv, WrittenInv
      <3> QED
        BY <1>2, <1>4, <3>1, <3>2, <3>3 DEF WrittenInv
    <2> QED
      BY <2>4, <2>5, <2>6, <2>7, <2>8, <2>9, <2>10, <2>11 DEF LayerInv
  <1>18. ASSUME NEW m \in 1..N, m = n PROVE LayerInv(m)'
    <2>1. element'[m].hidden /\ ~element'[m].has_children /\ element'[m].children_nb = 0
          /\ (element'[m].self_hidden <=> Inherits(n))
      BY <1>3, <1>18
    <2>2. ~Looked(m)'
      <3>1. Len(texts') = Len(NamesIn(m)) /\ Len(NamesIn(m)) \in Nat
        BY <1>1, <1>2, <1>18, NamesAre
      <3>2. NamesIn(m)' = NamesIn(m)
        BY <1>4
      <3>3. m = (Filter!Top)' /\ path' # <<>>
        BY <1>5, <1>18
      <3> QED
        BY <3>1, <3>2, <3>3 DEF Looked
    <2>3. RefusedInv(m)' /\ SeenInv(m)'
      BY <2>2 DEF RefusedInv, SeenInv
    <2>4. InheritInv(m)'
      BY <1>10, <1>18, <2>1 DEF InheritInv
    <2>5. VisibleInv(m)' /\ NotBothInv(m)'
      BY <2>1 DEF VisibleInv, NotBothInv
    <2>6. ReasonInv(m)'
      <3> SUFFICES ASSUME Filter!StylesDiffer, cut = {}, Inherits(n)
                   PROVE  \E k \in Way(m) : Filter!Refused(k) /\ (k = m \/ Inside(k))
        BY <1>2, <1>4, <2>1 DEF ReasonInv
      <3>1. Inside(n) /\ Inside(ParentOf(n)) /\ element[ParentOf(n)].self_hidden
        BY DEF Inherits
      <3>2. ParentOf(n) \in 1..started /\ LayerInv(ParentOf(n))
        BY <1>1, <1>7, <3>1
      <3>3. PICK k \in Way(ParentOf(n)) : Filter!Refused(k) /\ (k = ParentOf(n) \/ Inside(k))
        BY <3>1, <3>2 DEF LayerInv, ReasonInv
      <3>4. k \in Way(m)
        BY <1>1, <1>2, <1>18, <3>1, <3>3, OverIs DEF Way
      <3> QED
        BY <3>1, <3>3, <3>4
    <2>7. ChildrenInv(m)'
      <3>1. \A k \in 1..started' : ParentOf(k)' # m
        <4> SUFFICES ASSUME NEW k \in 1..started', ParentOf(k) = m PROVE FALSE
          BY <1>4
        <4>1. k \in 1..N /\ k <= n
          BY <1>1, <1>2
        <4>2. ParentOf(k) \in 0..(k - 1)
          BY <1>1, <4>1, DocumentIs
        <4> QED
          BY <1>1, <1>2, <1>18, <4>1, <4>2
      <3>2. Counted(m)' = {}
        BY <3>1 DEF Counted
      <3>3. Cardinality({}) = 0
        BY FS_EmptySet
      <3> QED
        BY <2>1, <3>1, <3>2, <3>3 DEF ChildrenInv
    <2>8. WrittenInv(m)'
      <3>1. m \in Way(m)' /\ OnPath(m)'
        BY <1>4, <1>11, <1>18 DEF Way
      <3>2. m \notin downstream'
        BY <1>1, <1>2, <1>18 DEF FilterTypes, n
      <3> QED
        BY <3>1, <3>2 DEF WrittenInv
    <2> QED
      BY <2>3, <2>4, <2>5, <2>6, <2>7, <2>8 DEF LayerInv
  <1>19. \A m \in 1..started' : LayerInv(m)'
    <2>1. \A m \in 1..started' : m \in 1..started \/ m = n
      BY <1>1, <1>2 DEF n
    <2> QED
      BY <1>2, <1>17, <1>18, <2>1
  <1> QED
    BY <1>4, <1>12, <1>13, <1>14, <1>15, <1>19 DEF FilterInv

(* The parser cuts a name. *)
LEMMA CutKeeps == ASSUME FilterInv, Filter!Cut PROVE FilterInv'
  <1>1. /\ FilterTypes /\ PathInv /\ TextsInv /\ (\A m \in 1..N : NotStarted(m)) /\ (\A m \in 1..started : LayerInv(m))
        /\ N \in Nat /\ texts # <<>> /\ cut = {} /\ cut' = {Filter!Top} /\ texts' = <<Piece, Piece>> \o Tail(texts)
        /\ UNCHANGED <<document, database, started, path, element, downstream>>
    BY InstanceConstants DEF FilterInv, Filter!Cut
  <1>2. /\ N' = N /\ (Filter!StylesDiffer <=> (Filter!StylesDiffer)')
        /\ \A m : /\ ParentOf(m)' = ParentOf(m) /\ NamesIn(m)' = NamesIn(m) /\ Over(m)' = Over(m) /\ Way(m)' = Way(m)
                  /\ (Inside(m) <=> Inside(m)') /\ (Filter!Named(m) <=> Filter!Named(m)')
                  /\ (Filter!Refused(m) <=> Filter!Refused(m)')
    BY <1>1, SameDocument
  <1>3. path # <<>> /\ Filter!Top = started /\ Filter!Top \in 1..N /\ Filter!Named(Filter!Top)
    BY <1>1, PathIs DEF TextsInv
  <1>4. (Filter!Top)' = Filter!Top
    BY <1>1 DEF Filter!Top
  <1>5. FilterTypes'
    <2> DEFINE T == DOMAIN Local
    <2>1. Piece \in T /\ texts \in Seq(T)
      BY <1>1, PortalAssumption DEF FilterTypes, Filter!CapabilitiesFilterAssumption
    <2> HIDE DEF T
    <2>2. texts' \in Seq(T)
      <3>1. Tail(texts) \in Seq(T) /\ <<Piece, Piece>> \in Seq(T)
        BY <1>1, <2>1
      <3> QED
        BY <1>1, <3>1
    <2> QED
      BY <1>1, <1>2, <1>3, <2>2 DEF FilterTypes, T
  <1>6. PathInv'
    BY <1>1, <1>2 DEF PathInv
  <1>7. TextsInv'
    <2>1. (Filter!Top)' \in cut' /\ Filter!Named(Filter!Top)'
      BY <1>1, <1>3, <1>4 DEF Filter!Named
    <2> QED
      BY <1>1, <1>3, <1>4, <2>1 DEF TextsInv
  <1>8. \A m \in 1..N : NotStarted(m)'
    BY <1>1 DEF NotStarted, Filter!NewLayer
  <1>9. ASSUME NEW m \in 1..started PROVE LayerInv(m)'
    <2>1. LayerInv(m)
      BY <1>1
    <2>2. m \notin cut' => Looked(m)
      BY <1>1 DEF Looked
    <2>3. Inherits(m)' <=> Inherits(m)
      BY <1>1, <1>2 DEF Inherits, Inside, ParentOf
    <2>4. RefusedInv(m)' /\ InheritInv(m)'
      BY <1>1, <1>2, <2>1, <2>2, <2>3 DEF LayerInv, RefusedInv, InheritInv
    <2>5. VisibleInv(m)'
      <3>1. \A k : Leads(m, k) => Leads(m, k)'
        BY <1>1, <1>2 DEF Leads, MayBeSeen
      <3> QED
        BY <1>1, <2>1, <3>1 DEF LayerInv, VisibleInv
    <2>6. SeenInv(m)'
      BY <1>1, <1>2, <2>1, <2>2, <2>3 DEF LayerInv, SeenInv
    <2>7. ReasonInv(m)'
      BY <1>1 DEF ReasonInv
    <2>8. NotBothInv(m)'
      BY <1>1, <1>2, <2>1 DEF LayerInv, NotBothInv
    <2>9. ChildrenInv(m)'
      <3>1. Counted(m)' = Counted(m)
        BY <1>1, <1>2 DEF Counted
      <3> QED
        BY <1>1, <1>2, <2>1, <3>1 DEF LayerInv, ChildrenInv
    <2>10. WrittenInv(m)'
      <3>1. \A k : (OnPath(k)' <=> OnPath(k)) /\ (Stays(k)' <=> Stays(k))
        BY <1>1, <1>2 DEF OnPath, Stays, Filter!Added
      <3> QED
        BY <1>1, <1>2, <2>1, <3>1 DEF LayerInv, WrittenInv
    <2> QED
      BY <2>4, <2>5, <2>6, <2>7, <2>8, <2>9, <2>10 DEF LayerInv
  <1>10. \A m \in 1..started' : LayerInv(m)'
    BY <1>1, <1>9
  <1> QED
    BY <1>2, <1>5, <1>6, <1>7, <1>8, <1>10 DEF FilterInv

LEMMA SeqTail ==
  ASSUME NEW T, NEW s \in Seq(T), s # <<>>
  PROVE  /\ Tail(s) \in Seq(T) /\ Len(Tail(s)) < Len(s) /\ Len(s) \in Nat
         /\ \A i \in DOMAIN Tail(s) : i + 1 \in 2..Len(s) /\ i + 1 \in DOMAIN s /\ Tail(s)[i] = s[i + 1]
  OBVIOUS

LEMMA SeqFront ==
  ASSUME NEW T, NEW s \in Seq(T), s # <<>>, NEW f, f = SubSeq(s, 1, Len(s) - 1)
  PROVE  /\ f \in Seq(T) /\ DOMAIN f = 1..(Len(s) - 1)
         /\ \A i \in 1..(Len(s) - 1) : f[i] = s[i] /\ i \in DOMAIN s
  <1>1. Len(s) \in Nat /\ Len(s) > 0 /\ DOMAIN s = 1..Len(s) /\ \A i \in 1..Len(s) : s[i] \in T
    OBVIOUS
  <1>2. \A i \in 1..(Len(s) - 1) : i \in 1..Len(s)
    BY <1>1
  <1>3. f = [i \in 1..(Len(s) - 1) |-> s[i]]
    BY <1>1
  <1>4. Len(s) - 1 \in Nat
    BY <1>1
  <1> QED
    BY <1>1, <1>2, <1>3, <1>4

(* A text of a name is read: what the filter knows then of the layer. *)
LEMMA CharactersAre ==
  ASSUME FilterInv, Filter!Characters, NEW top, top = Filter!Top
  PROVE  /\ UNCHANGED <<document, database, started, path, downstream, cut>> /\ texts' \in Seq(DOMAIN Local)
         /\ path # <<>> /\ top = started /\ top \in 1..N /\ Filter!Named(top) /\ TextsInv'
         /\ \A m : m # top => Looked(m)
         /\ \/ top \in cut
            \/ /\ Filter!Keep(Head(texts)) <=> ~Filter!Refused(top)
               /\ element[top].hidden /\ (element[top].self_hidden <=> Inherits(top))
            \/ Looked(top) /\ (Filter!StylesDiffer => Filter!Keep(Head(texts)))
  <1>1. /\ FilterTypes /\ TextsInv /\ texts # <<>> /\ texts' = Tail(texts)
        /\ UNCHANGED <<document, database, started, path, downstream, cut>>
    BY DEF FilterInv, Filter!Characters
  <1>2. path # <<>> /\ top = started /\ Filter!Named(top)
    BY <1>1 DEF TextsInv
  <1>3. top \in 1..N
    BY <1>1, <1>2, PathIs DEF FilterInv
  <1> DEFINE names == NamesIn(top)
  <1>4. names \in Seq(DOMAIN Local) /\ texts \in Seq(DOMAIN Local)
    BY <1>1, <1>3, DocumentIs DEF FilterTypes
  <1>5. Len(names) \in Nat /\ Len(names) > 0 /\ (Filter!Refused(top) <=> ~Filter!Keep(names[1]))
    BY <1>1, <1>2, <1>3, NamesAre
  <1> HIDE DEF names
  <1>6. /\ Tail(texts) \in Seq(DOMAIN Local) /\ Len(Tail(texts)) < Len(texts) /\ Len(texts) \in Nat /\ Len(Tail(texts)) \in Nat
        /\ \A i \in DOMAIN Tail(texts) : i + 1 \in 2..Len(texts) /\ i + 1 \in DOMAIN texts /\ Tail(texts)[i] = texts[i + 1]
    BY <1>1, <1>4, SeqTail
  <1>7. \/ top \in cut
        \/ texts = names /\ element[top].hidden /\ (element[top].self_hidden <=> Inherits(top))
        \/ Len(texts) < Len(names) /\ \A i \in DOMAIN texts : \E j \in 2..Len(names) : texts[i] = names[j]
    BY <1>1 DEF TextsInv, names
  <1>8. \/ top \in cut
        \/ Len(texts') < Len(names) /\ \A i \in DOMAIN texts' : \E j \in 2..Len(names) : texts'[i] = names[j]
    <2>1. CASE texts = names
      BY <1>1, <1>6, <2>1
    <2>2. CASE Len(texts) < Len(names) /\ \A i \in DOMAIN texts : \E j \in 2..Len(names) : texts[i] = names[j]
      <3>1. Len(texts') < Len(names)
        BY <1>1, <1>5, <1>6, <2>2
      <3>2. \A i \in DOMAIN texts' : i + 1 \in DOMAIN texts /\ texts'[i] = texts[i + 1]
        BY <1>1, <1>6
      <3> QED
        BY <2>2, <3>1, <3>2
    <2> QED
      BY <1>7, <2>1, <2>2
  <1>9. (Filter!Top)' = top /\ NamesIn(Filter!Top)' = names /\ Filter!Named(Filter!Top)'
    BY <1>1, <1>2 DEF Filter!Top, Filter!Named, NamesIn, names
  <1>10. TextsInv'
    BY <1>1, <1>2, <1>8, <1>9 DEF TextsInv
  <1>11. \A m : m # top => Looked(m)
    BY DEF Looked
  <1>12. Filter!StylesDiffer => \A j \in 2..Len(names) : Filter!Keep(names[j])
    BY <1>1, <1>3, InstanceConstants DEF Filter!StylesDiffer, NamesIn, names
  <1>13. CASE texts = names /\ element[top].hidden /\ (element[top].self_hidden <=> Inherits(top))
    <2>1. Head(texts) = names[1]
      BY <1>13
    <2> QED
      BY <1>1, <1>2, <1>3, <1>5, <1>6, <1>10, <1>11, <1>13, <2>1
  <1>14. CASE Len(texts) < Len(names) /\ \A i \in DOMAIN texts : \E j \in 2..Len(names) : texts[i] = names[j]
    <2>1. Looked(top)
      BY <1>14 DEF Looked, names
    <2>2. 1 \in DOMAIN texts /\ Head(texts) = texts[1]
      BY <1>1, <1>4
    <2>3. Filter!StylesDiffer => Filter!Keep(Head(texts))
      BY <1>12, <1>14, <2>2
    <2> QED
      BY <1>1, <1>2, <1>3, <1>6, <1>10, <1>11, <2>1, <2>3
  <1>15. CASE top \in cut
    BY <1>1, <1>2, <1>3, <1>6, <1>10, <1>11, <1>15
  <1> QED
    BY <1>7, <1>13, <1>14, <1>15

(* A text of a layer that is hidden already. *)
LEMMA HiddenKeeps ==
  ASSUME FilterInv, Filter!Characters, element' = element, element[Filter!Top].self_hidden
  PROVE  FilterInv'
  <1> DEFINE top == Filter!Top
  <1>1. /\ FilterTypes /\ PathInv /\ (\A m \in 1..N : NotStarted(m)) /\ (\A m \in 1..started : LayerInv(m))
        /\ N \in Nat /\ element' = element /\ element[top].self_hidden
    BY InstanceConstants DEF FilterInv
  <1>2. /\ UNCHANGED <<document, database, started, path, downstream, cut>> /\ texts' \in Seq(DOMAIN Local)
        /\ path # <<>> /\ top = started /\ top \in 1..N /\ Filter!Named(top) /\ TextsInv'
        /\ \A m : m # top => Looked(m)
        /\ \/ top \in cut
           \/ /\ Filter!Keep(Head(texts)) <=> ~Filter!Refused(top)
              /\ element[top].hidden /\ (element[top].self_hidden <=> Inherits(top))
           \/ Looked(top) /\ (Filter!StylesDiffer => Filter!Keep(Head(texts)))
    BY CharactersAre
  <1> HIDE DEF top
  <1>3. /\ N' = N /\ (Filter!StylesDiffer <=> (Filter!StylesDiffer)')
        /\ \A m : /\ ParentOf(m)' = ParentOf(m) /\ NamesIn(m)' = NamesIn(m) /\ Over(m)' = Over(m) /\ Way(m)' = Way(m)
                  /\ (Inside(m) <=> Inside(m)') /\ (Filter!Named(m) <=> Filter!Named(m)')
                  /\ (Filter!Refused(m) <=> Filter!Refused(m)')
    BY <1>2, SameDocument
  <1>4. FilterTypes'
    BY <1>1, <1>2, <1>3 DEF FilterTypes
  <1>5. PathInv'
    BY <1>1, <1>2, <1>3 DEF PathInv
  <1>6. \A m \in 1..N : NotStarted(m)'
    BY <1>1, <1>2 DEF NotStarted, Filter!NewLayer
  <1>7. ASSUME NEW m \in 1..started PROVE LayerInv(m)'
    <2>1. LayerInv(m)
      BY <1>1
    <2>2. Inherits(m)' <=> Inherits(m)
      BY <1>1, <1>3 DEF Inherits
    <2>3. RefusedInv(m)' /\ InheritInv(m)'
      BY <1>1, <1>2, <1>3, <2>1, <2>2 DEF LayerInv, RefusedInv, InheritInv
    <2>4. VisibleInv(m)'
      <3>1. \A k : Leads(m, k) <=> Leads(m, k)'
        BY <1>2, <1>3 DEF Leads, MayBeSeen
      <3> QED
        BY <1>1, <1>2, <2>1, <3>1 DEF LayerInv, VisibleInv
    <2>5. SeenInv(m)'
      <3>1. CASE Looked(m)
        BY <1>1, <1>2, <1>3, <2>1, <2>2, <3>1 DEF LayerInv, SeenInv
      <3>2. CASE ~Looked(m)
        BY <1>1, <1>2, <1>3, <2>2, <3>2 DEF SeenInv
      <3> QED
        BY <3>1, <3>2
    <2>6. ReasonInv(m)' /\ NotBothInv(m)'
      BY <1>1, <1>2, <1>3, <2>1 DEF LayerInv, ReasonInv, NotBothInv
    <2>7. ChildrenInv(m)'
      <3>1. Counted(m)' = Counted(m)
        BY <1>1, <1>2, <1>3 DEF Counted
      <3> QED
        BY <1>1, <1>2, <1>3, <2>1, <3>1 DEF LayerInv, ChildrenInv
    <2>8. WrittenInv(m)'
      <3>1. \A k : (OnPath(k)' <=> OnPath(k)) /\ (Stays(k)' <=> Stays(k))
        BY <1>1, <1>2, <1>3 DEF OnPath, Stays, Filter!Added
      <3> QED
        BY <1>2, <1>3, <2>1, <3>1 DEF LayerInv, WrittenInv
    <2> QED
      BY <2>3, <2>4, <2>5, <2>6, <2>7, <2>8 DEF LayerInv
  <1>8. \A m \in 1..started' : LayerInv(m)'
    BY <1>2, <1>7
  <1> QED
    BY <1>2, <1>3, <1>4, <1>5, <1>6, <1>8 DEF FilterInv

LEMMA ElementShown ==
  ASSUME NEW e \in FilterElement, NEW f, f = [e EXCEPT !.hidden = FALSE]
  PROVE  /\ f \in FilterElement /\ ~f.hidden /\ f.self_hidden = e.self_hidden
         /\ f.has_children = e.has_children /\ f.children_nb = e.children_nb
  BY DEF FilterElement

(* A name that is kept. *)
LEMMA ShowKeeps ==
  ASSUME FilterInv, Filter!Characters, element' = Filter!Show, ~element[Filter!Top].self_hidden,
         Filter!Keep(Head(texts))
  PROVE  FilterInv'
  <1> DEFINE top == Filter!Top
  <1>1. /\ FilterTypes /\ PathInv /\ (\A m \in 1..N : NotStarted(m)) /\ (\A m \in 1..started : LayerInv(m))
        /\ N \in Nat /\ ~element[top].self_hidden /\ Filter!Keep(Head(texts)) /\ element \in [1..N -> FilterElement]
        /\ document \in Document
    BY InstanceConstants DEF FilterInv, FilterTypes
  <1>2. /\ UNCHANGED <<document, database, started, path, downstream, cut>> /\ texts' \in Seq(DOMAIN Local)
        /\ path # <<>> /\ top = started /\ top \in 1..N /\ Filter!Named(top) /\ TextsInv'
        /\ \A m : m # top => Looked(m)
        /\ \/ top \in cut
           \/ /\ Filter!Keep(Head(texts)) <=> ~Filter!Refused(top)
              /\ element[top].hidden /\ (element[top].self_hidden <=> Inherits(top))
           \/ Looked(top) /\ (Filter!StylesDiffer => Filter!Keep(Head(texts)))
    BY CharactersAre
  <1>3. /\ N' = N /\ (Filter!StylesDiffer <=> (Filter!StylesDiffer)')
        /\ \A m : /\ ParentOf(m)' = ParentOf(m) /\ NamesIn(m)' = NamesIn(m) /\ Over(m)' = Over(m) /\ Way(m)' = Way(m)
                  /\ (Inside(m) <=> Inside(m)') /\ (Filter!Named(m) <=> Filter!Named(m)')
                  /\ (Filter!Refused(m) <=> Filter!Refused(m)')
    BY <1>2, SameDocument
  <1>4. /\ \A m : OnPath(m) <=> m \in Way(top)
        /\ \A j \in Way(top) : Inside(j) => ~element[j].self_hidden
    BY <1>1, <1>2, PathIs
  <1>5. element' = [m \in 1..N |-> IF OnPath(m) THEN [element[m] EXCEPT !.hidden = FALSE] ELSE element[m]]
    BY <1>1, InstanceConstants DEF Filter!Show, OnPath
  <1> HIDE DEF top
  <1>6. \A m \in 1..N : /\ element'[m] \in FilterElement
                        /\ OnPath(m) => ~element'[m].hidden
                        /\ ~OnPath(m) => element'[m] = element[m]
                        /\ element'[m].self_hidden = element[m].self_hidden
                        /\ element'[m].has_children = element[m].has_children
                        /\ element'[m].children_nb = element[m].children_nb
    <2> SUFFICES ASSUME NEW m \in 1..N
                 PROVE  /\ element'[m] \in FilterElement
                        /\ OnPath(m) => ~element'[m].hidden
                        /\ ~OnPath(m) => element'[m] = element[m]
                        /\ element'[m].self_hidden = element[m].self_hidden
                        /\ element'[m].has_children = element[m].has_children
                        /\ element'[m].children_nb = element[m].children_nb
      OBVIOUS
    <2>1. element[m] \in FilterElement
      BY <1>1
    <2>2. CASE OnPath(m)
      <3>1. element'[m] = [element[m] EXCEPT !.hidden = FALSE]
        BY <1>5, <2>2
      <3> QED
        BY <2>1, <2>2, <3>1, ElementShown
    <2>3. CASE ~OnPath(m)
      BY <1>5, <2>1, <2>3
    <2> QED
      BY <2>2, <2>3
  <1>7. \A m \in 1..started : m \in 1..N /\ (Inside(m) => ParentOf(m) \in 1..N) /\ Way(m) \subseteq 1..N
    <2>1. \A m \in 1..N : (Inside(m) => ParentOf(m) \in 1..N) /\ Way(m) \subseteq 1..m
      BY <1>1, DocumentIs, WayIs
    <2>2. started \in 0..N
      BY <1>1 DEF FilterTypes
    <2> QED
      BY <1>1, <2>1, <2>2
  <1>8. FilterTypes'
    <2>1. element' \in [1..N -> FilterElement]
      BY <1>5, <1>6
    <2> QED
      BY <1>1, <1>2, <1>3, <2>1 DEF FilterTypes
  <1>9. PathInv'
    <2>1. \A i \in DOMAIN path : element'[path[i]].self_hidden = element[path[i]].self_hidden
      BY <1>1, <1>6 DEF FilterTypes
    <2> QED
      BY <1>1, <1>2, <1>3, <2>1 DEF PathInv
  <1>10. \A m \in 1..N : NotStarted(m)'
    <2> SUFFICES ASSUME NEW m \in 1..N, m > started PROVE element'[m] = Filter!NewLayer
      BY <1>2 DEF NotStarted, Filter!NewLayer
    <2>1. ~OnPath(m)
      <3>1. Way(top) \subseteq 1..top
        BY <1>1, <1>2, WayIs
      <3> QED
        BY <1>1, <1>2, <1>4, <3>1
    <2> QED
      BY <1>1, <1>6, <2>1 DEF NotStarted
  <1>11. Filter!Named(top) /\ (top \in cut \/ ~Filter!Refused(top))
    <2>1. CASE Looked(top)
      <3>1. LayerInv(top)
        BY <1>1, <1>2
      <3> QED
        BY <1>1, <1>2, <2>1, <3>1 DEF LayerInv, RefusedInv
    <2> QED
      BY <1>1, <1>2, <2>1
  <1>12. ASSUME NEW m \in 1..started PROVE LayerInv(m)'
    <2>1. LayerInv(m) /\ m \in 1..N
      BY <1>1, <1>7
    <2>2. Inherits(m)' <=> Inherits(m)
      BY <1>3, <1>6, <1>7 DEF Inherits
    <2>3. element'[m].self_hidden = element[m].self_hidden
      BY <1>6, <2>1
    <2>4. RefusedInv(m)'
      <3>1. CASE Looked(m)
        BY <1>2, <1>3, <2>1, <2>3, <3>1 DEF LayerInv, RefusedInv
      <3>2. CASE m = top
        BY <1>2, <1>3, <1>11, <3>2 DEF RefusedInv
      <3> QED
        BY <1>2, <3>1, <3>2
    <2>5. InheritInv(m)'
      BY <2>1, <2>2, <2>3 DEF LayerInv, InheritInv
    <2>6. VisibleInv(m)'
      <3>1. \A k : Leads(m, k) <=> Leads(m, k)'
        BY <1>2, <1>3 DEF Leads, MayBeSeen
      <3>2. CASE OnPath(m)
        <4>1. ASSUME NEW j \in Way(top) \ Over(m), Inside(j), Filter!Refused(j) PROVE j \in cut
          <5>1. CASE j = top
            BY <1>11, <4>1, <5>1
          <5>2. CASE j # top
            <6>1. j \in 1..started
              BY <1>1, <1>2, WayIs
            <6>2. Looked(j) /\ ~element[j].self_hidden /\ Filter!Named(j)
              BY <1>2, <1>4, <4>1, <5>2 DEF Filter!Refused
            <6> QED
              BY <1>1, <4>1, <6>1, <6>2 DEF LayerInv, RefusedInv
          <5> QED
            BY <5>1, <5>2
        <4>2. Leads(m, top)
          BY <1>4, <1>11, <3>2, <4>1 DEF Leads, MayBeSeen
        <4>3. top \in 1..started'
          BY <1>1, <1>2
        <4> QED
          BY <3>1, <4>2, <4>3 DEF VisibleInv
      <3>3. CASE ~OnPath(m)
        BY <1>2, <1>6, <2>1, <3>1, <3>3 DEF LayerInv, VisibleInv
      <3> QED
        BY <3>2, <3>3
    <2>7. SeenInv(m)'
      <3>1. CASE m = top
        <4>1. \A k \in Way(m) : OnPath(k) /\ k \in 1..N
          BY <1>4, <1>7, <3>1
        <4> QED
          BY <1>3, <1>6, <4>1 DEF SeenInv
      <3>2. CASE m # top
        <4>1. \A k \in Way(m) : ~element[k].hidden => ~element'[k].hidden
          BY <1>6, <1>7
        <4> QED
          BY <1>2, <1>3, <2>1, <2>2, <3>2, <4>1 DEF LayerInv, SeenInv
      <3> QED
        BY <3>1, <3>2
    <2>8. ReasonInv(m)'
      BY <1>2, <1>3, <2>1, <2>3 DEF LayerInv, ReasonInv
    <2>9. NotBothInv(m)'
      <3>1. CASE OnPath(m)
        BY <1>3, <1>4, <2>3, <3>1 DEF NotBothInv
      <3>2. CASE ~OnPath(m)
        BY <1>2, <1>3, <1>6, <2>1, <3>2 DEF LayerInv, NotBothInv
      <3> QED
        BY <3>1, <3>2
    <2>10. ChildrenInv(m)'
      <3>1. Counted(m)' = Counted(m)
        <4>1. \A k \in 1..started : element'[k].self_hidden = element[k].self_hidden
          BY <1>6, <1>7
        <4> QED
          BY <1>2, <1>3, <2>3, <4>1 DEF Counted
      <3> QED
        BY <1>2, <1>3, <1>6, <2>1, <3>1 DEF LayerInv, ChildrenInv
    <2>11. WrittenInv(m)'
      <3>1. \A k : OnPath(k)' <=> OnPath(k)
        BY <1>2 DEF OnPath
      <3>2. \A k \in Way(m) : ~OnPath(k) => (Stays(k)' <=> Stays(k))
        BY <1>3, <1>6, <1>7 DEF Stays, Filter!Added
      <3> QED
        BY <1>2, <1>3, <2>1, <3>1, <3>2 DEF LayerInv, WrittenInv
    <2> QED
      BY <2>4, <2>5, <2>6, <2>7, <2>8, <2>9, <2>10, <2>11 DEF LayerInv
  <1>13. \A m \in 1..started' : LayerInv(m)'
    BY <1>2, <1>12
  <1> QED
    BY <1>2, <1>3, <1>8, <1>9, <1>10, <1>13 DEF FilterInv

LEMMA ElementHidden ==
  ASSUME NEW e \in FilterElement, NEW f, f = [e EXCEPT !.self_hidden = TRUE]
  PROVE  /\ f \in FilterElement /\ f.self_hidden /\ f.hidden = e.hidden
         /\ f.has_children = e.has_children /\ f.children_nb = e.children_nb
  BY DEF FilterElement

LEMMA OneChildLess ==
  ASSUME NEW e \in FilterElement, e.children_nb > 0, NEW f, f = [e EXCEPT !.children_nb = @ - 1]
  PROVE  /\ f \in FilterElement /\ f.hidden = e.hidden /\ f.self_hidden = e.self_hidden
         /\ f.has_children = e.has_children /\ f.children_nb = e.children_nb - 1
  <1>1. e.children_nb - 1 \in Nat
    BY DEF FilterElement
  <1>2. f = [e EXCEPT !.children_nb = e.children_nb - 1]
    OBVIOUS
  <1> QED
    BY <1>1, <1>2 DEF FilterElement

(* A name that is refused: its layer is hidden, and the one that it is in has a child less. *)
LEMMA HideIs ==
  ASSUME FilterInv, NEW top, top = Filter!Top, top = started, path # <<>>, UNCHANGED <<document, database, path>>,
         element' = Filter!Hide, ~element[top].self_hidden
  PROVE  /\ element' \in [1..N -> FilterElement] /\ element'[top].self_hidden
         /\ \A m \in 1..N : /\ element'[m].hidden = element[m].hidden
                            /\ element'[m].has_children = element[m].has_children
                            /\ m # top => element'[m].self_hidden = element[m].self_hidden
                            /\ m # top /\ m # ParentOf(top) => element'[m] = element[m]
                            /\ m # ParentOf(top) => element'[m].children_nb = element[m].children_nb
         /\ Inside(top) => /\ element'[ParentOf(top)].children_nb = element[ParentOf(top)].children_nb - 1
                           /\ top \in Counted(ParentOf(top))
                           /\ ~(Inside(ParentOf(top)) /\ element[ParentOf(top)].self_hidden)
  <1>1. /\ FilterTypes /\ PathInv /\ (\A m \in 1..started : LayerInv(m)) /\ document \in Document
        /\ N \in Nat /\ element \in [1..N -> FilterElement] /\ started \in Nat
    BY InstanceConstants DEF FilterInv, FilterTypes
  <1>2. top \in 1..N /\ (Len(path) > 1 <=> Inside(top)) /\ (Inside(top) => Filter!TopParent = ParentOf(top))
    BY <1>1, PathIs
  <1> DEFINE p == ParentOf(top)
  <1>3. Inside(top) => p \in 1..N /\ p < top /\ p \in 1..started
    <2>1. Inside(top) => p \in 1..N /\ p < top
      BY <1>1, <1>2, DocumentIs
    <2> QED
      BY <1>1, <1>2, <2>1
  <1>4. element' = [m \in 1..N |-> IF m = top THEN [element[m] EXCEPT !.self_hidden = TRUE]
                                   ELSE IF Inside(top) /\ m = p THEN [element[m] EXCEPT !.children_nb = @ - 1]
                                   ELSE element[m]]
    <2>1. Filter!Layers = 1..N /\ Filter!Hide = [m \in Filter!Layers |->
             IF m = top THEN [element[m] EXCEPT !.self_hidden = TRUE]
             ELSE IF Len(path) > 1 /\ m = Filter!TopParent THEN [element[m] EXCEPT !.children_nb = @ - 1] ELSE element[m]]
      BY <1>1, InstanceConstants DEF Filter!Hide
    <2> QED
      BY <1>2, <2>1
  <1>5. Inside(top) => /\ top \in Counted(p) /\ ~(Inside(p) /\ element[p].self_hidden) /\ element[p].children_nb > 0
    <2> SUFFICES ASSUME Inside(top)
                 PROVE  /\ top \in Counted(p) /\ ~(Inside(p) /\ element[p].self_hidden) /\ element[p].children_nb > 0
      OBVIOUS
    <2>1. top \in 1..started
      BY <1>1, <1>2
    <2>2. top \in Counted(p)
      BY <2>1 DEF Counted
    <2>3. ~(Inside(p) /\ element[p].self_hidden)
      BY <1>1, <2>1 DEF LayerInv, InheritInv, Inherits
    <2>4. element[p].children_nb = Cardinality(Counted(p))
      BY <1>1, <1>3 DEF LayerInv, ChildrenInv
    <2>5. Cardinality(Counted(p)) \in Nat /\ Cardinality(Counted(p)) # 0
      BY <1>1, <2>2, CountedIs
    <2> QED
      BY <2>2, <2>3, <2>4, <2>5
  <1> HIDE DEF p
  <1>6. ASSUME NEW m \in 1..N
        PROVE  /\ element'[m] \in FilterElement /\ element'[m].hidden = element[m].hidden
               /\ element'[m].has_children = element[m].has_children
               /\ m # top => element'[m].self_hidden = element[m].self_hidden
               /\ m = top => element'[m].self_hidden
               /\ m # top /\ m # p => element'[m] = element[m]
               /\ m # p => element'[m].children_nb = element[m].children_nb
               /\ Inside(top) /\ m = p => element'[m].children_nb = element[m].children_nb - 1
    <2>1. element[m] \in FilterElement
      BY <1>1
    <2>2. m = top => m # p \/ ~Inside(top)
      BY <1>1, <1>2, <1>3
    <2>3. CASE m = top
      <3>1. element'[m] = [element[m] EXCEPT !.self_hidden = TRUE]
        BY <1>4, <2>3
      <3>2. /\ element'[m] \in FilterElement /\ element'[m].self_hidden /\ element'[m].hidden = element[m].hidden
            /\ element'[m].has_children = element[m].has_children /\ element'[m].children_nb = element[m].children_nb
        BY <2>1, <3>1, ElementHidden
      <3> QED
        BY <2>2, <2>3, <3>2
    <2>4. CASE m # top /\ Inside(top) /\ m = p
      <3>1. element'[m] = [element[m] EXCEPT !.children_nb = @ - 1]
        BY <1>4, <2>4
      <3>2. element[m].children_nb > 0
        BY <1>5, <2>4
      <3>3. /\ element'[m] \in FilterElement /\ element'[m].hidden = element[m].hidden
            /\ element'[m].self_hidden = element[m].self_hidden
            /\ element'[m].has_children = element[m].has_children /\ element'[m].children_nb = element[m].children_nb - 1
        BY <2>1, <3>1, <3>2, OneChildLess
      <3> QED
        BY <2>4, <3>3
    <2>5. CASE m # top /\ ~(Inside(top) /\ m = p)
      BY <1>4, <2>1, <2>5
    <2> QED
      BY <2>3, <2>4, <2>5
  <1>7. element' \in [1..N -> FilterElement]
    BY <1>4, <1>6
  <1>8. element'[top].self_hidden
    BY <1>2, <1>6
  <1>9. Inside(top) => element'[p].children_nb = element[p].children_nb - 1
    BY <1>3, <1>6
  <1> USE DEF p
  <1> QED
    BY <1>5, <1>6, <1>7, <1>8, <1>9

LEMMA HideKeeps ==
  ASSUME FilterInv, Filter!Characters, element' = Filter!Hide, ~element[Filter!Top].self_hidden,
         ~Filter!Keep(Head(texts))
  PROVE  FilterInv'
  <1> DEFINE top == Filter!Top
  <1>1. /\ FilterTypes /\ PathInv /\ (\A m \in 1..N : NotStarted(m)) /\ (\A m \in 1..started : LayerInv(m))
        /\ N \in Nat /\ ~element[top].self_hidden /\ ~Filter!Keep(Head(texts)) /\ element \in [1..N -> FilterElement]
        /\ document \in Document /\ started \in Nat /\ started \in 0..N
    BY InstanceConstants DEF FilterInv, FilterTypes
  <1>2. /\ UNCHANGED <<document, database, started, path, downstream, cut>> /\ texts' \in Seq(DOMAIN Local)
        /\ path # <<>> /\ top = started /\ top \in 1..N /\ Filter!Named(top) /\ TextsInv'
        /\ \A m : m # top => Looked(m)
        /\ \/ top \in cut
           \/ /\ Filter!Keep(Head(texts)) <=> ~Filter!Refused(top)
              /\ element[top].hidden /\ (element[top].self_hidden <=> Inherits(top))
           \/ Looked(top) /\ (Filter!StylesDiffer => Filter!Keep(Head(texts)))
    BY CharactersAre
  <1>3. /\ element' \in [1..N -> FilterElement] /\ element'[top].self_hidden
        /\ \A m \in 1..N : /\ element'[m].hidden = element[m].hidden
                           /\ element'[m].has_children = element[m].has_children
                           /\ m # top => element'[m].self_hidden = element[m].self_hidden
                           /\ m # top /\ m # ParentOf(top) => element'[m] = element[m]
                           /\ m # ParentOf(top) => element'[m].children_nb = element[m].children_nb
        /\ Inside(top) => /\ element'[ParentOf(top)].children_nb = element[ParentOf(top)].children_nb - 1
                          /\ top \in Counted(ParentOf(top))
                          /\ ~(Inside(ParentOf(top)) /\ element[ParentOf(top)].self_hidden)
    <2>1. UNCHANGED <<document, database, path>>
      BY <1>2
    <2> QED
      BY <1>1, <1>2, <2>1, HideIs
  <1>4. /\ N' = N /\ (Filter!StylesDiffer <=> (Filter!StylesDiffer)')
        /\ \A m : /\ ParentOf(m)' = ParentOf(m) /\ NamesIn(m)' = NamesIn(m) /\ Over(m)' = Over(m) /\ Way(m)' = Way(m)
                  /\ (Inside(m) <=> Inside(m)') /\ (Filter!Named(m) <=> Filter!Named(m)')
                  /\ (Filter!Refused(m) <=> Filter!Refused(m)')
    BY <1>2, SameDocument
  <1>5. \A m : OnPath(m) <=> m \in Way(top)
    BY <1>1, <1>2, PathIs
  <1> HIDE DEF top
  <1>6. \A m \in 1..started : /\ m \in 1..N /\ m \in Nat /\ m <= top /\ Way(m) \subseteq 1..N
                              /\ (Inside(m) => ParentOf(m) \in 1..N /\ ParentOf(m) # top /\ ParentOf(m) # m)
    <2>1. \A m \in 1..N : (Inside(m) => ParentOf(m) \in 1..N /\ ParentOf(m) < m) /\ Way(m) \subseteq 1..m
      BY <1>1, DocumentIs, WayIs
    <2> QED
      BY <1>1, <1>2, <2>1
  <1>7. FilterTypes'
    BY <1>1, <1>2, <1>3, <1>4 DEF FilterTypes
  <1>8. PathInv'
    <2>1. ASSUME NEW i \in DOMAIN path, NEW j \in DOMAIN path, 1 < i, i < j, element'[path[i]].self_hidden
          PROVE  element'[path[j]].self_hidden
      <3>1. path[i] \in 1..N /\ path[j] \in 1..N
        BY <1>1 DEF FilterTypes
      <3>2. path[i] # top
        <4>1. path[i] \in Over(path[j])
          <5>1. i \in Nat /\ j \in Nat /\ i \in 1..(j - 1)
            BY <1>1, <2>1 DEF FilterTypes
          <5>2. Over(path[j]) = {path[k] : k \in 1..(j - 1)}
            BY <1>1 DEF PathInv
          <5> QED
            BY <5>1, <5>2
        <4>2. Over(path[j]) \subseteq 1..(path[j] - 1) /\ path[j] <= started
          BY <1>1, <3>1, WayIs DEF PathInv
        <4> QED
          BY <1>1, <1>2, <3>1, <4>1, <4>2
      <3>3. element[path[i]].self_hidden
        BY <1>3, <2>1, <3>1, <3>2
      <3>4. element[path[j]].self_hidden
        BY <1>1, <2>1, <3>3 DEF PathInv
      <3> QED
        BY <1>3, <3>1, <3>4
    <2> QED
      BY <1>1, <1>2, <1>4, <2>1 DEF PathInv
  <1>9. \A m \in 1..N : NotStarted(m)'
    <2> SUFFICES ASSUME NEW m \in 1..N, m > started PROVE element'[m] = Filter!NewLayer
      BY <1>2 DEF NotStarted, Filter!NewLayer
    <2>1. m # top /\ m # ParentOf(top)
      <3>1. ParentOf(top) \in 0..(top - 1)
        BY <1>1, <1>2, DocumentIs
      <3> QED
        BY <1>1, <1>2, <3>1
    <2> QED
      BY <1>1, <1>3, <2>1 DEF NotStarted
  <1>10. ASSUME NEW m \in 1..started PROVE LayerInv(m)'
    <2>1. LayerInv(m) /\ m \in 1..N /\ element'[m].hidden = element[m].hidden
      BY <1>1, <1>3, <1>6
    <2>2. Inherits(m)' <=> Inherits(m)
      BY <1>3, <1>4, <1>6 DEF Inherits
    <2>3. m # top => element'[m].self_hidden = element[m].self_hidden /\ Looked(m)
      BY <1>2, <1>3, <2>1
    <2>4. RefusedInv(m)' /\ InheritInv(m)'
      BY <1>2, <1>3, <1>4, <2>1, <2>2, <2>3 DEF LayerInv, RefusedInv, InheritInv
    <2>5. VisibleInv(m)'
      <3>1. \A k : Leads(m, k) <=> Leads(m, k)'
        BY <1>2, <1>4 DEF Leads, MayBeSeen
      <3> QED
        BY <1>2, <2>1, <3>1 DEF LayerInv, VisibleInv
    <2>6. SeenInv(m)'
      <3>1. \A k \in Way(m) : element'[k].hidden = element[k].hidden
        BY <1>3, <1>6
      <3>2. Looked(m) => SeenInv(m)'
        BY <1>2, <1>4, <2>1, <2>2, <3>1 DEF LayerInv, SeenInv
      <3>3. m = top /\ ~Looked(m) => m \in cut \/ Filter!Refused(m)
        BY <1>1, <1>2
      <3> QED
        BY <1>2, <1>4, <2>3, <3>2, <3>3 DEF SeenInv
    <2>7. ReasonInv(m)'
      <3>1. CASE m = top
        <4>1. Filter!StylesDiffer /\ cut = {} => Filter!Refused(m) /\ m \in Way(m)
          BY <1>1, <1>2, <3>1 DEF Way
        <4> QED
          BY <1>2, <1>4, <4>1 DEF ReasonInv
      <3>2. CASE m # top
        BY <1>2, <1>4, <2>1, <2>3, <3>2 DEF LayerInv, ReasonInv
      <3> QED
        BY <3>1, <3>2
    <2>8. NotBothInv(m)'
      <3>1. CASE m = top
        BY <1>1, <1>2, <1>4, <2>1, <3>1 DEF NotBothInv
      <3>2. CASE m # top
        BY <1>2, <1>4, <2>1, <2>3, <3>2 DEF LayerInv, NotBothInv
      <3> QED
        BY <3>1, <3>2
    <2>9. ChildrenInv(m)'
      <3>1. ChildrenInv(m) /\ element'[m].has_children = element[m].has_children /\ element[m] \in FilterElement
        BY <1>1, <1>3, <2>1 DEF LayerInv
      <3>2. \A k \in 1..started : k # top => element'[k].self_hidden = element[k].self_hidden
        BY <1>3, <1>6
      <3>3. top \in 1..started /\ (Inside(top) => ParentOf(top) # top) /\ m # 0
        BY <1>1, <1>2, <1>6
      <3>4. \A k \in 1..started : ParentOf(k) # top
        BY <1>2, <1>6 DEF Inside
      <3>5. CASE m = ParentOf(top)
        <4>1. Inside(top)
          BY <3>3, <3>5 DEF Inside
        <4>2. element'[m].self_hidden = element[m].self_hidden
          BY <2>3, <3>3, <3>5, <4>1
        <4>3. Counted(m)' = Counted(m) \ {top}
          <5>1. ASSUME NEW k \in Counted(m)' PROVE k \in Counted(m) \ {top}
            BY <1>2, <1>3, <1>4, <3>2, <3>5, <4>1, <4>2, <5>1 DEF Counted
          <5>2. ASSUME NEW k \in Counted(m) \ {top} PROVE k \in Counted(m)'
            BY <1>2, <1>4, <3>2, <4>2 DEF Counted
          <5> QED
            BY <5>1, <5>2
        <4>4. Cardinality(Counted(m)') = Cardinality(Counted(m)) - 1
          <5>1. top \in Counted(m)
            BY <1>3, <3>5, <4>1
          <5> QED
            BY <1>1, <4>3, <5>1, CountedIs, FS_RemoveElement
        <4>5. element'[m].children_nb = element[m].children_nb - 1
          BY <1>3, <3>5, <4>1
        <4> QED
          BY <1>2, <1>4, <3>1, <4>4, <4>5 DEF ChildrenInv
      <3>6. CASE m # ParentOf(top)
        <4>1. element'[m].children_nb = element[m].children_nb
          BY <1>3, <2>1, <3>6
        <4>2. Counted(m)' = Counted(m)
          <5>1. ASSUME NEW k \in 1..started, ParentOf(k) = m
                PROVE  element'[k].self_hidden = element[k].self_hidden /\ element'[m].self_hidden = element[m].self_hidden
            BY <2>3, <3>2, <3>4, <3>6, <5>1
          <5> QED
            BY <1>2, <1>4, <5>1 DEF Counted
        <4> QED
          BY <1>2, <1>4, <3>1, <4>1, <4>2 DEF ChildrenInv
      <3> QED
        BY <3>5, <3>6
    <2>10. WrittenInv(m)'
      <3>1. \A k : OnPath(k)' <=> OnPath(k)
        BY <1>2 DEF OnPath
      <3>2. top \in Way(top) /\ (Inside(top) => ParentOf(top) \in Way(top))
        BY <1>1, <1>2, OverIs DEF Way
      <3>3. \A k \in Way(m) : ~OnPath(k) => (Stays(k)' <=> Stays(k))
        <4> SUFFICES ASSUME NEW k \in Way(m), ~OnPath(k) PROVE Stays(k)' <=> Stays(k)
          OBVIOUS
        <4>1. k \in 1..N /\ k # top /\ k # 0
          BY <1>1, <1>5, <1>6, <3>2
        <4>2. k # ParentOf(top)
          BY <1>5, <3>2, <4>1 DEF Inside
        <4>3. element'[k] = element[k]
          BY <1>3, <4>1, <4>2
        <4> QED
          BY <1>4, <4>3 DEF Stays, Filter!Added
      <3> QED
        BY <1>2, <1>4, <2>1, <3>1, <3>3 DEF LayerInv, WrittenInv
    <2> QED
      BY <2>4, <2>5, <2>6, <2>7, <2>8, <2>9, <2>10 DEF LayerInv
  <1>11. \A m \in 1..started' : LayerInv(m)'
    BY <1>2, <1>10
  <1> QED
    BY <1>2, <1>4, <1>7, <1>8, <1>9, <1>11 DEF FilterInv

LEMMA CharactersKeeps == ASSUME FilterInv, Filter!Characters PROVE FilterInv'
  <1>1. element' = IF element[Filter!Top].self_hidden THEN element
                   ELSE IF Filter!Keep(Head(texts)) THEN Filter!Show ELSE Filter!Hide
    BY DEF Filter!Characters
  <1>2. CASE element[Filter!Top].self_hidden
    BY <1>1, <1>2, HiddenKeeps
  <1>3. CASE ~element[Filter!Top].self_hidden /\ Filter!Keep(Head(texts))
    BY <1>1, <1>3, ShowKeeps
  <1>4. CASE ~element[Filter!Top].self_hidden /\ ~Filter!Keep(Head(texts))
    BY <1>1, <1>4, HideKeeps
  <1> QED
    BY <1>2, <1>3, <1>4

(* An element ends; that of a layer in none decides of all that are in it. *)
LEMMA EndKeeps == ASSUME FilterInv, Filter!EndElement PROVE FilterInv'
  <1> DEFINE top == Filter!Top
             last == Len(path)
  <1>1. /\ FilterTypes /\ PathInv /\ (\A m \in 1..N : NotStarted(m)) /\ (\A m \in 1..started : LayerInv(m))
        /\ N \in Nat /\ document \in Document /\ started \in 0..N /\ texts = <<>> /\ path # <<>> /\ path \in Seq(1..N)
        /\ path' = SubSeq(path, 1, Len(path) - 1) /\ UNCHANGED <<document, database, started, texts, element, cut>>
        /\ downstream' = IF last > 1 \/ element[top].hidden THEN downstream
             ELSE downstream \cup {top}
                    \cup {n \in Filter!Below(top) : \A m \in {n} \cup (Filter!Above[n] \ {top}) : Filter!Added(m)}
    BY InstanceConstants DEF FilterInv, FilterTypes, Filter!EndElement
  <1>2. /\ last \in Nat /\ last > 0 /\ DOMAIN path = 1..last /\ top = path[last]
        /\ top \in 1..N /\ top <= started /\ Way(top) = {path[j] : j \in DOMAIN path}
        /\ (\A m : OnPath(m) <=> m \in Way(top)) /\ (last > 1 <=> Inside(top))
        /\ path[1] \in Way(top) /\ ~Inside(path[1])
    BY <1>1, PathIs
  <1>3. /\ N' = N /\ (Filter!StylesDiffer <=> (Filter!StylesDiffer)')
        /\ \A m : /\ ParentOf(m)' = ParentOf(m) /\ NamesIn(m)' = NamesIn(m) /\ Over(m)' = Over(m) /\ Way(m)' = Way(m)
                  /\ (Inside(m) <=> Inside(m)') /\ (Filter!Named(m) <=> Filter!Named(m)')
                  /\ (Filter!Refused(m) <=> Filter!Refused(m)')
    BY <1>1, SameDocument
  <1> HIDE DEF top, last
  <1>4. /\ path' \in Seq(1..N) /\ DOMAIN path' = 1..(last - 1) /\ \A i \in 1..(last - 1) : path'[i] = path[i] /\ i \in DOMAIN path
    <2> DEFINE T == 1..N
    <2>1. path \in Seq(T)
      BY <1>1
    <2> HIDE DEF T
    <2>2. /\ path' \in Seq(T) /\ DOMAIN path' = 1..(Len(path) - 1)
          /\ \A i \in 1..(Len(path) - 1) : path'[i] = path[i] /\ i \in DOMAIN path
      BY <1>1, <2>1, SeqFront
    <2> QED
      BY <2>2 DEF T, last
  <1>5. \A m : OnPath(m)' <=> OnPath(m) /\ m # top
    <2>1. ASSUME NEW i \in 1..(last - 1) PROVE path[i] # top
      <3>1. top \notin Over(top)
        BY <1>1, <1>2, WayIs
      <3>2. Over(top) = {path[j] : j \in 1..(last - 1)}
        BY <1>1, <1>2 DEF PathInv
      <3> QED
        BY <3>1, <3>2
    <2>2. \A i \in 1..last : i \in 1..(last - 1) \/ i = last
      BY <1>2
    <2> QED
      BY <1>2, <1>4, <2>1, <2>2 DEF OnPath
  <1>6. \A m \in 1..N : m \notin 1..started => element[m].hidden
    <2>1. \A m \in 1..N : m \notin 1..started => m > started
      BY <1>1
    <2> QED
      BY <1>1, <2>1 DEF NotStarted, Filter!NewLayer
  <1>7. Filter!Below(top) = {n \in 1..N : top \in Over(n)}
    BY <1>1, InstanceConstants DEF Filter!Below, Over
  <1>8. FilterTypes'
    <2>1. top \in 1..started
      BY <1>1, <1>2
    <2>2. \A n \in Filter!Below(top) : Filter!Added(n) => n \in 1..started
      BY <1>6, <1>7 DEF Filter!Added
    <2>3. downstream' \subseteq 1..started
      BY <1>1, <2>1, <2>2 DEF FilterTypes
    <2> QED
      BY <1>1, <1>3, <1>4, <2>3 DEF FilterTypes
  <1>9. PathInv'
    <2>1. ASSUME NEW i \in DOMAIN path'
          PROVE  /\ path'[i] <= started' /\ Over(path'[i]) = {path'[j] : j \in 1..(i - 1)}
                 /\ ParentOf(path'[i]) = IF i = 1 THEN 0 ELSE path'[i - 1]
      <3>1. i \in DOMAIN path /\ i \in 1..(last - 1) /\ path'[i] = path[i] /\ i \in Nat
        BY <1>2, <1>4, <2>1
      <3>2. \A j \in 1..(i - 1) : path'[j] = path[j]
        <4>1. \A j \in 1..(i - 1) : j \in 1..(last - 1)
          BY <1>2, <3>1
        <4> QED
          BY <1>4, <4>1
      <3>3. path[i] <= started /\ Over(path[i]) = {path[j] : j \in 1..(i - 1)}
            /\ ParentOf(path[i]) = IF i = 1 THEN 0 ELSE path[i - 1]
        BY <1>1, <3>1 DEF PathInv
      <3>4. Over(path'[i]) = {path'[j] : j \in 1..(i - 1)}
        BY <3>1, <3>2, <3>3
      <3>5. i # 1 => i - 1 \in 1..(i - 1)
        BY <3>1
      <3>6. ParentOf(path'[i]) = IF i = 1 THEN 0 ELSE path'[i - 1]
        BY <3>1, <3>2, <3>3, <3>5
      <3> QED
        BY <1>1, <3>1, <3>3, <3>4, <3>6
    <2>2. ASSUME NEW i \in DOMAIN path', NEW j \in DOMAIN path', 1 < i, i < j, element[path'[i]].self_hidden
          PROVE  element[path'[j]].self_hidden
      BY <1>1, <1>4, <2>2 DEF PathInv
    <2> QED
      BY <1>1, <1>3, <2>1, <2>2 DEF PathInv
  <1>10. TextsInv'
    BY <1>1 DEF TextsInv
  <1>11. \A m \in 1..N : NotStarted(m)'
    BY <1>1 DEF NotStarted, Filter!NewLayer
  <1>12. \A m \in 1..N : Filter!Named(m) => Looked(m)
    <2>1. \A m \in 1..N : Filter!Named(m) => Len(NamesIn(m)) > 0
      BY <1>1, NamesAre
    <2> QED
      BY <1>1, <2>1 DEF Looked
  <1>13. ASSUME NEW m \in 1..started PROVE LayerInv(m)'
    <2>1. LayerInv(m) /\ m \in 1..N
      BY <1>1
    <2>2. Inherits(m)' <=> Inherits(m)
      BY <1>1, <1>3 DEF Inherits
    <2>3. RefusedInv(m)' /\ InheritInv(m)' /\ SeenInv(m)'
      BY <1>1, <1>3, <1>12, <2>1, <2>2 DEF LayerInv, RefusedInv, InheritInv, SeenInv
    <2>4. VisibleInv(m)'
      <3>1. \A k : Leads(m, k) <=> Leads(m, k)'
        BY <1>1, <1>3 DEF Leads, MayBeSeen
      <3> QED
        BY <1>1, <2>1, <3>1 DEF LayerInv, VisibleInv
    <2>5. ReasonInv(m)' /\ NotBothInv(m)'
      BY <1>1, <1>3, <2>1 DEF LayerInv, ReasonInv, NotBothInv
    <2>6. ChildrenInv(m)'
      <3>1. Counted(m)' = Counted(m)
        BY <1>1, <1>3 DEF Counted
      <3> QED
        BY <1>1, <1>3, <2>1, <3>1 DEF LayerInv, ChildrenInv
    <2>7. WrittenInv(m)'
      <3>1. \A k : Stays(k)' <=> Stays(k)
        BY <1>1, <1>3 DEF Stays, Filter!Added
      <3>2. m \in downstream <=> \A k \in Way(m) : ~OnPath(k) /\ Stays(k)
        BY <2>1 DEF LayerInv, WrittenInv
      <3>3. top \in Over(m) => Way(top) \subseteq Way(m)
        BY <1>1, <2>1, WayIs DEF Way
      <3>4. OnPath(top)
        BY <1>2 DEF Way
      <3> SUFFICES m \in downstream' <=> \A k \in Way(m) : (~OnPath(k) \/ k = top) /\ Stays(k)
        BY <1>3, <1>5, <3>1 DEF WrittenInv
      <3>5. CASE top \notin Way(m)
        <4>1. m # top /\ m \notin Filter!Below(top)
          BY <1>7, <3>5 DEF Way
        <4>2. m \in downstream' <=> m \in downstream
          BY <1>1, <4>1
        <4> QED
          BY <3>2, <3>5, <4>2
      <3>6. CASE top \in Way(m) /\ last > 1
        <4>1. Way(top) \subseteq Way(m)
          BY <3>3, <3>6 DEF Way
        <4>2. path[1] \in Way(m) /\ OnPath(path[1]) /\ path[1] # top
          BY <1>2, <3>6, <4>1
        <4>3. m \notin downstream /\ downstream' = downstream
          BY <1>1, <3>2, <3>6, <4>2
        <4> QED
          BY <4>2, <4>3
      <3>7. CASE top \in Way(m) /\ ~(last > 1)
        <4>1. Way(top) = {top} /\ ~Inside(top)
          BY <1>1, <1>2, <3>7, OverIs DEF Way
        <4>2. \A k \in Way(m) : ~OnPath(k) \/ k = top
          BY <1>2, <4>1
        <4>3. \A k \in Way(m) : k # top => Inside(k)
          BY <1>1, <2>1, <3>7, <4>1, WayIs
        <4>4. Stays(top) <=> ~element[top].hidden
          BY <4>1 DEF Stays
        <4>5. \A k \in Way(m) : k # top => (Stays(k) <=> Filter!Added(k))
          BY <4>3 DEF Stays, Filter!Added
        <4>6. m \notin downstream
          BY <3>2, <3>4, <3>7
        <4>7. m # top => m \in Filter!Below(top) /\ Way(m) \ {top} = {m} \cup (Filter!Above[m] \ {top})
          BY <1>7, <2>1, <3>7 DEF Way, Over
        <4>8. m = top => Way(m) \ {top} = {}
          BY <4>1
        <4>9. m \in downstream' <=> ~element[top].hidden /\ \A k \in Way(m) \ {top} : Filter!Added(k)
          <5>1. CASE m = top
            BY <1>1, <3>7, <4>6, <4>8, <5>1
          <5>2. CASE m # top
            BY <1>1, <3>7, <4>6, <4>7, <5>2
          <5> QED
            BY <5>1, <5>2
        <4> QED
          BY <3>7, <4>2, <4>4, <4>5, <4>9
      <3> QED
        BY <3>5, <3>6, <3>7
    <2> QED
      BY <2>3, <2>4, <2>5, <2>6, <2>7 DEF LayerInv
  <1>14. \A m \in 1..started' : LayerInv(m)'
    BY <1>1, <1>13
  <1> QED
    BY <1>3, <1>8, <1>9, <1>10, <1>11, <1>14 DEF FilterInv

LEMMA FilterInitially == ASSUME Filter!Init PROVE FilterInv
  <1>1. /\ document \in Document /\ database \in Rows /\ started = 0 /\ path = <<>> /\ texts = <<>>
        /\ downstream = {} /\ cut = {}
    BY DEF Filter!Init
  <1>2. N \in Nat /\ Filter!Layers = 1..N
    BY <1>1, DocumentIs
  <1>3. element = [n \in 1..N |-> Filter!NewLayer] /\ Filter!NewLayer \in FilterElement
    BY <1>2 DEF Filter!Init, Filter!NewLayer, FilterElement
  <1>4. FilterTypes
    BY <1>1, <1>2, <1>3 DEF FilterTypes
  <1>5. PathInv /\ TextsInv
    BY <1>1 DEF PathInv, TextsInv
  <1>6. \A n \in 1..N : NotStarted(n)
    BY <1>3 DEF NotStarted
  <1> QED
    BY <1>1, <1>4, <1>5, <1>6 DEF FilterInv

LEMMA FilterStep == ASSUME FilterInv, [Filter!Next]_filterVars PROVE FilterInv'
  <1>1. CASE Filter!StartElement
    BY <1>1, StartKeeps
  <1>2. CASE Filter!Cut
    BY <1>2, CutKeeps
  <1>3. CASE Filter!Characters
    BY <1>3, CharactersKeeps
  <1>4. CASE Filter!EndElement
    BY <1>4, EndKeeps
  <1>5. CASE UNCHANGED filterVars
    <2>1. UNCHANGED <<document, database, started, path, texts, element, downstream, cut>>
      BY <1>5 DEF filterVars
    <2>2. /\ N' = N /\ (Filter!StylesDiffer <=> (Filter!StylesDiffer)')
          /\ \A m : /\ ParentOf(m)' = ParentOf(m) /\ NamesIn(m)' = NamesIn(m) /\ Over(m)' = Over(m) /\ Way(m)' = Way(m)
                    /\ (Inside(m) <=> Inside(m)') /\ (Filter!Named(m) <=> Filter!Named(m)')
                    /\ (Filter!Refused(m) <=> Filter!Refused(m)')
      BY <2>1, SameDocument
    <2>3. FilterTypes' /\ PathInv' /\ TextsInv' /\ \A n \in 1..N : NotStarted(n)'
      <3>1. FilterTypes /\ PathInv /\ TextsInv /\ \A n \in 1..N : NotStarted(n)
        BY DEF FilterInv
      <3>2. FilterTypes'
        BY <2>1, <2>2, <3>1 DEF FilterTypes
      <3>3. PathInv'
        BY <2>1, <2>2, <3>1 DEF PathInv
      <3>4. \A n \in 1..N : NotStarted(n)'
        BY <2>1, <3>1 DEF NotStarted, Filter!NewLayer
      <3>5. TextsInv'
        <4>1. (Filter!Top)' = Filter!Top /\ NamesIn(Filter!Top)' = NamesIn(Filter!Top)
              /\ (Inherits(Filter!Top)' <=> Inherits(Filter!Top)) /\ (Filter!Named(Filter!Top)' <=> Filter!Named(Filter!Top))
          BY <2>1 DEF Filter!Top, NamesIn, Inherits, Inside, ParentOf, Filter!Named
        <4> QED
          BY <2>1, <3>1, <4>1 DEF TextsInv
      <3> QED
        BY <3>2, <3>3, <3>4, <3>5
    <2>4. ASSUME NEW m \in 1..started PROVE LayerInv(m)'
      <3>1. LayerInv(m)
        BY DEF FilterInv
      <3>2. (Inherits(m)' <=> Inherits(m)) /\ (Looked(m)' <=> Looked(m))
        BY <2>1, <2>2 DEF Inherits, Looked, Filter!Top
      <3>3. \A k : Leads(m, k)' <=> Leads(m, k)
        BY <2>1, <2>2 DEF Leads, MayBeSeen
      <3>4. Counted(m)' = Counted(m)
        BY <2>1, <2>2 DEF Counted
      <3>5. \A k : (OnPath(k)' <=> OnPath(k)) /\ (Stays(k)' <=> Stays(k))
        BY <2>1, <2>2 DEF OnPath, Stays, Filter!Added
      <3>6. RefusedInv(m)' /\ InheritInv(m)' /\ SeenInv(m)' /\ ReasonInv(m)' /\ NotBothInv(m)'
        BY <2>1, <2>2, <3>1, <3>2 DEF LayerInv, RefusedInv, InheritInv, SeenInv, ReasonInv, NotBothInv
      <3>7. VisibleInv(m)'
        BY <2>1, <3>1, <3>3 DEF LayerInv, VisibleInv
      <3>8. ChildrenInv(m)'
        BY <2>1, <2>2, <3>1, <3>4 DEF LayerInv, ChildrenInv
      <3>9. WrittenInv(m)'
        BY <2>1, <2>2, <3>1, <3>5 DEF LayerInv, WrittenInv
      <3> QED
        BY <3>6, <3>7, <3>8, <3>9 DEF LayerInv
    <2> QED
      BY <2>1, <2>2, <2>3, <2>4 DEF FilterInv
  <1> QED
    BY <1>1, <1>2, <1>3, <1>4, <1>5 DEF Filter!Next

LEMMA OnlyFilter == ASSUME part = "filter", [PortalNext]_vars PROVE part' = "filter" /\ [Filter!Next]_filterVars
  <1>1. CASE UNCHANGED vars
    BY <1>1 DEF vars, filterVars
  <1>2. CASE PortalNext
    BY <1>2 DEF PortalNext, In, Filter!Next
  <1> QED
    BY <1>1, <1>2

LEMMA FilterKept == PortalSpec => [](part = "filter" => FilterInv)
  <1> DEFINE Inv == part = "filter" => FilterInv
  <1>1. PortalInit => Inv
    BY FilterInitially DEF PortalInit, FilterInit
  <1>2. Inv /\ [PortalNext]_vars => Inv'
    <2>1. CASE part = "filter"
      BY <2>1, OnlyFilter, FilterStep
    <2>2. CASE part # "filter"
      BY <2>2 DEF PortalNext, In, vars
    <2> QED
      BY <2>1, <2>2
  <1> QED
    BY <1>1, <1>2, PTL DEF PortalSpec

LEMMA SameCardinalityInFilter == \A S : Filter!Cardinality(S) = Cardinality(S)
  BY DEF Filter!Cardinality, Cardinality

(* The whole document was read. *)
LEMMA FilteredIs ==
  ASSUME FilterInv, Filter!Filtered
  PROVE  /\ document \in Document /\ N \in Nat /\ Filter!Layers = 1..N /\ started = N
         /\ \A n \in 1..N : LayerInv(n) /\ Looked(n) /\ (n \in downstream <=> \A m \in Way(n) : Stays(m))
         /\ \A n \in 1..N : Filter!Below(n) = {k \in 1..N : n \in Over(k)} /\ (Filter!First(n) <=> ~Inside(n))
  <1>1. document \in Document /\ N \in Nat /\ Filter!Layers = 1..N /\ path = <<>>
    BY InstanceConstants DEF FilterInv, FilterTypes, Filter!Filtered
  <1>2. started = Cardinality(1..N)
    BY <1>1, SameCardinalityInFilter DEF Filter!Filtered
  <1>3. Cardinality(1..N) = N
    BY <1>1, FS_Interval
  <1>4. \A n \in 1..N : LayerInv(n) /\ Looked(n)
    BY <1>1, <1>2, <1>3 DEF FilterInv, Looked
  <1>5. \A m : ~OnPath(m)
    BY <1>1 DEF OnPath
  <1>6. \A n \in 1..N : n \in downstream <=> \A m \in Way(n) : Stays(m)
    BY <1>4, <1>5 DEF LayerInv, WrittenInv
  <1>7. \A n \in 1..N : Filter!Below(n) = {k \in 1..N : n \in Over(k)} /\ (Filter!First(n) <=> ~Inside(n))
    BY <1>1 DEF Filter!Below, Over, Filter!First, Inside, ParentOf
  <1> QED
    BY <1>1, <1>2, <1>3, <1>4, <1>6, <1>7

LEMMA RefusedAreHidden == ASSUME FilterInv, Filter!Filtered PROVE Filter!RefusedIsHidden
  <1>1. /\ document \in Document /\ N \in Nat /\ Filter!Layers = 1..N /\ started = N /\ downstream \in SUBSET (1..started)
        /\ \A n \in 1..N : LayerInv(n) /\ Looked(n) /\ (n \in downstream <=> \A m \in Way(n) : Stays(m))
        /\ \A n \in 1..N : Filter!Below(n) = {k \in 1..N : n \in Over(k)} /\ (Filter!First(n) <=> ~Inside(n))
    BY FilteredIs DEF FilterInv, FilterTypes
  <1> SUFFICES ASSUME NEW n \in downstream, NEW m \in {n} \cup Filter!Above[n], Filter!Refused(m), m \notin cut
               PROVE  Filter!First(m) /\ \E k \in Filter!Below(m) : Filter!Named(k) /\ (k \in cut \/ ~Filter!Refused(k))
    BY DEF Filter!RefusedIsHidden
  <1>2. n \in 1..N /\ m \in Way(n) /\ m \in 1..N
    <2>1. n \in 1..N /\ m \in Way(n)
      BY <1>1 DEF Way, Over
    <2>2. Way(n) \subseteq 1..n
      BY <1>1, <2>1, WayIs
    <2> QED
      BY <1>1, <2>1, <2>2
  <1>3. ~element[m].hidden
    BY <1>1, <1>2 DEF Stays
  <1>4. PICK k \in 1..N : Leads(m, k)
    BY <1>1, <1>2, <1>3 DEF LayerInv, VisibleInv
  <1>5. m \in Way(k) \ Over(m)
    BY <1>1, <1>2, <1>4, WayIs DEF Leads
  <1>6. ~Inside(m)
    BY <1>4, <1>5 DEF Leads
  <1>7. k # m
    BY <1>4 DEF Leads, MayBeSeen
  <1>8. k \in Filter!Below(m)
    BY <1>1, <1>2, <1>5, <1>7 DEF Way
  <1> QED
    BY <1>1, <1>2, <1>4, <1>6, <1>8 DEF Leads, MayBeSeen

LEMMA GroupsAreNotEmpty == ASSUME FilterInv, Filter!Filtered PROVE Filter!NoEmptyGroup
  <1>1. /\ FilterTypes /\ document \in Document /\ N \in Nat /\ started = N /\ downstream \in SUBSET (1..started)
        /\ \A n \in 1..N : LayerInv(n) /\ Looked(n) /\ (n \in downstream <=> \A m \in Way(n) : Stays(m))
        /\ \A n \in 1..N : Filter!Below(n) = {k \in 1..N : n \in Over(k)} /\ (Filter!First(n) <=> ~Inside(n))
    BY FilteredIs DEF FilterInv, FilterTypes
  <1> SUFFICES ASSUME Filter!StylesDiffer, NEW n \in downstream \ cut, ~Filter!First(n),
                      NEW c \in Filter!Below(n), document.parent[c] = n
               PROVE  \E k \in Filter!Below(n) : document.parent[k] = n /\ (k \in cut \/ ~Filter!Refused(k))
    BY DEF Filter!NoEmptyGroup
  <1>2. n \in 1..N /\ Inside(n) /\ n \in Way(n) /\ Stays(n)
    BY <1>1 DEF Way
  <1>3. c \in 1..N /\ ParentOf(c) = n
    BY <1>1, <1>2 DEF ParentOf
  <1>4. ~element[n].hidden /\ element[n].has_children /\ element[n].children_nb # 0
    BY <1>1, <1>2, <1>3 DEF Stays, Filter!Added, LayerInv, ChildrenInv
  <1>5. ~element[n].self_hidden
    BY <1>1, <1>2, <1>4 DEF LayerInv, NotBothInv
  <1>6. Counted(n) # {}
    BY <1>1, <1>2, <1>4, CountedIs DEF LayerInv, ChildrenInv
  <1>7. PICK k \in Counted(n) : TRUE
    BY <1>6
  <1>8. k \in 1..N /\ ParentOf(k) = n /\ ~element[k].self_hidden
    BY <1>1, <1>5, <1>7 DEF Counted
  <1>9. k \in cut \/ ~Filter!Refused(k)
    BY <1>1, <1>8 DEF LayerInv, RefusedInv, Filter!Refused
  <1>10. n \in Over(k)
    <2>1. n # 0
      BY <1>1, <1>2
    <2> QED
      BY <1>1, <1>8, <2>1, OverIs DEF Inside
  <1>11. k \in Filter!Below(n)
    BY <1>1, <1>2, <1>8, <1>10
  <1> QED
    BY <1>8, <1>9, <1>11 DEF ParentOf

LEMMA KeptAreShown == ASSUME FilterInv, Filter!Filtered PROVE Filter!KeptIsShown
  <1>1. /\ FilterTypes /\ document \in Document /\ N \in Nat /\ Filter!Layers = 1..N /\ started = N
        /\ \A n \in 1..N : LayerInv(n) /\ Looked(n) /\ (n \in downstream <=> \A m \in Way(n) : Stays(m))
        /\ \A n \in 1..N : Filter!Below(n) = {k \in 1..N : n \in Over(k)} /\ (Filter!First(n) <=> ~Inside(n))
    BY FilteredIs DEF FilterInv
  <1> SUFFICES ASSUME Filter!StylesDiffer, cut = {}, NEW n \in Filter!Layers, Filter!Named(n), ~Filter!Refused(n),
                      Filter!Below(n) = {}, \A m \in Filter!Above[n] : Filter!First(m) \/ ~Filter!Refused(m)
               PROVE  n \in downstream
    BY DEF Filter!KeptIsShown
  <1>2. /\ n \in 1..N /\ n \in Way(n) /\ Way(n) \subseteq 1..N
        /\ \A m \in Over(n) : Over(m) \subseteq Over(n)
        /\ \A m \in Over(n) : \E c \in Way(n) : ParentOf(c) = m
    <2>1. n \in 1..N
      BY <1>1
    <2>2. /\ Way(n) \subseteq 1..n /\ \A m \in Over(n) : Over(m) \subseteq Over(n)
          /\ \A m \in Over(n) : \E c \in Way(n) : ParentOf(c) = m
      BY <1>1, <2>1, WayIs
    <2> QED
      BY <1>1, <2>1, <2>2 DEF Way
  <1>3. \A m \in Over(n) : m \in 1..N /\ (Inside(m) => ~Filter!Refused(m))
    BY <1>1, <1>2 DEF Over, Way
  <1>4. ASSUME NEW c \in Way(n), Inside(c) PROVE ~element[c].self_hidden
    <2>1. c \in 1..N /\ Way(c) \subseteq Way(n)
      BY <1>2 DEF Way
    <2>2. \A m \in Way(n) : m = n \/ Inside(m) => ~Filter!Refused(m)
      BY <1>3 DEF Way
    <2>3. ASSUME NEW m \in Way(c), m = c \/ Inside(m) PROVE ~Filter!Refused(m)
      BY <1>4, <2>1, <2>2, <2>3
    <2> QED
      BY <1>1, <2>1, <2>3 DEF LayerInv, ReasonInv
  <1>5. ~Inherits(n)
    <2>1. Inherits(n) => Inside(n) /\ element[n].self_hidden
      BY <1>1, <1>2 DEF LayerInv, InheritInv, Inherits
    <2> QED
      BY <1>2, <1>4, <2>1
  <1>6. \A m \in Way(n) : ~element[m].hidden
    BY <1>1, <1>2, <1>5 DEF LayerInv, SeenInv
  <1>7. ASSUME NEW m \in Way(n), Inside(m), element[m].has_children PROVE element[m].children_nb # 0
    <2>1. m \in 1..N /\ m # 0
      BY <1>1, <1>2
    <2>2. m # n
      <3>1. ASSUME m = n PROVE FALSE
        <4>1. PICK k \in 1..N : ParentOf(k) = n
          BY <1>1, <1>7, <2>1, <3>1 DEF LayerInv, ChildrenInv
        <4>2. n \in Over(k)
          BY <1>1, <2>1, <3>1, <4>1, OverIs DEF Inside
        <4> QED
          BY <1>1, <1>2, <4>1, <4>2
      <3> QED
        BY <3>1
    <2>3. PICK c \in Way(n) : ParentOf(c) = m
      BY <1>2, <2>2 DEF Way
    <2>4. Inside(c)
      BY <2>1, <2>3 DEF Inside
    <2>5. ~element[c].self_hidden /\ c \in 1..N
      BY <1>2, <1>4, <2>3, <2>4
    <2>6. c \in Counted(m)
      BY <1>1, <2>3, <2>5 DEF Counted
    <2> QED
      BY <1>1, <2>1, <2>6, CountedIs DEF LayerInv, ChildrenInv
  <1>8. \A m \in Way(n) : Stays(m)
    BY <1>6, <1>7 DEF Stays, Filter!Added
  <1> QED
    BY <1>1, <1>2, <1>8

LEMMA AllowedAreListed == ASSUME FilterInv, Filter!Filtered PROVE Filter!ListsWhatIsAllowed
  <1>1. /\ FilterTypes /\ document \in Document /\ database \in Rows /\ N \in Nat /\ Filter!Layers = 1..N /\ started = N
        /\ \A n \in 1..N : LayerInv(n) /\ Looked(n) /\ (n \in downstream <=> \A m \in Way(n) : Stays(m))
    BY FilteredIs DEF FilterInv, FilterTypes
  <1> SUFFICES ASSUME document.service = "wfst", cut = {}, NEW n \in Filter!Layers
               PROVE  /\ Filter!IsAllowed(document.names[n][1]) => n \in downstream
                      /\ (n \in downstream /\ Filter!ogc_server_ids = {database.server}) => Filter!IsAllowed(document.names[n][1])
    BY DEF Filter!ListsWhatIsAllowed
  <1> DEFINE name == document.names[n][1]
             own  == Filter!get_writable_layers({database.server})
             all  == Filter!get_writable_layers(Filter!ogc_server_ids)
  <1>2. /\ \A m \in 1..N : ~Inside(m) /\ Way(m) = {m}
        /\ Filter!Named(n) /\ (Filter!Refused(n) <=> ~Filter!Keep(name))
    <2>1. \A m \in 1..N : ~Inside(m) /\ NamesIn(m) # <<>>
      BY <1>1, DocumentIs
    <2>2. \A m \in 1..N : Way(m) = {m}
      BY <1>1, <2>1, OverIs DEF Way
    <2>3. Filter!Named(n)
      BY <1>1, <2>1 DEF Filter!Named, NamesIn
    <2> QED
      BY <2>1, <2>2, <2>3 DEF Filter!Refused
  <1>3. Filter!Keep(name) <=> Local[name] \in {Lower[x] : x \in Filter!NamesOf(all)}
    BY DEF Filter!Keep, Filter!layers_whitelist
  <1>4. Filter!IsAllowed(name) <=> Local[name] \in {Lower[x] : x \in Filter!NamesOf(own)}
    BY DEF Filter!IsAllowed
  <1>5. own \subseteq all
    <2>1. database.server \in Server
      BY <1>1, PortalAssumption DEF Filter!CapabilitiesFilterAssumption
    <2>2. database.server \in Filter!ogc_server_ids
      BY <2>1 DEF Filter!ogc_server_ids
    <2> QED
      BY <2>2 DEF Filter!get_writable_layers
  <1>6. Filter!NamesOf(own) \subseteq Filter!NamesOf(all)
    BY <1>5 DEF Filter!NamesOf
  <1>7. Filter!ogc_server_ids = {database.server} => own = all
    OBVIOUS
  <1>8. Stays(n) <=> ~element[n].hidden
    BY <1>1, <1>2 DEF Stays
  <1>9. n \in downstream <=> ~element[n].hidden
    BY <1>1, <1>2, <1>8
  <1> HIDE DEF name, own, all
  <1>10. Filter!Keep(name) => n \in downstream
    <2>1. ~Inherits(n)
      BY <1>1, <1>2 DEF Inherits
    <2> QED
      BY <1>1, <1>2, <1>9, <2>1 DEF LayerInv, SeenInv
  <1>11. n \in downstream => Filter!Keep(name)
    <2> SUFFICES ASSUME ~element[n].hidden PROVE Filter!Keep(name)
      BY <1>9
    <2>1. PICK k \in 1..N : Leads(n, k)
      BY <1>1 DEF LayerInv, VisibleInv
    <2>2. k = n
      BY <1>2, <2>1 DEF Leads
    <2> QED
      BY <1>2, <2>1, <2>2 DEF Leads, MayBeSeen
  <1>12. Filter!IsAllowed(name) => Filter!Keep(name)
    BY <1>3, <1>4, <1>6
  <1>13. Filter!ogc_server_ids = {database.server} /\ Filter!Keep(name) => Filter!IsAllowed(name)
    BY <1>3, <1>4, <1>7
  <1> QED
    BY <1>10, <1>11, <1>12, <1>13 DEF name

(* The proxies give the user capabilities without the layers that he has no right to, whatever the tree of layers and
   the rows are and wherever the parser cuts a name: what is refused is left out with all that is in it, no group is
   left without layers, what is kept is written, and TinyOWS lists what it lets the user change. *)
THEOREM CapabilitiesShowRights == PortalSpec => []CapabilitiesAreFiltered
  <1>1. (part = "filter" => FilterInv) => CapabilitiesAreFiltered
    <2> SUFFICES ASSUME part = "filter", FilterInv PROVE CapabilitiesAreFiltered
      BY DEF CapabilitiesAreFiltered
    <2>1. CASE Filter!Filtered
      BY <2>1, RefusedAreHidden, GroupsAreNotEmpty, KeptAreShown, AllowedAreListed DEF CapabilitiesAreFiltered
    <2>2. CASE ~Filter!Filtered
      BY <2>2 DEF CapabilitiesAreFiltered, Filter!RefusedIsHidden, Filter!NoEmptyGroup, Filter!KeptIsShown,
         Filter!ListsWhatIsAllowed
    <2> QED
      BY <2>1, <2>2
  <1> QED
    BY <1>1, FilterKept, PTL

-----------------------------------------------------------------------------
(* Types.  The rasters take their own steps or none in every behaviour of the portal. *)

LEMMA OnlyRaster == ASSUME [PortalNext]_vars PROVE [Next]_rasterVars
  <1>1. CASE UNCHANGED vars
    BY <1>1 DEF vars
  <1>2. CASE PortalNext
    <2>1. CASE part # "raster"
      BY <1>2, <2>1 DEF PortalNext, In
    <2>2. CASE part = "raster"
      BY <1>2, <2>2 DEF PortalNext, In, Next
    <2> QED
      BY <2>1, <2>2
  <1> QED
    BY <1>1, <1>2

LEMMA RasterKept == PortalSpec => []IInv
  <1>1. PortalInit => IInv
    BY Initially DEF PortalInit
  <1>2. IInv /\ [PortalNext]_vars => IInv'
    BY OnlyRaster, StepKeeps
  <1> QED
    BY <1>1, <1>2, PTL DEF PortalSpec

(* In a behaviour of any part its variables keep their types, for all values of the constants: no row, message,
   counter or file gets a value that its table, protocol or bound has not. *)
THEOREM PartsKeepTypes == PortalSpec => []PortalTypeOK
  <1> DEFINE Inv == /\ part = "account" => AccountInv
                    /\ part = "oidc" => OidcInv
                    /\ part = "search" => SearchInv
                    /\ part = "short" => ShortInv
                    /\ part = "files" => FilesInv
                    /\ part = "filter" => FilterInv
                    /\ IInv
  <1>1. Inv => PortalTypeOK
    <2> SUFFICES ASSUME Inv PROVE PortalTypeOK
      OBVIOUS
    <2>1. part = "account" => Account!TypeOK
      BY SameAccountTypes DEF AccountInv
    <2>2. part = "oidc" => Oidc!TypeOK
      BY DEF OidcInv
    <2>3. part = "search" => Search!TypeOK
      BY DEF SearchInv
    <2>4. part = "short" => Short!TypeOK
      BY DEF ShortInv
    <2>5. part = "files" => Files!TypeOK
      BY DEF FilesInv
    <2>6. part = "filter" => Filter!TypeOK
      <3>1. FilterInv => FilterTypes /\ N \in Nat /\ Filter!Layers = 1..N /\ 1..started \subseteq 1..N
        BY InstanceConstants DEF FilterInv, FilterTypes
      <3>2. FilterInv => Filter!TypeOK
        BY <3>1 DEF Filter!TypeOK, FilterTypes, FilterElement
      <3> QED
        BY <3>2
    <2>7. TypeOK
      BY DEF IInv
    <2> QED
      BY <2>1, <2>2, <2>3, <2>4, <2>5, <2>6, <2>7 DEF PortalTypeOK
  <1>2. PortalSpec => []Inv
    BY AccountKept, OidcKept, SearchKept, ShortKept, FilesKept, FilterKept, RasterKept, PTL
  <1> QED
    BY <1>1, <1>2, PTL
=============================================================================
