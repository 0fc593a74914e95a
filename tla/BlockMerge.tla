------------------------------ MODULE BlockMerge ------------------------------
(***************************************************************************)
(* The time and the dimensions of a block of the themes, a first level group   *)
(* whose layers come from one OGC server.  The layers are exported one after    *)
(* the other; the time of the first is put on it, and moved to the block when   *)
(* a second has time.  A layer may be refused after parts of it were merged.    *)
(***************************************************************************)
EXTENDS Integers, Sequences, FiniteSets

CONSTANTS
  Input,    \* the layers that are considered
  MaxLayers,
  Dimension,
  None

(* Dates are numbers.  An extent is a list of instants, its values, or every step of an interval from a
   start to an end; the fields of the other kind are empty or 0, and min_def and max_def are the default
   values, None without.  An interval is the number of its tuple of years, months, days and seconds: other
   tuples are other numbers, and months and years are even steps.
   A layer has the extents of its own or of its children, None one that cannot be parsed; a mode, a widget,
   its dimensions (absent ones have the value Absent).  It is known when the names of its layers are one name
   that the capabilities have, which a list of names is not; nameless when one of the layers below them has no
   name there; and may be faulty for another reason. *)
Absent == "absent"
Extent == [interval : {None} \cup (Nat \ {0}), values : SUBSET Nat, start : Nat, end : Nat,
           min_def : Nat \cup {None}, max_def : Nat \cup {None}]

BlockMergeAssumption ==
  /\ MaxLayers \in Nat /\ None \notin {"value", "range", "slider", "datepicker"} \cup Nat \cup Extent
  /\ \A l \in Input : /\ l.extents \in Seq({None} \cup Extent)
                      /\ l.mode \in {"disabled", "value", "range"} /\ l.widget \in {"slider", "datepicker"}
                      /\ DOMAIN l.dimensions = Dimension
                      /\ l.known \in BOOLEAN /\ l.nameless \in BOOLEAN /\ l.faulty \in BOOLEAN

VARIABLES
  layers,      \* the layers of the block
  at,          \* the layer that is exported
  part,        \* which of its extents is merged next; 0 before the dimensions are
  time,        \* TimeInformation: what is merged, and the layer that shows it, 0 without
  node,        \* the time on a layer, NoTime without
  dimensions,  \* DimensionInformation
  refused,     \* the layers with errors, which are left out
  failed       \* an error that nothing catches: there are no themes

blockVars == <<layers, at, part, time, node, dimensions, refused, failed>>

NoTime == [extent |-> None, mode |-> None, widget |-> None]

Init ==
  /\ layers \in UNION {[1..n -> Input] : n \in 1..MaxLayers}
  /\ at = 1 /\ part = 0 /\ node = [l \in 1..Len(layers) |-> NoTime]
  /\ time = [layer |-> 0, extent |-> None, mode |-> None, widget |-> None]
  /\ dimensions = [d \in Dimension |-> Absent]
  /\ refused = {} /\ failed = FALSE

-----------------------------------------------------------------------------
Lowest(S)  == CHOOSE x \in S : \A y \in S : x <= y
Highest(S) == CHOOSE x \in S : \A y \in S : x >= y

(* min_none and max_none. *)
MinNone(a, b) == IF a = None THEN b ELSE IF b = None THEN a ELSE Lowest({a, b})
MaxNone(a, b) == IF a = None THEN b ELSE IF b = None THEN a ELSE Highest({a, b})

-----------------------------------------------------------------------------
Current == layers[at]
Refuse  == refused' = refused \cup {at}
NextLayer == at' = at + 1 /\ part' = 0

(* DimensionInformation.merge: the first value of a dimension is kept, and another one is refused. *)
Kept(name) == IF dimensions[name] \in {Absent, None} /\ Current.dimensions[name] # Absent
              THEN Current.dimensions[name] ELSE dimensions[name]

Wrong(name) == dimensions[name] \notin {Absent, None} /\ Current.dimensions[name] \notin {Absent, None, dimensions[name]}

MergeDimensions ==
  /\ ~failed /\ at <= Len(layers) /\ part = 0
  /\ dimensions' = [name \in Dimension |-> Kept(name)]
  /\ IF Current.faulty \/ \E name \in Dimension : Wrong(name) THEN Refuse ELSE UNCHANGED refused
  /\ part' = 1
  /\ UNCHANGED <<layers, at, time, node, failed>>

(* TimeExtentValue.merge and TimeExtentInterval.merge: the start and the end of the latter are the lowest and
   the highest ones, whatever steps lead from one to the other. *)
Joined(a, b) ==
  [interval |-> a.interval, values |-> a.values \cup b.values,
   start    |-> Lowest({a.start, b.start}), end |-> Highest({a.end, b.end}),
   min_def  |-> MinNone(a.min_def, b.min_def), max_def |-> MaxNone(a.max_def, b.max_def)]

(* _merge_time does nothing for a layer that is not known. *)
HasTime(layer) == layer.known /\ layer.mode # "disabled"

Timed     == HasTime(Current) /\ part \in DOMAIN Current.extents
Parsed    == Timed /\ Current.extents[part] # None
Mixes     == time.extent # None /\ time.extent.interval # Current.extents[part].interval
Disagrees == \/ time.mode \notin {None, Current.mode}
             \/ time.widget \notin {None, Current.widget}

Extended == IF time.extent = None THEN Current.extents[part] ELSE Joined(time.extent, Current.extents[part])

Exporting == ~failed /\ at <= Len(layers) /\ part > 0
Merging   == Exporting /\ ~Current.nameless

(* merge, when the layer shows the time, or is the first to have one. *)
ShowOnLayer ==
  /\ Merging /\ Parsed /\ ~Mixes /\ ~Disagrees
  /\ time.layer = at \/ time.extent = None
  /\ time' = [layer |-> at, extent |-> Extended, mode |-> Current.mode, widget |-> Current.widget]
  /\ node' = [node EXCEPT ![at] = [extent |-> Extended, mode |-> Current.mode, widget |-> Current.widget]]
  /\ part' = part + 1
  /\ UNCHANGED <<layers, at, dimensions, refused, failed>>

(* mutant: it goes on showing it *)
StillShown == node

(* The layer that showed the time hides it: it is shown on the block. *)
Hidden == IF time.layer = 0 THEN node ELSE [node EXCEPT ![time.layer] = NoTime]

ShowOnBlock ==
  /\ Merging /\ Parsed /\ ~Mixes /\ ~Disagrees
  /\ time.layer # at /\ time.extent # None
  /\ time' = [time EXCEPT !.layer = 0, !.extent = Extended]
  /\ node' = Hidden
  /\ part' = part + 1
  /\ UNCHANGED <<layers, at, dimensions, refused, failed>>

(* A ValueError: the time cannot be parsed, or its mode or its widget is another one, which is seen
   when the extent is merged already. *)
RefuseTime ==
  /\ Merging /\ Timed /\ (Parsed => ~Mixes /\ Disagrees)
  /\ time' = IF Parsed THEN [time EXCEPT !.extent = Extended] ELSE time
  /\ Refuse /\ NextLayer
  /\ UNCHANGED <<layers, node, dimensions, failed>>

(* A TypeError, which _merge_time does not catch, or the KeyError of _fill_child_layer, before any time is
   merged: the children are looked up by the names that they do not have. *)
Fail ==
  /\ Exporting /\ (Current.nameless \/ (Parsed /\ Mixes))
  /\ failed' = TRUE
  /\ UNCHANGED <<layers, at, part, time, node, dimensions, refused>>

(* A known layer that must have time and has none is refused; the time of a list of names is left out. *)
LayerDone ==
  /\ Merging /\ ~Timed
  /\ IF HasTime(Current) /\ Current.extents = <<>> THEN Refuse ELSE UNCHANGED refused
  /\ NextLayer
  /\ UNCHANGED <<layers, time, node, dimensions, failed>>

Next == MergeDimensions \/ ShowOnLayer \/ ShowOnBlock \/ RefuseTime \/ Fail \/ LayerDone

Spec == Init /\ [][Next]_blockVars

-----------------------------------------------------------------------------
(* _group: what the block shows. *)
BlockTime == IF time.extent # None /\ time.layer = 0
             THEN [extent |-> time.extent, mode |-> time.mode, widget |-> time.widget] ELSE NoTime

Finished == ~failed /\ at > Len(layers)
Exported == DOMAIN layers \ refused

(* The instants of an extent.  Two extents of one interval are in phase when the start of one is an instant
   of the other, prolonged. *)
OnGrid(x, e)  == \E n \in 0..(x - e.start) : x = e.start + n * e.interval
Instants(e)   == IF e.interval = None THEN e.values ELSE {x \in e.start..e.end : OnGrid(x, e)}
InPhase(e, f) == OnGrid(e.start, f) \/ OnGrid(f.start, e)

Aligned(e) ==
  \A k \in DOMAIN layers : HasTime(layers[k]) =>
    \A j \in DOMAIN layers[k].extents :
      LET f == layers[k].extents[j] IN f # None /\ f.interval = e.interval /\ f.interval # None => InPhase(e, f)

CoversExtent(shown, e) ==
  /\ e # None /\ e.interval = shown.interval
  /\ e.interval # None => shown.start <= e.start /\ e.end <= shown.end
  /\ Aligned(e) => Instants(e) \subseteq Instants(shown)

Covers(shown, layer) ==
  /\ shown # NoTime /\ shown.mode = layer.mode /\ shown.widget = layer.widget
  /\ \A i \in DOMAIN layer.extents : CoversExtent(shown.extent, layer.extents[i])

(* What a known layer with time is left with: the time of the block, or its own when the block has none, has
   its interval, its mode and its widget, whatever was refused before and after it; it covers the range of
   the layer, and all its instants, unless they are in another phase than those of a layer of the block; and
   a dimension of a layer has its value on the block. *)
LayersAreServed ==
  Finished => \A l \in Exported :
    /\ HasTime(layers[l]) => /\ Covers(IF BlockTime # NoTime THEN BlockTime ELSE node[l], layers[l])
                             /\ BlockTime # NoTime => node[l] = NoTime
    /\ \A d \in Dimension : layers[l].dimensions[d] \notin {Absent, None} => dimensions[d] = layers[l].dimensions[d]

(* The themes fail only for a layer without a name in the capabilities, or for a mix, in layers with time, of
   lists of values and intervals or of different intervals. *)
FailsOnlyForMix ==
  failed =>
    \/ \E l \in DOMAIN layers : layers[l].nameless
    \/ \E k, l \in DOMAIN layers : \E i \in DOMAIN layers[k].extents, j \in DOMAIN layers[l].extents :
         /\ HasTime(layers[k]) /\ HasTime(layers[l]) /\ None \notin {layers[k].extents[i], layers[l].extents[j]}
         /\ layers[k].extents[i].interval # layers[l].extents[j].interval
=============================================================================
