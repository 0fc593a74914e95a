-------------------------- MODULE QgisAccessControl --------------------------
(***************************************************************************)
(* The access control plugin of QGIS Server: one OGCServerAccessControl in *)
(* one process, its two caches (the layers of GeoMapFish, and the areas    *)
(* computed from them), the lock, and the thread that handles the          *)
(* broadcast invalidations.                                                *)
(*                                                                         *)
(* What a call answers is abstracted to the version of the rows it was     *)
(* made of, as the database the plugin reads shows them; when several      *)
(* SELECTs read different versions, the oldest of them.  A user with all   *)
(* the rights (USER_ID = 0) reads none of the caches below get_area and    *)
(* is not modelled.                                                        *)
(***************************************************************************)
EXTENDS Naturals

CONSTANTS
  Thread,          \* the threads of the server that call the plugin
  Handler,         \* the thread of the broadcasts
  AreaKey,         \* the keys of area_cache: layer, roles, read or write
  NoValue,         \* Python's None
  NoRights,        \* the answer when there is no OGC server
  Raised,          \* the call raised: None is no dictionary of layers
  Failed,          \* the call raised: a query failed, or a geometry is bad
  Unknown,         \* the call raised: no layer of GeoMapFish corresponds
  UnknownIn,       \* the versions in which none does to the layer of a key
  ServerVersion,   \* first version in which the OGC server exists
  MaxVersion,      \* bound: number of committed modifications
  MaxBroadcast,    \* bound: number of broadcasts
  MaxFailure       \* bound: number of queries and geometries that fail

ASSUME ThreadAssumption == Handler \notin Thread /\ NoValue \notin Thread \cup {Handler}
ASSUME ValueAssumption ==
  /\ \A v \in {NoValue, NoRights, Raised, Failed, Unknown} : v \notin Nat
  /\ NoRights \notin {Raised, Failed, Unknown} /\ Raised \notin {Failed, Unknown}
  /\ Failed # Unknown /\ NoValue \notin {NoRights, Raised, Failed, Unknown}
  /\ NoValue \notin AreaKey \cup [key : {"layers"}, ver : Nat]
ASSUME UnknownAssumption == UnknownIn \in [AreaKey -> SUBSET Nat]
ASSUME BoundAssumption == {ServerVersion, MaxVersion, MaxBroadcast, MaxFailure} \subseteq Nat

VARIABLES
  committed,   \* version of the committed rows
  broadcasts,  \* number of broadcasts so far (bounds the model)
  failures,    \* number of failures so far (bounds the model)
  inbox,       \* invalidations published to this process and not yet handled
  handler,     \* where the handler of one of them is
  server,      \* self.ogcserver is not None
  layers,      \* self.layers: the version it was made of, or None
  areaCache,   \* self.area_cache, the same for each key
  lock,        \* the holder of self.lock, or None
  call,        \* call[t]: the call that thread t executes, or has executed
  floor        \* history: committed version at the last invalidation

vars == <<committed, broadcasts, failures, inbox, handler, server, layers,
          areaCache, lock, call, floor>>

envVars == <<committed, broadcasts, inbox>>

-----------------------------------------------------------------------------
(* Types *)

Operation == {"permissions", "area"}
Answer == Nat \cup {NoValue, NoRights, Raised, Failed, Unknown}

Call ==
  [pc : {"idle", "area", "check", "return", "wait", "read", "got", "done"},
   op : Operation \cup {"refused"},   \* an area that get_area refuses
   key : AreaKey \cup {NoValue},
   ver : Answer,          \* the layers it has got, then its answer
   since : Nat,           \* history: floor when it started
   between : BOOLEAN]     \* history: the layers were invalidated since

TypeOK ==
  /\ committed \in Nat
  /\ broadcasts \in Nat
  /\ failures \in Nat
  /\ inbox \in Nat
  /\ handler \in {"idle", "wait", "server"}
  /\ server \in BOOLEAN
  /\ layers \in Nat \cup {NoValue}
  /\ areaCache \in [AreaKey -> Nat \cup {NoValue}]
  /\ lock \in Thread \cup {Handler, NoValue}
  /\ call \in [Thread -> Call]
  /\ \A t \in Thread :
       call[t].op # "permissions" /\ call[t].pc # "done" => call[t].key \in AreaKey
  /\ \A t \in Thread : call[t].pc = "area" => call[t].op = "area"
  /\ \A t \in Thread : call[t].pc \in {"read", "got"} => call[t].ver \in Nat
  /\ floor \in Nat

NoCall ==
  [pc |-> "idle", op |-> "permissions", key |-> NoValue, ver |-> NoValue,
   since |-> 0, between |-> FALSE]

(* The plugin has been created: _init has run once, and has found the OGC    *)
(* server if it was there and the query did not fail.                        *)
Init ==
  /\ committed = 0
  /\ broadcasts = 0
  /\ failures = 0
  /\ inbox = 0
  /\ handler = "idle"
  /\ server \in {FALSE, ServerVersion = 0}
  /\ layers = NoValue
  /\ areaCache = [k \in AreaKey |-> NoValue]
  /\ lock = NoValue
  /\ call = [t \in Thread |-> NoCall]
  /\ floor = 0

-----------------------------------------------------------------------------
(* The database and the broadcasts *)

Commit ==
  /\ committed < MaxVersion
  /\ committed' = committed + 1
  /\ UNCHANGED <<broadcasts, failures, inbox, handler, server, layers, areaCache, lock, call, floor>>

Broadcast ==
  /\ broadcasts < MaxBroadcast
  /\ broadcasts' = broadcasts + 1
  /\ inbox' = inbox + 1
  /\ UNCHANGED <<committed, failures, handler, server, layers, areaCache, lock, call, floor>>

-----------------------------------------------------------------------------
(* The handler of InvalidateCacheEvent: _init *)

HandleStart ==
  /\ inbox > 0 /\ handler = "idle"
  /\ inbox' = inbox - 1
  /\ handler' = "wait"
  /\ UNCHANGED <<committed, broadcasts, failures, server, layers, areaCache, lock, call, floor>>

Running(t) == call[t].pc \notin {"idle", "done"}

Invalidated ==
  [t \in Thread |->
    [pc |-> call[t].pc, op |-> call[t].op, key |-> call[t].key, ver |-> call[t].ver,
     since |-> call[t].since, between |-> call[t].between \/ Running(t)]]

(* mutant: the layers are cleared without the lock *)
ClearUnlocked ==
  /\ handler = "wait"
  /\ handler' = "server"
  /\ lock' = Handler
  /\ layers' = NoValue
  /\ floor' = IF server THEN committed ELSE floor
  /\ call' = Invalidated
  /\ UNCHANGED <<envVars, failures, server, areaCache>>

(* self.layers = None, with the lock.  With an OGC server, that is all an    *)
(* invalidation does.                                                        *)
HandleClear ==
  /\ handler = "wait" /\ lock = NoValue
  /\ handler' = "server"
  /\ lock' = Handler
  /\ layers' = NoValue
  /\ floor' = IF server THEN committed ELSE floor
  /\ call' = Invalidated
  /\ UNCHANGED <<envVars, failures, server, areaCache>>

(* mutant: an error of the query skips the release of the lock *)
HandleFailureKeepsLock ==
  /\ handler = "server"
  /\ handler' = "idle"
  /\ \/ lock' = NoValue /\ server' = (server \/ committed >= ServerVersion)
        /\ floor' = (IF server THEN floor ELSE committed) /\ UNCHANGED failures
     \/ ~server /\ failures < MaxFailure /\ failures' = failures + 1
        /\ UNCHANGED <<lock, server, floor>>
  /\ UNCHANGED <<envVars, layers, areaCache, call>>

(* The OGC server is looked for only when none was found so far; the         *)
(* exception of a query that fails is logged and nothing else.               *)
HandleServer ==
  /\ handler = "server"
  /\ handler' = "idle"
  /\ lock' = NoValue
  /\ \/ /\ server' = (server \/ committed >= ServerVersion)
        /\ floor' = IF server THEN floor ELSE committed
        /\ UNCHANGED failures
     \/ /\ ~server /\ failures < MaxFailure
        /\ failures' = failures + 1
        /\ UNCHANGED <<server, floor>>
  /\ UNCHANGED <<envVars, layers, areaCache, call>>

-----------------------------------------------------------------------------
(* The calls *)

GoesTo(t, pc, v) ==
  call' = [call EXCEPT ![t] =
    [pc |-> pc, op |-> call[t].op, key |-> call[t].key, ver |-> v,
     since |-> call[t].since, between |-> call[t].between]]

Answered(t, v) == GoesTo(t, "done", v)

Fails(t) ==
  /\ failures < MaxFailure
  /\ failures' = failures + 1
  /\ Answered(t, Failed)

(* What is made of the rights is answered; a geometry may not convert. *)
Ends(t, v) ==
  \/ Answered(t, v) /\ UNCHANGED failures
  \/ Fails(t)

(* mutant: the key of the area is not built *)
StartWithoutKey(t, op, k) ==
  /\ ~Running(t)
  /\ call' = [call EXCEPT ![t] =
       [pc |-> IF ~server THEN "done" ELSE IF op = "area" THEN "area" ELSE "check",
        op |-> op, key |-> NoValue, ver |-> IF server THEN NoValue ELSE NoRights,
        since |-> floor, between |-> FALSE]]
  /\ UNCHANGED <<envVars, failures, handler, server, layers, areaCache, lock, floor>>

(* layerPermissions and authorizedLayerAttributes ("permissions") use the    *)
(* layers; layerFilterSubsetString, layerFilterExpression and allowToEdit    *)
(* ("area") use an area.  Without an OGC server nothing is allowed.          *)
Start(t, op, k) ==
  /\ ~Running(t)
  /\ call' = [call EXCEPT ![t] =
       [pc |-> IF ~server THEN "done" ELSE IF op = "area" THEN "area" ELSE "check",
        op |-> op,
        key |-> IF op = "area" THEN k ELSE NoValue,
        ver |-> IF server THEN NoValue ELSE NoRights,
        since |-> floor,
        between |-> FALSE]]
  /\ UNCHANGED <<envVars, failures, handler, server, layers, areaCache, lock, floor>>

(* The roles of the user are asked for first: authorizedLayerAttributes does *)
(* it before it looks whether there is an OGC server.                        *)
RolesFail(t, op) ==
  /\ ~Running(t)
  /\ server \/ op = "permissions"
  /\ failures < MaxFailure
  /\ failures' = failures + 1
  /\ call' = [call EXCEPT ![t] =
       [pc |-> "done", op |-> op, key |-> NoValue, ver |-> Failed,
        since |-> floor, between |-> FALSE]]
  /\ UNCHANGED <<envVars, handler, server, layers, areaCache, lock, floor>>

(* get_area: the area is in area_cache ... *)
AreaCached(t) ==
  /\ call[t].pc = "area" /\ areaCache[call[t].key] # NoValue
  /\ Ends(t, areaCache[call[t].key])
  /\ UNCHANGED <<envVars, handler, server, layers, areaCache, lock, floor>>

(* ... or it is computed from the layers. *)
AreaMissing(t) ==
  /\ call[t].pc = "area" /\ areaCache[call[t].key] = NoValue
  /\ GoesTo(t, "check", call[t].ver)
  /\ UNCHANGED <<envVars, failures, handler, server, layers, areaCache, lock, floor>>

(* mutant: get_layers returns what the attribute holds *)
AlwaysCached(t) ==
  /\ call[t].pc = "check"
  /\ GoesTo(t, "return", call[t].ver)
  /\ UNCHANGED <<envVars, failures, handler, server, layers, areaCache, lock, floor>>

(* get_layers looks at the attribute without the lock: it is set ... *)
LayersCached(t) ==
  /\ call[t].pc = "check" /\ layers # NoValue
  /\ GoesTo(t, "return", call[t].ver)
  /\ UNCHANGED <<envVars, failures, handler, server, layers, areaCache, lock, floor>>

(* ... and it is read again: since then it may have been set to None, which  *)
(* is no dictionary: the caller raises.                                      *)
LayersReturned(t) ==
  /\ call[t].pc = "return"
  /\ IF layers = NoValue
       THEN Answered(t, Raised)
       ELSE GoesTo(t, "got", layers)
  /\ UNCHANGED <<envVars, failures, handler, server, layers, areaCache, lock, floor>>

LayersMissing(t) ==
  /\ call[t].pc = "check" /\ layers = NoValue
  /\ GoesTo(t, "wait", call[t].ver)
  /\ UNCHANGED <<envVars, failures, handler, server, layers, areaCache, lock, floor>>

(* mutant: the rows are read before the lock is taken *)
ReadsBeforeLock(t) ==
  /\ call[t].pc = "wait"
  /\ \/ /\ call[t].ver = NoValue
        /\ GoesTo(t, "wait", committed)
        /\ UNCHANGED lock
     \/ /\ call[t].ver # NoValue /\ lock = NoValue
        /\ lock' = t
        /\ GoesTo(t, "read", call[t].ver)
  /\ UNCHANGED <<envVars, failures, handler, server, layers, areaCache, floor>>

(* With the lock, the rows are read, whether another thread has just set the *)
(* attribute or not.                                                         *)
LayersRead(t) ==
  /\ call[t].pc = "wait" /\ lock = NoValue
  /\ lock' = t
  /\ GoesTo(t, "read", committed)
  /\ UNCHANGED <<envVars, failures, handler, server, layers, areaCache, floor>>

LayersStored(t) ==
  /\ call[t].pc = "read"
  /\ layers' = call[t].ver
  /\ lock' = NoValue
  /\ GoesTo(t, "got", call[t].ver)
  /\ UNCHANGED <<envVars, failures, handler, server, areaCache, floor>>

(* mutant: the lock is not released when a query fails *)
FailureKeepsLock(t) ==
  /\ call[t].pc = "read" /\ Fails(t)
  /\ UNCHANGED <<envVars, handler, server, layers, areaCache, lock, floor>>

(* A query fails, or the project of QGIS cannot be browsed. *)
LayersFail(t) ==
  /\ call[t].pc = "read" /\ Fails(t)
  /\ lock' = NoValue
  /\ UNCHANGED <<envVars, handler, server, layers, areaCache, floor>>

(* No layer of GeoMapFish that the layers were made of corresponds to the    *)
(* layer of the area.                                                        *)
NotFound(t) == call[t].op = "area" /\ call[t].ver \in UnknownIn[call[t].key]

(* get_area raises for such a layer, with the names of the layers: it gets   *)
(* them once more to say so ...                                              *)
UnknownLayer(t) ==
  /\ call[t].pc = "got" /\ NotFound(t)
  /\ call' = [call EXCEPT ![t] =
       [pc |-> "check", op |-> "refused", key |-> call[t].key, ver |-> NoValue,
        since |-> call[t].since, between |-> call[t].between]]
  /\ UNCHANGED <<envVars, failures, handler, server, layers, areaCache, lock, floor>>

(* ... and does, whatever they are by then. *)
Refused(t) ==
  /\ call[t].pc = "got" /\ call[t].op = "refused"
  /\ Answered(t, Unknown)
  /\ UNCHANGED <<envVars, failures, handler, server, layers, areaCache, lock, floor>>

Allowed(t) == call[t].pc = "got" /\ call[t].op # "refused" /\ ~NotFound(t)

(* The geometries of the areas do not convert, or have no union. *)
ComputeFails(t) ==
  /\ Allowed(t) /\ Fails(t)
  /\ UNCHANGED <<envVars, handler, server, layers, areaCache, lock, floor>>

(* The rights of the layer are computed, and the area is kept. *)
Compute(t) ==
  /\ Allowed(t) /\ Ends(t, call[t].ver)
  /\ areaCache' = IF call[t].op = "area"
                    THEN [areaCache EXCEPT ![call[t].key] = call[t].ver] ELSE areaCache
  /\ UNCHANGED <<envVars, handler, server, layers, lock, floor>>

-----------------------------------------------------------------------------
Handle == HandleStart \/ HandleClear \/ HandleServer

CallStep(t) ==
  \/ AreaCached(t)
  \/ AreaMissing(t)
  \/ LayersCached(t)
  \/ LayersReturned(t)
  \/ LayersMissing(t)
  \/ LayersRead(t)
  \/ LayersStored(t)
  \/ LayersFail(t)
  \/ UnknownLayer(t)
  \/ Refused(t)
  \/ ComputeFails(t)
  \/ Compute(t)

Next ==
  \/ Commit
  \/ Broadcast
  \/ Handle
  \/ \E t \in Thread :
       \/ CallStep(t)
       \/ \E op \in Operation, k \in AreaKey : Start(t, op, k)
       \/ \E op \in Operation : RolesFail(t, op)

(* The thread of the broadcasts runs, and so does a call that has started.   *)
(* Nothing is assumed of the lock but that one who waits for it gets it when *)
(* it stays free: it is not fair.                                            *)
Fairness == WF_vars(Handle) /\ \A t \in Thread : WF_vars(CallStep(t))

Spec == Init /\ [][Next]_vars

FairSpec == Spec /\ Fairness

-----------------------------------------------------------------------------
(* Properties *)

Done(t) == call[t].pc = "done"

(* The rights of a call that started once an invalidation was carried out    *)
(* are made of rows no older than that invalidation found; and nothing is    *)
(* allowed for want of an OGC server only if that invalidation did not find  *)
(* one.  Calls compute the layers while invalidations are handled.           *)
PermissionsFresh ==
  \A t \in Thread :
    Done(t) /\ call[t].op = "permissions" =>
      /\ call[t].ver \in Nat => call[t].ver >= call[t].since
      /\ call[t].ver = NoRights => call[t].since = 0 \/ call[t].since < ServerVersion

(* The invariant behind it: the layers that are stored, or held by a call,   *)
(* are never older than the last invalidation (than the start of the call),  *)
(* because who reads the rows has the lock until they are stored.            *)
LayersInv ==
  /\ floor <= committed
  /\ layers # NoValue => layers >= floor
  /\ ~server => floor = 0 \/ floor < ServerVersion
  /\ handler = "server" <=> lock = Handler
  /\ handler = "server" => layers = NoValue

CallInv ==
  \A t \in Thread :
    /\ call[t].since <= floor
    /\ call[t].pc = "read" <=> lock = t
    /\ call[t].pc = "read" => call[t].ver >= floor
    /\ call[t].pc = "got" => call[t].ver >= call[t].since

AccessInv == LayersInv /\ CallInv /\ PermissionsFresh

(* The layers implement SharedCache, for one process and one key: what is     *)
(* stored is all that is around, and is answered.  A thread that reads the   *)
(* rows is a creator; that none ever runs when an invalidation is carried    *)
(* out, nor uses what the plugin refuses, is that raced is never set.        *)
Plugin == {"plugin"}
LayersKey == {"layers"}

Reading(t) ==
  IF call[t].pc = "read" THEN [key |-> "layers", ver |-> call[t].ver] ELSE NoValue

Readers == [p \in Plugin |-> [t \in Thread |-> Reading(t)]]

Around == [k \in LayersKey |-> {layers} \ {NoValue}]

Promise == INSTANCE SharedCache WITH
  Process <- Plugin, Key <- LayersKey, None <- NoValue,
  creators <- Readers,
  around <- Around,
  accepted <- [p \in Plugin |-> Around],
  answer <- [p \in Plugin |-> [k \in LayersKey |-> layers]],
  floor <- [p \in Plugin |-> floor],
  raced <- [p \in Plugin |-> FALSE]

(* Storing the layers replaces them, an invalidation takes them away at      *)
(* once, and it never overtakes a thread that reads the rows: get_layers and *)
(* _init hold the lock for this.                                             *)
LayersAreShared == Promise!Spec

(* What a call raises besides the failures of queries and of geometries: an  *)
(* error of Python only if the layers were invalidated while it ran, between *)
(* the two looks of get_layers at the attribute; and that the layer is       *)
(* unknown only if it was in rows no older than the last invalidation        *)
(* carried out before the call started.                                      *)
RaisedOnlyByRace ==
  \A t \in Thread : Done(t) =>
    /\ call[t].ver = Raised => call[t].between
    /\ call[t].ver = Unknown =>
         \E v \in UnknownIn[call[t].key] : call[t].since <= v /\ v <= committed

(* An area answered to a call that started once an invalidation was carried  *)
(* out is no older than that invalidation: "The internal cache will be       *)
(* invalidated on application start and after each modification in the       *)
(* Theme or the RestrictionArea."                                            *)
AreaInvalidated ==
  \A t \in Thread :
    Done(t) /\ call[t].op = "area" /\ call[t].ver \in Nat => call[t].ver >= call[t].since

(* Every invalidation is carried out, and every call ends: nobody keeps the  *)
(* lock, and the calls that take it do not keep the others from it.          *)
InvalidationsCarriedOut == inbox > 0 \/ handler # "idle" ~> inbox = 0 /\ handler = "idle"

CallsEnd == \A t \in Thread : Running(t) ~> ~Running(t)
=============================================================================
