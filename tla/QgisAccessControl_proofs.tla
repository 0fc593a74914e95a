----------------------- MODULE QgisAccessControl_proofs -----------------------
(***************************************************************************)
(* The types of the variables of QgisAccessControl, that permissions are   *)
(* never older than the last invalidation, that a call finds no layers only *)
(* if they were invalidated while it ran and refuses a layer only by rows  *)
(* no older than the last invalidation, and that the layers implement      *)
(* SharedCache, for any number of threads, keys and broadcasts.            *)
(***************************************************************************)
EXTENDS QgisAccessControl, TLAPS

(* What the initial state satisfies. *)
LEMMA InitTypes == Init => TypeOK
<1> SUFFICES ASSUME Init PROVE TypeOK
  OBVIOUS
<1>1. NoCall \in Call /\ NoCall.pc = "idle" /\ NoCall.op = "permissions"
  BY DEF NoCall, Call, Answer, Operation
<1>2. call \in [Thread -> Call] 
     /\ \A t \in Thread : call[t].pc = "idle" /\ call[t].op = "permissions"
  BY <1>1 DEF Init
<1> QED
  BY <1>2, BoundAssumption DEF Init, TypeOK

LEMMA InitAccess == Init => AccessInv
  BY ThreadAssumption, ValueAssumption, BoundAssumption
     DEF Init, AccessInv, LayersInv, CallInv, PermissionsFresh, Done, NoCall

Busy == {"area", "check", "return", "wait", "read", "got"}

(* What TypeOK says of one call. *)
CallOK(c) ==
  /\ c \in Call
  /\ c.op # "permissions" /\ c.pc # "done" => c.key \in AreaKey
  /\ c.pc = "area" => c.op = "area"
  /\ c.pc \in {"read", "got"} => c.ver \in Nat

(* A step of a call that is running keeps the types of the calls. *)
LEMMA StepOfCall ==
  ASSUME TypeOK, NEW t \in Thread, call[t].pc \in Busy,
         NEW pc \in (Busy \ {"area"}) \cup {"done"}, NEW v \in Answer, GoesTo(t, pc, v),
         pc \in {"read", "got"} => v \in Nat
  PROVE  call' \in [Thread -> Call] /\ \A u \in Thread : CallOK(call'[u])
<1>1. CallOK(call[t])
  BY DEF TypeOK, CallOK
<1>2. call'[t] = [pc |-> pc, op |-> call[t].op, key |-> call[t].key, ver |-> v,
                  since |-> call[t].since, between |-> call[t].between]
  BY DEF GoesTo, TypeOK
<1>3. CallOK(call'[t])
  BY <1>1, <1>2 DEF Call, CallOK, Busy
<1>4. call' = [call EXCEPT ![t] = call'[t]]
  BY <1>2 DEF GoesTo
<1>5. call' \in [Thread -> Call]
  BY <1>3, <1>4 DEF TypeOK, CallOK
<1>6. ASSUME NEW u \in Thread, u # t PROVE CallOK(call'[u])
  BY <1>4, <1>6 DEF TypeOK, CallOK, Busy
<1> QED
  BY <1>3, <1>5, <1>6

(* A step keeps the types. *)
LEMMA StepTypes == TypeOK /\ [Next]_vars => TypeOK'
<1> SUFFICES ASSUME TypeOK, [Next]_vars PROVE TypeOK'
  OBVIOUS
<1>1. CASE Commit
  BY <1>1 DEF Commit, TypeOK
<1>2. CASE Broadcast
  BY <1>2 DEF Broadcast, TypeOK
<1>3. CASE Handle
  <2>1. CASE HandleStart
    BY <2>1 DEF HandleStart, TypeOK
  <2>2. CASE HandleClear
    <3>1. ASSUME NEW u \in Thread
          PROVE  CallOK(call'[u]) /\ call'[u] = Invalidated[u]
      BY <2>2 DEF HandleClear, Invalidated, TypeOK, CallOK, Call, Busy
    <3>2. call' \in [Thread -> Call]
      BY <2>2, <3>1 DEF HandleClear, Invalidated, CallOK
    <3> QED
      BY <2>2, <3>1, <3>2 DEF HandleClear, envVars, TypeOK, CallOK, Busy
  <2>3. CASE HandleServer
    <3>1. server' \in BOOLEAN /\ UNCHANGED <<envVars, layers, areaCache, call>>
      BY <2>3 DEF HandleServer, TypeOK
    <3>2. failures' \in Nat /\ floor' \in Nat /\ lock' = NoValue /\ handler' = "idle"
      BY <2>3 DEF HandleServer, TypeOK
    <3> QED
      BY <3>1, <3>2 DEF envVars, TypeOK
  <2> QED
    BY <1>3, <2>1, <2>2, <2>3 DEF Handle
<1>4. ASSUME NEW t \in Thread, CallStep(t), ~UnknownLayer(t) PROVE TypeOK'
  <2>1. call[t].pc \in Busy
    BY <1>4 DEF CallStep, AreaCached, AreaMissing, LayersCached, LayersReturned,
       LayersMissing, LayersRead, LayersStored, LayersFail, Refused, ComputeFails, Compute,
       Allowed, Busy
  <2>2. /\ call[t].ver \in Answer /\ layers \in Answer /\ committed \in Answer
        /\ {Raised, Failed, Unknown} \subseteq Answer
    BY DEF TypeOK, Call, Answer
  <2>3. \E pc \in (Busy \ {"area"}) \cup {"done"}, v \in Answer :
          GoesTo(t, pc, v) /\ (pc \in {"read", "got"} => v \in Nat)
    <3>1. CASE AreaCached(t)
      <4>1. \E v \in Answer : GoesTo(t, "done", v)
        BY <2>2, <3>1 DEF AreaCached, Ends, Fails, Answered, TypeOK, Answer
      <4> QED
        BY <4>1 DEF Busy
    <3>2. CASE AreaMissing(t)
      <4>1. GoesTo(t, "check", call[t].ver)
        BY <3>2 DEF AreaMissing
      <4> QED
        BY <4>1, <2>2 DEF Busy
    <3>3. CASE LayersCached(t)
      <4>1. GoesTo(t, "return", call[t].ver)
        BY <3>3 DEF LayersCached
      <4> QED
        BY <4>1, <2>2 DEF Busy
    <3>4. CASE LayersReturned(t)
      <4>1. CASE layers = NoValue
        BY <2>2, <3>4, <4>1 DEF LayersReturned, Answered, Busy
      <4>2. CASE layers # NoValue
        <5>1. layers \in Nat /\ GoesTo(t, "got", layers)
          BY <3>4, <4>2 DEF LayersReturned, TypeOK
        <5> QED
          BY <5>1, <2>2 DEF Busy
      <4> QED
        BY <4>1, <4>2
    <3>5. CASE LayersMissing(t)
      <4>1. GoesTo(t, "wait", call[t].ver)
        BY <3>5 DEF LayersMissing
      <4> QED
        BY <4>1, <2>2 DEF Busy
    <3>6. CASE LayersRead(t)
      <4>1. GoesTo(t, "read", committed)
        BY <3>6 DEF LayersRead, Answered
      <4> QED
        BY <4>1, <2>2 DEF Busy, TypeOK
    <3>7. CASE LayersStored(t)
      <4>1. call[t].ver \in Nat /\ GoesTo(t, "got", call[t].ver)
        BY <3>7 DEF LayersStored, TypeOK
      <4> QED
        BY <4>1, <2>2 DEF Busy
    <3>8. CASE LayersFail(t)
      <4>1. GoesTo(t, "done", Failed)
        BY <3>8 DEF LayersFail, Fails, Answered
      <4> QED
        BY <4>1, <2>2 DEF Busy
    <3>9. CASE Compute(t)
      <4>1. \E v \in Answer : GoesTo(t, "done", v)
        BY <3>9, <2>2 DEF Compute, Ends, Fails, Answered
      <4> QED
        BY <4>1 DEF Busy
    <3>10. CASE ComputeFails(t)
      <4>1. GoesTo(t, "done", Failed)
        BY <3>10 DEF ComputeFails, Fails, Answered
      <4> QED
        BY <4>1, <2>2 DEF Busy
    <3>11. CASE Refused(t)
      <4>1. GoesTo(t, "done", Unknown)
        BY <3>11 DEF Refused, Answered
      <4> QED
        BY <4>1, <2>2 DEF Busy
    <3> QED
      BY <1>4, <3>1, <3>2, <3>3, <3>4, <3>5, <3>6, <3>7, <3>8, <3>9, <3>10, <3>11 DEF CallStep
  <2>4. call' \in [Thread -> Call] /\ \A u \in Thread : CallOK(call'[u])
    BY <2>1, <2>3, StepOfCall
  <2>5. layers' \in Nat \cup {NoValue} /\ areaCache' \in [AreaKey -> Nat \cup {NoValue}]
    BY <1>4 DEF TypeOK, CallStep, AreaCached, AreaMissing, LayersCached, LayersReturned,
       LayersMissing, LayersRead, LayersStored, LayersFail, Refused, ComputeFails, Compute, Allowed
  <2>6. lock' \in Thread \cup {Handler, NoValue} /\ failures' \in Nat
    BY <1>4 DEF TypeOK, CallStep, AreaCached, AreaMissing, LayersCached, LayersReturned,
       LayersMissing, LayersRead, LayersStored, LayersFail, Refused, ComputeFails, Compute,
       Ends, Fails
  <2>7. UNCHANGED <<committed, broadcasts, inbox, handler, server, floor>>
    BY <1>4 DEF envVars, CallStep, AreaCached, AreaMissing, LayersCached, LayersReturned,
       LayersMissing, LayersRead, LayersStored, LayersFail, Refused, ComputeFails, Compute
  <2> QED
    BY <2>4, <2>5, <2>6, <2>7 DEF TypeOK, CallOK, Busy
<1>5. ASSUME NEW t \in Thread, NEW op \in Operation, NEW k \in AreaKey, Start(t, op, k)
      PROVE TypeOK'
  <2> DEFINE new == [pc |-> IF ~server THEN "done" ELSE IF op = "area" THEN "area" ELSE "check",
        op |-> op, key |-> IF op = "area" THEN k ELSE NoValue,
        ver |-> IF server THEN NoValue ELSE NoRights, since |-> floor, between |-> FALSE]
  <2>1. new \in Call /\ (new.op # "permissions" => new.key \in AreaKey) /\ new.pc \notin {"read", "got"}
    BY DEF TypeOK, Call, Answer, Operation
  <2>2. call' = [call EXCEPT ![t] = new]
    BY <1>5 DEF Start
  <2>3. call' \in [Thread -> Call] /\ \A u \in Thread : CallOK(call'[u])
    BY <2>1, <2>2 DEF TypeOK, CallOK, Busy
  <2> QED
    BY <1>5, <2>3 DEF Start, envVars, TypeOK, CallOK, Busy
<1>6. CASE UNCHANGED vars
  BY <1>6 DEF vars, TypeOK
<1>7. ASSUME NEW t \in Thread, UnknownLayer(t) PROVE TypeOK'
  <2> DEFINE new == [pc |-> "check", op |-> "refused", key |-> call[t].key, ver |-> NoValue,
        since |-> call[t].since, between |-> call[t].between]
  <2>1. call[t].pc = "got" /\ call[t].op = "area" /\ call[t] \in Call /\ call[t].key \in AreaKey
    BY <1>7 DEF UnknownLayer, NotFound, TypeOK
  <2>2. CallOK(new)
    BY <2>1 DEF CallOK, Call, Answer
  <2>3. call' = [call EXCEPT ![t] = new]
    BY <1>7 DEF UnknownLayer
  <2>4. call' \in [Thread -> Call] /\ \A u \in Thread : CallOK(call'[u])
    BY <2>2, <2>3 DEF TypeOK, CallOK
  <2> QED
    BY <1>7, <2>4 DEF UnknownLayer, envVars, TypeOK, CallOK
<1>8. ASSUME NEW t \in Thread, NEW op \in Operation, RolesFail(t, op) PROVE TypeOK'
  <2> DEFINE new == [pc |-> "done", op |-> op, key |-> NoValue, ver |-> Failed,
        since |-> floor, between |-> FALSE]
  <2>1. CallOK(new)
    BY DEF CallOK, Call, Answer, Operation, TypeOK
  <2>2. call' = [call EXCEPT ![t] = new]
    BY <1>8 DEF RolesFail
  <2>3. call' \in [Thread -> Call] /\ \A u \in Thread : CallOK(call'[u])
    BY <2>1, <2>2 DEF TypeOK, CallOK
  <2> QED
    BY <1>8, <2>3 DEF RolesFail, envVars, TypeOK, CallOK
<1> QED
  BY <1>1, <1>2, <1>3, <1>4, <1>5, <1>6, <1>7, <1>8 DEF Next

-----------------------------------------------------------------------------
(* What CallInv and PermissionsFresh say of one call, with lock l and floor f. *)
CallSafe(t, c, l, f) ==
  /\ c.since <= f
  /\ c.pc = "read" <=> l = t
  /\ c.pc = "read" => c.ver >= f
  /\ c.pc = "got" => c.ver >= c.since
  /\ c.pc = "done" /\ c.op = "permissions" =>
       /\ c.ver \in Nat => c.ver >= c.since
       /\ c.ver = NoRights => c.since = 0 \/ c.since < ServerVersion

LEMMA SafeCalls ==
  CallInv /\ PermissionsFresh <=> \A t \in Thread : CallSafe(t, call[t], lock, floor)
  BY DEF CallInv, PermissionsFresh, CallSafe, Done

LEMMA SafeCallsNext ==
  (CallInv /\ PermissionsFresh)' <=> \A t \in Thread : CallSafe(t, call'[t], lock', floor')
  BY DEF CallInv, PermissionsFresh, CallSafe, Done

(* The handler keeps the invariant: it moves floor only while it can get, or *)
(* has, the lock, so that no call holds rows that it has read.               *)
LEMMA HandleAccess == TypeOK /\ TypeOK' /\ AccessInv /\ Handle => AccessInv'
<1> SUFFICES ASSUME TypeOK, TypeOK', AccessInv, Handle PROVE AccessInv'
  OBVIOUS
<1> USE ThreadAssumption, BoundAssumption
<1>1. LayersInv /\ \A t \in Thread : CallSafe(t, call[t], lock, floor)
  BY SafeCalls DEF AccessInv
<1>2. floor \in Nat /\ floor' \in Nat /\ committed \in Nat
  BY DEF TypeOK
<1>3. CASE HandleStart
  BY <1>1, <1>3, SafeCallsNext DEF HandleStart, LayersInv, AccessInv
<1>4. CASE HandleClear
  <2>1. lock = NoValue /\ lock' = Handler /\ layers' = NoValue /\ handler' = "server"
    BY <1>4 DEF HandleClear
  <2>2. floor <= floor' /\ floor' <= committed
    BY <1>1, <1>2, <1>4 DEF HandleClear, LayersInv
  <2>3. LayersInv'
    BY <1>1, <1>4, <2>1, <2>2 DEF HandleClear, LayersInv, envVars
  <2>4. ASSUME NEW t \in Thread PROVE CallSafe(t, call'[t], lock', floor')
    <3>1. /\ call'[t].pc = call[t].pc /\ call'[t].op = call[t].op
          /\ call'[t].ver = call[t].ver /\ call'[t].since = call[t].since
      BY <1>4 DEF HandleClear, Invalidated
    <3>2. call[t].since \in Nat
      BY DEF TypeOK, Call
    <3>3. t # Handler /\ t # NoValue
      OBVIOUS
    <3> QED
      BY <1>1, <1>2, <2>1, <2>2, <3>1, <3>2, <3>3 DEF CallSafe
  <2> QED
    BY <2>3, <2>4, SafeCallsNext DEF AccessInv
<1>5. CASE HandleServer
  <2>1. handler = "server" /\ handler' = "idle" /\ lock = Handler /\ lock' = NoValue
        /\ layers = NoValue /\ UNCHANGED <<committed, layers, call>>
    BY <1>1, <1>5 DEF HandleServer, LayersInv, envVars
  <2>2. floor <= floor' /\ floor' <= committed
    BY <1>1, <1>2, <1>5 DEF HandleServer, LayersInv
  <2>3. ~server' => floor' = 0 \/ floor' < ServerVersion
    <3>1. CASE server' = (server \/ committed >= ServerVersion)
               /\ floor' = IF server THEN floor ELSE committed
      <4>1. ~server' => ~server /\ ~(committed >= ServerVersion)
        BY <3>1
      <4>2. ServerVersion \in Nat
        BY BoundAssumption
      <4>3. ~server => floor' = committed
        BY <3>1
      <4> QED
        BY <1>2, <4>1, <4>2, <4>3
    <3>2. CASE UNCHANGED <<server, floor>>
      BY <1>1, <3>2 DEF LayersInv
    <3> QED
      BY <1>5, <3>1, <3>2 DEF HandleServer
  <2>4. LayersInv'
    <3>1. NoValue # Handler
      OBVIOUS
    <3> QED
      BY <2>1, <2>2, <2>3, <3>1 DEF LayersInv
  <2>5. ASSUME NEW t \in Thread PROVE CallSafe(t, call'[t], lock', floor')
    <3>1. call[t].since \in Nat /\ t # Handler /\ t # NoValue
      BY DEF TypeOK, Call
    <3> QED
      BY <1>1, <1>2, <2>1, <2>2, <3>1 DEF CallSafe
  <2> QED
    BY <2>4, <2>5, SafeCallsNext DEF AccessInv
<1> QED
  BY <1>3, <1>4, <1>5 DEF Handle

(* A step of a call keeps it: the rows are read with the lock, and the lock  *)
(* keeps floor where it is until they are stored.                            *)
LEMMA CallAccess ==
  ASSUME TypeOK, TypeOK', AccessInv, NEW t \in Thread, CallStep(t)
  PROVE  AccessInv'
<1> USE ThreadAssumption, BoundAssumption
<1>1. LayersInv /\ \A u \in Thread : CallSafe(u, call[u], lock, floor)
  BY SafeCalls DEF AccessInv
<1>2. /\ floor \in Nat /\ committed \in Nat /\ call[t].since \in Nat
      /\ t # NoValue /\ t # Handler
  BY DEF TypeOK, Call
<1>3. UNCHANGED <<committed, handler, server, floor>>
  BY DEF CallStep, envVars, AreaCached, AreaMissing, LayersCached, LayersReturned, LayersMissing,
     LayersRead, LayersStored, LayersFail, UnknownLayer, Refused, ComputeFails, Compute
<1>4. ASSUME NEW pc, NEW v, GoesTo(t, pc, v)
      PROVE  /\ call'[t].pc = pc /\ call'[t].ver = v
             /\ call'[t].op = call[t].op /\ call'[t].since = call[t].since
             /\ \A u \in Thread : u # t => call'[u] = call[u]
  BY <1>4 DEF GoesTo, TypeOK
<1>5. CASE AreaCached(t)
  <2>1. /\ GoesTo(t, "done", areaCache[call[t].key]) \/ GoesTo(t, "done", Failed)
        /\ UNCHANGED <<layers, lock>> /\ call[t].pc # "read"
    BY <1>5 DEF AreaCached, Ends, Fails, Answered
  <2>2. call[t].op = "area"
    BY <1>5 DEF AreaCached, TypeOK
  <2>3. CallSafe(t, call'[t], lock', floor')
    BY <1>1, <1>2, <1>3, <1>4, <2>1, <2>2 DEF CallSafe
  <2>4. \A u \in Thread : CallSafe(u, call'[u], lock', floor')
    BY <1>1, <1>3, <1>4, <2>1, <2>3
  <2> QED
    BY <1>1, <1>3, <2>1, <2>4, SafeCallsNext DEF AccessInv, LayersInv
<1>6. CASE AreaMissing(t)
  <2>1. GoesTo(t, "check", call[t].ver) /\ UNCHANGED <<layers, lock>> /\ call[t].pc # "read"
    BY <1>6 DEF AreaMissing, Answered
  <2>3. CallSafe(t, call'[t], lock', floor')
    BY <1>1, <1>2, <1>3, <1>4, <2>1 DEF CallSafe
  <2>4. \A u \in Thread : CallSafe(u, call'[u], lock', floor')
    BY <1>1, <1>3, <1>4, <2>1, <2>3
  <2> QED
    BY <1>1, <1>3, <2>1, <2>4, SafeCallsNext DEF AccessInv, LayersInv
<1>7. CASE LayersCached(t)
  <2>1. GoesTo(t, "return", call[t].ver) /\ UNCHANGED <<layers, lock>> /\ call[t].pc # "read"
    BY <1>7 DEF LayersCached, Answered
  <2>3. CallSafe(t, call'[t], lock', floor')
    BY <1>1, <1>2, <1>3, <1>4, <2>1 DEF CallSafe
  <2>4. \A u \in Thread : CallSafe(u, call'[u], lock', floor')
    BY <1>1, <1>3, <1>4, <2>1, <2>3
  <2> QED
    BY <1>1, <1>3, <2>1, <2>4, SafeCallsNext DEF AccessInv, LayersInv
<1>8. CASE LayersReturned(t)
  <2>1. UNCHANGED <<layers, lock>> /\ call[t].pc = "return"
    BY <1>8 DEF LayersReturned
  <2>2. ASSUME layers = NoValue PROVE CallSafe(t, call'[t], lock', floor')
    <3>1. GoesTo(t, "done", Raised)
      BY <1>8, <2>2 DEF LayersReturned, Answered
    <3>2. CallSafe(t, call'[t], lock', floor')
      BY <1>1, <1>2, <1>3, <1>4, <2>1, <3>1, ValueAssumption DEF CallSafe
    <3> QED
      BY <3>2
  <2>3. ASSUME layers # NoValue PROVE CallSafe(t, call'[t], lock', floor')
    <3>1. GoesTo(t, "got", layers)
      BY <1>8, <2>3 DEF LayersReturned
    <3>2. layers \in Nat /\ layers >= floor
      BY <1>1, <2>3 DEF TypeOK, LayersInv
    <3>3. CallSafe(t, call'[t], lock', floor')
      BY <1>1, <1>2, <1>3, <1>4, <2>1, <3>1, <3>2 DEF CallSafe
    <3> QED
      BY <3>3
  <2>4. \A u \in Thread : CallSafe(u, call'[u], lock', floor')
    <3>1. ASSUME NEW u \in Thread, u # t PROVE CallSafe(u, call'[u], lock', floor')
      <4>1. call'[u] = call[u]
        BY <1>8, <3>1 DEF LayersReturned, Answered, GoesTo, TypeOK
      <4> QED
        BY <1>1, <1>3, <2>1, <4>1
    <3> QED
      BY <2>2, <2>3, <3>1
  <2> QED
    BY <1>1, <1>3, <2>1, <2>4, SafeCallsNext DEF AccessInv, LayersInv
<1>9. CASE LayersMissing(t)
  <2>1. GoesTo(t, "wait", call[t].ver) /\ UNCHANGED <<layers, lock>> /\ call[t].pc # "read"
    BY <1>9 DEF LayersMissing, Answered
  <2>3. CallSafe(t, call'[t], lock', floor')
    BY <1>1, <1>2, <1>3, <1>4, <2>1 DEF CallSafe
  <2>4. \A u \in Thread : CallSafe(u, call'[u], lock', floor')
    BY <1>1, <1>3, <1>4, <2>1, <2>3
  <2> QED
    BY <1>1, <1>3, <2>1, <2>4, SafeCallsNext DEF AccessInv, LayersInv
<1>10. CASE LayersRead(t)
  <2>1. GoesTo(t, "read", committed) /\ lock = NoValue /\ lock' = t /\ UNCHANGED layers
    BY <1>10 DEF LayersRead
  <2>2. CallSafe(t, call'[t], lock', floor')
    BY <1>1, <1>2, <1>3, <1>4, <2>1 DEF CallSafe, LayersInv
  <2>3. ASSUME NEW u \in Thread, u # t PROVE CallSafe(u, call'[u], lock', floor')
    BY <1>1, <1>3, <1>4, <2>1, <2>3 DEF CallSafe
  <2>4. LayersInv'
    BY <1>1, <1>2, <1>3, <2>1 DEF LayersInv
  <2> QED
    BY <2>2, <2>3, <2>4, SafeCallsNext DEF AccessInv
<1>11. CASE LayersStored(t)
  <2>1. GoesTo(t, "got", call[t].ver) /\ lock = t /\ lock' = NoValue /\ layers' = call[t].ver
    BY <1>1, <1>11 DEF LayersStored, CallSafe
  <2>2. call[t].ver \in Nat /\ call[t].ver >= floor
    BY <1>1, <1>11 DEF LayersStored, TypeOK, CallSafe
  <2>3. CallSafe(t, call'[t], lock', floor')
    BY <1>1, <1>2, <1>3, <1>4, <2>1, <2>2 DEF CallSafe
  <2>4. ASSUME NEW u \in Thread, u # t PROVE CallSafe(u, call'[u], lock', floor')
    BY <1>1, <1>3, <1>4, <2>1, <2>4 DEF CallSafe
  <2>5. LayersInv'
    BY <1>1, <1>2, <1>3, <2>1, <2>2 DEF LayersInv
  <2> QED
    BY <2>3, <2>4, <2>5, SafeCallsNext DEF AccessInv
<1>12. CASE LayersFail(t)
  <2>1. GoesTo(t, "done", Failed) /\ lock = t /\ lock' = NoValue /\ UNCHANGED layers
    BY <1>1, <1>12 DEF LayersFail, Fails, CallSafe, Answered
  <2>2. CallSafe(t, call'[t], lock', floor')
    BY <1>1, <1>2, <1>3, <1>4, <2>1, ValueAssumption DEF CallSafe
  <2>3. ASSUME NEW u \in Thread, u # t PROVE CallSafe(u, call'[u], lock', floor')
    BY <1>1, <1>3, <1>4, <2>1, <2>3 DEF CallSafe
  <2>4. LayersInv'
    BY <1>1, <1>2, <1>3, <2>1 DEF LayersInv
  <2> QED
    BY <2>2, <2>3, <2>4, SafeCallsNext DEF AccessInv
<1>13. CASE Compute(t)
  <2>1. /\ GoesTo(t, "done", call[t].ver) \/ GoesTo(t, "done", Failed)
        /\ UNCHANGED <<layers, lock>> /\ call[t].pc # "read"
    BY <1>13 DEF Compute, Allowed, Ends, Fails, Answered
  <2>2. call[t].pc = "got" /\ call[t].ver \in Nat
    BY <1>13 DEF Compute, Allowed, TypeOK
  <2>3. CallSafe(t, call'[t], lock', floor')
    BY <1>1, <1>2, <1>3, <1>4, <2>1, <2>2, ValueAssumption DEF CallSafe
  <2>4. \A u \in Thread : CallSafe(u, call'[u], lock', floor')
    BY <1>1, <1>3, <1>4, <2>1, <2>3
  <2> QED
    BY <1>1, <1>3, <2>1, <2>4, SafeCallsNext DEF AccessInv, LayersInv
<1>14. CASE ComputeFails(t) \/ Refused(t)
  <2>1. /\ \E v \in {Failed, Unknown} : GoesTo(t, "done", v)
        /\ UNCHANGED <<layers, lock>> /\ call[t].pc # "read"
    BY <1>14 DEF ComputeFails, Allowed, Fails, Refused, Answered
  <2>3. CallSafe(t, call'[t], lock', floor')
    BY <1>1, <1>2, <1>3, <1>4, <2>1, ValueAssumption DEF CallSafe
  <2>4. \A u \in Thread : CallSafe(u, call'[u], lock', floor')
    BY <1>1, <1>3, <1>4, <2>1, <2>3
  <2> QED
    BY <1>1, <1>3, <2>1, <2>4, SafeCallsNext DEF AccessInv, LayersInv
<1>15. CASE UnknownLayer(t)
  <2>1. /\ call'[t].pc = "check" /\ call'[t].since = call[t].since
        /\ \A u \in Thread : u # t => call'[u] = call[u]
        /\ UNCHANGED <<layers, lock>> /\ call[t].pc = "got"
    BY <1>15 DEF UnknownLayer, TypeOK
  <2>2. CallSafe(t, call'[t], lock', floor')
    BY <1>1, <1>2, <1>3, <2>1 DEF CallSafe
  <2>3. \A u \in Thread : CallSafe(u, call'[u], lock', floor')
    BY <1>1, <1>3, <2>1, <2>2
  <2> QED
    BY <1>1, <1>3, <2>1, <2>3, SafeCallsNext DEF AccessInv, LayersInv
<1> QED
  BY <1>5, <1>6, <1>7, <1>8, <1>9, <1>10, <1>11, <1>12, <1>13, <1>14, <1>15 DEF CallStep

(* A call that starts, with floor as it is. *)
LEMMA StartAccess ==
  ASSUME TypeOK, AccessInv,
         NEW t \in Thread, NEW op \in Operation, NEW k \in AreaKey, Start(t, op, k)
  PROVE  AccessInv'
<1>1. LayersInv /\ \A u \in Thread : CallSafe(u, call[u], lock, floor)
  BY SafeCalls DEF AccessInv
<1>2. UNCHANGED <<committed, handler, server, layers, lock, floor>>
  BY DEF Start, envVars
<1>3. /\ call'[t].pc \in {"done", "area", "check"} /\ call'[t].since = floor
      /\ call'[t].pc = "done" <=> ~server
      /\ call'[t].ver = IF server THEN NoValue ELSE NoRights
      /\ \A u \in Thread : u # t => call'[u] = call[u]
  BY DEF Start, TypeOK
<1>4. CallSafe(t, call'[t], lock', floor')
  <2>1. lock # t
    BY <1>1 DEF CallSafe, Start, Running
  <2>2. floor \in Nat
    BY DEF TypeOK
  <2> QED
    BY <1>1, <1>2, <1>3, <2>1, <2>2, ValueAssumption DEF CallSafe, LayersInv
<1>5. \A u \in Thread : CallSafe(u, call'[u], lock', floor')
  BY <1>1, <1>2, <1>3, <1>4
<1> QED
  BY <1>1, <1>2, <1>5, SafeCallsNext DEF AccessInv, LayersInv

(* A call whose first query fails. *)
LEMMA RolesFailAccess ==
  ASSUME TypeOK, AccessInv, NEW t \in Thread, NEW op \in Operation, RolesFail(t, op)
  PROVE  AccessInv'
<1>1. LayersInv /\ \A u \in Thread : CallSafe(u, call[u], lock, floor)
  BY SafeCalls DEF AccessInv
<1>2. UNCHANGED <<committed, handler, server, layers, lock, floor>>
  BY DEF RolesFail, envVars
<1>3. /\ call'[t].pc = "done" /\ call'[t].since = floor /\ call'[t].ver = Failed
      /\ \A u \in Thread : u # t => call'[u] = call[u]
  BY DEF RolesFail, TypeOK
<1>4. lock # t /\ floor \in Nat
  BY <1>1 DEF CallSafe, RolesFail, Running, TypeOK
<1>5. CallSafe(t, call'[t], lock', floor')
  BY <1>2, <1>3, <1>4, ValueAssumption DEF CallSafe
<1>6. \A u \in Thread : CallSafe(u, call'[u], lock', floor')
  BY <1>1, <1>2, <1>3, <1>5
<1> QED
  BY <1>1, <1>2, <1>6, SafeCallsNext DEF AccessInv, LayersInv

LEMMA StepAccess == TypeOK /\ TypeOK' /\ AccessInv /\ [Next]_vars => AccessInv'
<1> SUFFICES ASSUME TypeOK, TypeOK', AccessInv, [Next]_vars PROVE AccessInv'
  OBVIOUS
<1>1. CASE Commit
  BY <1>1 DEF Commit, AccessInv, LayersInv, CallInv, PermissionsFresh, Done, TypeOK
<1>2. CASE Broadcast
  BY <1>2 DEF Broadcast, AccessInv, LayersInv, CallInv, PermissionsFresh, Done
<1>3. CASE UNCHANGED vars
  BY <1>3 DEF vars, AccessInv, LayersInv, CallInv, PermissionsFresh, Done
<1> QED
  BY <1>1, <1>2, <1>3, HandleAccess, CallAccess, StartAccess, RolesFailAccess DEF Next

-----------------------------------------------------------------------------
(* The variables of the plugin keep their types. *)
THEOREM TypeCorrect == Spec => []TypeOK
<1>1. Init => TypeOK
  BY InitTypes
<1>2. TypeOK /\ [Next]_vars => TypeOK'
  BY StepTypes
<1> QED
  BY <1>1, <1>2, PTL DEF Spec

(* Who computes the layers has the lock, and so what is stored is never      *)
(* older than the last invalidation.                                         *)
THEOREM AccessInvariant == Spec => []AccessInv
<1>1. Init => AccessInv
  BY InitAccess
<1>2. TypeOK /\ TypeOK' /\ AccessInv /\ [Next]_vars => AccessInv'
  BY StepAccess
<1> QED
  BY <1>1, <1>2, TypeCorrect, PTL DEF Spec

(* A call that starts after an invalidation was carried out answers with     *)
(* permissions made of rows no older than that.                              *)
THEOREM FreshPermissions == Spec => []PermissionsFresh
<1>1. AccessInv => PermissionsFresh
  BY DEF AccessInv
<1> QED
  BY <1>1, AccessInvariant, PTL

-----------------------------------------------------------------------------
(* Exceptions.  What RaisedOnlyByRace says of one call, with layers l and n  *)
(* versions committed, and the reason for it: a call that has seen layers    *)
(* and finds none was told of their invalidation, for nothing else takes     *)
(* them away; and a layer is refused by rows that the call has got.          *)
RefusedBy(c, n) == c.key \in AreaKey /\ \E v \in UnknownIn[c.key] : c.since <= v /\ v <= n

RaceSafe(c, l, n) ==
  /\ c.pc = "return" /\ l = NoValue => c.between
  /\ c.pc = "done" /\ c.ver = Raised => c.between
  /\ c.pc \in {"read", "got"} => c.ver <= n
  /\ c.op = "refused" \/ (c.pc = "done" /\ c.ver = Unknown) => RefusedBy(c, n)

RaceInv ==
  /\ layers # NoValue => layers <= committed
  /\ \A t \in Thread : RaceSafe(call[t], layers, committed)

(* A step of one call, of the others of which nothing is said. *)
LEMMA RaceOfOne ==
  ASSUME TypeOK, TypeOK', RaceInv, NEW t \in Thread,
         \A u \in Thread \ {t} : call'[u] = call[u], committed' = committed,
         layers' = layers \/ layers' # NoValue, layers' # NoValue => layers' <= committed,
         RaceSafe(call'[t], layers', committed')
  PROVE  RaceInv'
<1>1. ASSUME NEW u \in Thread, u # t PROVE RaceSafe(call'[u], layers', committed')
  BY <1>1 DEF RaceInv, RaceSafe, RefusedBy
<1> QED
  BY <1>1 DEF RaceInv

(* A step that leaves the calls and the layers as they are. *)
LEMMA RaceStays ==
  ASSUME TypeOK, RaceInv, UNCHANGED <<call, layers>>, committed' \in {committed, committed + 1}
  PROVE  RaceInv'
<1>1. committed \in Nat /\ layers \in Nat \cup {NoValue}
  BY DEF TypeOK
<1>2. layers # NoValue => layers <= committed'
  BY <1>1 DEF RaceInv
<1>3. ASSUME NEW t \in Thread PROVE RaceSafe(call[t], layers, committed')
  <2>1. RaceSafe(call[t], layers, committed)
    BY DEF RaceInv
  <2>2. call[t].pc \in {"read", "got"} => call[t].ver \in Nat
    BY DEF TypeOK
  <2>3. CASE call[t].op = "refused" \/ (call[t].pc = "done" /\ call[t].ver = Unknown)
    <3>1. call[t].key \in AreaKey
      BY <2>1, <2>3 DEF RaceSafe, RefusedBy
    <3>2. PICK v \in UnknownIn[call[t].key] : call[t].since <= v /\ v <= committed
      BY <2>1, <2>3 DEF RaceSafe, RefusedBy
    <3>3. v \in Nat /\ v <= committed'
      BY <1>1, <3>1, <3>2, UnknownAssumption
    <3> QED
      BY <1>1, <2>1, <2>2, <3>1, <3>2, <3>3 DEF RaceSafe, RefusedBy
  <2>4. CASE ~(call[t].op = "refused" \/ (call[t].pc = "done" /\ call[t].ver = Unknown))
    BY <1>1, <2>1, <2>2, <2>4 DEF RaceSafe
  <2> QED
    BY <2>3, <2>4
<1> QED
  BY <1>2, <1>3 DEF RaceInv

(* A step of a call. *)
LEMMA CallRace ==
  ASSUME TypeOK, TypeOK', AccessInv, RaceInv, NEW t \in Thread, CallStep(t)
  PROVE  RaceInv'
<1>1. ASSUME NEW pc, NEW v, GoesTo(t, pc, v)
      PROVE  /\ call'[t].pc = pc /\ call'[t].ver = v /\ call'[t].between = call[t].between
             /\ call'[t].op = call[t].op /\ call'[t].key = call[t].key
             /\ call'[t].since = call[t].since
             /\ \A u \in Thread \ {t} : call'[u] = call[u]
  BY <1>1 DEF GoesTo, TypeOK
<1>2. /\ committed' = committed /\ committed \in Nat
      /\ layers # NoValue => layers <= committed
      /\ RaceSafe(call[t], layers, committed)
  BY DEF TypeOK, RaceInv, CallStep, envVars, AreaCached, AreaMissing, LayersCached,
     LayersReturned, LayersMissing, LayersRead, LayersStored, LayersFail, UnknownLayer, Refused,
     ComputeFails, Compute
<1>3. CASE AreaCached(t)
  <2>1. areaCache[call[t].key] \notin {Raised, Unknown} /\ call[t].op = "area"
    BY <1>3, ValueAssumption DEF AreaCached, TypeOK
  <2>2. /\ \E v \in {areaCache[call[t].key], Failed} : GoesTo(t, "done", v)
        /\ layers' = layers
    BY <1>3 DEF AreaCached, Ends, Fails, Answered
  <2>3. RaceSafe(call'[t], layers', committed')
    BY <1>1, <1>2, <2>1, <2>2, ValueAssumption DEF RaceSafe
  <2> QED
    BY <1>1, <1>2, <2>2, <2>3, RaceOfOne
<1>4. CASE AreaMissing(t) \/ LayersMissing(t)
  <2>1. (\E pc \in {"check", "wait"} : GoesTo(t, pc, call[t].ver)) /\ layers' = layers
    BY <1>4 DEF AreaMissing, LayersMissing
  <2>2. RaceSafe(call'[t], layers', committed')
    BY <1>1, <1>2, <2>1 DEF RaceSafe, RefusedBy
  <2> QED
    BY <1>1, <1>2, <2>1, <2>2, RaceOfOne
<1>5. CASE LayersCached(t)
  <2>1. GoesTo(t, "return", call[t].ver) /\ layers' = layers /\ layers # NoValue
    BY <1>5 DEF LayersCached
  <2>2. RaceSafe(call'[t], layers', committed')
    BY <1>1, <1>2, <2>1 DEF RaceSafe, RefusedBy
  <2> QED
    BY <1>1, <1>2, <2>1, <2>2, RaceOfOne
<1>6. CASE LayersReturned(t)
  <2>1. layers' = layers /\ call[t].pc = "return"
    BY <1>6 DEF LayersReturned
  <2>2. CASE layers = NoValue
    <3>1. GoesTo(t, "done", Raised) /\ call[t].between
      BY <1>2, <1>6, <2>1, <2>2 DEF LayersReturned, Answered, RaceSafe
    <3>2. RaceSafe(call'[t], layers', committed')
      BY <1>1, <1>2, <2>1, <3>1, ValueAssumption DEF RaceSafe, RefusedBy
    <3> QED
      BY <1>1, <1>2, <2>1, <3>1, <3>2, RaceOfOne
  <2>3. CASE layers # NoValue
    <3>1. GoesTo(t, "got", layers)
      BY <1>6, <2>3 DEF LayersReturned
    <3>2. RaceSafe(call'[t], layers', committed')
      BY <1>1, <1>2, <2>1, <2>3, <3>1 DEF RaceSafe, RefusedBy
    <3> QED
      BY <1>1, <1>2, <2>1, <3>1, <3>2, RaceOfOne
  <2> QED
    BY <2>2, <2>3
<1>7. CASE LayersRead(t)
  <2>1. GoesTo(t, "read", committed) /\ layers' = layers
    BY <1>7 DEF LayersRead
  <2>2. RaceSafe(call'[t], layers', committed')
    BY <1>1, <1>2, <2>1 DEF RaceSafe, RefusedBy
  <2> QED
    BY <1>1, <1>2, <2>1, <2>2, RaceOfOne
<1>8. CASE LayersStored(t)
  <2>1. GoesTo(t, "got", call[t].ver) /\ layers' = call[t].ver /\ call[t].pc = "read"
    BY <1>8 DEF LayersStored
  <2>2. call[t].ver \in Nat /\ call[t].ver # NoValue /\ call[t].ver <= committed
    BY <1>2, <2>1, ValueAssumption DEF RaceSafe, TypeOK
  <2>3. RaceSafe(call'[t], layers', committed')
    BY <1>1, <1>2, <2>1, <2>2 DEF RaceSafe, RefusedBy
  <2> QED
    BY <1>1, <1>2, <2>1, <2>2, <2>3, RaceOfOne
<1>9. CASE LayersFail(t) \/ ComputeFails(t)
  <2>1. GoesTo(t, "done", Failed) /\ layers' = layers
    BY <1>9 DEF LayersFail, ComputeFails, Fails, Answered
  <2>2. RaceSafe(call'[t], layers', committed')
    BY <1>1, <1>2, <2>1, ValueAssumption DEF RaceSafe, RefusedBy
  <2> QED
    BY <1>1, <1>2, <2>1, <2>2, RaceOfOne
<1>10. CASE UnknownLayer(t)
  <2>1. call[t].pc = "got" /\ call[t].op = "area" /\ call[t].ver \in UnknownIn[call[t].key]
    BY <1>10 DEF UnknownLayer, NotFound
  <2>2. call[t].key \in AreaKey /\ call[t].since <= call[t].ver /\ call[t].ver <= committed
    BY <1>2, <2>1 DEF TypeOK, RaceSafe, AccessInv, CallInv
  <2>3. /\ call'[t].pc = "check" /\ call'[t].op = "refused" /\ call'[t].key = call[t].key
        /\ call'[t].since = call[t].since
        /\ \A u \in Thread \ {t} : call'[u] = call[u]
        /\ layers' = layers
    BY <1>10 DEF UnknownLayer, TypeOK
  <2>4. RefusedBy(call'[t], committed')
    BY <1>2, <2>1, <2>2, <2>3 DEF RefusedBy
  <2>5. RaceSafe(call'[t], layers', committed')
    BY <2>3, <2>4 DEF RaceSafe
  <2> QED
    BY <1>2, <2>3, <2>5, RaceOfOne
<1>11. CASE Refused(t)
  <2>1. /\ GoesTo(t, "done", Unknown) /\ layers' = layers
        /\ call[t].op = "refused" /\ RefusedBy(call[t], committed)
    BY <1>2, <1>11 DEF Refused, Answered, RaceSafe
  <2>2. RaceSafe(call'[t], layers', committed')
    BY <1>1, <1>2, <2>1, ValueAssumption DEF RaceSafe, RefusedBy
  <2> QED
    BY <1>1, <1>2, <2>1, <2>2, RaceOfOne
<1>12. CASE Compute(t)
  <2>1. call[t].ver \notin {Raised, Unknown} /\ call[t].op # "refused"
    BY <1>12, ValueAssumption DEF Compute, Allowed, TypeOK
  <2>2. (\E v \in {call[t].ver, Failed} : GoesTo(t, "done", v)) /\ layers' = layers
    BY <1>12 DEF Compute, Ends, Fails, Answered
  <2>3. RaceSafe(call'[t], layers', committed')
    BY <1>1, <1>2, <2>1, <2>2, ValueAssumption DEF RaceSafe
  <2> QED
    BY <1>1, <1>2, <2>2, <2>3, RaceOfOne
<1> QED
  BY <1>3, <1>4, <1>5, <1>6, <1>7, <1>8, <1>9, <1>10, <1>11, <1>12 DEF CallStep

LEMMA RaceStep == TypeOK /\ TypeOK' /\ AccessInv /\ RaceInv /\ [Next]_vars => RaceInv'
<1> SUFFICES ASSUME TypeOK, TypeOK', AccessInv, RaceInv, [Next]_vars PROVE RaceInv'
  OBVIOUS
<1>1. CASE Handle
  <2>1. CASE HandleStart
    BY <2>1, RaceStays DEF HandleStart
  <2>2. CASE HandleClear
    <3>1. ASSUME NEW u \in Thread
          PROVE  /\ call'[u].pc = call[u].pc /\ call'[u].ver = call[u].ver
                 /\ call'[u].op = call[u].op /\ call'[u].key = call[u].key
                 /\ call'[u].since = call[u].since
                 /\ call'[u].between = (call[u].between \/ Running(u))
      BY <2>2 DEF HandleClear, Invalidated
    <3>2. layers' = NoValue /\ committed' = committed
      BY <2>2 DEF HandleClear, envVars
    <3>3. ASSUME NEW u \in Thread PROVE RaceSafe(call'[u], layers', committed')
      BY <3>1, <3>2 DEF RaceInv, RaceSafe, RefusedBy, Running
    <3> QED
      BY <3>2, <3>3 DEF RaceInv
  <2>3. CASE HandleServer
    BY <2>3, RaceStays DEF HandleServer, envVars
  <2> QED
    BY <1>1, <2>1, <2>2, <2>3 DEF Handle
<1>2. ASSUME NEW t \in Thread, NEW op \in Operation,
             RolesFail(t, op) \/ \E k \in AreaKey : Start(t, op, k)
      PROVE  RaceInv'
  <2>1. /\ call'[t].pc \notin {"return", "read", "got"} /\ call'[t].ver \notin {Raised, Unknown}
        /\ call'[t].op # "refused" /\ \A u \in Thread \ {t} : call'[u] = call[u]
        /\ UNCHANGED <<committed, layers>>
    BY <1>2, ValueAssumption DEF Start, RolesFail, Operation, envVars, TypeOK
  <2>2. RaceSafe(call'[t], layers', committed')
    BY <2>1 DEF RaceSafe
  <2> QED
    BY <2>1, <2>2, RaceOfOne DEF RaceInv
<1>3. CASE Commit \/ Broadcast \/ UNCHANGED vars
  BY <1>3, RaceStays DEF Commit, Broadcast, vars
<1> QED
  BY <1>1, <1>2, <1>3, CallRace DEF Next

(* What a call raises besides the failures of queries and of geometries: an  *)
(* error of Python only if the layers were invalidated while it ran, between *)
(* the two looks of get_layers at the attribute; and that the layer is       *)
(* unknown only if it was in rows no older than the last invalidation        *)
(* carried out before the call started.                                      *)
THEOREM RaisesOnlyByRace == Spec => []RaisedOnlyByRace
<1>1. Init => RaceInv
  <2>1. NoCall.pc = "idle" /\ NoCall.op = "permissions"
    BY DEF NoCall
  <2>2. Init => layers = NoValue
                /\ \A t \in Thread : call[t].pc = "idle" /\ call[t].op = "permissions"
    BY <2>1 DEF Init
  <2> QED
    BY <2>2 DEF RaceInv, RaceSafe
<1>2. RaceInv => RaisedOnlyByRace
  BY DEF RaceInv, RaceSafe, RefusedBy, RaisedOnlyByRace, Done
<1> QED
  BY <1>1, <1>2, RaceStep, TypeCorrect, AccessInvariant, PTL DEF Spec

-----------------------------------------------------------------------------
(* The layers implement SharedCache.                                         *)

(* A thread that reads the rows is a creator, and no other is. *)
LEMMA ReadingIs ==
  ASSUME TypeOK, NEW t \in Thread
  PROVE  /\ Reading(t) # NoValue <=> call[t].pc = "read"
         /\ Reading(t) \in Promise!Creator \cup {NoValue}
<1>1. CASE call[t].pc = "read"
  <2>1. Reading(t) \in [key : {"layers"}, ver : Nat]
    BY <1>1 DEF Reading, TypeOK
  <2> QED
    BY <1>1, <2>1, ValueAssumption DEF Promise!Creator, LayersKey
<1>2. CASE call[t].pc # "read"
  BY <1>2 DEF Reading
<1> QED
  BY <1>1, <1>2

(* A step that leaves these variables, and who reads what, is no step of     *)
(* SharedCache.                                                              *)
LEMMA Stutters ==
  ASSUME UNCHANGED <<committed, layers, floor>>, \A t \in Thread : Reading(t)' = Reading(t)
  PROVE  UNCHANGED Promise!vars
  BY DEF Promise!vars, Readers, Around

(* A step of the call of t that does not read before or after it. *)
LEMMA OtherSteps ==
  ASSUME TypeOK, NEW t \in Thread, NEW pc, NEW v, GoesTo(t, pc, v),
         call[t].pc # "read", pc # "read", UNCHANGED <<committed, layers, floor>>
  PROVE  UNCHANGED Promise!vars
<1>1. call'[t].pc = pc /\ \A u \in Thread : u # t => call'[u] = call[u]
  BY DEF GoesTo, TypeOK
<1>2. \A u \in Thread : Reading(u)' = Reading(u)
  BY <1>1 DEF Reading
<1> QED
  BY <1>2, Stutters

LEMMA InitShared == Init => Promise!Init
  BY DEF Init, NoCall, Promise!Init, Promise!Nothing, Promise!NoAnswer, Promise!NoCreator,
     Readers, Reading, Around

(* LayersRead: the creator begins with the rows that are committed. *)
LEMMA ReadBegins ==
  ASSUME TypeOK, NEW t \in Thread, LayersRead(t)
  PROVE  Promise!Begin("plugin", t, "layers")
<1>1. /\ call[t].pc = "wait" /\ call'[t].pc = "read" /\ call'[t].ver = committed
      /\ \A u \in Thread : u # t => call'[u] = call[u]
  BY DEF LayersRead, GoesTo, TypeOK
<1>2. Reading(t) = NoValue /\ Reading(t)' = [key |-> "layers", ver |-> committed]
  BY <1>1 DEF Reading
<1>3. \A u \in Thread : u # t => Reading(u)' = Reading(u)
  BY <1>1 DEF Reading
<1>4. Readers["plugin"][t] = NoValue
  BY <1>2 DEF Readers, Plugin
<1>5. Readers' = [Readers EXCEPT !["plugin"][t] = [key |-> "layers", ver |-> committed]]
  BY <1>2, <1>3 DEF Readers, Plugin
<1>6. UNCHANGED <<committed, layers, floor>>
  BY DEF LayersRead, envVars
<1> QED
  BY <1>4, <1>5, <1>6 DEF Promise!Begin, Around

(* LayersStored: what it read takes the place of what was stored. *)
LEMMA StoredReplaces ==
  ASSUME TypeOK, NEW t \in Thread, LayersStored(t)
  PROVE  Promise!Replace("plugin", t)
<1> DEFINE c == Readers["plugin"][t]
<1>1. /\ call[t].pc = "read" /\ call'[t].pc = "got"
      /\ \A u \in Thread : u # t => call'[u] = call[u]
  BY DEF LayersStored, GoesTo, TypeOK
<1>2. Reading(t) = [key |-> "layers", ver |-> call[t].ver] /\ Reading(t)' = NoValue
  BY <1>1 DEF Reading
<1>3. \A u \in Thread : u # t => Reading(u)' = Reading(u)
  BY <1>1 DEF Reading
<1>4. c.key = "layers" /\ c.ver = call[t].ver /\ c # NoValue
  BY <1>1, <1>2, ReadingIs DEF Readers, Plugin
<1>5. Readers' = [Readers EXCEPT !["plugin"][t] = NoValue]
  BY <1>2, <1>3 DEF Readers, Plugin
<1>6. UNCHANGED <<committed, floor>> /\ layers' = call[t].ver
  BY DEF LayersStored, envVars
<1>7. call[t].ver \in Nat /\ call[t].ver # NoValue
  BY <1>1, ValueAssumption DEF TypeOK
<1>8. Around' = [Around EXCEPT !["layers"] = {call[t].ver}]
  BY <1>6, <1>7 DEF Around, LayersKey
<1>9. [p \in Plugin |-> Around]' =
        [q \in Plugin |-> [[p \in Plugin |-> Around][q] EXCEPT !["layers"] = {call[t].ver}]]
  BY <1>8
<1>10. [p \in Plugin |-> [k \in LayersKey |-> layers]]' =
         [q \in Plugin |-> [[p \in Plugin |-> [k \in LayersKey |-> layers]][q]
                              EXCEPT !["layers"] = call[t].ver]]
  BY <1>6 DEF LayersKey
<1> QED
  BY <1>4, <1>5, <1>6, <1>8, <1>9, <1>10 DEF Promise!Replace

LEMMA FailFails ==
  ASSUME TypeOK, NEW t \in Thread, LayersFail(t)
  PROVE  Promise!Fail("plugin", t)
<1>1. /\ call[t].pc = "read" /\ call'[t].pc = "done"
      /\ \A u \in Thread : u # t => call'[u] = call[u]
  BY DEF LayersFail, Fails, Answered, GoesTo, TypeOK
<1>2. Reading(t) # NoValue /\ Reading(t)' = NoValue
  BY <1>1, ReadingIs DEF Reading
<1>3. \A u \in Thread : u # t => Reading(u)' = Reading(u)
  BY <1>1 DEF Reading
<1>4. Readers["plugin"][t] # NoValue
  BY <1>2 DEF Readers, Plugin
<1>5. Readers' = [Readers EXCEPT !["plugin"][t] = NoValue]
  BY <1>2, <1>3 DEF Readers, Plugin
<1>6. UNCHANGED <<committed, layers, floor>>
  BY DEF LayersFail, envVars
<1> QED
  BY <1>4, <1>5, <1>6 DEF Promise!Fail, Around

(* The handler, with the lock in its hands or free, finds nobody who reads.  *)
LEMMA NobodyReads ==
  ASSUME TypeOK, AccessInv, lock \notin Thread
  PROVE  \A p \in Plugin, t \in Thread : Readers[p][t] = NoValue
  BY DEF AccessInv, CallInv, Readers, Reading

(* An invalidation that is carried out: what is stored goes, and nobody      *)
(* reads the rows then, so that the plugin is not raced.                     *)
LEMMA CarriedOut ==
  ASSUME TypeOK, AccessInv, lock \notin Thread,
         layers' = NoValue, floor' = committed, committed' = committed,
         \A t \in Thread : Reading(t)' = Reading(t)
  PROVE  Promise!Invalidate("plugin")
<1>1. Readers' = Readers
  BY DEF Readers
<1>2. Around \in [LayersKey -> SUBSET Nat]
  BY DEF Around, TypeOK
<1>3. Around' = Promise!Nothing
  BY DEF Around, Promise!Nothing
<1>4. Promise!Within(Around', Around)
  BY <1>2, <1>3 DEF Promise!Within, Promise!Nothing
<1>5. [p \in Plugin |-> Around]' = [[p \in Plugin |-> Around] EXCEPT !["plugin"] = Promise!Nothing]
  BY <1>3 DEF Plugin
<1>6. [p \in Plugin |-> [k \in LayersKey |-> layers]]' =
        [[p \in Plugin |-> [k \in LayersKey |-> layers]] EXCEPT !["plugin"] = Promise!NoAnswer]
  BY DEF Plugin, Promise!NoAnswer
<1>7. [p \in Plugin |-> floor]' = [[p \in Plugin |-> floor] EXCEPT !["plugin"] = committed]
  BY DEF Plugin
<1>8. (\E q \in Plugin, t \in Thread : Readers[q][t] # NoValue) = FALSE
  BY NobodyReads
<1>9. [p \in Plugin |-> FALSE] =
        [[p \in Plugin |-> FALSE] EXCEPT
           !["plugin"] = \E q \in Plugin, t \in Thread : Readers[q][t] # NoValue]
  BY <1>8 DEF Plugin
<1> QED
  BY <1>1, <1>4, <1>5, <1>6, <1>7, <1>9 DEF Promise!Invalidate

(* Without an OGC server the layers are reset, and nothing is invalidated. *)
LEMMA ResetOnly ==
  ASSUME TypeOK, layers' = NoValue, UNCHANGED <<committed, floor>>,
         \A t \in Thread : Reading(t)' = Reading(t)
  PROVE  Promise!Shuffle
<1>1. Readers' = Readers
  BY DEF Readers
<1>2. Around \in [LayersKey -> SUBSET Nat] /\ Around' = [k \in LayersKey |-> {}]
  BY DEF Around, TypeOK
<1>3. Promise!Within(Around', Around)
  BY <1>2 DEF Promise!Within
<1>4. [p \in Plugin |-> Around]' \in [Plugin -> [LayersKey -> SUBSET Nat]]
  BY <1>2
<1>5. [p \in Plugin |-> [k \in LayersKey |-> layers]]' \in [Plugin -> [LayersKey -> Nat \cup {NoValue}]]
  OBVIOUS
<1>6. \A p \in Plugin :
        /\ Promise!Within([q \in Plugin |-> Around]'[p], [q \in Plugin |-> Around][p])
        /\ \A k \in LayersKey :
             [q \in Plugin |-> [j \in LayersKey |-> layers]]'[p][k]
               \in [q \in Plugin |-> Around]'[p][k] \cup {NoValue}
  BY <1>3
<1> QED
  BY <1>1, <1>3, <1>4, <1>5, <1>6 DEF Promise!Shuffle

LEMMA HandleShared == TypeOK /\ AccessInv /\ Handle => [Promise!Next]_Promise!vars
<1> SUFFICES ASSUME TypeOK, AccessInv, Handle PROVE [Promise!Next]_Promise!vars
  OBVIOUS
<1> USE ThreadAssumption
<1>1. CASE HandleStart
  <2>1. UNCHANGED <<committed, layers, floor, call>>
    BY <1>1 DEF HandleStart
  <2> QED
    BY <2>1, Stutters DEF Reading
<1>2. CASE HandleClear
  <2>1. lock \notin Thread /\ layers' = NoValue /\ committed' = committed
    BY <1>2 DEF HandleClear, envVars
  <2>2. \A t \in Thread : Reading(t)' = Reading(t)
    BY <1>2 DEF HandleClear, Invalidated, Reading
  <2>3. CASE server
    <3>1. floor' = committed
      BY <1>2, <2>3 DEF HandleClear
    <3> QED
      BY <2>1, <2>2, <3>1, CarriedOut DEF Promise!Next, Plugin
  <2>4. CASE ~server
    <3>1. floor' = floor
      BY <1>2, <2>4 DEF HandleClear
    <3> QED
      BY <2>1, <2>2, <3>1, ResetOnly DEF Promise!Next
  <2> QED
    BY <2>3, <2>4
<1>3. CASE HandleServer
  <2>1. lock \notin Thread /\ layers = NoValue /\ UNCHANGED <<committed, layers, call>>
    BY <1>3 DEF HandleServer, AccessInv, LayersInv, envVars
  <2>2. \A t \in Thread : Reading(t)' = Reading(t)
    BY <2>1 DEF Reading
  <2>3. floor' = floor \/ floor' = committed
    BY <1>3 DEF HandleServer
  <2>4. CASE floor' = floor
    BY <2>1, <2>2, <2>4, Stutters
  <2>5. CASE floor' = committed
    BY <2>1, <2>2, <2>5, CarriedOut DEF Promise!Next, Plugin
  <2> QED
    BY <2>3, <2>4, <2>5
<1> QED
  BY <1>1, <1>2, <1>3 DEF Handle

LEMMA CallShared ==
  ASSUME TypeOK, NEW t \in Thread, CallStep(t)
  PROVE  [Promise!Next]_Promise!vars
<1>1. CASE AreaCached(t)
  BY <1>1, OtherSteps DEF AreaCached, Ends, Fails, Answered, envVars
<1>2. CASE AreaMissing(t)
  BY <1>2, OtherSteps DEF AreaMissing, envVars
<1>3. CASE LayersCached(t)
  BY <1>3, OtherSteps DEF LayersCached, envVars
<1>4. CASE LayersReturned(t)
  BY <1>4, OtherSteps DEF LayersReturned, Answered, envVars
<1>5. CASE LayersMissing(t)
  BY <1>5, OtherSteps DEF LayersMissing, envVars
<1>6. CASE LayersRead(t)
  BY <1>6, ReadBegins DEF Promise!Next, Plugin, LayersKey
<1>7. CASE LayersStored(t)
  BY <1>7, StoredReplaces DEF Promise!Next, Plugin
<1>8. CASE LayersFail(t)
  BY <1>8, FailFails DEF Promise!Next, Plugin
<1>9. CASE Compute(t)
  BY <1>9, OtherSteps DEF Compute, Allowed, Ends, Fails, Answered, envVars
<1>10. CASE ComputeFails(t)
  BY <1>10, OtherSteps DEF ComputeFails, Allowed, Fails, Answered, envVars
<1>11. CASE Refused(t)
  BY <1>11, OtherSteps DEF Refused, Answered, envVars
<1>12. CASE UnknownLayer(t)
  <2>1. /\ call[t].pc # "read" /\ call'[t].pc # "read"
        /\ \A u \in Thread : u # t => call'[u] = call[u]
    BY <1>12 DEF UnknownLayer, TypeOK
  <2>2. \A u \in Thread : Reading(u)' = Reading(u)
    BY <2>1 DEF Reading
  <2> QED
    BY <1>12, <2>2, Stutters DEF UnknownLayer, envVars
<1> QED
  BY <1>1, <1>2, <1>3, <1>4, <1>5, <1>6, <1>7, <1>8, <1>9, <1>10, <1>11, <1>12 DEF CallStep

LEMMA StepShared == TypeOK /\ AccessInv /\ [Next]_vars => [Promise!Next]_Promise!vars
<1> SUFFICES ASSUME TypeOK, AccessInv, [Next]_vars PROVE [Promise!Next]_Promise!vars
  OBVIOUS
<1>1. CASE Commit
  <2>1. committed' = committed + 1 /\ UNCHANGED <<layers, floor, call>>
    BY <1>1 DEF Commit
  <2>2. UNCHANGED <<Readers, Around>>
    BY <2>1 DEF Readers, Reading, Around
  <2> QED
    BY <2>1, <2>2 DEF Promise!Next, Promise!Commit
<1>2. CASE Broadcast
  <2>1. UNCHANGED <<committed, layers, floor, call>>
    BY <1>2 DEF Broadcast
  <2> QED
    BY <2>1, Stutters DEF Reading
<1>3. ASSUME NEW t \in Thread, NEW op \in Operation, NEW k \in AreaKey, Start(t, op, k)
      PROVE  [Promise!Next]_Promise!vars
  <2>1. UNCHANGED <<committed, layers, floor>>
    BY <1>3 DEF Start, envVars
  <2>2. /\ call[t].pc # "read" /\ call'[t].pc # "read"
        /\ \A u \in Thread : u # t => call'[u] = call[u]
    BY <1>3 DEF Start, Running, TypeOK
  <2>3. \A u \in Thread : Reading(u)' = Reading(u)
    BY <2>2 DEF Reading
  <2> QED
    BY <2>1, <2>3, Stutters
<1>4. CASE UNCHANGED vars
  <2>1. UNCHANGED <<committed, layers, floor, call>>
    BY <1>4 DEF vars
  <2> QED
    BY <2>1, Stutters DEF Reading
<1>5. ASSUME NEW t \in Thread, NEW op \in Operation, RolesFail(t, op)
      PROVE  [Promise!Next]_Promise!vars
  <2>1. UNCHANGED <<committed, layers, floor>>
    BY <1>5 DEF RolesFail, envVars
  <2>2. /\ call[t].pc # "read" /\ call'[t].pc # "read"
        /\ \A u \in Thread : u # t => call'[u] = call[u]
    BY <1>5 DEF RolesFail, Running, TypeOK
  <2>3. \A u \in Thread : Reading(u)' = Reading(u)
    BY <2>2 DEF Reading
  <2> QED
    BY <2>1, <2>3, Stutters
<1> QED
  BY <1>1, <1>2, <1>3, <1>4, <1>5, HandleShared, CallShared DEF Next

(* The layers are cached as SharedCache promises, with nobody raced: each    *)
(* step of the plugin is one of its steps, or leaves it as it is.            *)
THEOREM LayersRefineShared == Spec => LayersAreShared
<1>1. Spec => Promise!Init
  BY InitShared DEF Spec
<1> QED
  BY <1>1, StepShared, TypeCorrect, AccessInvariant, PTL DEF Spec, LayersAreShared, Promise!Spec
=============================================================================
