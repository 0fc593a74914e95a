-------------------------- MODULE HybridCache_proofs --------------------------
(***************************************************************************)
(* Proofs about HybridCache, for any sets of processes and keys and any    *)
(* bounds: its types, that only a race makes a process answer with values  *)
(* from before its last invalidation, and that it implements SharedCache,  *)
(* whose actions are enough for that.                                      *)
(***************************************************************************)
EXTENDS HybridCache, TLAPS

LEMMA EmptyTypes ==
  /\ EmptyMemory \in [Key -> Slot]
  /\ NoJob \in [Thread -> Job]
  /\ \A t \in Thread : NoJob[t].pc = "idle"
BY DEF EmptyMemory, NoJob, Idle, Slot, Job, Value

(* Every step changes the state within its types. *)
LEMMA TypeStep == TypeOK /\ [Next]_vars => TypeOK'
<1> SUFFICES ASSUME TypeOK, [Next]_vars PROVE TypeOK'
  OBVIOUS
<1> USE DEF TypeOK, dbVars, handlerVars
<1>1. CASE Flush
  BY <1>1 DEF Flush, Broadcast
<1>2. CASE Commit
  <2>1. committed' \in Nat
    BY <1>2 DEF Commit
  <2>2. writing' \in BOOLEAN
    BY <1>2 DEF Commit
  <2> QED
    BY <1>2, <2>1, <2>2 DEF Commit
<1>3. CASE Abort
  BY <1>3 DEF Abort
<1>4. CASE InvalidateView
  BY <1>4 DEF InvalidateView, Broadcast
<1>5. ASSUME NEW k \in HybridKey, Expire(k) PROVE TypeOK'
  BY <1>5 DEF Expire, Slot
<1>6. ASSUME NEW p \in Process, HandleInvalidate(p) PROVE TypeOK'
  BY <1>6 DEF HandleInvalidate
<1>7. ASSUME NEW p \in Process, HandleKeys(p) PROVE TypeOK'
  BY <1>7 DEF HandleKeys
<1>8. ASSUME NEW p \in Process, NEW k \in Key, HandleDelete(p, k) PROVE TypeOK'
  BY <1>8 DEF HandleDelete, Slot
<1>9. ASSUME NEW p \in Process, HandleClear(p) PROVE TypeOK'
  BY <1>9 DEF HandleClear, EmptyMemory, Slot
<1>10. ASSUME NEW p \in Process, NEW k \in Key,
              Get(p, k) \/ \E t \in Thread : Miss(p, t, k)
       PROVE  TypeOK'
  <2>1. BackendGet(p, k) \in Slot
    BY DEF BackendGet, Key
  <2>2. Promoted(p, k) \in [Process -> [Key -> Slot]]
    BY <2>1 DEF Promoted
  <2>3. /\ job' \in [Process -> [Thread -> Job]]
        /\ \A q \in Process, u \in Thread : job'[q][u].pc # "idle" => job'[q][u].key \in Key
    <3>1. CASE Get(p, k)
      BY <3>1 DEF Get
    <3>2. ASSUME NEW t \in Thread, Miss(p, t, k)
          PROVE  /\ job' \in [Process -> [Thread -> Job]]
                 /\ \A q \in Process, u \in Thread :
                      job'[q][u].pc # "idle" => job'[q][u].key \in Key
      BY <3>2 DEF Miss, Creating, Job, Value
    <3> QED
      BY <1>10, <3>1, <3>2
  <2>4. UNCHANGED <<dbVars, handlerVars, redis, up>>
    BY <1>10 DEF Get, Miss
  <2>5. memory' \in [Process -> [Key -> Slot]]
    BY <1>10, <2>2 DEF Get, Miss
  <2> QED
    BY <2>3, <2>4, <2>5
<1>11. ASSUME NEW p \in Process, NEW t \in Thread, NEW k \in Key, Refresh(p, t, k) PROVE TypeOK'
  BY <1>11 DEF Refresh, Creating, Job, Value
<1>12. ASSUME NEW p \in Process, NEW t \in Thread, Created(p, t) PROVE TypeOK'
  BY <1>12 DEF Created, Job, Value
<1>13. ASSUME NEW p \in Process, NEW t \in Thread, SetMemory(p, t) PROVE TypeOK'
  BY <1>13 DEF SetMemory, Slot, Job, Value, Idle
<1>14. ASSUME NEW p \in Process, NEW t \in Thread, SetRedis(p, t) PROVE TypeOK'
  <2>1. job[p][t].val \in Slot
    BY DEF Job, Slot
  <2>2. redis' \in [HybridKey -> Slot]
    BY <1>14, <2>1 DEF SetRedis
  <2>3. Idle \in Job /\ Idle.pc = "idle"
    BY DEF Idle, Job, Value
  <2>4. /\ job' \in [Process -> [Thread -> Job]]
        /\ \A q \in Process, u \in Thread : job'[q][u].pc # "idle" => job'[q][u].key \in Key
    BY <1>14, <2>3 DEF SetRedis
  <2> QED
    BY <1>14, <2>2, <2>4 DEF SetRedis
<1>15. ASSUME NEW p \in Process, NEW t \in Thread, CreatorFails(p, t) PROVE TypeOK'
  BY <1>15 DEF CreatorFails, Job, Value, Idle
<1>16. ASSUME NEW p \in Process, Stop(p) PROVE TypeOK'
  <2>1. /\ EmptyMemory \in [Key -> Slot]
        /\ NoJob \in [Thread -> Job]
        /\ \A t \in Thread : NoJob[t].pc = "idle"
    BY EmptyTypes
  <2>2. /\ memory' \in [Process -> [Key -> Slot]]
        /\ job' \in [Process -> [Thread -> Job]]
        /\ \A q \in Process, t \in Thread : job'[q][t].pc # "idle" => job'[q][t].key \in Key
    BY <1>16, <2>1 DEF Stop
  <2>3. /\ inbox' \in [Process -> Nat]
        /\ inval' \in [Process -> Nat]
        /\ floor' \in [Process -> Nat]
    BY <1>16 DEF Stop
  <2>4. /\ handler' \in [Process -> {"idle", "keys", "delete"}]
        /\ todo' \in [Process -> SUBSET Key]
    BY <1>16 DEF Stop
  <2>5. up' \in [Process -> BOOLEAN] /\ raced' \in [Process -> BOOLEAN]
    BY <1>16 DEF Stop
  <2> QED
    BY <1>16, <2>2, <2>3, <2>4, <2>5 DEF Stop
<1>17. ASSUME NEW p \in Process, Start(p) PROVE TypeOK'
  BY <1>17 DEF Start
<1>18. ASSUME NEW p \in Process, NEW t \in Thread, NEW o \in OgcKey, UseCached(p, t, o)
       PROVE  TypeOK'
  <2> DEFINE v == BackendGet(p, o)
  <2>1. v \in Value
    BY <1>18 DEF UseCached, Hit, IsCached, BackendGet, Key, HybridKey, Slot
  <2>2. memory' \in [Process -> [Key -> Slot]]
    BY <1>18, <2>1 DEF UseCached, Promoted, Slot
  <2>3. Older(job[p][t].val.ver, v.ver) \in Nat
    BY <2>1 DEF Older, Job, Value
  <2>4. /\ job' \in [Process -> [Thread -> Job]]
        /\ \A q \in Process, u \in Thread : job'[q][u].pc # "idle" => job'[q][u].key \in Key
    BY <1>18, <2>3 DEF UseCached, Job, Value
  <2>5. raced' \in [Process -> BOOLEAN]
    <3>1. \A q \in Process : (raced[q] \/ ~IsCached(q, v)) \in BOOLEAN
      BY DEF IsCached
    <3> QED
      BY <1>18, <3>1 DEF UseCached
  <2> QED
    BY <1>18, <2>2, <2>4, <2>5 DEF UseCached
<1>19. CASE UNCHANGED vars
  BY <1>19 DEF vars
<1> QED
  BY <1>1, <1>2, <1>3, <1>4, <1>5, <1>6, <1>7, <1>8, <1>9, <1>10, <1>11, <1>12,
     <1>13, <1>14, <1>15, <1>16, <1>17, <1>18, <1>19 DEF Next, Handle, Request, Create

(* TypeOK holds in every reachable state, for all constants. *)
THEOREM TypeCorrect == Spec => []TypeOK
<1>1. ASSUME Init PROVE TypeOK
  <2>1. /\ EmptyMemory \in [Key -> Slot]
        /\ NoJob \in [Thread -> Job]
        /\ \A t \in Thread : NoJob[t].pc = "idle"
    BY EmptyTypes
  <2>2. /\ memory \in [Process -> [Key -> Slot]]
        /\ job \in [Process -> [Thread -> Job]]
        /\ \A q \in Process, t \in Thread : job[q][t].pc # "idle" => job[q][t].key \in Key
    BY <1>1, <2>1 DEF Init
  <2>3. redis \in [HybridKey -> Slot]
    BY <1>1 DEF Init, Slot
  <2>4. up \in [Process -> BOOLEAN] /\ raced \in [Process -> BOOLEAN] /\ writing \in BOOLEAN
    BY <1>1 DEF Init
  <2>5. /\ inbox \in [Process -> Nat]
        /\ handler \in [Process -> {"idle", "keys", "delete"}]
        /\ todo \in [Process -> SUBSET Key]
        /\ inval \in [Process -> Nat]
        /\ floor \in [Process -> Nat]
        /\ committed \in Nat /\ broadcasts \in Nat /\ clock \in Nat
    BY <1>1 DEF Init
  <2> QED
    BY <2>2, <2>3, <2>4, <2>5 DEF TypeOK
<1> QED
  BY <1>1, TypeStep, PTL DEF Spec

-----------------------------------------------------------------------------
(* Where a step may take values from when no process invalidates, stops or   *)
(* starts: a memory from Redis or from the creator of its own process, Redis *)
(* from a creator, a value on its way to them from a creator that has just   *)
(* returned, and a creator from the committed rows.                          *)
Flow ==
  /\ UNCHANGED <<clock, inval, floor, raced>>
  /\ committed <= committed'
  /\ \A q \in Process, k \in Key :
       \/ memory'[q][k] \in {memory[q][k], NoValue}
       \/ k \in HybridKey /\ memory'[q][k] = redis[k]
       \/ \E t \in Thread : job[q][t].pc = "memory" /\ memory'[q][k] = job[q][t].val
  /\ \A k \in HybridKey :
       \/ redis'[k] \in {redis[k], NoValue}
       \/ \E q \in Process, t \in Thread : job[q][t].pc = "redis" /\ redis'[k] = job[q][t].val
  /\ \A q \in Process, t \in Thread :
       job'[q][t].pc \in {"memory", "redis"} =>
         \/ job[q][t].pc \in {"memory", "redis"} /\ job'[q][t].val = job[q][t].val
         \/ /\ job[q][t].pc = "create"
            /\ job'[q][t].val = [ver |-> job[q][t].val.ver, ct |-> clock]
  /\ \A q \in Process, t \in Thread :
       job'[q][t].pc = "create" =>
         \/ job'[q][t] = job[q][t]
         \/ job'[q][t].val.ver = committed

(* Such a step keeps the invariant. *)
LEMMA FlowStep == TypeOK /\ TypeOK' /\ CacheInv /\ Flow => CacheInv'
<1> SUFFICES ASSUME TypeOK, TypeOK', CacheInv, Flow PROVE CacheInv'
  OBVIOUS
<1>1. TimesInv'
  BY DEF CacheInv, TimesInv, Flow, TypeOK
<1>2. MemoryInv'
  <2> SUFFICES ASSUME NEW p \in Process, NEW q \in Process, NEW k \in Key
               PROVE  Good(p, memory[q][k])'
    BY DEF MemoryInv
  <2>1. CASE memory'[q][k] \in {memory[q][k], NoValue}
    BY <2>1 DEF CacheInv, MemoryInv, Good, IsCached, Flow
  <2>2. CASE k \in HybridKey /\ memory'[q][k] = redis[k]
    BY <2>2 DEF CacheInv, RedisInv, Good, IsCached, Flow
  <2>3. ASSUME NEW t \in Thread, job[q][t].pc = "memory", memory'[q][k] = job[q][t].val
        PROVE  Good(p, memory[q][k])'
    BY <2>3 DEF CacheInv, StoringInv, Good, IsCached, Flow
  <2> QED
    BY <2>1, <2>2, <2>3 DEF Flow
<1>3. RedisInv'
  <2> SUFFICES ASSUME NEW p \in Process, NEW k \in HybridKey
               PROVE  Good(p, redis[k])'
    BY DEF RedisInv
  <2>1. CASE redis'[k] \in {redis[k], NoValue}
    BY <2>1 DEF CacheInv, RedisInv, Good, IsCached, Flow
  <2>2. ASSUME NEW q \in Process, NEW t \in Thread,
               job[q][t].pc = "redis", redis'[k] = job[q][t].val
        PROVE  Good(p, redis[k])'
    BY <2>2 DEF CacheInv, StoringInv, Good, IsCached, Flow, Key
  <2> QED
    BY <2>1, <2>2 DEF Flow
<1>4. StoringInv'
  <2> SUFFICES ASSUME NEW p \in Process, NEW q \in Process, NEW t \in Thread,
                      job'[q][t].pc \in {"memory", "redis"}
               PROVE  Good(p, job[q][t].val)'
    BY DEF StoringInv
  <2>1. CASE job[q][t].pc \in {"memory", "redis"} /\ job'[q][t].val = job[q][t].val
    BY <2>1 DEF CacheInv, StoringInv, Good, IsCached, Flow
  <2>2. CASE /\ job[q][t].pc = "create"
             /\ job'[q][t].val = [ver |-> job[q][t].val.ver, ct |-> clock]
    BY <2>2 DEF CacheInv, CreatingInv, Good, IsCached, Flow, TypeOK
  <2> QED
    BY <2>1, <2>2 DEF Flow
<1>5. CreatingInv'
  <2> SUFFICES ASSUME NEW p \in Process, NEW q \in Process, NEW t \in Thread,
                      job'[q][t].pc = "create", job'[q][t].val.ver < floor'[p]
               PROVE  raced'[p]
    BY DEF CreatingInv
  <2>1. CASE job'[q][t] = job[q][t]
    BY <2>1 DEF CacheInv, CreatingInv, Flow
  <2>2. job'[q][t].val.ver # committed
    BY DEF CacheInv, TimesInv, Flow, TypeOK
  <2> QED
    BY <2>1, <2>2 DEF Flow
<1> QED
  BY <1>1, <1>2, <1>3, <1>4, <1>5 DEF CacheInv

(* After an invalidation p refuses everything that is stored or on its way.  *)
LEMMA InvalidateStep ==
  ASSUME TypeOK, TypeOK', CacheInv, NEW p \in Process, HandleInvalidate(p)
  PROVE  CacheInv'
<1> USE DEF HandleInvalidate
<1>1. TimesInv'
  BY DEF CacheInv, TimesInv, TypeOK
<1>2. ASSUME NEW r \in Process, NEW v \in Slot, Good(r, v) PROVE Good(r, v)'
  <2>1. CASE r = p
    BY <1>2, <2>1 DEF Good, IsCached, TypeOK, Slot, Value
  <2>2. CASE r # p
    BY <1>2, <2>2 DEF Good, IsCached, TypeOK, Slot, Value
  <2> QED
    BY <2>1, <2>2
<1>3. MemoryInv' /\ RedisInv'
  BY <1>2 DEF CacheInv, MemoryInv, RedisInv, TypeOK
<1>4. StoringInv'
  <2>1. \A q \in Process, t \in Thread : job[q][t].val \in Slot
    BY DEF TypeOK, Job, Slot
  <2> QED
    BY <1>2, <2>1 DEF CacheInv, StoringInv
<1>5. CreatingInv'
  BY DEF CacheInv, CreatingInv, TypeOK
<1> QED
  BY <1>1, <1>3, <1>4, <1>5 DEF CacheInv

(* A creator that uses a cached value either uses one that p accepts, which  *)
(* is as good as p's invalidation found the rows, or p is raced.             *)
LEMMA UseStep ==
  ASSUME TypeOK, TypeOK', CacheInv,
         NEW p \in Process, NEW t \in Thread, NEW o \in OgcKey, UseCached(p, t, o)
  PROVE  CacheInv'
<1> DEFINE v == BackendGet(p, o)
<1>1. o \in Key /\ v \in Value /\ v # NoValue
  BY DEF UseCached, Hit, IsCached, BackendGet, Key, HybridKey, Slot, TypeOK
<1>2. \A r \in Process : Good(r, v)
  BY <1>1 DEF BackendGet, CacheInv, MemoryInv, RedisInv
<1>3. \A r \in Process : raced'[r] = (raced[r] \/ ~IsCached(r, v))
  BY DEF UseCached
<1>4. UNCHANGED <<committed, clock, inval, floor, redis>>
  BY DEF UseCached, dbVars
<1>5. ASSUME NEW r \in Process, NEW w, Good(r, w) PROVE Good(r, w)'
  BY <1>3, <1>4, <1>5 DEF Good, IsCached
<1>6. TimesInv'
  BY <1>4 DEF CacheInv, TimesInv
<1>7. MemoryInv'
  <2> SUFFICES ASSUME NEW r \in Process, NEW q \in Process, NEW k \in Key
               PROVE  Good(r, memory[q][k])'
    BY DEF MemoryInv
  <2>1. memory'[q][k] \in {memory[q][k], v}
    BY <1>1 DEF UseCached, Promoted, TypeOK
  <2>2. Good(r, memory[q][k]) /\ Good(r, v)
    BY <1>2 DEF CacheInv, MemoryInv
  <2>3. Good(r, memory'[q][k])
    BY <2>1, <2>2
  <2> QED
    BY <1>3, <1>4, <2>3 DEF Good, IsCached
<1>8. RedisInv'
  BY <1>4, <1>5 DEF CacheInv, RedisInv
<1>9. \A q \in Process, u \in Thread :
        /\ job'[q][u].pc = job[q][u].pc
        /\ job[q][u].pc \in {"memory", "redis"} => job'[q][u].val = job[q][u].val
        /\ job'[q][u].val.ver \in {job[q][u].val.ver, v.ver}
  BY DEF UseCached, Older, TypeOK, Job, Value
<1>10. StoringInv'
  BY <1>5, <1>9 DEF CacheInv, StoringInv
<1>11. CreatingInv'
  <2> SUFFICES ASSUME NEW r \in Process, NEW q \in Process, NEW u \in Thread,
                      job'[q][u].pc = "create", job'[q][u].val.ver < floor'[r]
               PROVE  raced'[r]
    BY DEF CreatingInv
  <2>1. CASE job'[q][u].val.ver = job[q][u].val.ver
    <3>1. job[q][u].pc = "create" /\ job[q][u].val.ver < floor[r]
      BY <1>4, <1>9, <2>1
    <3>2. raced[r]
      BY <3>1 DEF CacheInv, CreatingInv
    <3> QED
      BY <1>3, <3>2
  <2>2. CASE job'[q][u].val.ver = v.ver
    <3>1. CASE IsCached(r, v)
      <4>1. v.ver < floor[r]
        BY <1>4, <2>2
      <4>2. raced[r]
        BY <1>1, <1>2, <3>1, <4>1 DEF Good
      <4> QED
        BY <1>3, <4>2
    <3>2. CASE ~IsCached(r, v)
      BY <1>3, <3>2
    <3> QED
      BY <3>1, <3>2
  <2> QED
    BY <1>9, <2>1, <2>2
<1> QED
  BY <1>6, <1>7, <1>8, <1>10, <1>11 DEF CacheInv

(* A process that stops forgets its last invalidation and all it held. *)
LEMMA StopStep ==
  ASSUME TypeOK, TypeOK', CacheInv, NEW p \in Process, Stop(p)
  PROVE  CacheInv'
<1> USE DEF Stop
<1>1. TimesInv'
  BY DEF CacheInv, TimesInv, TypeOK
<1>2. ASSUME NEW r \in Process, NEW v \in Slot, Good(r, v) PROVE Good(r, v)'
  <2>1. CASE r = p
    BY <1>2, <2>1 DEF Good, IsCached, TypeOK, Slot, Value
  <2>2. CASE r # p
    BY <1>2, <2>2 DEF Good, IsCached, TypeOK, Slot, Value
  <2> QED
    BY <2>1, <2>2
<1>3. MemoryInv'
  BY <1>2 DEF CacheInv, MemoryInv, TypeOK, EmptyMemory, Good
<1>4. RedisInv'
  BY <1>2 DEF CacheInv, RedisInv, TypeOK
<1>5. StoringInv'
  <2>1. \A q \in Process, t \in Thread : job[q][t].val \in Slot
    BY DEF TypeOK, Job, Slot
  <2> QED
    BY <1>2, <2>1 DEF CacheInv, StoringInv, NoJob, Idle, TypeOK
<1>6. CreatingInv'
  BY DEF CacheInv, CreatingInv, TypeOK, NoJob, Idle, Job, Value
<1> QED
  BY <1>1, <1>3, <1>4, <1>5, <1>6 DEF CacheInv

(* Only a stop, an invalidation and the use of a cached value do not flow. *)
LEMMA CacheInvStep == TypeOK /\ CacheInv /\ [Next]_vars => CacheInv'
<1> SUFFICES ASSUME TypeOK, CacheInv, [Next]_vars PROVE CacheInv'
  OBVIOUS
<1>0. TypeOK'
  BY TypeStep
<1> USE DEF dbVars, handlerVars
<1>1. CASE Flush \/ Abort \/ InvalidateView
  <2>1. Flow
    BY <1>1 DEF Flush, Abort, InvalidateView, Broadcast, Flow, TypeOK
  <2> QED
    BY <1>0, <2>1, FlowStep
<1>2. CASE Commit
  <2>1. Flow
    BY <1>2 DEF Commit, Flow, TypeOK
  <2> QED
    BY <1>0, <2>1, FlowStep
<1>3. ASSUME NEW k \in HybridKey, Expire(k) PROVE CacheInv'
  <2>1. Flow
    BY <1>3 DEF Expire, Flow, TypeOK
  <2> QED
    BY <1>0, <2>1, FlowStep
<1>4. ASSUME NEW p \in Process, HandleKeys(p) PROVE CacheInv'
  <2>1. Flow
    BY <1>4 DEF HandleKeys, Flow, TypeOK
  <2> QED
    BY <1>0, <2>1, FlowStep
<1>5. ASSUME NEW p \in Process, NEW k \in Key, HandleDelete(p, k) PROVE CacheInv'
  <2>1. Flow
    BY <1>5 DEF HandleDelete, Flow, TypeOK
  <2> QED
    BY <1>0, <2>1, FlowStep
<1>6. ASSUME NEW p \in Process, HandleClear(p) PROVE CacheInv'
  <2>1. Flow
    BY <1>6 DEF HandleClear, EmptyMemory, Flow, TypeOK
  <2> QED
    BY <1>0, <2>1, FlowStep
<1>7. ASSUME NEW p \in Process, NEW k \in Key, Get(p, k) PROVE CacheInv'
  <2>1. Flow
    BY <1>7 DEF Get, Promoted, BackendGet, Flow, TypeOK
  <2> QED
    BY <1>0, <2>1, FlowStep
<1>8. ASSUME NEW p \in Process, NEW t \in Thread, NEW k \in Key, Miss(p, t, k) PROVE CacheInv'
  <2>1. Flow
    BY <1>8 DEF Miss, Creating, Promoted, BackendGet, Flow, TypeOK
  <2> QED
    BY <1>0, <2>1, FlowStep
<1>9. ASSUME NEW p \in Process, NEW t \in Thread, NEW k \in Key, Refresh(p, t, k) PROVE CacheInv'
  <2>1. Flow
    BY <1>9 DEF Refresh, Creating, Flow, TypeOK
  <2> QED
    BY <1>0, <2>1, FlowStep
<1>10. ASSUME NEW p \in Process, NEW t \in Thread, Created(p, t) PROVE CacheInv'
  <2>1. Flow
    BY <1>10 DEF Created, Flow, TypeOK
  <2> QED
    BY <1>0, <2>1, FlowStep
<1>11. ASSUME NEW p \in Process, NEW t \in Thread, SetMemory(p, t) PROVE CacheInv'
  <2>1. Flow
    BY <1>11 DEF SetMemory, Idle, Flow, TypeOK
  <2> QED
    BY <1>0, <2>1, FlowStep
<1>12. ASSUME NEW p \in Process, NEW t \in Thread, SetRedis(p, t) PROVE CacheInv'
  <2>1. Flow
    BY <1>12 DEF SetRedis, Idle, Flow, TypeOK
  <2> QED
    BY <1>0, <2>1, FlowStep
<1>13. ASSUME NEW p \in Process, NEW t \in Thread, CreatorFails(p, t) PROVE CacheInv'
  <2>1. Flow
    BY <1>13 DEF CreatorFails, Idle, Flow, TypeOK
  <2> QED
    BY <1>0, <2>1, FlowStep
<1>14. ASSUME NEW p \in Process, Start(p) PROVE CacheInv'
  <2>1. Flow
    BY <1>14 DEF Start, Flow, TypeOK
  <2> QED
    BY <1>0, <2>1, FlowStep
<1>15. CASE UNCHANGED vars
  <2>1. Flow
    BY <1>15 DEF vars, Flow, TypeOK
  <2> QED
    BY <1>0, <2>1, FlowStep
<1>16. ASSUME NEW p \in Process, HandleInvalidate(p) PROVE CacheInv'
  BY <1>0, <1>16, InvalidateStep
<1>17. ASSUME NEW p \in Process, Stop(p) PROVE CacheInv'
  BY <1>0, <1>17, StopStep
<1>18. ASSUME NEW p \in Process, NEW t \in Thread, NEW o \in OgcKey, UseCached(p, t, o)
       PROVE  CacheInv'
  BY <1>0, <1>18, UseStep
<1> QED
  BY <1>1, <1>2, <1>3, <1>4, <1>5, <1>6, <1>7, <1>8, <1>9, <1>10, <1>11, <1>12,
     <1>13, <1>14, <1>15, <1>16, <1>17, <1>18 DEF Next, Handle, Request, Create

(* CacheInv holds in every reachable state. *)
THEOREM CacheInvariant == Spec => []CacheInv
<1>1. Init => CacheInv
  BY DEF Init, CacheInv, TimesInv, MemoryInv, RedisInv, StoringInv, CreatingInv,
         Good, EmptyMemory, NoJob, Idle
<1> QED
  BY <1>1, CacheInvStep, TypeCorrect, PTL DEF Spec

(* A process that has handled an invalidation answers with values from       *)
(* before it only if it was raced, for all constants.                        *)
THEOREM NoStaleWithoutRace == Spec => []StaleOnlyByRace
<1>1. TypeOK /\ CacheInv => StaleOnlyByRace
  <2> SUFFICES ASSUME TypeOK, CacheInv, NEW p \in Process, NEW k \in Key,
                      Answer(p, k) # NoValue, Answer(p, k).ver < floor[p]
               PROVE  raced[p]
    BY DEF StaleOnlyByRace
  <2>1. Answer(p, k) = BackendGet(p, k) /\ IsCached(p, BackendGet(p, k))
    BY DEF Answer, Hit
  <2>2. Good(p, BackendGet(p, k))
    BY DEF BackendGet, CacheInv, MemoryInv, RedisInv
  <2> QED
    BY <2>1, <2>2 DEF Good, IsCached
<1> QED
  BY <1>1, CacheInvariant, TypeCorrect, PTL

-----------------------------------------------------------------------------
(* The refinement.  What is stored under a key, one case per place. *)
LEMMA StoredIs ==
  ASSUME NEW k \in Key, NEW v
  PROVE  v \in Stored(k) <=>
           /\ v # NoValue
           /\ \/ \E q \in Process : v = memory[q][k]
              \/ k \in HybridKey /\ v = redis[k]
              \/ \E q \in Process, t \in Thread :
                   /\ job[q][t].key = k /\ job[q][t].pc \in {"memory", "redis"}
                   /\ v = job[q][t].val
<1>1. v \in InRedis(k) <=> k \in HybridKey /\ v = redis[k]
  BY DEF InRedis
<1>2. v \in OnTheWay(k) <=> \E q \in Process, t \in Thread :
                               /\ job[q][t].key = k /\ job[q][t].pc \in {"memory", "redis"}
                               /\ v = job[q][t].val
  <2>1. ASSUME NEW c \in Process \X Thread, job[c[1]][c[2]].key = k,
               job[c[1]][c[2]].pc \in {"memory", "redis"}, v = job[c[1]][c[2]].val
        PROVE  \E q \in Process, t \in Thread :
                 /\ job[q][t].key = k /\ job[q][t].pc \in {"memory", "redis"}
                 /\ v = job[q][t].val
    BY <2>1
  <2>2. ASSUME NEW q \in Process, NEW t \in Thread, job[q][t].key = k,
               job[q][t].pc \in {"memory", "redis"}, v = job[q][t].val
        PROVE  v \in OnTheWay(k)
    <3>1. <<q, t>> \in {d \in Process \X Thread :
            job[d[1]][d[2]].key = k /\ job[d[1]][d[2]].pc \in {"memory", "redis"}}
      BY <2>2
    <3>2. v = job[<<q, t>>[1]][<<q, t>>[2]].val
      BY <2>2
    <3> QED
      BY <3>1, <3>2 DEF OnTheWay
  <2> QED
    BY <2>1, <2>2 DEF OnTheWay
<1> QED
  BY <1>1, <1>2 DEF Stored, InMemory

(* What is stored is a value ... *)
LEMMA StoredAreValues ==
  ASSUME TypeOK, NEW k \in Key, NEW v \in Stored(k)
  PROVE  v \in Value /\ v.ver \in Nat /\ v.ct \in Nat
<1>1. v # NoValue /\ v \in Slot
  BY StoredIs DEF TypeOK, Slot, Job, HybridKey, Key
<1> QED
  BY <1>1 DEF Slot, Value

(* ... stamped no later than now. *)
LEMMA StoredAreStamped ==
  ASSUME CacheInv, NEW k \in Key, NEW v \in Stored(k), NEW p \in Process
  PROVE  v.ct <= clock
<1>1. CASE \E q \in Process : v = memory[q][k]
  BY <1>1, StoredIs DEF CacheInv, MemoryInv, Good
<1>2. CASE k \in HybridKey /\ v = redis[k]
  BY <1>2, StoredIs DEF CacheInv, RedisInv, Good
<1>3. CASE \E q \in Process, t \in Thread :
             job[q][t].pc \in {"memory", "redis"} /\ v = job[q][t].val
  BY <1>3, StoredIs DEF CacheInv, StoringInv, Good
<1> QED
  BY <1>1, <1>2, <1>3, StoredIs

(* The variables of SharedCache keep their types. *)
LEMMA PromiseTypes == TypeOK => Promise!TypeOK
<1> SUFFICES ASSUME TypeOK PROVE Promise!TypeOK
  OBVIOUS
<1>1. Creators \in [Process -> [Thread -> Promise!Creator \cup {NoValue}]]
  <2>1. ASSUME NEW p \in Process, NEW t \in Thread, job[p][t].pc = "create"
        PROVE  [key |-> job[p][t].key, ver |-> job[p][t].val.ver] \in Promise!Creator
    <3>1. job[p][t].key \in Key /\ job[p][t].val.ver \in Nat
      BY <2>1 DEF TypeOK, Job, Value
    <3> QED
      BY <3>1 DEF Promise!Creator
  <2> QED
    BY <2>1 DEF Creators
<1>2. \A k \in Key : \A S \in SUBSET Stored(k) : Versions(S) \in SUBSET Nat
  BY StoredAreValues DEF Versions
<1>3. Around \in [Key -> SUBSET Nat]
  BY <1>2 DEF Around
<1>4. Accepted \in [Process -> [Key -> SUBSET Nat]]
  <2>1. \A p \in Process, k \in Key : {v \in Stored(k) : IsCached(p, v)} \in SUBSET Stored(k)
    OBVIOUS
  <2> QED
    BY <1>2, <2>1 DEF Accepted
<1>5. Answers \in [Process -> [Key -> Nat \cup {NoValue}]]
  <2>1. \A p \in Process, k \in Key : Answer(p, k) # NoValue => Answer(p, k).ver \in Nat
    BY DEF Answer, BackendGet, TypeOK, Slot, Value, Hit, IsCached
  <2> QED
    BY <2>1 DEF Answers
<1> QED
  BY <1>1, <1>3, <1>4, <1>5 DEF Promise!TypeOK, TypeOK

(* What a process answers it accepts. *)
LEMMA AnswersAccepted == TypeOK => Promise!AnswersInv
<1> SUFFICES ASSUME TypeOK, NEW p \in Process, NEW k \in Key, Answer(p, k) # NoValue
             PROVE  Answer(p, k).ver \in Accepted[p][k]
  BY DEF Answers, Promise!AnswersInv
<1>1. Answer(p, k) = BackendGet(p, k) /\ IsCached(p, Answer(p, k))
  BY DEF Answer, Hit
<1>2. Answer(p, k) \in Stored(k)
  BY <1>1, StoredIs DEF BackendGet
<1> QED
  BY <1>1, <1>2 DEF Accepted, Versions

(* A step that stores nothing new under any key, and changes no time, is     *)
(* nothing but a shuffle.                                                    *)
StoresNothing == \A k \in Key : Stored(k)' \subseteq Stored(k)

LEMMA ShuffleStep ==
  ASSUME TypeOK, TypeOK', StoresNothing, UNCHANGED <<committed, inval, floor, raced, Creators>>
  PROVE  Promise!Shuffle
<1>1. Promise!TypeOK'
  BY PromiseTypes, PTL
<1>2. \A p \in Process, k \in Key : Answers'[p][k] \in Accepted'[p][k] \cup {NoValue}
  <2>1. Promise!AnswersInv'
    BY AnswersAccepted, PTL
  <2> QED
    BY <2>1 DEF Promise!AnswersInv
<1>3. Promise!Within(Around', Around)
  BY <1>1 DEF Promise!Within, Promise!TypeOK, Around, Versions, StoresNothing
<1>4. ASSUME NEW p \in Process
      PROVE  Promise!Within(Accepted'[p], Accepted[p])
  <2>1. \A v : IsCached(p, v)' = IsCached(p, v)
    BY DEF IsCached
  <2>2. ASSUME NEW k \in Key PROVE Accepted'[p][k] \subseteq Accepted[p][k]
    BY <2>1 DEF Accepted, Versions, StoresNothing
  <2> QED
    BY <1>1, <2>2 DEF Promise!Within, Promise!TypeOK
<1> QED
  BY <1>1, <1>2, <1>3, <1>4 DEF Promise!Shuffle, Promise!TypeOK

(* A step that stores the very same values changes neither what is around    *)
(* nor what is accepted.                                                     *)
LEMMA SameStored ==
  ASSUME \A k \in Key : Stored(k)' = Stored(k), UNCHANGED inval
  PROVE  UNCHANGED <<Around, Accepted>>
<1>1. Around' = Around
  BY DEF Around
<1>2. \A p \in Process : \A v : IsCached(p, v)' = IsCached(p, v)
  BY DEF IsCached
<1>3. ASSUME NEW p \in Process, NEW k \in Key
      PROVE  {v \in Stored(k) : IsCached(p, v)}' = {v \in Stored(k) : IsCached(p, v)}
  BY <1>2
<1>4. Accepted' = Accepted
  BY <1>3 DEF Accepted
<1> QED
  BY <1>1, <1>4

(* Threads on their way keep to it, or leave it. *)
LEMMA OnTheWayKept ==
  ASSUME \A q \in Process, t \in Thread :
           job'[q][t].pc \in {"memory", "redis"} =>
             /\ job[q][t].pc \in {"memory", "redis"}
             /\ job'[q][t].key = job[q][t].key /\ job'[q][t].val = job[q][t].val
  PROVE  \A k \in Key : OnTheWay(k)' \subseteq OnTheWay(k)
<1> SUFFICES ASSUME NEW k \in Key, NEW v \in OnTheWay(k)' PROVE v \in OnTheWay(k)
  OBVIOUS
<1>1. PICK c \in Process \X Thread :
        /\ job'[c[1]][c[2]].key = k /\ job'[c[1]][c[2]].pc \in {"memory", "redis"}
        /\ v = job'[c[1]][c[2]].val
  BY DEF OnTheWay
<1>2. c[1] \in Process /\ c[2] \in Thread
  OBVIOUS
<1>3. /\ job[c[1]][c[2]].key = k /\ job[c[1]][c[2]].pc \in {"memory", "redis"}
      /\ v = job[c[1]][c[2]].val
  BY <1>1, <1>2
<1> QED
  BY <1>3 DEF OnTheWay

LEMMA OnTheWaySame ==
  ASSUME \A q \in Process, t \in Thread :
           \/ job'[q][t] = job[q][t]
           \/ job'[q][t].pc \in {"idle", "create"} /\ job[q][t].pc \in {"idle", "create"}
  PROVE  \A k \in Key : OnTheWay(k)' = OnTheWay(k)
<1> SUFFICES ASSUME NEW k \in Key PROVE OnTheWay(k)' = OnTheWay(k)
  OBVIOUS
<1>1. ASSUME NEW c \in Process \X Thread
      PROVE  \/ job'[c[1]][c[2]] = job[c[1]][c[2]]
             \/ /\ job'[c[1]][c[2]].pc \in {"idle", "create"}
                /\ job[c[1]][c[2]].pc \in {"idle", "create"}
  <2>1. c[1] \in Process /\ c[2] \in Thread
    OBVIOUS
  <2> QED
    BY <2>1
<1> QED
  BY <1>1 DEF OnTheWay

(* A get that fills the memory changes nothing that shows. *)
LEMMA PromotedKeeps ==
  ASSUME TypeOK, NEW p \in Process, NEW k \in Key, memory' = Promoted(p, k),
         UNCHANGED <<redis, inval, up>>, \A j \in Key : OnTheWay(j)' = OnTheWay(j)
  PROVE  UNCHANGED <<Around, Accepted, Answers>>
<1>1. \A q \in Process, j \in Key :
        memory'[q][j] = IF UseMemory /\ q = p /\ j = k THEN BackendGet(p, k) ELSE memory[q][j]
  BY DEF TypeOK, Promoted
<1>2. \A q \in Process, j \in Key : BackendGet(q, j)' = BackendGet(q, j)
  BY <1>1 DEF BackendGet
<1>3. ASSUME NEW j \in Key PROVE Stored(j)' = Stored(j)
  <2>1. InRedis(j)' = InRedis(j) /\ OnTheWay(j)' = OnTheWay(j)
    BY DEF InRedis
  <2>2. InMemory(j)' \subseteq InMemory(j) \cup InRedis(j)
    BY <1>1 DEF InMemory, InRedis, BackendGet
  <2>3. InMemory(j) \subseteq InMemory(j)' \cup {NoValue}
    BY <1>1 DEF InMemory, BackendGet
  <2> QED
    BY <2>1, <2>2, <2>3 DEF Stored
<1>4. UNCHANGED <<Around, Accepted>>
  BY <1>3, SameStored
<1>5. \A q \in Process, j \in Key : Answer(q, j)' = Answer(q, j)
  BY <1>2 DEF Answer, Hit, IsCached
<1> QED
  BY <1>4, <1>5 DEF Answers

(* A creator runs only in a process that is up. *)
UpInv == \A p \in Process, t \in Thread : job[p][t].pc # "idle" => up[p]

LEMMA UpStep == TypeOK /\ UpInv /\ [Next]_vars => UpInv'
<1> SUFFICES ASSUME TypeOK, UpInv, [Next]_vars PROVE UpInv'
  OBVIOUS
<1> USE DEF UpInv, TypeOK
<1>1. CASE UNCHANGED <<job, up>>
  BY <1>1
<1>2. ASSUME NEW p \in Process, NEW t \in Thread, NEW k \in Key, Miss(p, t, k) \/ Refresh(p, t, k)
      PROVE  UpInv'
  BY <1>2 DEF Miss, Refresh, Creating
<1>3. ASSUME NEW p \in Process, NEW t \in Thread, Create(p, t) PROVE UpInv'
  <2>1. up' = up /\ job[p][t].pc # "idle"
    BY <1>3 DEF Create, UseCached, Created, SetMemory, SetRedis, CreatorFails
  <2>2. \E j : job' = [job EXCEPT ![p][t] = j]
    BY <1>3 DEF Create, UseCached, Created, SetMemory, SetRedis, CreatorFails
  <2> QED
    BY <2>1, <2>2
<1>4. ASSUME NEW p \in Process, Stop(p) PROVE UpInv'
  BY <1>4, EmptyTypes DEF Stop
<1>5. ASSUME NEW p \in Process, Start(p) PROVE UpInv'
  BY <1>5 DEF Start
<1> QED
  BY <1>1, <1>2, <1>3, <1>4, <1>5 DEF Next, vars, Handle, Request, Flush, Commit, Abort, InvalidateView,
     Expire, HandleInvalidate, HandleKeys, HandleDelete, HandleClear, Get

(* Who runs as a creator. *)
LEMMA CreatorsAre ==
  ASSUME NEW p \in Process, NEW t \in Thread
  PROVE  /\ job[p][t].pc = "create" =>
              Creators[p][t] = [key |-> job[p][t].key, ver |-> job[p][t].val.ver]
         /\ job[p][t].pc # "create" => Creators[p][t] = NoValue
         /\ TypeOK => (Creators[p][t] # NoValue <=> job[p][t].pc = "create")
<1>1. ASSUME TypeOK, job[p][t].pc = "create"
      PROVE  [key |-> job[p][t].key, ver |-> job[p][t].val.ver] # NoValue
  <2>1. job[p][t].key \in Key /\ job[p][t].val.ver \in Nat
    BY <1>1 DEF TypeOK, Job, Value
  <2> QED
    BY <2>1, NoValueAssumption
<1> QED
  BY <1>1 DEF Creators

LEMMA CreatorChanges ==
  ASSUME NEW p \in Process, NEW t \in Thread, NEW c,
         \A q \in Process, u \in Thread : q # p \/ u # t => job'[q][u] = job[q][u],
         \/ job'[p][t].pc = "create" /\ c = [key |-> job'[p][t].key, ver |-> job'[p][t].val.ver]
         \/ job'[p][t].pc # "create" /\ c = NoValue
  PROVE  Creators' = [Creators EXCEPT ![p][t] = c]
<1> DEFINE N == [Creators EXCEPT ![p][t] = c]
<1>1. /\ Creators' = [q \in Process |-> Creators'[q]]
      /\ N = [q \in Process |-> N[q]]
  BY DEF Creators
<1>2. ASSUME NEW q \in Process PROVE Creators'[q] = N[q]
  <2>1. /\ Creators'[q] = [u \in Thread |-> Creators'[q][u]]
        /\ N[q] = [u \in Thread |-> N[q][u]]
    BY DEF Creators
  <2>2. ASSUME NEW u \in Thread PROVE Creators'[q][u] = N[q][u]
    <3>1. CASE q = p /\ u = t
      BY <3>1 DEF Creators
    <3>2. CASE q # p \/ u # t
      <4>1. Creators'[q][u] = Creators[q][u]
        BY <3>2 DEF Creators
      <4>2. N[q][u] = Creators[q][u]
        BY <3>2 DEF Creators
      <4> QED
        BY <4>1, <4>2
    <3> QED
      BY <3>1, <3>2
  <2> QED
    BY <2>1, <2>2
<1> QED
  BY <1>1, <1>2

(* The steps.  A miss, or a refresh, begins. *)
LEMMA BeginStep ==
  ASSUME TypeOK, NEW p \in Process, NEW t \in Thread, NEW k \in Key, Miss(p, t, k) \/ Refresh(p, t, k)
  PROVE  Promise!Begin(p, t, k)
<1>1. /\ job[p][t] = Idle
      /\ job' = [job EXCEPT ![p][t] = [pc |-> "create", key |-> k, val |-> [ver |-> committed, ct |-> 0]]]
      /\ UNCHANGED <<committed, inval, floor, raced, redis, up>>
  BY DEF Miss, Refresh, Creating, dbVars, handlerVars
<1>2. \A q \in Process, u \in Thread :
        job'[q][u] = IF q = p /\ u = t
                       THEN [pc |-> "create", key |-> k, val |-> [ver |-> committed, ct |-> 0]]
                       ELSE job[q][u]
  BY <1>1 DEF TypeOK
<1>3. \A j \in Key : OnTheWay(j)' = OnTheWay(j)
  <2>1. \A q \in Process, u \in Thread :
          \/ job'[q][u] = job[q][u]
          \/ job'[q][u].pc \in {"idle", "create"} /\ job[q][u].pc \in {"idle", "create"}
    BY <1>1, <1>2 DEF Idle
  <2> QED
    BY <2>1, OnTheWaySame
<1>4. UNCHANGED <<Around, Accepted, Answers>>
  <2>1. CASE Miss(p, t, k)
    BY <1>1, <1>3, <2>1, PromotedKeeps DEF Miss
  <2>2. CASE Refresh(p, t, k)
    <3>1. \A j \in Key : Stored(j)' = Stored(j)
      BY <1>1, <1>3, <2>2 DEF Refresh, Stored, InMemory, InRedis
    <3>2. \A q \in Process, j \in Key : Answer(q, j)' = Answer(q, j)
      BY <1>1, <2>2 DEF Refresh, Answer, Hit, IsCached, BackendGet
    <3> QED
      BY <1>1, <3>1, <3>2, SameStored DEF Answers
  <2> QED
    BY <2>1, <2>2
<1>5. Creators[p][t] = NoValue
  <2>1. job[p][t].pc # "create"
    BY <1>1 DEF Idle
  <2> QED
    BY <2>1, CreatorsAre
<1>6. Creators' = [Creators EXCEPT ![p][t] = [key |-> k, ver |-> committed]]
  <2> DEFINE c == [key |-> k, ver |-> committed]
  <2>1. \A q \in Process, u \in Thread : q # p \/ u # t => job'[q][u] = job[q][u]
    BY <1>2
  <2>2. job'[p][t].pc = "create" /\ c = [key |-> job'[p][t].key, ver |-> job'[p][t].val.ver]
    BY <1>2
  <2> HIDE DEF c
  <2>3. Creators' = [Creators EXCEPT ![p][t] = c]
    BY <2>1, <2>2, CreatorChanges
  <2> QED
    BY <2>3 DEF c
<1> QED
  BY <1>1, <1>4, <1>5, <1>6 DEF Promise!Begin

(* A creator that uses a cached value uses what its process answers. *)
LEMMA UsesAnswer ==
  ASSUME TypeOK, UpInv,
         NEW p \in Process, NEW t \in Thread, NEW o \in OgcKey, UseCached(p, t, o)
  PROVE  Promise!Use(p, t, o)
<1> DEFINE v == BackendGet(p, o)
           c == [key |-> job[p][t].key, ver |-> job[p][t].val.ver]
           d == [key |-> c.key, ver |-> IF c.ver < v.ver THEN c.ver ELSE v.ver]
<1>1. /\ o \in Key /\ job[p][t].pc = "create" /\ Hit(p, o) /\ v \in Value
      /\ UNCHANGED <<committed, inval, floor, redis, up>>
  BY DEF UseCached, Hit, IsCached, BackendGet, Key, HybridKey, Slot, TypeOK, dbVars
<1>2. Answer(p, o) = v /\ Answers[p][o] = v.ver /\ v.ver # NoValue /\ v # NoValue
  <2>1. up[p]
    BY <1>1 DEF UpInv
  <2>2. v # NoValue
    BY <1>1 DEF Hit, IsCached
  <2> QED
    BY <1>1, <2>1, <2>2, NoValueAssumption DEF Answer, Answers, Value
<1>3. Creators[p][t] = c /\ c # NoValue
  BY <1>1, CreatorsAre
<1>4. job' = [job EXCEPT ![p][t] =
        [pc |-> "create", key |-> c.key, val |-> [ver |-> d.ver, ct |-> 0]]]
  BY DEF UseCached, Older
<1>5. \A q \in Process, u \in Thread :
        job'[q][u] = IF q = p /\ u = t
                       THEN [pc |-> "create", key |-> c.key, val |-> [ver |-> d.ver, ct |-> 0]]
                       ELSE job[q][u]
  BY <1>4 DEF TypeOK
<1>6. Creators' = [Creators EXCEPT ![p][t] = d]
  <2>1. \A q \in Process, u \in Thread : q # p \/ u # t => job'[q][u] = job[q][u]
    BY <1>5
  <2>2. job'[p][t].pc = "create" /\ d = [key |-> job'[p][t].key, ver |-> job'[p][t].val.ver]
    BY <1>5
  <2> HIDE DEF c, d, v
  <2> QED
    BY <2>1, <2>2, CreatorChanges
<1>7. UNCHANGED <<Around, Accepted, Answers>>
  <2>1. \A q \in Process, u \in Thread :
          \/ job'[q][u] = job[q][u]
          \/ job'[q][u].pc \in {"idle", "create"} /\ job[q][u].pc \in {"idle", "create"}
    BY <1>1, <1>5
  <2>2. \A j \in Key : OnTheWay(j)' = OnTheWay(j)
    BY <2>1, OnTheWaySame
  <2>3. memory' = Promoted(p, o)
    BY DEF UseCached
  <2> QED
    BY <1>1, <2>2, <2>3, PromotedKeeps
<1>8. raced' = [q \in Process |-> raced[q] \/ ~IsCached(q, v)]
  BY DEF UseCached
<1>9. raced' \in [Process -> BOOLEAN] /\ raced'[p] = raced[p]
  <2>1. IsCached(p, v)
    BY <1>1 DEF Hit
  <2>2. \A q \in Process : (raced[q] \/ ~IsCached(q, v)) \in BOOLEAN
    BY DEF IsCached
  <2>3. raced \in [Process -> BOOLEAN]
    BY DEF TypeOK
  <2> QED
    BY <1>8, <2>1, <2>2, <2>3
<1>10. ASSUME NEW q \in Process, raced[q] \/ v.ver \notin Accepted[q][o] PROVE raced'[q]
  <2>1. v \in Stored(o)
    BY <1>1, <1>2, StoredIs DEF BackendGet
  <2>2. IsCached(q, v) => v.ver \in Accepted[q][o]
    BY <1>1, <2>1 DEF Accepted, Versions
  <2> QED
    BY <1>8, <1>10, <2>2
<1> QED
  BY <1>1, <1>2, <1>3, <1>6, <1>7, <1>9, <1>10 DEF Promise!Use

(* A creator that returns has its value accepted by every process: it is     *)
(* stamped now, and no process has invalidated later.                        *)
LEMMA ReturnStep ==
  ASSUME TypeOK, CacheInv, NEW p \in Process, NEW t \in Thread, Created(p, t)
  PROVE  Promise!Return(p, t)
<1>a. PICK k : k = job[p][t].key
  OBVIOUS
<1>b. PICK v : v = [ver |-> job[p][t].val.ver, ct |-> clock]
  OBVIOUS
<1> DEFINE c == [key |-> k, ver |-> v.ver]
<1>1. /\ job[p][t].pc = "create" /\ k \in Key /\ v \in Value
      /\ UNCHANGED <<committed, clock, inval, floor, raced, redis, memory, up>>
  BY <1>a, <1>b DEF Created, TypeOK, Job, Value, dbVars, handlerVars
<1>2. Creators[p][t] = c /\ c # NoValue
  BY <1>1, <1>a, <1>b, CreatorsAre
<1>3. /\ \A q \in Process, u \in Thread : q # p \/ u # t => job'[q][u] = job[q][u]
      /\ job'[p][t] = [pc |-> "memory", key |-> k, val |-> v]
  BY <1>a, <1>b DEF Created, TypeOK
<1>4. Creators' = [Creators EXCEPT ![p][t] = NoValue]
  <2>1. job'[p][t].pc # "create"
    BY <1>3
  <2> QED
    BY <1>3, <2>1, CreatorChanges
<1>5. v # NoValue /\ \A q \in Process : IsCached(q, v) /\ IsCached(q, v)'
  <2>1. v # NoValue /\ v.ct = clock
    BY <1>1, <1>b, NoValueAssumption DEF Value
  <2>2. \A q \in Process : ~(clock < inval[q]) /\ inval'[q] = inval[q]
    BY <1>1 DEF CacheInv, TimesInv, TypeOK
  <2> QED
    BY <2>1, <2>2 DEF IsCached
<1>6. ASSUME NEW j \in Key
      PROVE  OnTheWay(j)' = IF j = k THEN OnTheWay(j) \cup {v} ELSE OnTheWay(j)
  <2>1. ASSUME NEW w \in OnTheWay(j)'
        PROVE  w \in OnTheWay(j) \/ (j = k /\ w = v)
    <3>1. PICK d \in Process \X Thread :
            /\ job'[d[1]][d[2]].key = j /\ job'[d[1]][d[2]].pc \in {"memory", "redis"}
            /\ w = job'[d[1]][d[2]].val
      BY DEF OnTheWay
    <3>2. CASE d[1] = p /\ d[2] = t
      <4>1. job'[d[1]][d[2]] = [pc |-> "memory", key |-> k, val |-> v]
        BY <1>3, <3>2
      <4> QED
        BY <3>1, <4>1
    <3>3. CASE d[1] # p \/ d[2] # t
      <4>1. job'[d[1]][d[2]] = job[d[1]][d[2]]
        BY <1>3, <3>3
      <4> QED
        BY <3>1, <4>1 DEF OnTheWay
    <3> QED
      BY <3>2, <3>3
  <2>2. ASSUME NEW w \in OnTheWay(j)
        PROVE  w \in OnTheWay(j)'
    <3>1. PICK d \in Process \X Thread :
            /\ job[d[1]][d[2]].key = j /\ job[d[1]][d[2]].pc \in {"memory", "redis"}
            /\ w = job[d[1]][d[2]].val
      BY DEF OnTheWay
    <3>2. d[1] # p \/ d[2] # t
      BY <1>1, <3>1
    <3>3. job'[d[1]][d[2]] = job[d[1]][d[2]]
      BY <1>3, <3>2
    <3> QED
      BY <3>1, <3>3 DEF OnTheWay
  <2>3. v \in OnTheWay(k)'
    <3>1. <<p, t>> \in {d \in Process \X Thread :
            job'[d[1]][d[2]].key = k /\ job'[d[1]][d[2]].pc \in {"memory", "redis"}}
      BY <1>3
    <3>2. job'[<<p, t>>[1]][<<p, t>>[2]].val = v
      BY <1>3
    <3> QED
      BY <3>1, <3>2 DEF OnTheWay
  <2> QED
    BY <2>1, <2>2, <2>3
<1>7. ASSUME NEW j \in Key
      PROVE  Stored(j)' = IF j = k THEN Stored(j) \cup {v} ELSE Stored(j)
  <2>1. InMemory(j)' = InMemory(j) /\ InRedis(j)' = InRedis(j)
    BY <1>1 DEF InMemory, InRedis
  <2> QED
    BY <1>5, <1>6, <2>1 DEF Stored
<1>8. Around' = [Around EXCEPT ![k] = @ \cup {c.ver}]
  <2>1. \A j \in Key : Versions(Stored(j))' =
          IF j = k THEN Versions(Stored(j)) \cup {c.ver} ELSE Versions(Stored(j))
    BY <1>7 DEF Versions
  <2> QED
    BY <1>1, <2>1 DEF Around
<1>9. Accepted' = [q \in Process |-> [Accepted[q] EXCEPT ![k] = @ \cup {c.ver}]]
  <2>1. ASSUME NEW q \in Process, NEW j \in Key
        PROVE  Accepted'[q][j] = IF j = k THEN Accepted[q][j] \cup {c.ver} ELSE Accepted[q][j]
    <3>1. \A w : IsCached(q, w)' = IsCached(q, w)
      BY <1>1 DEF IsCached
    <3>2. {w \in Stored(j) : IsCached(q, w)}' =
            IF j = k THEN {w \in Stored(j) : IsCached(q, w)} \cup {v}
                     ELSE {w \in Stored(j) : IsCached(q, w)}
      BY <1>5, <1>7, <3>1
    <3> QED
      BY <3>2 DEF Accepted, Versions
  <2> QED
    BY <1>1, <2>1 DEF Accepted
<1>10. Answers' = Answers
  <2>1. \A q \in Process, j \in Key : Answer(q, j)' = Answer(q, j)
    BY <1>1 DEF Answer, Hit, IsCached, BackendGet
  <2> QED
    BY <2>1 DEF Answers
<1> QED
  BY <1>1, <1>2, <1>4, <1>8, <1>9, <1>10 DEF Promise!Return

LEMMA FailStep ==
  ASSUME TypeOK, NEW p \in Process, NEW t \in Thread, CreatorFails(p, t)
  PROVE  Promise!Fail(p, t)
<1>1. /\ job[p][t].pc = "create"
      /\ UNCHANGED <<committed, inval, floor, raced, redis, memory, up>>
  BY DEF CreatorFails, dbVars, handlerVars
<1>2. /\ \A q \in Process, u \in Thread : q # p \/ u # t => job'[q][u] = job[q][u]
      /\ job'[p][t].pc = "idle"
  BY DEF CreatorFails, TypeOK, Idle
<1>3. Creators[p][t] # NoValue
  BY <1>1, CreatorsAre
<1>4. Creators' = [Creators EXCEPT ![p][t] = NoValue]
  BY <1>2, CreatorChanges
<1>5. \A j \in Key : OnTheWay(j)' = OnTheWay(j)
  BY <1>1, <1>2, OnTheWaySame
<1>6. \A j \in Key : Stored(j)' = Stored(j)
  BY <1>1, <1>5 DEF Stored, InMemory, InRedis
<1>7. Answers' = Answers
  <2>1. \A q \in Process, j \in Key : Answer(q, j)' = Answer(q, j)
    BY <1>1 DEF Answer, Hit, IsCached, BackendGet
  <2> QED
    BY <2>1 DEF Answers
<1> QED
  BY <1>1, <1>3, <1>4, <1>6, <1>7, SameStored DEF Promise!Fail

(* An invalidation of p, though its deletions are still to come, leaves it   *)
(* with nothing: all that is stored anywhere was stamped before.             *)
LEMMA InvalidatesAtOnce ==
  ASSUME TypeOK, CacheInv, NEW p \in Process, HandleInvalidate(p)
  PROVE  Promise!Invalidate(p)
<1>1. /\ UNCHANGED <<committed, redis, memory, job, up>>
      /\ inval' = [inval EXCEPT ![p] = clock + 1]
      /\ floor' = [floor EXCEPT ![p] = committed]
  BY DEF HandleInvalidate
<1>2. \A k \in Key : Stored(k)' = Stored(k)
  BY <1>1 DEF Stored, InMemory, InRedis, OnTheWay
<1>3. ASSUME NEW k \in Key, NEW v \in Stored(k) PROVE ~IsCached(p, v)'
  <2>1. v.ct \in Nat /\ v.ct <= clock /\ inval'[p] = clock + 1 /\ clock \in Nat
    BY <1>1, StoredAreValues, StoredAreStamped DEF TypeOK
  <2>2. v.ct < inval'[p]
    BY <2>1
  <2> QED
    BY <2>2 DEF IsCached
<1>4. \A q \in Process \ {p} : \A v : IsCached(q, v)' = IsCached(q, v)
  BY <1>1 DEF IsCached, TypeOK
<1>5. Around' = Around /\ Creators' = Creators
  BY <1>1, <1>2 DEF Around, Creators
<1>6. Accepted' = [Accepted EXCEPT ![p] = Promise!Nothing]
  <2>1. \A k \in Key : {v \in Stored(k) : IsCached(p, v)}' = {}
    BY <1>2, <1>3
  <2>2. ASSUME NEW q \in Process \ {p}, NEW k \in Key
        PROVE  {v \in Stored(k) : IsCached(q, v)}' = {v \in Stored(k) : IsCached(q, v)}
    BY <1>2, <1>4
  <2>3. Accepted'[p] = Promise!Nothing
    BY <2>1 DEF Accepted, Versions, Promise!Nothing
  <2>4. \A q \in Process \ {p} : Accepted'[q] = Accepted[q]
    BY <2>2 DEF Accepted
  <2>5. Accepted' = [q \in Process |-> Accepted'[q]] /\ Accepted = [q \in Process |-> Accepted[q]]
    BY DEF Accepted
  <2> QED
    BY <2>3, <2>4, <2>5
<1>7. Answers' = [Answers EXCEPT ![p] = Promise!NoAnswer]
  <2>1. ASSUME NEW k \in Key PROVE Answer(p, k)' = NoValue
    <3>1. BackendGet(p, k)' = BackendGet(p, k)
      BY <1>1 DEF BackendGet
    <3>2. BackendGet(p, k) # NoValue => BackendGet(p, k) \in Stored(k)
      BY StoredIs DEF BackendGet
    <3>3. ~IsCached(p, BackendGet(p, k))'
      BY <1>3, <3>1, <3>2 DEF IsCached
    <3> QED
      BY <3>3 DEF Answer, Hit
  <2>2. ASSUME NEW q \in Process \ {p}, NEW k \in Key PROVE Answer(q, k)' = Answer(q, k)
    BY <1>1, <1>4 DEF Answer, Hit, BackendGet, IsCached
  <2>3. Answers'[p] = Promise!NoAnswer
    BY <2>1 DEF Answers, Promise!NoAnswer
  <2>4. \A q \in Process \ {p} : Answers'[q] = Answers[q]
    BY <2>2 DEF Answers
  <2>5. Answers' = [q \in Process |-> Answers'[q]] /\ Answers = [q \in Process |-> Answers[q]]
    BY DEF Answers
  <2> QED
    BY <2>3, <2>4, <2>5
<1>8. raced' = [raced EXCEPT ![p] = \E q \in Process, t \in Thread : Creators[q][t] # NoValue]
  <2>1. \A q \in Process, t \in Thread : job[q][t].pc = "create" <=> Creators[q][t] # NoValue
    BY CreatorsAre
  <2>2. (\E q \in Process, t \in Thread : job[q][t].pc = "create")
          = \E q \in Process, t \in Thread : Creators[q][t] # NoValue
    BY <2>1
  <2>3. raced' = [raced EXCEPT ![p] = \E q \in Process, t \in Thread : job[q][t].pc = "create"]
    BY DEF HandleInvalidate
  <2> QED
    BY <2>2, <2>3
<1>9. Promise!Within(Around', Around)
  BY <1>5, PromiseTypes DEF Promise!Within, Promise!TypeOK
<1> QED
  BY <1>1, <1>5, <1>6, <1>7, <1>8, <1>9 DEF Promise!Invalidate

(* A process that stops loses its memory and its creators; what it will      *)
(* accept is all that is left.                                               *)
LEMMA StopsAccepting ==
  ASSUME TypeOK, TypeOK', NEW p \in Process, Stop(p)
  PROVE  Promise!Stop(p)
<1>1. /\ UNCHANGED <<committed, redis>>
      /\ inval' = [inval EXCEPT ![p] = 0]
      /\ memory' = [memory EXCEPT ![p] = EmptyMemory]
      /\ job' = [job EXCEPT ![p] = NoJob]
      /\ up' = [up EXCEPT ![p] = FALSE]
      /\ floor' = [floor EXCEPT ![p] = 0]
      /\ raced' = [raced EXCEPT ![p] = FALSE]
  BY DEF Stop
<1>2. Promise!TypeOK'
  BY PromiseTypes, PTL
<1>3. ASSUME NEW k \in Key PROVE Stored(k)' \subseteq Stored(k)
  <2>1. InMemory(k)' \subseteq InMemory(k) \cup {NoValue}
    BY <1>1 DEF InMemory, TypeOK, EmptyMemory
  <2>2. \A q \in Process, t \in Thread :
          job'[q][t].pc \in {"memory", "redis"} =>
            /\ job[q][t].pc \in {"memory", "redis"}
            /\ job'[q][t].key = job[q][t].key /\ job'[q][t].val = job[q][t].val
    BY <1>1, EmptyTypes DEF TypeOK
  <2>3. OnTheWay(k)' \subseteq OnTheWay(k)
    BY <2>2, OnTheWayKept
  <2> QED
    BY <1>1, <2>1, <2>3 DEF Stored, InRedis
<1>4. Promise!Within(Around', Around)
  BY <1>2, <1>3 DEF Promise!Within, Promise!TypeOK, Around, Versions
<1>5. ASSUME NEW q \in Process \ {p} PROVE Promise!Within(Accepted'[q], Accepted[q])
  <2>1. \A v : IsCached(q, v)' = IsCached(q, v)
    BY <1>1 DEF IsCached, TypeOK
  <2> QED
    BY <1>2, <1>3, <2>1 DEF Promise!Within, Promise!TypeOK, Accepted, Versions
<1>6. Accepted'[p] = Around'
  <2>1. \A v \in Value : v # NoValue /\ v.ct \in Nat
    BY NoValueAssumption DEF Value
  <2>2. \A v \in Value : IsCached(p, v)'
    BY <1>1, <2>1 DEF IsCached, TypeOK
  <2>3. \A k \in Key : Stored(k)' \subseteq Value
    BY <1>3, StoredAreValues
  <2>4. \A k \in Key : {v \in Stored(k) : IsCached(p, v)}' = Stored(k)'
    BY <2>2, <2>3
  <2> QED
    BY <2>4 DEF Accepted, Around
<1>7. Answers' = [Answers EXCEPT ![p] = Promise!NoAnswer]
  <2>1. \A k \in Key : Answer(p, k)' = NoValue
    BY <1>1 DEF Answer, TypeOK
  <2>2. ASSUME NEW q \in Process \ {p}, NEW k \in Key PROVE Answer(q, k)' = Answer(q, k)
    BY <1>1 DEF Answer, Hit, BackendGet, IsCached, TypeOK
  <2>3. Answers'[p] = Promise!NoAnswer
    BY <2>1 DEF Answers, Promise!NoAnswer
  <2>4. \A q \in Process \ {p} : Answers'[q] = Answers[q]
    BY <2>2 DEF Answers
  <2>5. Answers' = [q \in Process |-> Answers'[q]] /\ Answers = [q \in Process |-> Answers[q]]
    BY DEF Answers
  <2> QED
    BY <2>3, <2>4, <2>5
<1>8. Creators' = [Creators EXCEPT ![p] = Promise!NoCreator]
  <2>1. Creators'[p] = Promise!NoCreator
    BY <1>1, EmptyTypes DEF Creators, Promise!NoCreator, TypeOK
  <2>2. \A q \in Process \ {p} : Creators'[q] = Creators[q]
    BY <1>1 DEF Creators, TypeOK
  <2>3. Creators' = [q \in Process |-> Creators'[q]] /\ Creators = [q \in Process |-> Creators[q]]
    BY DEF Creators
  <2> QED
    BY <2>1, <2>2, <2>3
<1>9. \A q \in Process \ {p}, k \in Key : Answers[q][k] \in Accepted'[q][k] \cup {NoValue}
  <2>1. Promise!AnswersInv'
    BY AnswersAccepted, PTL
  <2>2. \A q \in Process \ {p}, k \in Key : Answers'[q][k] = Answers[q][k]
    BY <1>7 DEF Answers
  <2> QED
    BY <2>1, <2>2 DEF Promise!AnswersInv
<1> QED
  BY <1>1, <1>2, <1>4, <1>5, <1>6, <1>7, <1>8, <1>9 DEF Promise!Stop, Promise!TypeOK

(* Every other step stores nothing that was not stored before: values move   *)
(* to a memory or to Redis, are copied, deleted, expire or come to sight.    *)
LEMMA MovesOnly ==
  ASSUME TypeOK,
         \/ Flush \/ Abort \/ InvalidateView
         \/ \E k \in HybridKey : Expire(k)
         \/ \E p \in Process :
              \/ HandleKeys(p) \/ HandleClear(p) \/ Start(p)
              \/ \E k \in Key : HandleDelete(p, k) \/ Get(p, k)
              \/ \E t \in Thread : SetMemory(p, t) \/ SetRedis(p, t)
  PROVE  StoresNothing /\ UNCHANGED <<committed, inval, floor, raced, Creators>>
<1> USE DEF dbVars, handlerVars
<1>1. UNCHANGED <<committed, inval, floor, raced>>
  BY DEF Flush, Abort, InvalidateView, Expire, HandleKeys, HandleClear, Start, HandleDelete, Get,
     SetMemory, SetRedis
<1>2. CASE UNCHANGED job
  <2>1. Creators' = Creators /\ \A k \in Key : OnTheWay(k)' = OnTheWay(k)
    BY <1>2 DEF Creators, OnTheWay
  <2>2. \A q \in Process, k \in Key :
          \/ memory'[q][k] \in {memory[q][k], NoValue}
          \/ k \in HybridKey /\ memory'[q][k] = redis[k]
    <3>1. CASE UNCHANGED memory
      BY <3>1
    <3>2. ASSUME NEW p \in Process, HandleClear(p)
          PROVE  \A q \in Process, k \in Key : memory'[q][k] \in {memory[q][k], NoValue}
      BY <3>2 DEF HandleClear, EmptyMemory, TypeOK
    <3>3. ASSUME NEW p \in Process, NEW j \in Key, HandleDelete(p, j)
          PROVE  \A q \in Process, k \in Key : memory'[q][k] \in {memory[q][k], NoValue}
      BY <3>3 DEF HandleDelete, TypeOK
    <3>4. ASSUME NEW p \in Process, NEW j \in Key, Get(p, j)
          PROVE  \A q \in Process, k \in Key :
                   \/ memory'[q][k] = memory[q][k]
                   \/ k \in HybridKey /\ memory'[q][k] = redis[k]
      BY <3>4 DEF Get, Promoted, BackendGet, TypeOK
    <3>5. ASSUME NEW p \in Process, NEW t \in Thread, SetMemory(p, t) \/ SetRedis(p, t)
          PROVE  FALSE
      <4>1. job'[p][t].pc # job[p][t].pc
        BY <3>5 DEF SetMemory, SetRedis, Idle, TypeOK
      <4> QED
        BY <1>2, <4>1
    <3> QED
      BY <3>1, <3>2, <3>3, <3>4, <3>5 DEF Flush, Abort, InvalidateView, Expire, HandleKeys, Start
  <2>3. \A k \in HybridKey : redis'[k] \in {redis[k], NoValue}
    <3>1. CASE UNCHANGED redis
      BY <3>1
    <3>2. ASSUME NEW k \in HybridKey, Expire(k)
          PROVE  \A j \in HybridKey : redis'[j] \in {redis[j], NoValue}
      BY <3>2 DEF Expire, TypeOK
    <3>3. ASSUME NEW p \in Process, NEW k \in Key, HandleDelete(p, k)
          PROVE  \A j \in HybridKey : redis'[j] \in {redis[j], NoValue}
      BY <3>3 DEF HandleDelete
    <3>4. ASSUME NEW p \in Process, NEW t \in Thread, SetRedis(p, t) PROVE FALSE
      <4>1. job'[p][t].pc # job[p][t].pc
        BY <3>4 DEF SetRedis, Idle, TypeOK
      <4> QED
        BY <1>2, <4>1
    <3> QED
      BY <3>1, <3>2, <3>3, <3>4 DEF Flush, Abort, InvalidateView, HandleKeys, HandleClear, Start, Get, SetMemory
  <2>4. \A k \in Key : InRedis(k)' \subseteq InRedis(k) \cup {NoValue}
    BY <2>3 DEF InRedis
  <2>5. \A k \in Key : InMemory(k)' \subseteq InMemory(k) \cup InRedis(k) \cup {NoValue}
    BY <2>2 DEF InMemory, InRedis
  <2> QED
    BY <1>1, <2>1, <2>4, <2>5 DEF StoresNothing, Stored
<1>3. ASSUME NEW p \in Process, NEW t \in Thread, SetMemory(p, t) \/ SetRedis(p, t)
      PROVE  StoresNothing /\ UNCHANGED Creators
  <2>1. /\ job[p][t].pc \in {"memory", "redis"}
        /\ \/ job'[p][t] = Idle
           \/ job'[p][t] = [pc |-> "redis", key |-> job[p][t].key, val |-> job[p][t].val]
        /\ \A q \in Process, u \in Thread : q # p \/ u # t => job'[q][u] = job[q][u]
    BY <1>3 DEF SetMemory, SetRedis, TypeOK
  <2>2. \A q \in Process, u \in Thread :
          job'[q][u].pc \in {"memory", "redis"} =>
            /\ job[q][u].pc \in {"memory", "redis"}
            /\ job'[q][u].key = job[q][u].key /\ job'[q][u].val = job[q][u].val
    BY <2>1 DEF Idle
  <2>3. \A k \in Key : OnTheWay(k)' \subseteq OnTheWay(k)
    BY <2>2, OnTheWayKept
  <2>4. job[p][t].key \in Key /\ job[p][t].val \in OnTheWay(job[p][t].key)
    <3>1. <<p, t>> \in {d \in Process \X Thread :
            job[d[1]][d[2]].key = job[p][t].key /\ job[d[1]][d[2]].pc \in {"memory", "redis"}}
      BY <2>1
    <3>2. job[<<p, t>>[1]][<<p, t>>[2]].val = job[p][t].val
      OBVIOUS
    <3> QED
      BY <2>1, <3>1, <3>2 DEF OnTheWay, TypeOK
  <2>5. \A q \in Process, k \in Key :
          \/ memory'[q][k] = memory[q][k]
          \/ k = job[p][t].key /\ memory'[q][k] = job[p][t].val
    BY <1>3, <2>4 DEF SetMemory, SetRedis, TypeOK
  <2>6. \A k \in HybridKey :
          \/ redis'[k] = redis[k]
          \/ k = job[p][t].key /\ redis'[k] = job[p][t].val
    BY <1>3, <2>4 DEF SetMemory, SetRedis, TypeOK
  <2>7. \A k \in Key : InMemory(k)' \subseteq InMemory(k) \cup OnTheWay(k)
    BY <2>4, <2>5 DEF InMemory
  <2>8. \A k \in Key : InRedis(k)' \subseteq InRedis(k) \cup OnTheWay(k)
    BY <2>4, <2>6 DEF InRedis
  <2>9. StoresNothing
    BY <2>3, <2>7, <2>8 DEF StoresNothing, Stored
  <2>10. \A q \in Process, u \in Thread :
           \/ job'[q][u] = job[q][u]
           \/ job'[q][u].pc # "create" /\ job[q][u].pc # "create"
    BY <2>1 DEF Idle
  <2>11. Creators' = Creators
    BY <2>10 DEF Creators
  <2> QED
    BY <2>9, <2>11
<1> QED
  BY <1>1, <1>2, <1>3 DEF Flush, Abort, InvalidateView, Expire, HandleKeys, HandleClear, Start, HandleDelete, Get

(* The cache implements SharedCache: processes, memories, Redis, times and   *)
(* deletions together show no more than one store in which an invalidation   *)
(* is one step.                                                              *)
THEOREM CacheRefinesShared == Spec => CacheIsShared
<1>1. Init => Promise!Init
  <2> SUFFICES ASSUME Init PROVE Promise!Init
    OBVIOUS
  <2>1. \A p \in Process, t \in Thread : job[p][t] = Idle
    BY DEF Init, NoJob
  <2>2. Creators = [p \in Process |-> Promise!NoCreator]
    BY <2>1 DEF Creators, Promise!NoCreator, Idle
  <2>3. ASSUME NEW k \in Key PROVE Stored(k) = {}
    <3>1. ASSUME NEW v \in Stored(k) PROVE FALSE
      BY <2>1, <3>1, StoredIs DEF Init, EmptyMemory, Idle
    <3> QED
      BY <3>1
  <2>4. Around = Promise!Nothing /\ Accepted = [p \in Process |-> Promise!Nothing]
    BY <2>3 DEF Around, Accepted, Versions, Promise!Nothing
  <2>5. \A p \in Process, k \in Key : Answer(p, k) = NoValue
    BY DEF Init, EmptyMemory, Answer, Hit, IsCached, BackendGet
  <2>6. Answers = [p \in Process |-> Promise!NoAnswer]
    BY <2>5 DEF Answers, Promise!NoAnswer
  <2> QED
    BY <2>2, <2>4, <2>6 DEF Init, Promise!Init
<1>2. ASSUME TypeOK, TypeOK', CacheInv, UpInv, [Next]_vars
      PROVE  [Promise!Next]_Promise!vars
  <2>1. CASE UNCHANGED vars
    BY <2>1 DEF vars, Promise!vars, Creators, Around, Accepted, Answers, Answer, Hit, BackendGet,
       IsCached, Stored, InMemory, InRedis, OnTheWay
  <2>2. CASE Commit
    <3>1. UNCHANGED <<Creators, Around, Accepted, Answers>>
      BY <2>2 DEF Commit, handlerVars, Creators, Around, Accepted, Answers, Answer, Hit, BackendGet,
         IsCached, Stored, InMemory, InRedis, OnTheWay
    <3> QED
      BY <2>2, <3>1 DEF Commit, handlerVars, Promise!Commit, Promise!Next
  <2>3. ASSUME NEW p \in Process, HandleInvalidate(p) PROVE Promise!Next
    BY <1>2, <2>3, InvalidatesAtOnce DEF Promise!Next
  <2>4. ASSUME NEW p \in Process, Stop(p) PROVE Promise!Next
    BY <1>2, <2>4, StopsAccepting DEF Promise!Next
  <2>5. ASSUME NEW p \in Process, NEW t \in Thread, NEW k \in Key, Miss(p, t, k) \/ Refresh(p, t, k)
        PROVE  Promise!Next
    BY <1>2, <2>5, BeginStep DEF Promise!Next
  <2>6. ASSUME NEW p \in Process, NEW t \in Thread, NEW o \in OgcKey, UseCached(p, t, o)
        PROVE  Promise!Next
    BY <1>2, <2>6, UsesAnswer DEF Promise!Next, Key, HybridKey
  <2>7. ASSUME NEW p \in Process, NEW t \in Thread, Created(p, t) PROVE Promise!Next
    BY <1>2, <2>7, ReturnStep DEF Promise!Next
  <2>8. ASSUME NEW p \in Process, NEW t \in Thread, CreatorFails(p, t) PROVE Promise!Next
    BY <1>2, <2>8, FailStep DEF Promise!Next
  <2>9. CASE \/ Flush \/ Abort \/ InvalidateView
             \/ \E k \in HybridKey : Expire(k)
             \/ \E p \in Process :
                  \/ HandleKeys(p) \/ HandleClear(p) \/ Start(p)
                  \/ \E k \in Key : HandleDelete(p, k) \/ Get(p, k)
                  \/ \E t \in Thread : SetMemory(p, t) \/ SetRedis(p, t)
    BY <1>2, <2>9, MovesOnly, ShuffleStep DEF Promise!Next
  <2> QED
    BY <1>2, <2>1, <2>2, <2>3, <2>4, <2>5, <2>6, <2>7, <2>8, <2>9 DEF Next, Handle, Request, Create
<1>3. Spec => []UpInv
  <2>1. Init => UpInv
    BY DEF Init, UpInv
  <2> QED
    BY <2>1, UpStep, TypeCorrect, PTL DEF Spec
<1> QED
  BY <1>1, <1>2, <1>3, TypeCorrect, CacheInvariant, PTL DEF Spec, CacheIsShared, Promise!Spec

-----------------------------------------------------------------------------
(* What SharedCache promises is enough: its actions alone keep every process *)
(* from accepting what is older than its last invalidation, unless raced.    *)
THEOREM PromiseKeepsFresh == Promise!Spec => []Promise!FreshInv
<1> DEFINE Inv == Promise!TypeOK /\ Promise!FreshInv
<1> USE DEF Promise!TypeOK, Promise!FreshInv, Promise!NothingOld, Promise!CreatorsInv, Promise!AnswersInv,
        Promise!FloorsInv
<1>1. Promise!Init => Inv
  BY DEF Promise!Init, Promise!Nothing, Promise!NoAnswer, Promise!NoCreator
<1>2. ASSUME Inv, [Promise!Next]_Promise!vars PROVE Inv'
  <2>1. CASE UNCHANGED Promise!vars
    BY <1>2, <2>1 DEF Promise!vars
  <2>2. CASE Promise!Commit
    BY <1>2, <2>2 DEF Promise!Commit
  <2>3. CASE Promise!Shuffle
    BY <1>2, <2>3 DEF Promise!Shuffle, Promise!Within
  <2>4. ASSUME NEW p \in Process, Promise!Invalidate(p) PROVE Inv'
    BY <1>2, <2>4 DEF Promise!Invalidate, Promise!Nothing, Promise!NoAnswer, Promise!Within
  <2>5. ASSUME NEW p \in Process, Promise!Stop(p) PROVE Inv'
    <3> USE <1>2, <2>5 DEF Promise!Stop, Promise!Within, Promise!NoCreator, Promise!NoAnswer
    <3>1. /\ floor'[p] = 0 /\ raced'[p] = FALSE
          /\ \A q \in Process \ {p} : floor'[q] = floor[q] /\ raced'[q] = raced[q]
      OBVIOUS
    <3>2. Creators' \in [Process -> [Thread -> Promise!Creator \cup {NoValue}]]
      OBVIOUS
    <3>3. /\ Answers' \in [Process -> [Key -> Nat \cup {NoValue}]]
          /\ \A k \in Key : Answers'[p][k] = NoValue
      OBVIOUS
    <3>4. Promise!TypeOK'
      BY <3>2, <3>3
    <3>5. ASSUME NEW q \in Process, NEW k \in Key, NEW v \in Accepted'[q][k], v < floor'[q]
          PROVE  raced'[q]
      <4>1. q # p
        BY <3>1, <3>4, <3>5
      <4>2. v \in Accepted[q][k]
        BY <3>5, <4>1
      <4> QED
        BY <3>1, <3>5, <4>1, <4>2
    <3>6. ASSUME NEW r \in Process, NEW q \in Process, NEW t \in Thread,
                 Creators'[q][t] # NoValue, Creators'[q][t].ver < floor'[r]
          PROVE  raced'[r]
      <4>1. q # p /\ Creators'[q][t] = Creators[q][t]
        BY <3>6
      <4>2. Creators[q][t].ver \in Nat
        BY <3>6, <4>1 DEF Promise!Creator
      <4>3. r # p
        BY <3>1, <3>6, <4>1, <4>2
      <4> QED
        BY <3>1, <3>6, <4>1, <4>3
    <3>7. Promise!FloorsInv'
      BY <3>1
    <3>8. Promise!AnswersInv'
      <4> SUFFICES ASSUME NEW q \in Process, NEW k \in Key
                   PROVE  Answers'[q][k] \in Accepted'[q][k] \cup {NoValue}
        OBVIOUS
      <4> QED
        BY <3>3
    <3> QED
      BY <3>4, <3>5, <3>6, <3>7, <3>8
  <2>6. ASSUME NEW p \in Process, NEW t \in Thread, NEW k \in Key, Promise!Begin(p, t, k) PROVE Inv'
    BY <1>2, <2>6 DEF Promise!Begin, Promise!Creator
  <2>7. ASSUME NEW p \in Process, NEW t \in Thread, NEW k \in Key, Promise!Use(p, t, k) PROVE Inv'
    BY <1>2, <2>7 DEF Promise!Use, Promise!Creator
  <2>8. ASSUME NEW p \in Process, NEW t \in Thread, Promise!Return(p, t) PROVE Inv'
    BY <1>2, <2>8 DEF Promise!Return, Promise!Creator
  <2>9. ASSUME NEW p \in Process, NEW t \in Thread, Promise!Replace(p, t) PROVE Inv'
    BY <1>2, <2>9 DEF Promise!Replace, Promise!Creator
  <2>10. ASSUME NEW p \in Process, NEW t \in Thread, Promise!Fail(p, t) PROVE Inv'
    BY <1>2, <2>10 DEF Promise!Fail
  <2> QED
    BY <1>2, <2>1, <2>2, <2>3, <2>4, <2>5, <2>6, <2>7, <2>8, <2>9, <2>10 DEF Promise!Next
<1> QED
  BY <1>1, <1>2, PTL DEF Promise!Spec
=============================================================================
