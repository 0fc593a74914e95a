----------------------------- MODULE HybridCache -----------------------------
(***************************************************************************)
(* The server-side cache of the geoportal: several WSGI processes, each    *)
(* with a dictionary in its memory, in front of one Redis server; the rows *)
(* the cached values are computed from; and the invalidation that an admin *)
(* transaction, or the "invalidate" view, broadcasts to every process.     *)
(*                                                                         *)
(* A cached value is abstracted to the version of the database it was      *)
(* computed from.  Times are values of a clock that ticks only when a      *)
(* process invalidates its regions: the code compares the creation time    *)
(* of a value with the time of an invalidation and with nothing else.      *)
(***************************************************************************)
EXTENDS Naturals

CONSTANTS
  Process,       \* the WSGI processes (pods, workers)
  Thread,        \* the threads of a process
  StdKey,        \* keys of the region "std": memory and Redis
  OgcKey,        \* keys of the region "ogc-server": memory and Redis, no mutex
  ObjKey,        \* keys of the region "obj": memory only
  Restartable,   \* bound: the processes that stop and start during the run
  UseMemory,     \* FALSE: the backend argument disable_memory_cache is set
  NoValue,       \* dogpile's NO_VALUE
  MaxVersion,    \* bound: number of committed modifications
  MaxBroadcast   \* bound: number of broadcasts

ASSUME UseMemoryAssumption == UseMemory \in BOOLEAN
ASSUME KeyAssumption == (StdKey \cup OgcKey) \cap ObjKey = {}
ASSUME BoundAssumption == MaxVersion \in Nat /\ MaxBroadcast \in Nat

HybridKey == StdKey \cup OgcKey
Key == HybridKey \cup ObjKey

VARIABLES
  committed,     \* version of the committed rows
  writing,       \* an admin transaction is flushed and not yet committed
  broadcasts,    \* number of broadcasts so far (bounds the model)
  inbox,         \* inbox[p]: invalidation messages published, not yet handled by p
  handler,       \* handler[p]: where the thread of p that handles one of them is
  todo,          \* todo[p]: keys it still has to delete
  clock,         \* time of the last invalidation of any process
  inval,         \* inval[p]: time of the last invalidation of p, 0 if none
  memory,        \* memory[p][k]: what MEMORY_CACHE_DICT of p holds under k
  redis,         \* redis[k]: what Redis holds under k
  job,           \* job[p][t]: what thread t of p computes and for which key
  up,            \* up[p]: p is running and subscribed to the broadcasts
  floor,         \* history: committed version when p last invalidated
  raced          \* history: since p last invalidated, a creator has gone on
                 \* that was reading then, or has used a value that p refuses

vars == <<committed, writing, broadcasts, inbox, handler, todo, clock, inval,
          memory, redis, job, up, floor, raced>>

dbVars == <<committed, writing, broadcasts, inbox>>
handlerVars == <<handler, todo, clock, inval, floor, raced>>

-----------------------------------------------------------------------------
(* Types *)

Value == [ver : Nat, ct : Nat]
Slot == Value \cup {NoValue}
Job ==
  [pc : {"idle", "create", "memory", "redis"}, key : Key \cup {NoValue}, val : Value]

ASSUME NoValueAssumption == NoValue \notin [ver : Nat, ct : Nat] \cup [key : Key, ver : Nat] \cup Nat

TypeOK ==
  /\ committed \in Nat
  /\ writing \in BOOLEAN
  /\ broadcasts \in Nat
  /\ inbox \in [Process -> Nat]
  /\ handler \in [Process -> {"idle", "keys", "delete"}]
  /\ todo \in [Process -> SUBSET Key]
  /\ clock \in Nat
  /\ inval \in [Process -> Nat]
  /\ memory \in [Process -> [Key -> Slot]]
  /\ redis \in [HybridKey -> Slot]
  /\ job \in [Process -> [Thread -> Job]]
  /\ \A p \in Process, t \in Thread : job[p][t].pc # "idle" => job[p][t].key \in Key
  /\ up \in [Process -> BOOLEAN]
  /\ floor \in [Process -> Nat]
  /\ raced \in [Process -> BOOLEAN]

EmptyMemory == [k \in Key |-> NoValue]
\* mutant
IdleWithoutValue == [pc |-> "idle", key |-> NoValue, val |-> NoValue]
Idle == [pc |-> "idle", key |-> NoValue, val |-> [ver |-> 0, ct |-> 0]]
NoJob == [t \in Thread |-> Idle]

Init ==
  /\ committed = 0
  /\ writing = FALSE
  /\ broadcasts = 0
  /\ inbox = [p \in Process |-> 0]
  /\ handler = [p \in Process |-> "idle"]
  /\ todo = [p \in Process |-> {}]
  /\ clock = 0
  /\ inval = [p \in Process |-> 0]
  /\ memory = [p \in Process |-> EmptyMemory]
  /\ redis = [k \in HybridKey |-> NoValue]
  /\ job = [p \in Process |-> NoJob]
  /\ up = [p \in Process |-> TRUE]
  /\ floor = [p \in Process |-> 0]
  /\ raced = [p \in Process |-> FALSE]

-----------------------------------------------------------------------------
(* Reading the cache *)

(* HybridRedisBackend.get (MemoryBackend.get for "obj"): memory first, and   *)
(* Redis only when the memory holds nothing under the key.                   *)
BackendGet(p, k) ==
  IF memory[p][k] = NoValue /\ k \in HybridKey THEN redis[k] ELSE memory[p][k]

\* mutant
IsCachedAtAnyAge(p, v) == v # NoValue

(* The region refuses a value older than the last invalidation of p. *)
IsCached(p, v) == v # NoValue /\ ~(v.ct < inval[p])

Hit(p, k) == IsCached(p, BackendGet(p, k))

(* A get copies what it found in Redis into the memory, before the region    *)
(* has looked at its age.                                                    *)
Promoted(p, k) ==
  IF UseMemory THEN [memory EXCEPT ![p][k] = BackendGet(p, k)] ELSE memory

-----------------------------------------------------------------------------
(* The database and the broadcasts *)

(* c2cwsgiutils.broadcast: a Redis message to the subscribed processes. *)
Broadcast ==
  /\ broadcasts < MaxBroadcast
  /\ broadcasts' = broadcasts + 1
  /\ inbox' = [p \in Process |-> IF up[p] THEN inbox[p] + 1 ELSE inbox[p]]

(* An admin view saves: the ORM listeners (or the view itself, for an OGC    *)
(* server) call cache_invalidate_cb once the rows are flushed.               *)
Flush ==
  /\ ~writing
  /\ committed < MaxVersion
  /\ writing' = TRUE
  /\ Broadcast
  /\ UNCHANGED <<committed, memory, redis, job, up, handlerVars>>

(* pyramid_tm commits when the view has returned. *)
Commit ==
  /\ writing
  /\ writing' = FALSE
  /\ committed' = committed + 1
  /\ UNCHANGED <<broadcasts, inbox, memory, redis, job, up, handlerVars>>

(* The view, or the rest of it, failed: the transaction is rolled back. *)
Abort ==
  /\ writing
  /\ writing' = FALSE
  /\ UNCHANGED <<committed, broadcasts, inbox, memory, redis, job, up, handlerVars>>

(* The "invalidate" view, and the view that clears the cache of one OGC      *)
(* server once it has refilled it.                                           *)
InvalidateView ==
  /\ Broadcast
  /\ UNCHANGED <<committed, writing, memory, redis, job, up, handlerVars>>

-----------------------------------------------------------------------------
(* The handler of InvalidateCacheEvent in process p *)

(* mutant: the regions do not remember when they were invalidated *)
HandleForgetsTime(p) ==
  /\ up[p] /\ inbox[p] > 0 /\ handler[p] = "idle"
  /\ inbox' = [inbox EXCEPT ![p] = @ - 1]
  /\ handler' = [handler EXCEPT ![p] = "keys"]
  /\ floor' = [floor EXCEPT ![p] = committed]
  /\ raced' = [raced EXCEPT ![p] = \E q \in Process, t \in Thread : job[q][t].pc = "create"]
  /\ UNCHANGED <<committed, writing, broadcasts, todo, clock, inval, memory, redis, job, up>>

(* invalidate_region on the three regions. *)
HandleInvalidate(p) ==
  /\ up[p] /\ inbox[p] > 0 /\ handler[p] = "idle"
  /\ inbox' = [inbox EXCEPT ![p] = @ - 1]
  /\ handler' = [handler EXCEPT ![p] = "keys"]
  /\ clock' = clock + 1
  /\ inval' = [inval EXCEPT ![p] = clock + 1]
  /\ floor' = [floor EXCEPT ![p] = committed]
  /\ raced' = [raced EXCEPT ![p] = \E q \in Process, t \in Thread : job[q][t].pc = "create"]
  /\ UNCHANGED <<committed, writing, broadcasts, todo, memory, redis, job, up>>

(* list(MEMORY_CACHE_DICT.keys()) *)
HandleKeys(p) ==
  /\ handler[p] = "keys"
  /\ handler' = [handler EXCEPT ![p] = "delete"]
  /\ todo' = [todo EXCEPT ![p] = {k \in Key : memory[p][k] # NoValue}]
  /\ UNCHANGED <<dbVars, clock, inval, floor, raced, memory, redis, job, up>>

(* mutant: the loop runs while there are keys, and deletes none *)
HandleDeletesNothing(p, k) ==
  /\ handler[p] = "delete" /\ k \in todo[p]
  /\ memory' = [memory EXCEPT ![p][k] = NoValue]
  /\ UNCHANGED <<dbVars, todo, handler, clock, inval, floor, raced, redis, job, up>>

(* HybridRedisBackend.delete of one of them, in the memory and in Redis. *)
HandleDelete(p, k) ==
  /\ handler[p] = "delete" /\ k \in todo[p]
  /\ todo' = [todo EXCEPT ![p] = @ \ {k}]
  /\ memory' = [memory EXCEPT ![p][k] = NoValue]
  /\ redis' = [j \in HybridKey |-> IF j = k THEN NoValue ELSE redis[j]]
  /\ UNCHANGED <<dbVars, handler, clock, inval, floor, raced, job, up>>

(* MEMORY_CACHE_DICT.clear() *)
HandleClear(p) ==
  /\ handler[p] = "delete" /\ todo[p] = {}
  /\ handler' = [handler EXCEPT ![p] = "idle"]
  /\ memory' = [memory EXCEPT ![p] = EmptyMemory]
  /\ UNCHANGED <<dbVars, todo, clock, inval, floor, raced, redis, job, up>>

-----------------------------------------------------------------------------
(* A request thread of process p calls a function cached under k *)

(* A hit: the value is answered, and the memory may have been filled. *)
Get(p, k) ==
  /\ up[p]
  /\ Hit(p, k)
  /\ memory' = Promoted(p, k)
  /\ UNCHANGED <<dbVars, handlerVars, redis, job, up>>

(* The creator of k starts in thread t: it reads the committed rows. *)
Creating(p, t, k) ==
  [job EXCEPT ![p][t] = [pc |-> "create", key |-> k, val |-> [ver |-> committed, ct |-> 0]]]

(* The mutex of a key only excludes the other threads of the process, and    *)
(* get_http_cached and its like, which get and set, do not take it.          *)
MutexFree(p, k) ==
  k \in OgcKey \/ \A t \in Thread : job[p][t].pc = "idle" \/ job[p][t].key # k

(* A miss. *)
Miss(p, t, k) ==
  /\ up[p]
  /\ job[p][t] = Idle
  /\ ~Hit(p, k)
  /\ MutexFree(p, k)
  /\ memory' = Promoted(p, k)
  /\ job' = Creating(p, t, k)
  /\ UNCHANGED <<dbVars, handlerVars, redis, up>>

(* The OGC server views recompute a value whatever the cache holds           *)
(* (cache=False, refresh).                                                   *)
Refresh(p, t, k) ==
  /\ up[p]
  /\ job[p][t] = Idle
  /\ k \in OgcKey
  /\ job' = Creating(p, t, k)
  /\ UNCHANGED <<dbVars, handlerVars, memory, redis, up>>

Older(v, w) == IF v < w THEN v ELSE w

(* The themes are computed from the capabilities and the feature types of    *)
(* the OGC servers: what the cache has of them may be older than the rows.   *)
(* What it has not is fetched and stored by other threads.                   *)
UseCached(p, t, o) ==
  LET v == BackendGet(p, o) IN
  /\ job[p][t].pc = "create" /\ job[p][t].key \in StdKey /\ o \in OgcKey
  /\ Hit(p, o)
  /\ job' = [job EXCEPT ![p][t] =
       [pc |-> "create", key |-> job[p][t].key,
        val |-> [ver |-> Older(job[p][t].val.ver, v.ver), ct |-> 0]]]
  /\ memory' = Promoted(p, o)
  /\ raced' = [q \in Process |-> raced[q] \/ ~IsCached(q, v)]
  /\ UNCHANGED <<dbVars, handler, todo, clock, inval, floor, redis, up>>

(* The creator returns; the region stamps its value with the current time. *)
Created(p, t) ==
  /\ job[p][t].pc = "create"
  /\ job' = [job EXCEPT ![p][t] =
       [pc |-> "memory", key |-> job[p][t].key,
        val |-> [ver |-> job[p][t].val.ver, ct |-> clock]]]
  /\ UNCHANGED <<dbVars, handlerVars, memory, redis, up>>

(* HybridRedisBackend.set: first the memory ... *)
SetMemory(p, t) ==
  LET k == job[p][t].key IN
  /\ job[p][t].pc = "memory"
  /\ memory' = IF UseMemory \/ k \in ObjKey
                 THEN [memory EXCEPT ![p][k] = job[p][t].val] ELSE memory
  /\ job' = [job EXCEPT ![p][t] =
       IF k \in HybridKey THEN [pc |-> "redis", key |-> k, val |-> job[p][t].val] ELSE Idle]
  /\ UNCHANGED <<dbVars, handlerVars, redis, up>>

(* mutant: the value is stamped once more, with the time of its store *)
SetRedisStamps(p, t) ==
  /\ job[p][t].pc = "redis"
  /\ redis' = [redis EXCEPT ![job[p][t].key] = [ver |-> job[p][t].val.ver, ct |-> clock]]
  /\ job' = [job EXCEPT ![p][t] = Idle]
  /\ UNCHANGED <<dbVars, handlerVars, memory, up>>

(* ... then Redis. *)
SetRedis(p, t) ==
  /\ job[p][t].pc = "redis"
  /\ redis' = [redis EXCEPT ![job[p][t].key] = job[p][t].val]
  /\ job' = [job EXCEPT ![p][t] = Idle]
  /\ UNCHANGED <<dbVars, handlerVars, memory, up>>

(* The creator raises: nothing is stored. *)
CreatorFails(p, t) ==
  /\ job[p][t].pc = "create"
  /\ job' = [job EXCEPT ![p][t] = Idle]
  /\ UNCHANGED <<dbVars, handlerVars, memory, redis, up>>

-----------------------------------------------------------------------------
(* Processes stop and start; Redis keeps what it holds *)

Stop(p) ==
  /\ up[p] /\ p \in Restartable
  /\ up' = [up EXCEPT ![p] = FALSE]
  /\ inbox' = [inbox EXCEPT ![p] = 0]
  /\ handler' = [handler EXCEPT ![p] = "idle"]
  /\ todo' = [todo EXCEPT ![p] = {}]
  /\ inval' = [inval EXCEPT ![p] = 0]
  /\ memory' = [memory EXCEPT ![p] = EmptyMemory]
  /\ job' = [job EXCEPT ![p] = NoJob]
  /\ floor' = [floor EXCEPT ![p] = 0]
  /\ raced' = [raced EXCEPT ![p] = FALSE]
  /\ UNCHANGED <<committed, writing, broadcasts, clock, redis>>

Start(p) ==
  /\ ~up[p]
  /\ up' = [up EXCEPT ![p] = TRUE]
  /\ UNCHANGED <<dbVars, handlerVars, memory, redis, job>>

(* redis_expiration_time: Redis drops a value; the memories keep theirs. *)
Expire(k) ==
  /\ redis[k] # NoValue
  /\ redis' = [redis EXCEPT ![k] = NoValue]
  /\ UNCHANGED <<dbVars, handlerVars, memory, job, up>>

-----------------------------------------------------------------------------
Handle(p) ==
  \/ HandleInvalidate(p)
  \/ HandleKeys(p)
  \/ \E k \in Key : HandleDelete(p, k)
  \/ HandleClear(p)

Create(p, t) ==
  \/ \E o \in OgcKey : UseCached(p, t, o)
  \/ Created(p, t)
  \/ SetMemory(p, t)
  \/ SetRedis(p, t)
  \/ CreatorFails(p, t)

Request(p, k) ==
  \/ Get(p, k)
  \/ \E t \in Thread : Miss(p, t, k) \/ Refresh(p, t, k)

Next ==
  \/ Flush
  \/ Commit
  \/ Abort
  \/ InvalidateView
  \/ \E k \in HybridKey : Expire(k)
  \/ \E p \in Process :
       \/ Handle(p)
       \/ Stop(p)
       \/ Start(p)
       \/ \E k \in Key : Request(p, k)
       \/ \E t \in Thread : Create(p, t)

(* The broadcast thread of a process and a creator that has started keep     *)
(* running; nothing forces an admin, a client or a pod to do anything.       *)
Fairness ==
  \A p \in Process :
    /\ WF_vars(Handle(p))
    /\ \A t \in Thread : WF_vars(Created(p, t) \/ SetMemory(p, t) \/ SetRedis(p, t))

Spec == Init /\ [][Next]_vars

FairSpec == Spec /\ Fairness

-----------------------------------------------------------------------------
(* Properties *)

(* What a request of process p that looks for k gets without calling the     *)
(* creator.                                                                  *)
Answer(p, k) == IF up[p] /\ Hit(p, k) THEN BackendGet(p, k) ELSE NoValue

(* A process that has handled an invalidation answers from its cache         *)
(* nothing older than what was committed at that moment, wherever the value  *)
(* was stored and by whom, unless some creator had already read the rows     *)
(* and not yet returned at that moment, or has since made a value out of one *)
(* that the process refuses.  The time each region remembers has to do this: *)
(* the deletions race with the stores of the other processes.                *)
StaleOnlyByRace ==
  \A p \in Process, k \in Key :
    Answer(p, k) # NoValue /\ Answer(p, k).ver < floor[p] => raced[p]

(* The invariant behind it.  A value held anywhere, in a memory, in Redis or *)
(* on its way to them, was stamped no later than now, and is no older than   *)
(* p's last invalidation found the rows, unless p refuses it for its age or  *)
(* p was raced; and so is a value being created.                             *)
Good(p, v) ==
  v # NoValue =>
    /\ v.ct <= clock
    /\ IsCached(p, v) /\ v.ver < floor[p] => raced[p]

TimesInv == \A p \in Process : inval[p] <= clock /\ floor[p] <= committed

MemoryInv == \A p, q \in Process, k \in Key : Good(p, memory[q][k])

RedisInv == \A p \in Process, k \in HybridKey : Good(p, redis[k])

StoringInv ==
  \A p, q \in Process, t \in Thread :
    job[q][t].pc \in {"memory", "redis"} => Good(p, job[q][t].val)

CreatingInv ==
  \A p, q \in Process, t \in Thread :
    job[q][t].pc = "create" /\ job[q][t].val.ver < floor[p] => raced[p]

CacheInv == TimesInv /\ MemoryInv /\ RedisInv /\ StoringInv /\ CreatingInv

(* The cache implements SharedCache.  Around a key are the versions that     *)
(* Redis, a memory, or a thread on its way to them holds; a process accepts  *)
(* those whose time it does not refuse, and answers the first that it finds. *)
InMemory(k) == {memory[q][k] : q \in Process}
InRedis(k) == {redis[j] : j \in {k} \cap HybridKey}
OnTheWay(k) ==
  {job[c[1]][c[2]].val : c \in {d \in Process \X Thread :
     job[d[1]][d[2]].key = k /\ job[d[1]][d[2]].pc \in {"memory", "redis"}}}

Stored(k) == (InMemory(k) \cup InRedis(k) \cup OnTheWay(k)) \ {NoValue}

Versions(values) == {v.ver : v \in values}

Around == [k \in Key |-> Versions(Stored(k))]

Accepted ==
  [p \in Process |-> [k \in Key |-> Versions({v \in Stored(k) : IsCached(p, v)})]]

Creators ==
  [p \in Process |-> [t \in Thread |->
     IF job[p][t].pc = "create" THEN [key |-> job[p][t].key, ver |-> job[p][t].val.ver]
     ELSE NoValue]]

Answers ==
  [p \in Process |-> [k \in Key |->
     IF Answer(p, k) = NoValue THEN NoValue ELSE Answer(p, k).ver]]

Promise == INSTANCE SharedCache WITH
  None <- NoValue, creators <- Creators, around <- Around, accepted <- Accepted, answer <- Answers

(* Redis and the memories are one store for every process, in which an       *)
(* invalidation is one step: the times of the regions hide that the keys are *)
(* deleted one by one, while values are stored and copied.                   *)
CacheIsShared == Promise!Spec

(* While nothing is being written, delivered or computed, no process         *)
(* answers with values of before the last modification: what the comment     *)
(* above cache_invalidate_cb() in OGCServerViews.save says it is there for.  *)
Quiet ==
  /\ ~writing
  /\ \A p \in Process : up[p] /\ inbox[p] = 0 /\ handler[p] = "idle"
  /\ \A p \in Process, t \in Thread : job[p][t].pc = "idle"

NewValuesOnAllPods ==
  Quiet => \A p \in Process, k \in Key :
             Answer(p, k) # NoValue => Answer(p, k).ver = committed

(* Every invalidation that was published to a process is handled to its      *)
(* last step, unless the process stops.                                      *)
InvalidationHandled ==
  \A p \in Process :
    inbox[p] > 0 \/ handler[p] # "idle" ~>
      \/ inbox[p] = 0 /\ handler[p] = "idle"
      \/ ~up[p]
=============================================================================
