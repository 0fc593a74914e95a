----------------------------- MODULE SharedCache -----------------------------
(***************************************************************************)
(* What the caches promise, that of the geoportal (HybridCache) and the    *)
(* layers of the plugin of QGIS Server (QgisAccessControl): one store that *)
(* all processes share, without times, memories, Redis, locks or           *)
(* deletions.  For each key there are versions around, and each process    *)
(* accepts some of them.  A version gets there because a creator read it,  *)
(* and is then accepted by every process; an invalidation of a process is  *)
(* one step, after which it accepts nothing that was there; and what a     *)
(* process refuses it never accepts again, unless it restarts.             *)
(***************************************************************************)
EXTENDS Naturals

CONSTANTS
  Process,   \* the processes
  Thread,    \* the threads of a process, in which creators run
  Key,       \* the keys
  None       \* no version, no creator

VARIABLES
  committed,   \* version of the committed rows
  creators,    \* creators[p][t]: the key and the version of the creator that runs
  around,      \* around[k]: versions that are stored somewhere under k
  accepted,    \* accepted[p][k]: those that p would answer
  answer,      \* answer[p][k]: the one that p answers now, or None
  floor,       \* history: committed version when p last invalidated
  raced        \* history: a creator was running then, or has used what p refuses

vars == <<committed, creators, around, accepted, answer, floor, raced>>

-----------------------------------------------------------------------------
Creator == [key : Key, ver : Nat]

TypeOK ==
  /\ committed \in Nat
  /\ creators \in [Process -> [Thread -> Creator \cup {None}]]
  /\ around \in [Key -> SUBSET Nat]
  /\ accepted \in [Process -> [Key -> SUBSET Nat]]
  /\ answer \in [Process -> [Key -> Nat \cup {None}]]
  /\ floor \in [Process -> Nat]
  /\ raced \in [Process -> BOOLEAN]

Nothing == [k \in Key |-> {}]
NoAnswer == [k \in Key |-> None]
NoCreator == [t \in Thread |-> None]

Init ==
  /\ committed = 0
  /\ creators = [p \in Process |-> NoCreator]
  /\ around = Nothing
  /\ accepted = [p \in Process |-> Nothing]
  /\ answer = [p \in Process |-> NoAnswer]
  /\ floor = [p \in Process |-> 0]
  /\ raced = [p \in Process |-> FALSE]

-----------------------------------------------------------------------------
(* Every set of versions may lose some of them. *)
Within(S, T) == S \in [Key -> SUBSET Nat] /\ \A k \in Key : S[k] \subseteq T[k]

Commit ==
  /\ committed' = committed + 1
  /\ UNCHANGED <<creators, around, accepted, answer, floor, raced>>

(* A creator starts with the committed rows. *)
Begin(p, t, k) ==
  /\ creators[p][t] = None
  /\ creators' = [creators EXCEPT ![p][t] = [key |-> k, ver |-> committed]]
  /\ UNCHANGED <<committed, around, accepted, answer, floor, raced>>

(* It uses what its process answers for another key.  Only processes that   *)
(* refuse that are raced.                                                   *)
Use(p, t, k) ==
  LET c == creators[p][t]
      v == answer[p][k]
  IN
  /\ c # None /\ v # None
  /\ creators' = [creators EXCEPT
       ![p][t] = [key |-> c.key, ver |-> IF c.ver < v THEN c.ver ELSE v]]
  /\ raced' \in [Process -> BOOLEAN]
  /\ raced'[p] = raced[p]
  /\ \A q \in Process : raced[q] \/ v \notin accepted[q][k] => raced'[q]
  /\ UNCHANGED <<committed, around, accepted, answer, floor>>

(* Its version is around, and every process accepts it. *)
Return(p, t) ==
  LET c == creators[p][t] IN
  /\ c # None
  /\ creators' = [creators EXCEPT ![p][t] = None]
  /\ around' = [around EXCEPT ![c.key] = @ \cup {c.ver}]
  /\ accepted' = [q \in Process |-> [accepted[q] EXCEPT ![c.key] = @ \cup {c.ver}]]
  /\ UNCHANGED <<committed, answer, floor, raced>>

(* Or it takes the place of those that were there, and is answered at once. *)
Replace(p, t) ==
  LET c == creators[p][t] IN
  /\ c # None
  /\ creators' = [creators EXCEPT ![p][t] = None]
  /\ around' = [around EXCEPT ![c.key] = {c.ver}]
  /\ accepted' = [q \in Process |-> [accepted[q] EXCEPT ![c.key] = {c.ver}]]
  /\ answer' = [q \in Process |-> [answer[q] EXCEPT ![c.key] = c.ver]]
  /\ UNCHANGED <<committed, floor, raced>>

Fail(p, t) ==
  /\ creators[p][t] # None
  /\ creators' = [creators EXCEPT ![p][t] = None]
  /\ UNCHANGED <<committed, around, accepted, answer, floor, raced>>

(* Versions come to sight and are lost, in any way. *)
Shuffle ==
  /\ UNCHANGED <<committed, creators, floor, raced>>
  /\ Within(around', around)
  /\ accepted' \in [Process -> [Key -> SUBSET Nat]]
  /\ answer' \in [Process -> [Key -> Nat \cup {None}]]
  /\ \A p \in Process :
       /\ Within(accepted'[p], accepted[p])
       /\ \A k \in Key : answer'[p][k] \in accepted'[p][k] \cup {None}

Invalidate(p) ==
  /\ floor' = [floor EXCEPT ![p] = committed]
  /\ accepted' = [accepted EXCEPT ![p] = Nothing]
  /\ answer' = [answer EXCEPT ![p] = NoAnswer]
  /\ raced' = [raced EXCEPT ![p] = \E q \in Process, t \in Thread : creators[q][t] # None]
  /\ Within(around', around)
  /\ UNCHANGED <<committed, creators>>

(* A process stops, and will accept whatever is left. *)
Stop(p) ==
  /\ floor' = [floor EXCEPT ![p] = 0]
  /\ creators' = [creators EXCEPT ![p] = NoCreator]
  /\ Within(around', around)
  /\ accepted' \in [Process -> [Key -> SUBSET Nat]]
  /\ accepted'[p] = around'
  /\ \A q \in Process \ {p} :
       /\ Within(accepted'[q], accepted[q])
       /\ \A k \in Key : answer[q][k] \in accepted'[q][k] \cup {None}
  /\ answer' = [answer EXCEPT ![p] = NoAnswer]
  /\ raced' = [raced EXCEPT ![p] = FALSE]
  /\ UNCHANGED committed

Next ==
  \/ Commit
  \/ Shuffle
  \/ \E p \in Process :
       \/ Invalidate(p)
       \/ Stop(p)
       \/ \E t \in Thread :
            \/ \E k \in Key : Begin(p, t, k) \/ Use(p, t, k)
            \/ Return(p, t)
            \/ Replace(p, t)
            \/ Fail(p, t)

Spec == Init /\ [][Next]_vars

-----------------------------------------------------------------------------
(* A process accepts, and so answers, no version of before its last           *)
(* invalidation unless it is raced; and a creator that runs has none.        *)
NothingOld ==
  \A p \in Process, k \in Key : \A v \in accepted[p][k] : v < floor[p] => raced[p]

CreatorsInv ==
  \A p, q \in Process, t \in Thread :
    creators[q][t] # None /\ creators[q][t].ver < floor[p] => raced[p]

AnswersInv == \A p \in Process, k \in Key : answer[p][k] \in accepted[p][k] \cup {None}

FloorsInv == \A p \in Process : floor[p] <= committed

FreshInv == NothingOld /\ CreatorsInv /\ AnswersInv /\ FloorsInv
=============================================================================
