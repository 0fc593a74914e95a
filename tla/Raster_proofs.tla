----------------------------- MODULE Raster_proofs -----------------------------
(***************************************************************************)
(* A request reads an open data set, and never one that is older than the     *)
(* invalidations that ended before it began: for any number of threads, layers *)
(* and requests.                                                              *)
(***************************************************************************)
EXTENDS Raster, TLAPS

Phase(t) == thread[t].phase

(* What a thread may have in mind. *)
Work == [phase : {"idle", "lock", "get", "read", "event", "close"}, layer : DataLayer \cup {None},
         using : DataSet \cup {None}, number : 0..MaxRequests, left : 0..MaxRequests, wanted : Versions]

(* Who does a part of its work with the lock held has the lock. *)
LockInv == \A t \in Thread : Phase(t) \in {"get", "read", "close"} <=> data_lock = t

(* The data sets of the table are those that are open, but while they are being closed; what is read is
   in the table. *)
TableInv ==
  /\ \A l \in DataLayer : data[l] # None =>
       data[l].layer = l /\ (data[l] \in opened \/ \E t \in Thread : Phase(t) = "close")
  /\ \A d \in opened : data[d.layer] = d
  /\ \A t \in Thread : /\ Phase(t) = "close" => opened = {}
                       /\ Phase(t) = "read" => thread[t].using # None /\ thread[t].using = data[thread[t].layer]
                                               /\ thread[t].using \in opened

(* Requests have a number and a layer, events have handlers left. *)
WorkInv ==
  \A t \in Thread : /\ Phase(t) \in {"lock", "get", "read"} => thread[t].number \in 1..MaxRequests /\ thread[t].layer \in DataLayer
                    /\ Phase(t) \in {"event", "close"} => thread[t].left \in 1..MaxRequests

(* Nobody waits for a version that is newer than the table can give; the table is emptied before a
   version is announced. *)
VersionInv ==
  /\ \A l \in DataLayer : /\ announced[l] <= version[l]
                          /\ data[l] # None => announced[l] <= data[l].version
  /\ \A t \in Thread, l \in DataLayer :
       /\ Phase(t) \in {"lock", "get", "read"} => thread[t].wanted[l] <= announced[l]
       /\ Phase(t) \in {"event", "close"} => thread[t].wanted[l] <= version[l]

IInv == TypeOK /\ LockInv /\ TableInv /\ WorkInv /\ VersionInv

-----------------------------------------------------------------------------
LEMMA VersionsAreNumbers ==
  ASSUME TypeOK
  PROVE  /\ \A l \in DataLayer : /\ version[l] \in Nat /\ announced[l] \in Nat
                                 /\ data[l] # None => data[l].version \in Nat
         /\ \A t \in Thread, l \in DataLayer : thread[t].wanted[l] \in Nat
  <1>1. \A v \in Versions, l \in DataLayer : v[l] \in Nat
    BY RasterAssumption DEF Versions
  <1>2. \A t \in Thread : thread[t].wanted \in Versions
    BY DEF TypeOK
  <1>3. \A l \in DataLayer : data[l] # None => data[l].version \in Nat
    BY RasterAssumption DEF TypeOK, DataSet
  <1> QED
    BY <1>1, <1>2, <1>3 DEF TypeOK

LEMMA Initially == Init => IInv
  <1> SUFFICES ASSUME Init PROVE IInv
    OBVIOUS
  <1> USE RasterAssumption DEF Init
  <1>1. TypeOK
    BY DEF TypeOK, Idle, Emptied, Versions
  <1>2. LockInv /\ WorkInv
    BY DEF LockInv, WorkInv, Phase, Idle
  <1>3. TableInv
    BY DEF TableInv, Phase, Idle, Emptied
  <1>4. VersionInv
    BY DEF VersionInv, Phase, Idle, Emptied
  <1> QED
    BY <1>1, <1>2, <1>3, <1>4 DEF IInv


LEMMA BeginKeeps == ASSUME IInv, NEW t \in Thread, NEW l \in DataLayer, Begin(t, l) PROVE IInv'
  <1> USE RasterAssumption DEF Begin, Idle, Phase
  <1>1. TypeOK'
    <2> DEFINE work == [Idle EXCEPT !.phase = "lock", !.layer = l, !.number = handlers', !.wanted = announced]
    <2>1. thread \in [Thread -> Work] /\ thread[t] \in Work
      BY DEF IInv, TypeOK, Work
    <2>2. work \in Work
      <3>1. handlers' \in 0..MaxRequests /\ announced \in Versions
        BY DEF IInv, TypeOK
      <3>2. Idle \in Work
        BY DEF Work, Versions
      <3> HIDE DEF Idle
      <3> QED
        BY <3>1, <3>2 DEF Work
    <2>3. thread' = [thread EXCEPT ![t] = work]
      BY <2>1 DEF Work
    <2> HIDE DEF work
    <2>4. thread' \in [Thread -> Work]
      BY <2>1, <2>2, <2>3
    <2> QED
      BY <2>4 DEF IInv, TypeOK, Work
  <1>2. LockInv'
    BY DEF IInv, TypeOK, LockInv
  <1>3. TableInv'
    BY DEF IInv, TypeOK, LockInv, TableInv, WorkInv, DataSet
  <1>4. WorkInv'
    BY DEF IInv, TypeOK, WorkInv
  <1>5. VersionInv'
    BY DEF IInv, TypeOK, LockInv, TableInv, WorkInv, VersionInv, DataSet, Versions
  <1> QED
    BY <1>1, <1>2, <1>3, <1>4, <1>5 DEF IInv

LEMMA LockRequestKeeps == ASSUME IInv, NEW t \in Thread, LockRequest(t) PROVE IInv'
  <1> USE RasterAssumption DEF LockRequest, Acquire, Phase
  <1>1. TypeOK'
    <2> DEFINE work == [thread[t] EXCEPT !.phase = "get"]
    <2>1. thread \in [Thread -> Work] /\ thread[t] \in Work
      BY DEF IInv, TypeOK, Work
    <2>2. work \in Work
      BY <2>1 DEF IInv, TypeOK, Work, Versions
    <2>3. thread' = [thread EXCEPT ![t] = work]
      BY <2>1 DEF Work
    <2> HIDE DEF work
    <2>4. thread' \in [Thread -> Work]
      BY <2>1, <2>2, <2>3
    <2> QED
      BY <2>4 DEF IInv, TypeOK, Work
  <1>2. LockInv'
    BY DEF IInv, TypeOK, LockInv
  <1>3. TableInv'
    BY DEF IInv, TypeOK, LockInv, TableInv, WorkInv, DataSet
  <1>4. WorkInv'
    BY DEF IInv, TypeOK, WorkInv
  <1>5. VersionInv'
    BY DEF IInv, TypeOK, LockInv, TableInv, WorkInv, VersionInv, DataSet, Versions
  <1> QED
    BY <1>1, <1>2, <1>3, <1>4, <1>5 DEF IInv

LEMMA GetDataKeeps == ASSUME IInv, NEW t \in Thread, GetData(t) PROVE IInv'
  <1> USE RasterAssumption DEF GetData, Phase
  <1> DEFINE k == thread[t].layer
             d == IF data[k] = None THEN [layer |-> k, version |-> version[k], opener |-> thread[t].number] ELSE data[k]
             work == [thread[t] EXCEPT !.phase = "read", !.using = d]
  <1>a. thread \in [Thread -> Work] /\ thread[t] \in Work /\ k \in DataLayer /\ version[k] \in 1..MaxVersion
    BY DEF IInv, TypeOK, WorkInv, Work, Versions
  <1>b. d \in DataSet /\ d.layer = k
    BY <1>a DEF IInv, TypeOK, WorkInv, TableInv, DataSet
  <1>c. d # None
    BY <1>b DEF DataSet
  <1>d. /\ data' = [data EXCEPT ![k] = d] /\ opened' = IF data[k] = None THEN opened \cup {d} ELSE opened
        /\ thread' = [thread EXCEPT ![t] = work]
    BY <1>a DEF Work
  <1>e. work \in Work /\ work.phase = "read" /\ work.using = d /\ work.layer = k
    BY <1>a, <1>b DEF Work
  <1>1. TypeOK'
    <2>1. thread' \in [Thread -> Work]
      BY <1>a, <1>d, <1>e
    <2>2. data' \in [DataLayer -> DataSet \cup {None}] /\ opened' \in SUBSET DataSet
      BY <1>a, <1>b, <1>d DEF IInv, TypeOK
    <2> QED
      BY <2>1, <2>2 DEF IInv, TypeOK, Work
  <1>2. LockInv'
    BY DEF IInv, TypeOK, LockInv
  <1>3. TableInv'
    <2> HIDE DEF d, work
    <2>1. opened' = opened \cup {d} /\ data[k] \in {None, d}
      <3>1. CASE data[k] = None
        BY <1>d, <3>1
      <3>2. CASE data[k] # None
        <4>1. d = data[k] /\ d \in opened
          BY <1>a, <3>2 DEF IInv, TableInv, LockInv, d
        <4> QED
          BY <1>d, <3>2, <4>1
      <3> QED
        BY <3>1, <3>2
    <2>2. \A l \in DataLayer : data'[l] # None => data'[l].layer = l /\ data'[l] \in opened'
      BY <1>a, <1>b, <1>d, <2>1 DEF IInv, TypeOK, TableInv, LockInv
    <2>3. \A e \in opened' : data'[e.layer] = e
      BY <1>a, <1>b, <1>c, <1>d, <2>1 DEF IInv, TypeOK, TableInv, DataSet
    <2>4. \A s \in Thread \ {t} : Phase(s)' \notin {"read", "close"}
      BY <1>d DEF IInv, TypeOK, LockInv
    <2>5. Phase(t)' = "read" /\ thread'[t].using = d /\ thread'[t].layer = k
      BY <1>a, <1>d, <1>e
    <2>6. d = data'[k] /\ d \in opened'
      BY <1>a, <1>d, <2>1 DEF IInv, TypeOK
    <2>7. ASSUME NEW s \in Thread
          PROVE /\ Phase(s)' # "close"
                /\ Phase(s)' = "read" => /\ thread'[s].using # None /\ thread'[s].using = data'[thread'[s].layer]
                                         /\ thread'[s].using \in opened'
      <3> HIDE DEF GetData, k, Phase
      <3>1. CASE s = t
        BY <1>c, <2>5, <2>6, <3>1
      <3>2. CASE s # t
        BY <2>4, <3>2
      <3> QED
        BY <3>1, <3>2
    <2> HIDE DEF GetData, k
    <2> QED
      BY <2>2, <2>3, <2>7 DEF TableInv
  <1>4. WorkInv'
    BY DEF IInv, TypeOK, WorkInv
  <1>5. VersionInv'
    BY DEF IInv, TypeOK, LockInv, TableInv, WorkInv, VersionInv, DataSet, Versions
  <1> QED
    BY <1>1, <1>2, <1>3, <1>4, <1>5 DEF IInv

LEMMA OpenFailsKeeps == ASSUME IInv, NEW t \in Thread, OpenFails(t) PROVE IInv'
  <1> USE RasterAssumption DEF OpenFails, Idle, Release, Phase
  <1>1. TypeOK'
    BY DEF IInv, TypeOK, WorkInv, DataSet, Versions
  <1>2. LockInv'
    BY DEF IInv, TypeOK, LockInv
  <1>3. TableInv'
    BY DEF IInv, TypeOK, LockInv, TableInv, WorkInv, DataSet
  <1>4. WorkInv'
    BY DEF IInv, TypeOK, WorkInv
  <1>5. VersionInv'
    BY DEF IInv, TypeOK, LockInv, TableInv, WorkInv, VersionInv, DataSet, Versions
  <1> QED
    BY <1>1, <1>2, <1>3, <1>4, <1>5 DEF IInv

LEMMA ReadKeeps == ASSUME IInv, NEW t \in Thread, Read(t) PROVE IInv'
  <1> USE RasterAssumption DEF Read, Idle, Release, Phase
  <1>1. TypeOK'
    BY DEF IInv, TypeOK, WorkInv, DataSet, Versions
  <1>2. LockInv'
    BY DEF IInv, TypeOK, LockInv
  <1>3. TableInv'
    BY DEF IInv, TypeOK, LockInv, TableInv, WorkInv, DataSet
  <1>4. WorkInv'
    BY DEF IInv, TypeOK, WorkInv
  <1>5. VersionInv'
    BY DEF IInv, TypeOK, LockInv, TableInv, WorkInv, VersionInv, DataSet, Versions
  <1> QED
    BY <1>1, <1>2, <1>3, <1>4, <1>5 DEF IInv

LEMMA NotifyKeeps == ASSUME IInv, NEW t \in Thread, Notify(t) PROVE IInv'
  <1> USE RasterAssumption DEF Notify, Phase
  <1>1. TypeOK'
    <2> DEFINE work == [thread[t] EXCEPT !.phase = "event", !.left = handlers, !.wanted = version]
    <2>1. thread \in [Thread -> Work] /\ thread[t] \in Work
      BY DEF IInv, TypeOK, Work
    <2>2. work \in Work
      BY <2>1 DEF IInv, TypeOK, Work, Versions
    <2>3. thread' = [thread EXCEPT ![t] = work]
      BY <2>1 DEF Work
    <2> HIDE DEF work
    <2>4. thread' \in [Thread -> Work]
      BY <2>1, <2>2, <2>3
    <2> QED
      BY <2>4 DEF IInv, TypeOK, Work
  <1>2. LockInv'
    BY DEF IInv, TypeOK, LockInv
  <1>3. TableInv'
    BY DEF IInv, TypeOK, LockInv, TableInv, WorkInv, DataSet
  <1>4. WorkInv'
    BY DEF IInv, TypeOK, WorkInv
  <1>5. VersionInv'
    BY DEF IInv, TypeOK, LockInv, TableInv, WorkInv, VersionInv, DataSet, Versions
  <1> QED
    BY <1>1, <1>2, <1>3, <1>4, <1>5 DEF IInv

LEMMA CloseAllKeeps == ASSUME IInv, NEW t \in Thread, CloseAll(t) PROVE IInv'
  <1> USE RasterAssumption DEF CloseAll, Acquire, Phase
  <1>1. TypeOK'
    <2> DEFINE work == [thread[t] EXCEPT !.phase = "close"]
    <2>1. thread \in [Thread -> Work] /\ thread[t] \in Work
      BY DEF IInv, TypeOK, Work
    <2>2. work \in Work
      BY <2>1 DEF IInv, TypeOK, Work, Versions
    <2>3. thread' = [thread EXCEPT ![t] = work]
      BY <2>1 DEF Work
    <2> HIDE DEF work
    <2>4. thread' \in [Thread -> Work]
      BY <2>1, <2>2, <2>3
    <2> QED
      BY <2>4 DEF IInv, TypeOK, Work
  <1>2. LockInv'
    BY DEF IInv, TypeOK, LockInv
  <1>3. TableInv'
    BY DEF IInv, TypeOK, LockInv, TableInv, WorkInv, DataSet
  <1>4. WorkInv'
    BY DEF IInv, TypeOK, WorkInv
  <1>5. VersionInv'
    BY DEF IInv, TypeOK, LockInv, TableInv, WorkInv, VersionInv, DataSet, Versions
  <1> QED
    BY <1>1, <1>2, <1>3, <1>4, <1>5 DEF IInv

LEMMA ResetKeeps == ASSUME IInv, NEW t \in Thread, Reset(t) PROVE IInv'
  <1> USE RasterAssumption DEF Reset, Idle, Release, Emptied, Phase
  <1>1. TypeOK'
    <2> DEFINE work == IF thread[t].left > 1 THEN [thread[t] EXCEPT !.phase = "event", !.left = @ - 1] ELSE Idle
    <2>1. thread \in [Thread -> Work] /\ thread[t] \in Work /\ thread[t].left \in 1..MaxRequests
      BY DEF IInv, TypeOK, WorkInv, Work
    <2>2. work \in Work
      <3>1. Idle \in Work
        BY DEF Work, Versions
      <3>2. ASSUME thread[t].left > 1 PROVE [thread[t] EXCEPT !.phase = "event", !.left = @ - 1] \in Work
        <4>1. thread[t].left - 1 \in 0..MaxRequests
          BY <2>1
        <4> QED
          BY <2>1, <4>1 DEF Work
      <3> QED
        BY <3>1, <3>2
    <2>3. thread' = [thread EXCEPT ![t] = work]
      BY <2>1 DEF Work
    <2> HIDE DEF work
    <2>4. thread' \in [Thread -> Work]
      BY <2>1, <2>2, <2>3
    <2>5. announced' \in Versions
      BY <2>1 DEF IInv, TypeOK, Work, Versions
    <2> QED
      BY <2>4, <2>5 DEF IInv, TypeOK, Work
  <1>2. LockInv'
    BY DEF IInv, TypeOK, LockInv
  <1>3. TableInv'
    BY DEF IInv, TypeOK, LockInv, TableInv, WorkInv, DataSet
  <1>4. WorkInv'
    BY DEF IInv, TypeOK, WorkInv
  <1>5. VersionInv'
    <2>1. \A s \in Thread \ {t} : thread'[s] = thread[s] /\ Phase(s) \notin {"get", "read", "close"}
      BY DEF IInv, TypeOK, LockInv
    <2>2. \A l \in DataLayer : /\ announced[l] \in Nat /\ version[l] \in Nat /\ thread[t].wanted[l] \in Nat
                               /\ announced[l] <= version[l] /\ thread[t].wanted[l] <= version[l]
      BY VersionsAreNumbers DEF IInv, VersionInv
    <2>3. \A l \in DataLayer : announced'[l] \in Nat /\ announced[l] <= announced'[l] /\ announced'[l] <= version[l]
      BY <2>2
    <2>4. Phase(t)' \in {"idle", "event"} /\ (Phase(t)' = "event" => thread'[t].wanted = thread[t].wanted)
      BY DEF IInv, TypeOK
    <2>5. \A s \in Thread, l \in DataLayer : thread[s].wanted[l] \in Nat
      BY VersionsAreNumbers DEF IInv
    <2> QED
      BY <2>1, <2>2, <2>3, <2>4, <2>5 DEF IInv, VersionInv
  <1> QED
    BY <1>1, <1>2, <1>3, <1>4, <1>5 DEF IInv

LEMMA ReplaceKeeps == ASSUME IInv, NEW l \in DataLayer, Replace(l) PROVE IInv'
  <1> USE RasterAssumption DEF Replace, Phase
  <1>1. TypeOK'
    BY DEF IInv, TypeOK, WorkInv, DataSet, Versions
  <1>2. LockInv'
    BY DEF IInv, TypeOK, LockInv
  <1>3. TableInv'
    BY DEF IInv, TypeOK, LockInv, TableInv, WorkInv, DataSet
  <1>4. WorkInv'
    BY DEF IInv, TypeOK, WorkInv
  <1>5. VersionInv'
    <2>1. \A k \in DataLayer : version[k] \in Nat /\ version'[k] \in Nat /\ version[k] <= version'[k]
      BY VersionsAreNumbers DEF IInv, TypeOK, Versions
    <2>2. \A k \in DataLayer : announced[k] \in Nat /\ announced[k] <= version'[k]
      BY <2>1, VersionsAreNumbers DEF IInv, VersionInv
    <2>3. \A t \in Thread, k \in DataLayer :
            /\ thread[t].wanted[k] \in Nat
            /\ Phase(t) \in {"event", "close"} => thread[t].wanted[k] <= version'[k]
      BY <2>1, VersionsAreNumbers DEF IInv, VersionInv
    <2> QED
      BY <2>2, <2>3 DEF IInv, VersionInv
  <1> QED
    BY <1>1, <1>2, <1>3, <1>4, <1>5 DEF IInv

LEMMA ToggleKeeps == ASSUME IInv, NEW l \in DataLayer, Toggle(l) PROVE IInv'
  <1> USE RasterAssumption DEF Toggle, Phase
  <1>1. TypeOK'
    BY DEF IInv, TypeOK, WorkInv, DataSet, Versions
  <1>2. LockInv'
    BY DEF IInv, TypeOK, LockInv
  <1>3. TableInv'
    BY DEF IInv, TypeOK, LockInv, TableInv, WorkInv, DataSet
  <1>4. WorkInv'
    BY DEF IInv, TypeOK, WorkInv
  <1>5. VersionInv'
    BY DEF IInv, TypeOK, LockInv, TableInv, WorkInv, VersionInv, DataSet, Versions
  <1> QED
    BY <1>1, <1>2, <1>3, <1>4, <1>5 DEF IInv

-----------------------------------------------------------------------------
(* Every step keeps the invariant. *)
LEMMA StepKeeps == IInv /\ [Next]_rasterVars => IInv'
  <1> SUFFICES ASSUME IInv, [Next]_rasterVars PROVE IInv'
    OBVIOUS
  <1>1. CASE Next
    BY <1>1, BeginKeeps, LockRequestKeeps, GetDataKeeps, OpenFailsKeeps, ReadKeeps, NotifyKeeps, CloseAllKeeps,
       ResetKeeps, ReplaceKeeps, ToggleKeeps DEF Next
  <1>2. CASE UNCHANGED rasterVars
    BY <1>2 DEF rasterVars, IInv, TypeOK, LockInv, TableInv, WorkInv, VersionInv, Phase
  <1> QED
    BY <1>1, <1>2

(* What is read is in the table and open, and is no older than what was announced when the request began. *)
LEMMA InvariantSays == IInv => OpenDataSets
  <1> SUFFICES ASSUME IInv PROVE OpenDataSets
    OBVIOUS
  <1>1. ReadsOpenDataSet
    BY DEF IInv, TableInv, Phase, ReadsOpenDataSet
  <1>2. ASSUME NEW t \in Thread, thread[t].phase = "read"
        PROVE thread[t].using.version >= thread[t].wanted[thread[t].layer]
    <2> DEFINE l == thread[t].layer
    <2>1. l \in DataLayer /\ thread[t].using = data[l] /\ data[l] # None
      BY <1>2 DEF IInv, TableInv, WorkInv, Phase
    <2>2. thread[t].wanted[l] <= announced[l] /\ announced[l] <= data[l].version
      BY <1>2, <2>1 DEF IInv, VersionInv, Phase
    <2>3. thread[t].wanted[l] \in Nat /\ announced[l] \in Nat /\ data[l].version \in Nat
      BY <2>1, VersionsAreNumbers DEF IInv
    <2> QED
      BY <2>1, <2>2, <2>3
  <1> QED
    BY <1>1, <1>2 DEF OpenDataSets, SeesInvalidatedFile

(* The variables of the table of data sets keep their types. *)
THEOREM TypeCorrect == Spec => []TypeOK
  <1>1. IInv => TypeOK
    BY DEF IInv
  <1> QED
    BY <1>1, Initially, StepKeeps, PTL DEF Spec

(* No thread reads a data set that is closed, and none that is older than the last invalidation that ended
   before the request began, although every request adds a handler that closes and empties everything. *)
THEOREM OpenDataSetsCorrect == Spec => []OpenDataSets
  BY Initially, StepKeeps, InvariantSays, PTL DEF Spec
=============================================================================
