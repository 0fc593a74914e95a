-------------------------------- MODULE Raster --------------------------------
(***************************************************************************)
(* The table of open data sets of one process: the views raster and profile   *)
(* of its threads open the files and read them, an invalidation of the caches  *)
(* closes them all, so that a file that was replaced on the disk is read.       *)
(* Every request registers the handler of the invalidations once more.          *)
(***************************************************************************)
EXTENDS Naturals, FiniteSets

CONSTANTS
  Thread,
  DataLayer,    \* the layers of the configuration, of type shp_index or gdal
  MaxRequests,  \* bound of the requests
  MaxVersion,   \* bound of the versions of the files
  None

ASSUME RasterAssumption ==
  /\ MaxRequests \in Nat /\ MaxVersion \in Nat \ {0}
  /\ None \notin Thread /\ None \notin DataLayer /\ None \notin [layer : DataLayer, version : Nat, opener : Nat]

VARIABLES
  version,      \* the version of the file of a layer
  missing,      \* the layers whose file cannot be opened
  data,         \* Raster.data: the data set of a layer
  opened,       \* the data sets that are open
  data_lock,    \* the thread that holds Raster._data_lock
  handlers,     \* how often the handler is registered
  thread,       \* what a thread does
  announced     \* history: the versions that were there when the last event began that has ended

rasterVars == <<version, missing, data, opened, data_lock, handlers, thread, announced>>

Versions == [DataLayer -> 1..MaxVersion]

(* A data set is told from others by the request that opened it, each opens one at most. *)
DataSet  == [layer : DataLayer, version : 1..MaxVersion, opener : 1..MaxRequests]

(* A request for a layer waits for the lock, has it, has the data set too; an event has handlers left to
   run, the first of which waits for the lock, or has it and has closed the data sets.  wanted: the
   versions of the files when the event began, or that a request has to see. *)
Idle == [phase |-> "idle", layer |-> None, using |-> None, number |-> 0, left |-> 0, wanted |-> [l \in DataLayer |-> 1]]

TypeOK ==
  /\ version \in Versions /\ missing \in SUBSET DataLayer
  /\ data \in [DataLayer -> DataSet \cup {None}] /\ opened \in SUBSET DataSet
  /\ data_lock \in Thread \cup {None} /\ handlers \in 0..MaxRequests
  /\ thread \in [Thread -> [phase : {"idle", "lock", "get", "read", "event", "close"}, layer : DataLayer \cup {None},
                            using : DataSet \cup {None}, number : 0..MaxRequests, left : 0..MaxRequests, wanted : Versions]]
  /\ announced \in Versions

Emptied == [l \in DataLayer |-> None]

Init ==
  /\ version = [l \in DataLayer |-> 1] /\ missing = {} /\ announced = version
  /\ data = Emptied /\ opened = {} /\ data_lock = None
  /\ handlers = 0 /\ thread = [t \in Thread |-> Idle]

-----------------------------------------------------------------------------
(* Raster.__init__ registers the handler; _get_raster_value comes to a layer. *)
Begin(t, l) ==
  /\ thread[t].phase = "idle" /\ handlers < MaxRequests
  /\ handlers' = handlers + 1
  /\ thread' = [thread EXCEPT ![t] = [Idle EXCEPT !.phase = "lock", !.layer = l, !.number = handlers', !.wanted = announced]]
  /\ UNCHANGED <<version, missing, data, opened, data_lock, announced>>

(* mutant: no lock *)
AcquireNothing(t) == UNCHANGED data_lock

Acquire(t) == data_lock = None /\ data_lock' = t
Release    == data_lock' = None

LockRequest(t) ==
  /\ thread[t].phase = "lock" /\ Acquire(t)
  /\ thread' = [thread EXCEPT ![t].phase = "get"]
  /\ UNCHANGED <<version, missing, data, opened, handlers, announced>>

(* _get_data *)
GetData(t) ==
  LET l == thread[t].layer
      d == IF data[l] = None THEN [layer |-> l, version |-> version[l], opener |-> thread[t].number] ELSE data[l]
  IN /\ thread[t].phase = "get" /\ (data[l] = None => l \notin missing)
     /\ data' = [data EXCEPT ![l] = d] /\ opened' = IF data[l] = None THEN opened \cup {d} ELSE opened
     /\ thread' = [thread EXCEPT ![t].phase = "read", ![t].using = d]
     /\ UNCHANGED <<version, missing, data_lock, handlers, announced>>

(* A file that cannot be opened ends the request and leaves the table as it is. *)
OpenFails(t) ==
  /\ thread[t].phase = "get" /\ data[thread[t].layer] = None /\ thread[t].layer \in missing
  /\ thread' = [thread EXCEPT ![t] = Idle] /\ Release
  /\ UNCHANGED <<version, missing, data, opened, handlers, announced>>

(* The pixel, or the names of the tiles, are read and the lock is released. *)
Read(t) ==
  /\ thread[t].phase = "read"
  /\ thread' = [thread EXCEPT ![t] = Idle] /\ Release
  /\ UNCHANGED <<version, missing, data, opened, handlers, announced>>

(* A commit in this process notifies the event; its handlers run one after the other. *)
Notify(t) ==
  /\ thread[t].phase = "idle" /\ handlers > 0
  /\ thread' = [thread EXCEPT ![t].phase = "event", ![t].left = handlers, ![t].wanted = version]
  /\ UNCHANGED <<version, missing, data, opened, data_lock, handlers, announced>>

(* handle: the data sets are closed, then the table is emptied. *)
CloseAll(t) ==
  /\ thread[t].phase = "event" /\ Acquire(t)
  /\ opened' = {d \in opened : data[d.layer] # d}
  /\ thread' = [thread EXCEPT ![t].phase = "close"]
  /\ UNCHANGED <<version, missing, data, handlers, announced>>

Reset(t) ==
  /\ thread[t].phase = "close"
  /\ data' = Emptied /\ Release
  /\ IF thread[t].left > 1
     THEN /\ thread' = [thread EXCEPT ![t].phase = "event", ![t].left = @ - 1]
          /\ UNCHANGED announced
     ELSE /\ thread' = [thread EXCEPT ![t] = Idle]
          /\ announced' = [l \in DataLayer |-> IF announced[l] > thread[t].wanted[l] THEN announced[l]
                                               ELSE thread[t].wanted[l]]
  /\ UNCHANGED <<version, missing, opened, handlers>>

(* The file of a layer is replaced, or taken away and put back. *)
Replace(l) ==
  /\ version[l] < MaxVersion
  /\ version' = [version EXCEPT ![l] = @ + 1]
  /\ UNCHANGED <<missing, data, opened, data_lock, handlers, thread, announced>>

Toggle(l) ==
  /\ missing' = IF l \in missing THEN missing \ {l} ELSE missing \cup {l}
  /\ UNCHANGED <<version, data, opened, data_lock, handlers, thread, announced>>

Next ==
  \/ \E t \in Thread, l \in DataLayer : Begin(t, l)
  \/ \E t \in Thread : LockRequest(t) \/ GetData(t) \/ OpenFails(t) \/ Read(t)
  \/ \E t \in Thread : Notify(t) \/ CloseAll(t) \/ Reset(t)
  \/ \E l \in DataLayer : Replace(l) \/ Toggle(l)

Spec == Init /\ [][Next]_rasterVars

-----------------------------------------------------------------------------
(* No request reads a data set that an invalidation in another thread has closed, and every data set
   that is open is in the table, where the next invalidation closes it. *)
ReadsOpenDataSet ==
  /\ \A t \in Thread : thread[t].phase = "read" => thread[t].using \in opened
  /\ \A d \in opened : data[d.layer] = d

(* A request that begins after an invalidation reads the files that were there when the invalidation began,
   or later ones, although other requests open the old ones while it waits for the lock. *)
SeesInvalidatedFile ==
  \A t \in Thread : thread[t].phase = "read" =>
    thread[t].using.version >= thread[t].wanted[thread[t].layer]

OpenDataSets == ReadsOpenDataSet /\ SeesInvalidatedFile
=============================================================================
