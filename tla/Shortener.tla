------------------------------- MODULE Shortener -------------------------------
(***************************************************************************)
(* Short URLs: concurrent requests that look for a free reference and insert  *)
(* it when they commit, that send it by mail before, and that read a URL and   *)
(* count the hit.  A request is one transaction, at the level READ COMMITTED.  *)
(***************************************************************************)
EXTENDS Naturals, FiniteSets

CONSTANTS
  Request,
  Url,          \* the URLs that are sent, of an allowed host and not too long
  Ref,          \* the references
  Shortened,    \* the URLs whose path starts with the one of a base of short URLs
  LastSegment,  \* their references: the last segments of the paths
  MaxTries,     \* 20 in the code
  MaxHits,      \* bound of the reads of a reference
  None

ShortenerAssumption ==
  /\ None \notin Url /\ None \notin Ref /\ Shortened \subseteq Url /\ LastSegment \in [Shortened -> Ref]
  /\ MaxTries \in Nat /\ MaxHits \in Nat

VARIABLES
  shorturl,   \* the committed rows of the table: reference to URL and hits
  request,    \* what a request does
  answered,   \* history: the short URLs that were answered, made for it or not
  mailed,     \* history: those that were sent
  served,     \* history: how often a reference was answered with its URL
  raced       \* history: the references that were read by two requests at the same time

shortenerVars == <<shorturl, request, answered, mailed, served, raced>>

NoRow == [url |-> None, nb_hits |-> 0]
Idle  == [phase |-> "idle", url |-> None, ref |-> None, tries |-> 0, nb_hits |-> 0, email |-> FALSE]

TypeOK ==
  /\ shorturl \in [Ref -> [url : Url \cup {None}, nb_hits : Nat]]
  /\ request \in [Request -> [phase : {"idle", "look", "insert", "hit"}, url : Url \cup {None},
                              ref : Ref \cup {None}, tries : 0..MaxTries, nb_hits : Nat, email : BOOLEAN]]
  /\ answered \in SUBSET [url : Url, ref : Ref, made : BOOLEAN] /\ mailed \in SUBSET [url : Url, ref : Ref]
  /\ served \in [Ref -> Nat] /\ raced \in SUBSET Ref

Init ==
  /\ shorturl = [r \in Ref |-> NoRow] /\ request = [q \in Request |-> Idle]
  /\ answered = {} /\ mailed = {} /\ served = [r \in Ref |-> 0] /\ raced = {}

-----------------------------------------------------------------------------
End(q) == request' = [request EXCEPT ![q] = Idle]

Answer(url, ref, made) == answered' = answered \cup {[url |-> url, ref |-> ref, made |-> made]}
Send(url, ref, email)  == mailed' = IF email THEN mailed \cup {[url |-> url, ref |-> ref]} ELSE mailed

(* create, for a URL that is short already: its reference is taken from it, without a look at the table
   or at the host. *)
CreateShortened(q, url, email) ==
  /\ request[q].phase = "idle" /\ url \in Shortened
  /\ Answer(url, LastSegment[url], FALSE) /\ Send(url, LastSegment[url], email)
  /\ UNCHANGED <<shorturl, request, served, raced>>

(* create: the loop begins. *)
Create(q, url, email) ==
  /\ request[q].phase = "idle" /\ url \notin Shortened
  /\ request' = [request EXCEPT ![q] = [Idle EXCEPT !.phase = "look", !.url = url, !.email = email]]
  /\ UNCHANGED <<shorturl, answered, mailed, served, raced>>

(* One try: the reference is free, and the mail is sent before the row is inserted. *)
Found(q, ref) ==
  /\ request[q].phase = "look" /\ shorturl[ref].url = None
  /\ request' = [request EXCEPT ![q].phase = "insert", ![q].ref = ref]
  /\ Send(request[q].url, ref, request[q].email)
  /\ UNCHANGED <<shorturl, answered, served, raced>>

(* It is taken, and there were not too many tries. *)
Taken(q, ref) ==
  /\ request[q].phase = "look" /\ shorturl[ref].url # None
  /\ IF request[q].tries < MaxTries THEN request' = [request EXCEPT ![q].tries = @ + 1] ELSE End(q)
  /\ UNCHANGED <<shorturl, answered, mailed, served, raced>>

(* mutant: ref is not unique *)
AnyRef(ref) == TRUE

(* The unique index of ref. *)
Unique(ref) == shorturl[ref].url = None

(* The row is inserted when the transaction commits, or the index refuses it. *)
Commit(q) ==
  /\ request[q].phase = "insert" /\ Unique(request[q].ref)
  /\ shorturl' = [shorturl EXCEPT ![request[q].ref].url = request[q].url]
  /\ Answer(request[q].url, request[q].ref, TRUE)
  /\ End(q)
  /\ UNCHANGED <<mailed, served, raced>>

Refused(q) ==
  /\ request[q].phase = "insert" /\ ~Unique(request[q].ref)
  /\ End(q)
  /\ UNCHANGED <<shorturl, answered, mailed, served, raced>>

(* _read: the row with the hits, without a lock. *)
Hits(ref) == shorturl[ref].nb_hits + 1

Read(q, ref) ==
  /\ request[q].phase = "idle" /\ shorturl[ref].url # None /\ served[ref] < MaxHits
  /\ Cardinality({p \in Request : request[p].phase = "hit" /\ request[p].ref = ref}) + served[ref] < MaxHits
  /\ request' = [request EXCEPT ![q] = [Idle EXCEPT !.phase = "hit", !.ref = ref, !.nb_hits = Hits(ref)]]
  /\ raced' = IF \E p \in Request : request[p].phase = "hit" /\ request[p].ref = ref THEN raced \cup {ref} ELSE raced
  /\ UNCHANGED <<shorturl, answered, mailed, served>>

(* get and fetch: the hits are written at the commit, and the URL is answered. *)
Hit(q) ==
  LET ref == request[q].ref
  IN /\ request[q].phase = "hit"
     /\ shorturl' = [shorturl EXCEPT ![ref].nb_hits = request[q].nb_hits]
     /\ served' = [served EXCEPT ![ref] = @ + 1]
     /\ End(q)
     /\ UNCHANGED <<answered, mailed, raced>>

Next ==
  \/ \E q \in Request, url \in Url, email \in BOOLEAN : CreateShortened(q, url, email) \/ Create(q, url, email)
  \/ \E q \in Request, ref \in Ref : Found(q, ref) \/ Taken(q, ref) \/ Read(q, ref)
  \/ \E q \in Request : Commit(q) \/ Refused(q) \/ Hit(q)

Spec == Init /\ [][Next]_shortenerVars

-----------------------------------------------------------------------------
(* A short URL that was made and answered leads to its URL for ever.  One that was only sent by mail may
   not: it is sent before the commit, and another request may be given the same reference.  But then
   the reference leads to what the other one was answered. *)
AnswersResolve ==
  /\ \A a \in answered : a.made => shorturl[a.ref].url = a.url
  /\ \A m \in mailed : m.url \notin Shortened =>
       \/ \E q \in Request : request[q].phase = "insert" /\ request[q].ref = m.ref /\ request[q].url = m.url
       \/ [url |-> shorturl[m.ref].url, ref |-> m.ref, made |-> TRUE] \in answered

(* No hit is lost but by two reads of one reference at the same time, and none is counted twice. *)
HitsLostOnlyByRace ==
  \A r \in Ref : shorturl[r].nb_hits <= served[r] /\ (r \notin raced => shorturl[r].nb_hits = served[r])
=============================================================================
