----------------------------- MODULE Portal_proofs -----------------------------
(***************************************************************************)
(* Proofs about the parts of the portal, for any values of its constants.     *)
(* A behaviour of the portal is one of one of its parts: each part has an      *)
(* inductive invariant of its own, which the steps of the others keep, for     *)
(* they do not take any.                                                       *)
(***************************************************************************)
EXTENDS Portal, FiniteSetTheorems, TLAPS

-----------------------------------------------------------------------------
(* Short URLs. *)

(* Who looks for a reference or inserts it has a URL that is not short yet; who inserts or reads has a
   reference. *)
ShortWork ==
  \A q \in Thread : /\ request[q].phase \in {"look", "insert"} => request[q].url \in Url \ Shortened
                    /\ request[q].phase \in {"insert", "hit"} => request[q].ref \in Ref

(* The rows are those that were answered. *)
ShortRows ==
  /\ \A a \in answered : a.made => shorturl[a.ref].url = a.url
  /\ \A r \in Ref : shorturl[r].url # None => [url |-> shorturl[r].url, ref |-> r, made |-> TRUE] \in answered

Inserting(m)  == \E q \in Thread : request[q].phase = "insert" /\ request[q].ref = m.ref /\ request[q].url = m.url
AnsweredAs(m) == [url |-> shorturl[m.ref].url, ref |-> m.ref, made |-> TRUE] \in answered

(* What was sent is being inserted, or another URL has the reference. *)
ShortSent == \A m \in sent : m.url \notin Shortened => Inserting(m) \/ AnsweredAs(m)

Hitting(q, r) == request[q].phase = "hit" /\ request[q].ref = r

(* Who reads a reference will write one hit more than were served, at most; a reference that was not
   raced for has one reader at most, who will write exactly that. *)
ShortHits ==
  \A r \in Ref :
    /\ shorturl[r].nb_hits <= served[r]
    /\ \A q \in Thread : Hitting(q, r) => request[q].nb_hits <= served[r] + 1
    /\ r \notin raced => /\ shorturl[r].nb_hits = served[r]
                         /\ \A q \in Thread : Hitting(q, r) => request[q].nb_hits = served[r] + 1
                         /\ \A p, q \in Thread : Hitting(p, r) /\ Hitting(q, r) => p = q

ShortInv == Short!TypeOK /\ ShortWork /\ ShortRows /\ ShortSent /\ ShortHits

-----------------------------------------------------------------------------
(* What a request does, as the types have it; one request does something else. *)
ShortRequest == [phase : {"idle", "look", "insert", "hit"}, url : Url \cup {None}, ref : Ref \cup {None},
                 tries : 0..MaxTries, nb_hits : Nat, email : BOOLEAN]

LEMMA OneShortRequest ==
  ASSUME Short!TypeOK, NEW q \in Thread, NEW r \in ShortRequest, request' = [request EXCEPT ![q] = r]
  PROVE  /\ request' \in [Thread -> ShortRequest]
         /\ \A p \in Thread : request'[p] = IF p = q THEN r ELSE request[p]
  BY DEF Short!TypeOK, ShortRequest

LEMMA IdleIsARequest == Short!Idle \in ShortRequest /\ Short!Idle.phase = "idle"
  BY PortalAssumption DEF Short!ShortenerAssumption, Short!Idle, ShortRequest

LEMMA ShortInitially == ASSUME Short!Init PROVE ShortInv
  <1> USE PortalAssumption DEF Short!ShortenerAssumption, Short!Init, Short!NoRow, Short!Idle
  <1>1. Short!TypeOK
    BY DEF Short!TypeOK
  <1>2. ShortWork /\ ShortRows /\ ShortSent
    BY DEF ShortWork, ShortRows, ShortSent
  <1>3. ShortHits
    BY DEF ShortHits, Hitting
  <1> QED
    BY <1>1, <1>2, <1>3 DEF ShortInv

LEMMA CreateShortenedKeeps ==
  ASSUME ShortInv, NEW q \in Thread, NEW url \in Url, NEW email \in BOOLEAN, Short!CreateShortened(q, url, email)
  PROVE  ShortInv'
  <1> USE PortalAssumption DEF Short!ShortenerAssumption, Short!CreateShortened, Short!Answer, Short!Send
  <1>1. Short!TypeOK'
    <2>1. LastSegment[url] \in Ref
      OBVIOUS
    <2>2. /\ [url |-> url, ref |-> LastSegment[url], made |-> FALSE] \in [url : Url, ref : Ref, made : BOOLEAN]
          /\ [url |-> url, ref |-> LastSegment[url]] \in [url : Url, ref : Ref]
      BY <2>1
    <2> QED
      BY <2>2 DEF ShortInv, Short!TypeOK
  <1>2. ShortWork' /\ ShortRows'
    BY DEF ShortInv, ShortWork, ShortRows
  <1>3. ShortSent'
    BY DEF ShortInv, ShortSent, Inserting, AnsweredAs
  <1>4. ShortHits'
    BY DEF ShortInv, ShortHits, Hitting
  <1> QED
    BY <1>1, <1>2, <1>3, <1>4 DEF ShortInv

LEMMA CreateKeeps ==
  ASSUME ShortInv, NEW q \in Thread, NEW url \in Url, NEW email \in BOOLEAN, Short!Create(q, url, email)
  PROVE  ShortInv'
  <1> USE PortalAssumption DEF Short!ShortenerAssumption, Short!Create
  <1> DEFINE r == [Short!Idle EXCEPT !.phase = "look", !.url = url, !.email = email]
  <1>1. r \in ShortRequest /\ r.phase = "look" /\ r.url = url
    BY IdleIsARequest DEF ShortRequest
  <1>2. /\ request' \in [Thread -> ShortRequest]
        /\ \A p \in Thread : request'[p] = IF p = q THEN r ELSE request[p]
    BY <1>1, OneShortRequest DEF ShortInv
  <1> HIDE DEF r
  <1>3. Short!TypeOK'
    BY <1>2 DEF ShortInv, Short!TypeOK, ShortRequest
  <1>4. ShortWork' /\ ShortRows'
    BY <1>1, <1>2 DEF ShortInv, ShortWork, ShortRows
  <1>5. ShortSent'
    BY <1>1, <1>2 DEF ShortInv, ShortSent, Inserting, AnsweredAs
  <1>6. ShortHits'
    BY <1>1, <1>2 DEF ShortInv, ShortHits, Hitting
  <1> QED
    BY <1>3, <1>4, <1>5, <1>6 DEF ShortInv

LEMMA FoundKeeps ==
  ASSUME ShortInv, NEW q \in Thread, NEW ref \in Ref, Short!Found(q, ref)
  PROVE  ShortInv'
  <1> USE PortalAssumption DEF Short!ShortenerAssumption, Short!Found, Short!Send
  <1> DEFINE r == [request[q] EXCEPT !.phase = "insert", !.ref = ref]
  <1>1. r \in ShortRequest /\ r.phase = "insert" /\ r.ref = ref /\ r.url = request[q].url
    BY DEF ShortInv, Short!TypeOK, ShortRequest
  <1>2. /\ request' \in [Thread -> ShortRequest]
        /\ \A p \in Thread : request'[p] = IF p = q THEN r ELSE request[p]
    <2>1. request' = [request EXCEPT ![q] = r]
      BY DEF ShortInv, Short!TypeOK
    <2> QED
      BY <1>1, <2>1, OneShortRequest DEF ShortInv
  <1>3. request[q].url \in Url \ Shortened
    BY DEF ShortInv, ShortWork
  <1> HIDE DEF r
  <1>4. Short!TypeOK'
    <2>1. [url |-> request[q].url, ref |-> ref] \in [url : Url, ref : Ref]
      BY <1>3
    <2> QED
      BY <1>2, <2>1 DEF ShortInv, Short!TypeOK, ShortRequest
  <1>5. ShortWork' /\ ShortRows'
    BY <1>1, <1>2, <1>3 DEF ShortInv, ShortWork, ShortRows
  <1>6. ShortSent'
    BY <1>1, <1>2 DEF ShortInv, ShortSent, Inserting, AnsweredAs
  <1>7. ShortHits'
    BY <1>1, <1>2 DEF ShortInv, ShortHits, Hitting
  <1> QED
    BY <1>4, <1>5, <1>6, <1>7 DEF ShortInv

LEMMA TakenKeeps ==
  ASSUME ShortInv, NEW q \in Thread, NEW ref \in Ref, Short!Taken(q, ref)
  PROVE  ShortInv'
  <1> USE PortalAssumption DEF Short!ShortenerAssumption, Short!Taken, Short!End
  <1> DEFINE r == IF request[q].tries < MaxTries THEN [request[q] EXCEPT !.tries = @ + 1] ELSE Short!Idle
  <1>1. /\ r \in ShortRequest
        /\ r.phase = "idle" \/ (r.phase = "look" /\ r.url = request[q].url)
    <2>1. request[q] \in ShortRequest
      BY DEF ShortInv, Short!TypeOK, ShortRequest
    <2>2. CASE request[q].tries < MaxTries
      BY <2>1, <2>2 DEF ShortRequest
    <2>3. CASE ~(request[q].tries < MaxTries)
      <3>1. r = Short!Idle
        BY <2>3
      <3> HIDE DEF r
      <3> QED
        BY <3>1, IdleIsARequest
    <2> QED
      BY <2>2, <2>3
  <1>2. /\ request' \in [Thread -> ShortRequest]
        /\ \A p \in Thread : request'[p] = IF p = q THEN r ELSE request[p]
    BY <1>1, OneShortRequest DEF ShortInv, Short!TypeOK
  <1> HIDE DEF r
  <1>3. Short!TypeOK'
    BY <1>2 DEF ShortInv, Short!TypeOK, ShortRequest
  <1>4. ShortWork' /\ ShortRows'
    BY <1>1, <1>2 DEF ShortInv, ShortWork, ShortRows
  <1>5. ShortSent'
    BY <1>1, <1>2 DEF ShortInv, ShortSent, Inserting, AnsweredAs
  <1>6. ShortHits'
    BY <1>1, <1>2 DEF ShortInv, ShortHits, Hitting
  <1> QED
    BY <1>3, <1>4, <1>5, <1>6 DEF ShortInv

(* The row was free: what was sent with its reference is not what the row was answered as. *)
LEMMA CommitKeeps ==
  ASSUME ShortInv, NEW q \in Thread, Short!Commit(q)
  PROVE  ShortInv'
  <1> USE PortalAssumption DEF Short!ShortenerAssumption, Short!Commit, Short!Unique, Short!Answer, Short!End
  <1> DEFINE ref == request[q].ref
             url == request[q].url
  <1>1. ref \in Ref /\ url \in Url /\ shorturl[ref].url = None
    BY DEF ShortInv, ShortWork
  <1>2. /\ request' \in [Thread -> ShortRequest]
        /\ \A p \in Thread : request'[p] = IF p = q THEN Short!Idle ELSE request[p]
    BY IdleIsARequest, OneShortRequest DEF ShortInv
  <1>3. /\ shorturl' \in [Ref -> [url : Url \cup {None}, nb_hits : Nat]]
        /\ \A r \in Ref : /\ shorturl'[r].url = IF r = ref THEN url ELSE shorturl[r].url
                          /\ shorturl'[r].nb_hits = shorturl[r].nb_hits
    <2>1. shorturl' = [shorturl EXCEPT ![ref].url = url]
      OBVIOUS
    <2>2. shorturl \in [Ref -> [url : Url \cup {None}, nb_hits : Nat]]
      BY DEF ShortInv, Short!TypeOK
    <2> HIDE DEF ref, url
    <2> QED
      BY <1>1, <2>1, <2>2
  <1>4. answered' = answered \cup {[url |-> url, ref |-> ref, made |-> TRUE]}
    OBVIOUS
  <1>5. \A a \in answered : a.made => a.ref \in Ref /\ a.url # None /\ a.ref # ref
    BY <1>1 DEF ShortInv, Short!TypeOK, ShortRows
  <1> HIDE DEF ref, url
  <1>6. Short!TypeOK'
    <2>1. [url |-> url, ref |-> ref, made |-> TRUE] \in [url : Url, ref : Ref, made : BOOLEAN]
      BY <1>1
    <2>2. answered' \in SUBSET [url : Url, ref : Ref, made : BOOLEAN]
      BY <1>4, <2>1 DEF ShortInv, Short!TypeOK
    <2>3. sent' \in SUBSET [url : Url, ref : Ref] /\ served' \in [Ref -> Nat] /\ raced' \in SUBSET Ref
      BY DEF ShortInv, Short!TypeOK
    <2> QED
      BY <1>2, <1>3, <2>2, <2>3 DEF Short!TypeOK, ShortRequest
  <1>7. ShortWork'
    BY <1>2, IdleIsARequest DEF ShortInv, ShortWork
  <1>8. ShortRows'
    <2>1. \A a \in answered' : a.made => shorturl'[a.ref].url = a.url
      BY <1>1, <1>3, <1>4, <1>5 DEF ShortInv, ShortRows
    <2>2. \A r \in Ref : shorturl'[r].url # None => [url |-> shorturl'[r].url, ref |-> r, made |-> TRUE] \in answered'
      BY <1>1, <1>3, <1>4 DEF ShortInv, ShortRows
    <2> QED
      BY <2>1, <2>2 DEF ShortRows
  <1>9. ShortSent'
    <2> SUFFICES ASSUME NEW m \in sent, m.url \notin Shortened PROVE Inserting(m)' \/ AnsweredAs(m)'
      BY DEF ShortSent
    <2>1. m.ref \in Ref
      BY DEF ShortInv, Short!TypeOK
    <2>2. CASE AnsweredAs(m)
      <3>1. m.ref # ref
        <4> DEFINE a == [url |-> shorturl[m.ref].url, ref |-> m.ref, made |-> TRUE]
        <4>1. a \in answered /\ a.made /\ a.ref = m.ref
          BY <2>2 DEF AnsweredAs
        <4> QED
          BY <1>5, <4>1
      <3> QED
        <4>1. shorturl'[m.ref].url = shorturl[m.ref].url
          BY <1>3, <2>1, <3>1
        <4> QED
          BY <1>4, <2>2, <4>1 DEF AnsweredAs
    <2>3. ASSUME NEW p \in Thread, request[p].phase = "insert", request[p].ref = m.ref, request[p].url = m.url
          PROVE  Inserting(m)' \/ AnsweredAs(m)'
      <3>1. CASE p = q
        BY <1>3, <1>4, <2>1, <2>3, <3>1 DEF AnsweredAs, ref, url
      <3>2. CASE p # q
        BY <1>2, <2>3, <3>2 DEF Inserting
      <3> QED
        BY <3>1, <3>2
    <2> QED
      BY <2>2, <2>3 DEF ShortInv, ShortSent, Inserting
  <1>10. ShortHits'
    BY <1>2, <1>3, IdleIsARequest DEF ShortInv, ShortHits, Hitting
  <1> QED
    BY <1>6, <1>7, <1>8, <1>9, <1>10 DEF ShortInv

LEMMA RefusedKeeps ==
  ASSUME ShortInv, NEW q \in Thread, Short!Refused(q)
  PROVE  ShortInv'
  <1> USE PortalAssumption DEF Short!ShortenerAssumption, Short!Refused, Short!Unique, Short!End
  <1>1. /\ request' \in [Thread -> ShortRequest]
        /\ \A p \in Thread : request'[p] = IF p = q THEN Short!Idle ELSE request[p]
    BY IdleIsARequest, OneShortRequest DEF ShortInv
  <1>2. Short!TypeOK'
    BY <1>1 DEF ShortInv, Short!TypeOK, ShortRequest
  <1>3. ShortWork' /\ ShortRows'
    BY <1>1, IdleIsARequest DEF ShortInv, ShortWork, ShortRows
  <1>4. ShortSent'
    <2> SUFFICES ASSUME NEW m \in sent, m.url \notin Shortened PROVE Inserting(m)' \/ AnsweredAs(m)'
      BY DEF ShortSent
    <2>1. CASE AnsweredAs(m)
      BY <2>1 DEF AnsweredAs
    <2>2. ASSUME NEW p \in Thread, request[p].phase = "insert", request[p].ref = m.ref, request[p].url = m.url
          PROVE  Inserting(m)' \/ AnsweredAs(m)'
      <3>1. CASE p = q
        BY <2>2, <3>1 DEF ShortInv, ShortWork, ShortRows, AnsweredAs
      <3>2. CASE p # q
        BY <1>1, <2>2, <3>2 DEF Inserting
      <3> QED
        BY <3>1, <3>2
    <2> QED
      BY <2>1, <2>2 DEF ShortInv, ShortSent, Inserting
  <1>5. ShortHits'
    BY <1>1, IdleIsARequest DEF ShortInv, ShortHits, Hitting
  <1> QED
    BY <1>2, <1>3, <1>4, <1>5 DEF ShortInv

LEMMA ShortReadKeeps ==
  ASSUME ShortInv, NEW q \in Thread, NEW ref \in Ref, Short!Read(q, ref)
  PROVE  ShortInv'
  <1> USE PortalAssumption DEF Short!ShortenerAssumption, Short!Read, Short!Hits
  <1> DEFINE r == [Short!Idle EXCEPT !.phase = "hit", !.ref = ref, !.nb_hits = shorturl[ref].nb_hits + 1]
  <1>1. r \in ShortRequest /\ r.phase = "hit" /\ r.ref = ref /\ r.nb_hits = shorturl[ref].nb_hits + 1
    <2> DEFINE n == shorturl[ref].nb_hits + 1
    <2>1. n \in Nat
      BY DEF ShortInv, Short!TypeOK
    <2> HIDE DEF n
    <2>2. [Short!Idle EXCEPT !.phase = "hit", !.ref = ref, !.nb_hits = n] \in ShortRequest
      BY <2>1, IdleIsARequest DEF ShortRequest
    <2> QED
      BY <2>2, IdleIsARequest DEF n, ShortRequest
  <1>2. /\ request' \in [Thread -> ShortRequest]
        /\ \A p \in Thread : request'[p] = IF p = q THEN r ELSE request[p]
    BY <1>1, OneShortRequest DEF ShortInv
  <1> HIDE DEF r
  <1>3. Short!TypeOK'
    BY <1>2 DEF ShortInv, Short!TypeOK, ShortRequest
  <1>4. ShortWork' /\ ShortRows'
    BY <1>1, <1>2 DEF ShortInv, ShortWork, ShortRows
  <1>5. ShortSent'
    BY <1>1, <1>2 DEF ShortInv, ShortSent, Inserting, AnsweredAs
  <1>6. ShortHits'
    BY <1>1, <1>2 DEF ShortInv, Short!TypeOK, ShortHits, Hitting
  <1> QED
    BY <1>3, <1>4, <1>5, <1>6 DEF ShortInv

LEMMA HitKeeps ==
  ASSUME ShortInv, NEW q \in Thread, Short!Hit(q)
  PROVE  ShortInv'
  <1> USE PortalAssumption DEF Short!ShortenerAssumption, Short!Hit, Short!End
  <1> DEFINE ref == request[q].ref
  <1>1. ref \in Ref /\ request[q].nb_hits \in Nat /\ served[ref] \in Nat /\ Hitting(q, ref)
    BY DEF ShortInv, ShortWork, Short!TypeOK, Hitting
  <1>2. /\ request' \in [Thread -> ShortRequest]
        /\ \A p \in Thread : request'[p] = IF p = q THEN Short!Idle ELSE request[p]
    BY IdleIsARequest, OneShortRequest DEF ShortInv
  <1>3. /\ shorturl' \in [Ref -> [url : Url \cup {None}, nb_hits : Nat]]
        /\ \A r \in Ref : /\ shorturl'[r].url = shorturl[r].url
                          /\ shorturl'[r].nb_hits = IF r = ref THEN request[q].nb_hits ELSE shorturl[r].nb_hits
    BY <1>1 DEF ShortInv, Short!TypeOK
  <1>4. /\ served' \in [Ref -> Nat]
        /\ \A r \in Ref : served'[r] = IF r = ref THEN served[r] + 1 ELSE served[r]
    BY <1>1 DEF ShortInv, Short!TypeOK
  <1> HIDE DEF ref
  <1>5. Short!TypeOK'
    BY <1>2, <1>3, <1>4 DEF ShortInv, Short!TypeOK, ShortRequest
  <1>6. ShortWork' /\ ShortRows'
    BY <1>2, <1>3, IdleIsARequest DEF ShortInv, Short!TypeOK, ShortWork, ShortRows
  <1>7. ShortSent'
    BY <1>2, <1>3, IdleIsARequest DEF ShortInv, Short!TypeOK, ShortSent, Inserting, AnsweredAs
  <1>8. ShortHits'
    <2> SUFFICES ASSUME NEW r \in Ref
                 PROVE  /\ shorturl'[r].nb_hits <= served'[r]
                        /\ \A p \in Thread : Hitting(p, r)' => request'[p].nb_hits <= served'[r] + 1
                        /\ r \notin raced =>
                             /\ shorturl'[r].nb_hits = served'[r]
                             /\ \A p \in Thread : Hitting(p, r)' => request'[p].nb_hits = served'[r] + 1
                             /\ \A p, s \in Thread : Hitting(p, r)' /\ Hitting(s, r)' => p = s
      BY DEF ShortHits
    <2>1. \A p \in Thread : Hitting(p, r)' => /\ p # q /\ Hitting(p, r)
                                              /\ request'[p].nb_hits = request[p].nb_hits
                                              /\ request[p].nb_hits \in Nat
      BY <1>2, IdleIsARequest DEF ShortInv, Short!TypeOK, Hitting
    <2>2. served[r] \in Nat
      BY DEF ShortInv, Short!TypeOK
    <2> QED
      BY <1>1, <1>3, <1>4, <2>1, <2>2 DEF ShortInv, ShortHits
  <1> QED
    BY <1>5, <1>6, <1>7, <1>8 DEF ShortInv

LEMMA ShortStep == ASSUME ShortInv, [Short!Next]_shortVars PROVE ShortInv'
  <1>1. CASE UNCHANGED shortVars
    BY <1>1 DEF shortVars, ShortInv, Short!TypeOK, ShortWork, ShortRows, ShortSent, ShortHits, Inserting, AnsweredAs,
                Hitting
  <1>2. CASE Short!Next
    BY <1>2, CreateShortenedKeeps, CreateKeeps, FoundKeeps, TakenKeeps, ShortReadKeeps, CommitKeeps, RefusedKeeps,
       HitKeeps DEF Short!Next
  <1> QED
    BY <1>1, <1>2

LEMMA OnlyShort == ASSUME part = "short", [PortalNext]_vars PROVE part' = "short" /\ [Short!Next]_shortVars
  <1>1. CASE UNCHANGED vars
    BY <1>1 DEF vars, shortVars
  <1>2. CASE PortalNext
    BY <1>2 DEF PortalNext, In, Short!Next
  <1> QED
    BY <1>1, <1>2

LEMMA ShortKept == PortalSpec => [](part = "short" => ShortInv)
  <1> DEFINE Inv == part = "short" => ShortInv
  <1>1. PortalInit => Inv
    BY ShortInitially DEF PortalInit, ShortInit
  <1>2. Inv /\ [PortalNext]_vars => Inv'
    <2>1. CASE part = "short"
      BY <2>1, OnlyShort, ShortStep
    <2>2. CASE part # "short"
      BY <2>2 DEF PortalNext, In, vars
    <2> QED
      BY <2>1, <2>2
  <1> QED
    BY <1>1, <1>2, PTL DEF PortalSpec

(* A short URL that was made and answered leads to its URL for ever, one that was only sent to what another
   request was answered, and the hits that are missing were lost by two reads at the same time. *)
THEOREM ShortUrlsAreKept == PortalSpec => []ShortUrlsResolve
  <1>1. (part = "short" => ShortInv) => ShortUrlsResolve
    BY DEF ShortUrlsResolve, ShortInv, ShortRows, ShortSent, ShortHits, Inserting, AnsweredAs, Short!AnswersResolve,
           Short!HitsLostOnlyByRace
  <1> QED
    BY <1>1, ShortKept, PTL

-----------------------------------------------------------------------------
(* The account. *)

AccountRequest == [kind : Account!Kinds, read : Account!User, new : Account!User]

AccountTypes ==
  /\ twoFactor \in BOOLEAN /\ expired \in BOOLEAN /\ loggedIn \in BOOLEAN /\ disturbed \in BOOLEAN
  /\ user \in Account!User
  /\ attempt \in [Thread -> {Account!Idle} \cup AccountRequest]
  /\ failures \in 0..MaxConsecutiveFailures
  /\ mailed \in Generated \cup {None}

(* What a request writes of the passwords: nothing, or the temporary one instead of the password. *)
SamePasswords(read, new) == new.password.word = read.password.word /\ new.temp_password = read.temp_password

UsedTemporary(read, new) ==
  /\ read.temp_password # None /\ new.password.word = read.temp_password /\ new.temp_password = None
  /\ ~new.is_password_changed

SameCount(read, new) ==
  new.tech_data.consecutive_failed = read.tech_data.consecutive_failed /\ new.deactivated = read.deactivated

(* What a request of each kind has decided to write, compared with what it read. *)
Decided(kind, read, new) ==
  /\ kind = "login" =>
       /\ new.tech_data.consecutive_failed = 0 /\ new.deactivated = read.deactivated
       /\ \/ SamePasswords(read, new) /\ new.is_password_changed = read.is_password_changed
          \/ UsedTemporary(read, new)
  /\ kind = "first login" =>
       /\ SameCount(read, new) /\ ~new.is_password_changed
       /\ SamePasswords(read, new) \/ UsedTemporary(read, new)
  /\ kind = "failure" =>
       /\ ~read.deactivated
       /\ SamePasswords(read, new) /\ new.is_password_changed = read.is_password_changed
       /\ IF read.tech_data.consecutive_failed + 1 >= MaxConsecutiveFailures
          THEN new.deactivated /\ new.tech_data.consecutive_failed = 0
          ELSE ~new.deactivated /\ new.tech_data.consecutive_failed = read.tech_data.consecutive_failed + 1
  /\ kind = "change" => SameCount(read, new) /\ new.password.word \in Chosen
  /\ kind = "reset" => /\ SameCount(read, new) /\ new.password.word = read.password.word
                       /\ new.is_password_changed = read.is_password_changed

AccountWork ==
  \A t \in Thread : attempt[t] # Account!Idle => Decided(attempt[t].kind, attempt[t].read, attempt[t].new)

(* The count is that of the row; a row that is deactivated begins to count anew. *)
Counting ==
  ~disturbed => /\ failures < MaxConsecutiveFailures => user.tech_data.consecutive_failed = failures
                /\ failures = MaxConsecutiveFailures => user.deactivated
                /\ user.deactivated => user.tech_data.consecutive_failed = 0

MadeUp == ~disturbed => (user.password.word \in Generated \ Chosen => ~user.is_password_changed)

(* The password that was mailed is the temporary one, or has become the password, or is about to be stored. *)
Storing(t) == attempt[t].kind = "reset" /\ attempt[t].new.temp_password = mailed

Usable == \/ mailed = None \/ mailed = user.temp_password
          \/ user.temp_password = None /\ mailed = user.password.word

MailedInv == ~disturbed => Usable \/ \E t \in Thread : Storing(t)

(* Who stores another password than the one that was mailed last has read a row that does not have it. *)
MailedLater ==
  \A t \in Thread : attempt[t].kind = "reset" =>
    \/ mailed = None \/ attempt[t].new.temp_password = mailed
    \/ mailed \notin {attempt[t].read.temp_password, attempt[t].read.password.word}

AccountInv == AccountTypes /\ AccountWork /\ Counting /\ MadeUp /\ MailedInv /\ MailedLater

-----------------------------------------------------------------------------
LEMMA SameAccountTypes == AccountTypes <=> Account!TypeOK
  BY DEF AccountTypes, AccountRequest, Account!TypeOK

(* A row whose columns have their types is a row. *)
Columns(row) ==
  /\ row.password.word \in Generated \cup Chosen /\ row.temp_password \in Generated \cup {None}
  /\ row.is_password_changed \in BOOLEAN /\ row.deactivated \in BOOLEAN
  /\ row.tech_data.consecutive_failed \in 0..MaxConsecutiveFailures

LEMMA RowHasColumns == \A row \in Account!User : Columns(row)
  BY DEF Account!User, Account!Words, Columns

LEMMA AccountInitially == ASSUME Account!Init PROVE AccountInv
  <1> USE PortalAssumption DEF Account!AccountsAssumption, Account!Init
  <1>1. PICK word \in Account!Words :
          user = [password |-> [word |-> word, legacy |-> word \in Chosen], temp_password |-> None,
                  is_password_changed |-> word \in Chosen, deactivated |-> FALSE,
                  tech_data |-> [consecutive_failed |-> 0, secret |-> None]]
    OBVIOUS
  <1>2. AccountTypes
    <2>1. user \in Account!User
      BY <1>1 DEF Account!User, Account!Words
    <2>2. attempt \in [Thread -> {Account!Idle} \cup AccountRequest]
      OBVIOUS
    <2>3. failures \in 0..MaxConsecutiveFailures /\ mailed \in Generated \cup {None}
      OBVIOUS
    <2> QED
      BY <2>1, <2>2, <2>3 DEF AccountTypes
  <1>3. Account!Idle.kind = "idle"
    BY DEF Account!Idle
  <1>4. AccountWork /\ MailedLater
    BY <1>3 DEF AccountWork, MailedLater
  <1>5. Counting /\ MadeUp /\ MailedInv
    BY <1>1 DEF Counting, MadeUp, MailedInv, Usable
  <1> QED
    BY <1>2, <1>4, <1>5 DEF AccountInv

(* The columns that are written. *)
LEMMA WrittenColumns ==
  ASSUME NEW read \in Account!User, NEW new \in Account!User, NEW row \in Account!User, NEW kind,
         NEW r, r = [kind |-> kind, read |-> read, new |-> new]
  PROVE  /\ Account!Written(r, row) \in Account!User
         /\ read = row => Account!Written(r, row) = new
  <1>1. DOMAIN row = {"password", "temp_password", "is_password_changed", "deactivated", "tech_data"}
    BY DEF Account!User
  <1>2. r.new = new /\ r.read = read
    OBVIOUS
  <1> DEFINE w == [c \in {"password", "temp_password", "is_password_changed", "deactivated", "tech_data"} |->
                     IF new[c] # read[c] THEN new[c] ELSE row[c]]
  <1>3. Account!Written(r, row) = w
    BY <1>1, <1>2 DEF Account!Written
  <1>4. w \in Account!User
    BY DEF Account!User
  <1>5. read = row => w = new
    BY DEF Account!User
  <1> QED
    BY <1>3, <1>4, <1>5

(* A request that has decided what to write, but to mail a password, leaves the rest as it is. *)
LEMMA DecidedKeeps ==
  ASSUME AccountInv, NEW t \in Thread, NEW kind \in Account!Kinds \ {"reset"}, NEW new \in Account!User,
         attempt[t] = Account!Idle, Decided(kind, user, new),
         Account!Decide(t, kind, new), UNCHANGED Account!history
  PROVE  AccountInv'
  <1> USE DEF Account!Decide, Account!history
  <1> DEFINE r == [kind |-> kind, read |-> user, new |-> new]
  <1>1. r \in AccountRequest /\ r.kind = kind /\ r.read = user /\ r.new = new
    BY DEF AccountInv, AccountTypes, AccountRequest
  <1>2. Account!Idle.kind = "idle"
    BY DEF Account!Idle
  <1>3. \A s \in Thread : attempt'[s] = IF s = t THEN r ELSE attempt[s]
    BY DEF AccountInv, AccountTypes
  <1>4. attempt' \in [Thread -> {Account!Idle} \cup AccountRequest]
    BY <1>1 DEF AccountInv, AccountTypes
  <1> HIDE DEF r
  <1>5. AccountTypes'
    BY <1>4 DEF AccountInv, AccountTypes
  <1>6. AccountWork'
    BY <1>1, <1>3 DEF AccountInv, AccountWork
  <1>7. Counting' /\ MadeUp'
    BY DEF AccountInv, Counting, MadeUp
  <1>8. MailedInv'
    BY <1>2, <1>3 DEF AccountInv, MailedInv, Usable, Storing
  <1>9. MailedLater'
    BY <1>1, <1>3 DEF AccountInv, MailedLater
  <1> QED
    BY <1>5, <1>6, <1>7, <1>8, <1>9 DEF AccountInv

(* User.validate_password gives a row with the same count, and with the password that was given. *)
LEMMA ValidatedRow ==
  ASSUME user \in Account!User, NEW word \in Account!Words, Account!ValidateUser(word)
  PROVE  /\ Account!Validated(word) \in Account!User
         /\ SameCount(user, Account!Validated(word))
         /\ Account!Validated(word).tech_data = user.tech_data
         /\ \/ /\ SamePasswords(user, Account!Validated(word))
               /\ Account!Validated(word).is_password_changed = user.is_password_changed
            \/ UsedTemporary(user, Account!Validated(word))
  <1> USE PortalAssumption DEF Account!AccountsAssumption
  <1>1. CASE Account!IsPassword(word)
    <2> DEFINE row == [user EXCEPT !.password.legacy = FALSE]
    <2>1. Account!Validated(word) = row
      BY <1>1 DEF Account!Validated, Account!Rehashed
    <2>2. row \in Account!User
      BY DEF Account!User
    <2>3. SameCount(user, row) /\ row.tech_data = user.tech_data /\ SamePasswords(user, row)
          /\ row.is_password_changed = user.is_password_changed
      BY DEF Account!User, SameCount, SamePasswords
    <2> QED
      BY <2>1, <2>2, <2>3
  <1>2. CASE ~Account!IsPassword(word)
    <2> DEFINE row == [user EXCEPT !.password = [word |-> word, legacy |-> FALSE], !.temp_password = None,
                                   !.is_password_changed = FALSE]
    <2>1. Account!Validated(word) = row
      BY <1>2 DEF Account!Validated, Account!Temporary
    <2>2. row \in Account!User
      BY DEF Account!User
    <2>3. word = user.temp_password /\ word # None
      BY <1>2 DEF Account!ValidateUser, Account!IsTemporary, Account!Words
    <2>4. SameCount(user, row) /\ row.tech_data = user.tech_data /\ UsedTemporary(user, row)
      BY <2>3 DEF Account!User, SameCount, UsedTemporary
    <2> QED
      BY <2>1, <2>2, <2>4
  <1> QED
    BY <1>1, <1>2

LEMMA FirstLoginKeeps ==
  ASSUME AccountInv, NEW t \in Thread, NEW word \in Account!Words, Account!FirstLogin(t, word)
  PROVE  AccountInv'
  <1> USE PortalAssumption DEF Account!AccountsAssumption
  <1> DEFINE row == Account!Validated(word)
  <1>1. /\ row \in Account!User /\ SameCount(user, row)
        /\ (SamePasswords(user, row) /\ row.is_password_changed = user.is_password_changed)
           \/ UsedTemporary(user, row)
    BY ValidatedRow DEF AccountInv, AccountTypes, Account!FirstLogin
  <1>2. attempt[t] = Account!Idle /\ UNCHANGED Account!history
    BY DEF Account!FirstLogin
  <1>3. CASE twoFactor
    <2> PICK secret \in Secret :
          Account!Decide(t, "first login", [row EXCEPT !.is_password_changed = FALSE, !.tech_data.secret = secret])
      BY <1>3 DEF Account!FirstLogin
    <2> HIDE DEF row
    <2> DEFINE new == [row EXCEPT !.is_password_changed = FALSE, !.tech_data.secret = secret]
    <2>1. new \in Account!User
      BY <1>1 DEF Account!User
    <2>2. Decided("first login", user, new)
      BY <1>1 DEF Account!User, Decided, SameCount, SamePasswords, UsedTemporary
    <2>3. Account!Decide(t, "first login", new)
      OBVIOUS
    <2> HIDE DEF new
    <2> QED
      BY <1>2, <2>1, <2>2, <2>3, DecidedKeeps DEF Account!Kinds
  <1>4. CASE ~twoFactor
    <2>1. Account!Decide(t, "login", [row EXCEPT !.tech_data.consecutive_failed = 0])
      BY <1>4 DEF Account!FirstLogin
    <2> HIDE DEF row
    <2> DEFINE new == [row EXCEPT !.tech_data.consecutive_failed = 0]
    <2>2. new \in Account!User
      BY <1>1 DEF Account!User
    <2>3. Decided("login", user, new)
      BY <1>1 DEF Account!User, Decided, SameCount, SamePasswords, UsedTemporary
    <2> HIDE DEF new
    <2> QED
      BY <1>2, <2>1, <2>2, <2>3, DecidedKeeps DEF Account!Kinds, new
  <1> QED
    BY <1>3, <1>4

LEMMA LogInKeeps ==
  ASSUME AccountInv, NEW t \in Thread, NEW word \in Account!Words, NEW otp, Account!LogIn(t, word, otp)
  PROVE  AccountInv'
  <1> USE PortalAssumption DEF Account!AccountsAssumption
  <1> DEFINE row == Account!Validated(word)
             new == [row EXCEPT !.tech_data.consecutive_failed = 0]
  <1>1. /\ row \in Account!User /\ SameCount(user, row)
        /\ (SamePasswords(user, row) /\ row.is_password_changed = user.is_password_changed)
           \/ UsedTemporary(user, row)
    BY ValidatedRow DEF AccountInv, AccountTypes, Account!LogIn
  <1>2. attempt[t] = Account!Idle /\ UNCHANGED Account!history /\ Account!Decide(t, "login", new)
    BY DEF Account!LogIn
  <1> HIDE DEF row
  <1>3. new \in Account!User
    BY <1>1 DEF Account!User
  <1>4. Decided("login", user, new)
    BY <1>1 DEF Account!User, Decided, SameCount, SamePasswords, UsedTemporary
  <1> HIDE DEF new
  <1> QED
    BY <1>2, <1>3, <1>4, DecidedKeeps DEF Account!Kinds

LEMMA FailLoginKeeps ==
  ASSUME AccountInv, NEW t \in Thread, NEW word \in Account!Words, Account!FailLogin(t, word)
  PROVE  AccountInv'
  <1> USE PortalAssumption DEF Account!AccountsAssumption
  <1> DEFINE n == user.tech_data.consecutive_failed + 1
             new == IF n >= MaxConsecutiveFailures
                    THEN [user EXCEPT !.deactivated = TRUE, !.tech_data.consecutive_failed = 0]
                    ELSE [user EXCEPT !.tech_data.consecutive_failed = @ + 1]
  <1>1. /\ attempt[t] = Account!Idle /\ UNCHANGED Account!history /\ Account!Decide(t, "failure", new)
        /\ ~user.deactivated
    BY DEF Account!FailLogin, Account!TooMany
  <1>2. user \in Account!User /\ n \in 1..MaxConsecutiveFailures + 1
    BY DEF AccountInv, AccountTypes, Account!User
  <1>3. new \in Account!User
    <2>1. CASE n >= MaxConsecutiveFailures
      <3>1. new = [user EXCEPT !.deactivated = TRUE, !.tech_data.consecutive_failed = 0]
        BY <2>1
      <3>2. [user.tech_data EXCEPT !.consecutive_failed = 0]
              \in [consecutive_failed : 0..MaxConsecutiveFailures, secret : Secret \cup {None}]
        BY <1>2 DEF Account!User
      <3>3. new = [user EXCEPT !.deactivated = TRUE, !.tech_data = [user.tech_data EXCEPT !.consecutive_failed = 0]]
        BY <1>2, <3>1 DEF Account!User
      <3> HIDE DEF new, n
      <3> QED
        BY <1>2, <3>2, <3>3 DEF Account!User
    <2>2. CASE ~(n >= MaxConsecutiveFailures)
      <3>1. new = [user EXCEPT !.tech_data.consecutive_failed = n] /\ n \in 0..MaxConsecutiveFailures
        BY <1>2, <2>2
      <3> HIDE DEF new, n
      <3> QED
        BY <1>2, <3>1 DEF Account!User
    <2> QED
      BY <2>1, <2>2
  <1>4. Decided("failure", user, new)
    <2>1. SamePasswords(user, new) /\ new.is_password_changed = user.is_password_changed
      BY <1>2 DEF Account!User, SamePasswords
    <2>2. CASE n >= MaxConsecutiveFailures
      <3>1. new.deactivated /\ new.tech_data.consecutive_failed = 0
        BY <1>2, <2>2 DEF Account!User
      <3> QED
        BY <1>1, <2>1, <2>2, <3>1 DEF Decided
    <2>3. CASE ~(n >= MaxConsecutiveFailures)
      <3>1. new.deactivated = user.deactivated /\ new.tech_data.consecutive_failed = n
        BY <1>2, <2>3 DEF Account!User
      <3> QED
        BY <1>1, <2>1, <2>3, <3>1 DEF Decided
    <2> QED
      BY <2>2, <2>3
  <1> HIDE DEF new
  <1> QED
    BY <1>1, <1>3, <1>4, DecidedKeeps DEF Account!Kinds

LEMMA ChangePasswordKeeps ==
  ASSUME AccountInv, NEW t \in Thread, NEW old \in Account!Words, NEW word \in Chosen, NEW otp,
         Account!ChangePassword(t, old, word, otp)
  PROVE  AccountInv'
  <1> USE PortalAssumption DEF Account!AccountsAssumption
  <1> DEFINE row == Account!Validated(old)
             new == [row EXCEPT !.password = [word |-> word, legacy |-> FALSE], !.is_password_changed = TRUE]
  <1>1. row \in Account!User /\ SameCount(user, row)
    BY ValidatedRow DEF AccountInv, AccountTypes, Account!ChangePassword
  <1>2. attempt[t] = Account!Idle /\ UNCHANGED Account!history /\ Account!Decide(t, "change", new)
    BY DEF Account!ChangePassword
  <1> HIDE DEF row
  <1>3. new \in Account!User
    BY <1>1 DEF Account!User, Account!Words
  <1>4. Decided("change", user, new)
    BY <1>1 DEF Account!User, Decided, SameCount
  <1> HIDE DEF new
  <1> QED
    BY <1>2, <1>3, <1>4, DecidedKeeps DEF Account!Kinds

(* The password that is mailed is in no row that anybody has read. *)
LEMMA ResetPasswordKeeps ==
  ASSUME AccountInv, NEW t \in Thread, Account!ResetPassword(t)
  PROVE  AccountInv'
  <1> USE PortalAssumption DEF Account!AccountsAssumption
  <1>1. PICK word \in Account!Unused :
          /\ Account!Decide(t, IF user.deactivated THEN "unsent reset" ELSE "reset",
                            [user EXCEPT !.temp_password = word])
          /\ mailed' = IF user.deactivated THEN mailed ELSE word
    BY DEF Account!ResetPassword
  <1>2. attempt[t] = Account!Idle /\ UNCHANGED <<failures, disturbed>>
    BY DEF Account!ResetPassword
  <1> DEFINE new == [user EXCEPT !.temp_password = word]
  <1>3. word \in Generated
    BY DEF Account!Unused
  <1>4. new \in Account!User /\ new.temp_password = word /\ SameCount(user, new)
        /\ new.password.word = user.password.word /\ new.is_password_changed = user.is_password_changed
    BY <1>3 DEF AccountInv, AccountTypes, Account!User, SameCount
  <1> HIDE DEF new
  <1>5. CASE user.deactivated
    <2>1. Account!Decide(t, "unsent reset", new) /\ UNCHANGED Account!history
      BY <1>1, <1>2, <1>5 DEF Account!history, new
    <2>2. Decided("unsent reset", user, new)
      BY DEF Decided
    <2> QED
      BY <1>2, <1>4, <2>1, <2>2, DecidedKeeps DEF Account!Kinds
  <1>6. CASE ~user.deactivated
    <2> DEFINE r == [kind |-> "reset", read |-> user, new |-> new]
    <2>1. r \in AccountRequest /\ r.kind = "reset" /\ r.read = user /\ r.new = new
      BY <1>4 DEF AccountInv, AccountTypes, AccountRequest, Account!Kinds
    <2>2. /\ mailed' = word /\ attempt' = [attempt EXCEPT ![t] = r]
          /\ UNCHANGED <<twoFactor, user, expired, loggedIn>>
      BY <1>1, <1>6 DEF Account!Decide, new
    <2> HIDE DEF r
    <2>3. \A s \in Thread : attempt'[s] = IF s = t THEN r ELSE attempt[s]
      BY <2>2 DEF AccountInv, AccountTypes
    <2>4. attempt' \in [Thread -> {Account!Idle} \cup AccountRequest]
      BY <2>1, <2>2 DEF AccountInv, AccountTypes
    <2>5. \A s \in Thread : attempt[s].kind = "reset" =>
            word \notin {attempt[s].read.temp_password, attempt[s].read.password.word}
      <3>1. Account!Idle.kind = "idle"
        BY DEF Account!Idle
      <3> QED
        BY <3>1 DEF Account!Unused, Account!Passwords
    <2>6. AccountTypes'
      BY <1>2, <1>3, <2>2, <2>4 DEF AccountInv, AccountTypes
    <2>7. AccountWork'
      <3>1. Decided("reset", user, new)
        BY <1>4 DEF Decided
      <3> QED
        BY <2>1, <2>2, <2>3, <3>1 DEF AccountInv, AccountWork
    <2>8. Counting' /\ MadeUp'
      BY <1>2, <2>2 DEF AccountInv, Counting, MadeUp
    <2>9. MailedInv'
      BY <1>4, <2>1, <2>2, <2>3 DEF MailedInv, Storing
    <2>10. MailedLater'
      BY <1>4, <2>1, <2>2, <2>3, <2>5 DEF MailedLater
    <2> QED
      BY <2>6, <2>7, <2>8, <2>9, <2>10 DEF AccountInv
  <1> QED
    BY <1>5, <1>6

(* Nothing is said once values were written that are not the row's any more; else the row is the one that
   the request has decided. *)
LEMMA AccountCommitKeeps ==
  ASSUME AccountInv, NEW t \in Thread, Account!Commit(t)
  PROVE  AccountInv'
  <1> USE PortalAssumption DEF Account!AccountsAssumption
  <1> DEFINE r == attempt[t]
  <1>1. r # Account!Idle /\ r \in AccountRequest
    BY DEF AccountInv, AccountTypes, Account!Commit
  <1>2. /\ user' = Account!Written(r, user)
        /\ failures' = CASE r.kind = "login" -> 0
                         [] r.kind = "failure" -> Account!Counted(failures)
                         [] OTHER -> failures
        /\ mailed' = IF r.kind = "change" THEN None ELSE mailed
        /\ disturbed' = (disturbed \/ r.read # user \/ r.kind = "unsent reset")
        /\ UNCHANGED <<twoFactor, expired>>
    BY DEF Account!Commit
  <1>3. /\ attempt' \in [Thread -> {Account!Idle} \cup AccountRequest]
        /\ \A s \in Thread : attempt'[s] = IF s = t THEN Account!Idle ELSE attempt[s]
    BY DEF AccountInv, AccountTypes, Account!Commit
  <1>4. loggedIn' \in BOOLEAN
    BY DEF Account!Commit
  <1>5. user' \in Account!User /\ (~disturbed' => user' = r.new /\ user = r.read /\ ~disturbed)
    <2>1. /\ r.read \in Account!User /\ r.new \in Account!User /\ user \in Account!User
          /\ r = [kind |-> r.kind, read |-> r.read, new |-> r.new]
      BY <1>1 DEF AccountInv, AccountTypes, AccountRequest
    <2>2. /\ Account!Written(r, user) \in Account!User
          /\ r.read = user => Account!Written(r, user) = r.new
      BY <2>1, WrittenColumns
    <2> QED
      BY <1>2, <2>2
  <1>6. Decided(r.kind, r.read, r.new)
    BY <1>1 DEF AccountInv, AccountWork
  <1>7. Account!Idle.kind = "idle"
    BY DEF Account!Idle
  <1>8. r.kind \in Account!Kinds
    BY <1>1 DEF AccountRequest
  <1>9. Columns(user) /\ Columns(user')
    BY <1>5, RowHasColumns DEF AccountInv, AccountTypes
  <1>10. failures \in 0..MaxConsecutiveFailures
    BY DEF AccountInv, AccountTypes
  <1> HIDE DEF r
  <1>11. AccountTypes'
    <2>1. failures' \in 0..MaxConsecutiveFailures
      <3>1. failures' \in {0, Account!Counted(failures), failures}
        BY <1>2, Zenon
      <3> QED
        BY <1>10, <3>1 DEF Account!Counted
    <2>2. mailed' \in Generated \cup {None} /\ disturbed' \in BOOLEAN
      BY <1>2 DEF AccountInv, AccountTypes
    <2> QED
      BY <1>2, <1>3, <1>4, <1>5, <2>1, <2>2 DEF AccountInv, AccountTypes
  <1>12. AccountWork'
    BY <1>3 DEF AccountInv, AccountWork
  <1>13. Counting'
    <2> SUFFICES ASSUME ~disturbed' PROVE Counting'
      BY DEF Counting
    <2>1. CASE r.kind = "failure"
      BY <1>2, <1>5, <1>6, <1>9, <1>10, <2>1 DEF AccountInv, Counting, Decided, Columns, Account!Counted
    <2>2. CASE r.kind = "login"
      BY <1>2, <1>5, <1>6, <2>2 DEF AccountInv, Counting, Decided
    <2>3. CASE r.kind \in {"first login", "change", "reset"}
      BY <1>2, <1>5, <1>6, <2>3 DEF AccountInv, Counting, Decided, SameCount
    <2> QED
      BY <1>2, <1>8, <2>1, <2>2, <2>3 DEF Account!Kinds
  <1>14. MadeUp'
    <2> SUFFICES ASSUME ~disturbed' PROVE MadeUp'
      BY DEF MadeUp
    <2> QED
      BY <1>2, <1>5, <1>6, <1>8 DEF AccountInv, MadeUp, Decided, SamePasswords, UsedTemporary, Account!Kinds
  <1>15. MailedInv'
    <2> SUFFICES ASSUME ~disturbed' PROVE MailedInv'
      BY DEF MailedInv
    <2>1. CASE r.kind = "change"
      BY <1>2, <2>1 DEF MailedInv, Usable
    <2>2. CASE r.kind = "reset"
      <3>1. CASE mailed = None \/ r.new.temp_password = mailed
        BY <1>2, <1>5, <2>2, <3>1 DEF MailedInv, Usable
      <3>2. CASE mailed # None /\ r.new.temp_password # mailed
        <4>1. ~Usable
          BY <1>5, <2>2, <3>2 DEF AccountInv, MailedLater, Usable, r
        <4>2. PICK s \in Thread : Storing(s)
          BY <1>5, <4>1 DEF AccountInv, MailedInv
        <4>3. Storing(s)'
          BY <1>2, <1>3, <2>2, <3>2, <4>2 DEF Storing, r
        <4> QED
          BY <4>3 DEF MailedInv
      <3> QED
        BY <3>1, <3>2
    <2>3. CASE r.kind \in {"login", "first login", "failure"}
      <3>1. SamePasswords(user, user') \/ UsedTemporary(user, user')
        BY <1>5, <1>6, <2>3 DEF Decided
      <3>2. mailed' = mailed
        BY <1>2, <2>3
      <3>3. Usable => Usable'
        BY <1>9, <3>1, <3>2 DEF Usable, Columns, SamePasswords, UsedTemporary
      <3>4. \A s \in Thread : Storing(s) => Storing(s)'
        BY <1>3, <2>3, <3>2 DEF Storing, r
      <3> QED
        BY <1>5, <3>3, <3>4 DEF AccountInv, MailedInv
    <2> QED
      BY <1>2, <1>8, <2>1, <2>2, <2>3 DEF Account!Kinds
  <1>16. MailedLater'
    BY <1>2, <1>3, <1>7 DEF AccountInv, MailedLater
  <1> QED
    BY <1>11, <1>12, <1>13, <1>14, <1>15, <1>16 DEF AccountInv

LEMMA AbortKeeps ==
  ASSUME AccountInv, NEW t \in Thread, Account!Abort(t)
  PROVE  AccountInv'
  <1> USE DEF Account!Abort
  <1>1. /\ attempt' \in [Thread -> {Account!Idle} \cup AccountRequest]
        /\ \A s \in Thread : attempt'[s] = IF s = t THEN Account!Idle ELSE attempt[s]
    BY DEF AccountInv, AccountTypes
  <1>2. Account!Idle.kind = "idle"
    BY DEF Account!Idle
  <1>3. AccountTypes'
    BY <1>1 DEF AccountInv, AccountTypes
  <1>4. AccountWork' /\ MailedLater'
    BY <1>1, <1>2 DEF AccountInv, AccountWork, MailedLater
  <1>5. Counting' /\ MadeUp'
    BY DEF AccountInv, Counting, MadeUp
  <1>6. MailedInv'
    <2> SUFFICES ASSUME ~disturbed' PROVE MailedInv'
      BY DEF MailedInv
    <2>1. \A s \in Thread : Storing(s) => Storing(s)'
      BY <1>1 DEF Storing
    <2> QED
      BY <2>1 DEF AccountInv, MailedInv, Usable
  <1> QED
    BY <1>3, <1>4, <1>5, <1>6 DEF AccountInv

LEMMA ReactivateKeeps ==
  ASSUME AccountInv, Account!Reactivate
  PROVE  AccountInv'
  <1> USE PortalAssumption DEF Account!AccountsAssumption, Account!Reactivate
  <1>1. /\ user' \in Account!User /\ SamePasswords(user, user')
        /\ user'.is_password_changed = user.is_password_changed /\ ~user'.deactivated
        /\ user'.tech_data = user.tech_data
    BY DEF AccountInv, AccountTypes, Account!User, SamePasswords
  <1>2. AccountTypes'
    BY <1>1 DEF AccountInv, AccountTypes
  <1>3. Counting'
    BY <1>1 DEF AccountInv, Counting
  <1>4. MadeUp'
    BY <1>1 DEF AccountInv, MadeUp, SamePasswords
  <1>5. MailedInv'
    BY <1>1 DEF AccountInv, MailedInv, Usable, Storing, SamePasswords
  <1>6. AccountWork' /\ MailedLater'
    BY DEF AccountInv, AccountWork, MailedLater
  <1> QED
    BY <1>2, <1>3, <1>4, <1>5, <1>6 DEF AccountInv

LEMMA AccountStep == ASSUME AccountInv, [Account!Next]_accountVars PROVE AccountInv'
  <1> USE DEF Account!history
  <1>1. CASE UNCHANGED accountVars
    BY <1>1 DEF accountVars, AccountInv, AccountTypes, AccountWork, Counting, MadeUp, MailedInv, MailedLater, Usable,
                Storing
  <1>2. CASE Account!LogOut \/ Account!Expire
    BY <1>2 DEF Account!LogOut, Account!Expire, AccountInv, AccountTypes, AccountWork, Counting, MadeUp, MailedInv,
                MailedLater, Usable, Storing
  <1>3. CASE Account!Next
    BY <1>2, <1>3, FirstLoginKeeps, LogInKeeps, FailLoginKeeps, ChangePasswordKeeps, ResetPasswordKeeps,
       AccountCommitKeeps, AbortKeeps, ReactivateKeeps DEF Account!Next
  <1> QED
    BY <1>1, <1>3

LEMMA OnlyAccount == ASSUME part = "account", [PortalNext]_vars PROVE part' = "account" /\ [Account!Next]_accountVars
  <1>1. CASE UNCHANGED vars
    BY <1>1 DEF vars, accountVars
  <1>2. CASE PortalNext
    BY <1>2 DEF PortalNext, In, Account!Next
  <1> QED
    BY <1>1, <1>2

LEMMA AccountKept == PortalSpec => [](part = "account" => AccountInv)
  <1> DEFINE Inv == part = "account" => AccountInv
  <1>1. PortalInit => Inv
    BY AccountInitially DEF PortalInit, AccountInit
  <1>2. Inv /\ [PortalNext]_vars => Inv'
    <2>1. CASE part = "account"
      BY <2>1, OnlyAccount, AccountStep
    <2>2. CASE part # "account"
      BY <2>2 DEF PortalNext, In, vars
    <2> QED
      BY <2>1, <2>2
  <1> QED
    BY <1>1, <1>2, PTL DEF PortalSpec

(* The failed logins are counted, and too many deactivate the user, as long as no request writes a count that
   is not the row's any more. *)
THEOREM FailuresAreCounted == PortalSpec => []FailuresCounted
  <1>1. (part = "account" => AccountInv) => FailuresCounted
    BY DEF AccountInv, Counting, FailuresCounted, Account!FailuresCounted
  <1> QED
    BY <1>1, AccountKept, PTL

(* A password that the application made up is to be changed: by a login with it, by a mail, by a change. *)
THEOREM MadeUpIsToBeChanged == PortalSpec => []GeneratedIsChanged
  <1>1. (part = "account" => AccountInv) => GeneratedIsChanged
    BY DEF AccountInv, MadeUp, GeneratedIsChanged, Account!GeneratedIsChanged
  <1> QED
    BY <1>1, AccountKept, PTL

(* The password that was mailed last works until the user changes the password. *)
THEOREM MailedIsUsable == PortalSpec => []MailedPasswordWorks
  <1>1. (part = "account" => AccountInv) => MailedPasswordWorks
    BY DEF AccountInv, MailedInv, Usable, Storing, MailedPasswordWorks, Account!MailedPasswordWorks
  <1> QED
    BY <1>1, AccountKept, PTL

-----------------------------------------------------------------------------
(* The logins of a browser. *)

OidcRequest == {Oidc!Idle} \cup Oidc!Answers

(* While every answer reached the browser in order: it has the token that the provider gave last, or an
   answer is on its way that changes that, and tokens on their way are the last ones. *)
TokensInv ==
  ~overlapped =>
    /\ cookie.refresh_token \in {None, given} \/ \E c \in Call : call[c].set \in {"tokens", "forget"}
    /\ \A c \in Call : call[c].set = "tokens" =>
         call[c].refresh_token = given /\ cookie.refresh_token # given /\ cookie.remember # None

(* What the browser remembers, and what is on its way, is what the provider knows. *)
SubjectInv ==
  ~overlapped /\ ~changed =>
    /\ cookie.remember # None => cookie.remember = subject
    /\ \A c \in Call : call[c].set = "tokens" => call[c].remember = subject

Matches(n, remember) ==
  rows[n] # None /\ IF setup.match_field = "username" THEN n = remember.username ELSE rows[n] = remember.email

(* And one row is matched with it. *)
OneUser ==
  ~overlapped /\ ~changed /\ setup.create_user /\ cookie.remember # None =>
    \E n \in UserName : \A k \in UserName : Matches(k, subject) <=> k = n

OidcInv == Oidc!TypeOK /\ TokensInv /\ SubjectInv /\ OneUser

LEMMA OidcAnswers ==
  /\ Oidc!Idle \in OidcRequest /\ Oidc!NoSet \in OidcRequest /\ Oidc!Forget \in OidcRequest
  /\ Oidc!Idle.set = "no answer" /\ Oidc!NoSet.set = "nothing" /\ Oidc!Forget.set = "forget"
  /\ \A r \in OidcRequest : /\ r.set \in {"no answer", "nothing", "forget", "tokens"}
                            /\ r.set = "tokens" => r.remember \in Oidc!Remember /\ r.refresh_token \in 1..MaxTokens
                            /\ r.set = "no answer" => r = Oidc!Idle
                            /\ r.set = "nothing" => r = Oidc!NoSet
  <1>1. Oidc!Idle.set = "no answer" /\ Oidc!NoSet.set = "nothing" /\ Oidc!Forget.set = "forget"
    BY DEF Oidc!Idle, Oidc!NoSet, Oidc!Forget
  <1>2. Oidc!Idle \in OidcRequest /\ Oidc!NoSet \in OidcRequest /\ Oidc!Forget \in OidcRequest
    BY DEF OidcRequest, Oidc!Answers
  <1>3. ASSUME NEW r \in [set : {"tokens"}, remember : Oidc!Remember, refresh_token : Oidc!Tokens]
        PROVE  r.set = "tokens" /\ r.remember \in Oidc!Remember /\ r.refresh_token \in 1..MaxTokens
    BY DEF Oidc!Tokens
  <1>4. ASSUME NEW r \in OidcRequest
        PROVE  \/ r \in {Oidc!Idle, Oidc!NoSet, Oidc!Forget}
               \/ r \in [set : {"tokens"}, remember : Oidc!Remember, refresh_token : Oidc!Tokens]
    BY DEF OidcRequest, Oidc!Answers
  <1>5. ASSUME NEW r \in OidcRequest
        PROVE  /\ r.set \in {"no answer", "nothing", "forget", "tokens"}
               /\ r.set = "tokens" => r.remember \in Oidc!Remember /\ r.refresh_token \in 1..MaxTokens
               /\ r.set = "no answer" => r = Oidc!Idle
               /\ r.set = "nothing" => r = Oidc!NoSet
    BY <1>1, <1>3, <1>4
  <1> QED
    BY <1>1, <1>2, <1>5

LEMMA OidcInitially == ASSUME Oidc!Init PROVE OidcInv
  <1> USE PortalAssumption DEF Oidc!OidcAssumption, Oidc!Init
  <1>1. Oidc!TypeOK
    <2>1. cookie \in Oidc!Cookies
      BY DEF Oidc!Cookies, Oidc!Nothing
    <2>2. call \in [Call -> {Oidc!Idle} \cup Oidc!Answers]
      OBVIOUS
    <2>3. given \in 0..MaxTokens /\ tab \in [Tab -> {"closed", "away", "done"}]
      OBVIOUS
    <2> QED
      BY <2>1, <2>2, <2>3 DEF Oidc!TypeOK
  <1>2. cookie.refresh_token = None /\ cookie.remember = None
    BY DEF Oidc!Nothing
  <1>3. \A c \in Call : call[c].set = "no answer"
    BY OidcAnswers
  <1> QED
    BY <1>1, <1>2, <1>3 DEF OidcInv, TokensInv, SubjectInv, OneUser

(* Matching is what Matches says. *)
LEMMA MatchingIs ==
  \A remember : \A n : n \in Oidc!Matching(remember) <=> n \in UserName /\ Matches(n, remember)
  BY DEF Oidc!Matching, Matches

(* The row that the callback has found, updated or created is the only one that its subject matches. *)
LEMMA UpdatedIsOneUser ==
  ASSUME Oidc!TypeOK, rows' \in Oidc!Updated(subject), UNCHANGED <<setup, subject>>
  PROVE  /\ rows' \in [UserName -> Mail \cup {None}]
         /\ setup.create_user => \E n \in UserName : \A k \in UserName : Matches(k, subject)' <=> k = n
  <1> USE PortalAssumption DEF Oidc!OidcAssumption
  <1> DEFINE name == subject.username
             email == subject.email
             M(n) == Matches(n, subject)
  <1>1. /\ name \in UserName /\ email \in Mail /\ rows \in [UserName -> Mail \cup {None}]
        /\ setup.match_field \in {"username", "email"}
    BY DEF Oidc!TypeOK, Oidc!Setup
  <1>2. CASE Oidc!Matching(subject) = {}
    <2>1. rows' = rows \/ (rows' = [rows EXCEPT ![name] = email] /\ rows[name] = None)
      BY <1>2 DEF Oidc!Updated, Oidc!NewRow
    <2>5. setup.create_user => rows' = [rows EXCEPT ![name] = email] /\ rows[name] = None
      BY <1>2 DEF Oidc!Updated, Oidc!NewRow
    <2>2. \A k \in UserName : ~Matches(k, subject)
      BY <1>2, MatchingIs
    <2>3. rows' \in [UserName -> Mail \cup {None}]
      BY <1>1, <2>1
    <2>4. setup.create_user => \A k \in UserName : Matches(k, subject)' <=> k = name
      BY <1>1, <2>2, <2>5 DEF Matches
    <2> QED
      BY <1>1, <2>3, <2>4
  <1>3. CASE Oidc!Matching(subject) # {}
    <2> DEFINE place(n) == IF "username" \in setup.update_fields THEN name ELSE n
               mail(n)  == IF "email" \in setup.update_fields THEN email ELSE rows[n]
    <2>1. PICK n \in Oidc!Matching(subject) :
            /\ Oidc!Matching(subject) = {n} /\ (place(n) = n \/ rows[place(n)] = None)
            /\ rows' = [[rows EXCEPT ![n] = None] EXCEPT ![place(n)] = mail(n)]
      BY <1>3 DEF Oidc!Updated, Oidc!ChangedRow
    <2>2. n \in UserName /\ Matches(n, subject) /\ \A k \in UserName : Matches(k, subject) => k = n
      BY <2>1, MatchingIs
    <2>3. place(n) \in UserName /\ mail(n) \in Mail
      BY <1>1, <2>2 DEF Matches
    <2>4. \A k \in UserName : rows'[k] = IF k = place(n) THEN mail(n) ELSE IF k = n THEN None ELSE rows[k]
      BY <1>1, <2>1, <2>2, <2>3
    <2>5. rows' \in [UserName -> Mail \cup {None}]
      BY <1>1, <2>1, <2>3
    <2>6. CASE setup.match_field = "username"
      <3>1. n = name /\ place(n) = name
        BY <2>2, <2>6 DEF Matches
      <3>2. \A k \in UserName : Matches(k, subject)' <=> k = name
        BY <1>1, <2>2, <2>3, <2>4, <2>6, <3>1 DEF Matches
      <3> QED
        BY <1>1, <2>5, <3>2
    <2>7. CASE setup.match_field # "username"
      <3>1. rows[n] = email /\ mail(n) = email
        BY <2>2, <2>7 DEF Matches
      <3>2. \A k \in UserName : Matches(k, subject)' <=> k = place(n)
        BY <1>1, <2>2, <2>3, <2>4, <2>7, <3>1 DEF Matches
      <3> QED
        BY <2>3, <2>5, <3>2
    <2> QED
      BY <2>6, <2>7
  <1> QED
    BY <1>2, <1>3

LEMMA OneOidcRequest ==
  ASSUME Oidc!TypeOK, NEW c \in Call, NEW r \in OidcRequest, call' = [call EXCEPT ![c] = r]
  PROVE  /\ call' \in [Call -> OidcRequest]
         /\ \A d \in Call : call'[d] = IF d = c THEN r ELSE call[d]
  BY DEF Oidc!TypeOK, OidcRequest

(* The types of what the steps below read. *)
LEMMA OidcTypes ==
  ASSUME Oidc!TypeOK
  PROVE  /\ given \in Nat /\ given # None /\ given + 1 # None
         /\ call \in [Call -> OidcRequest] /\ \A c \in Call : call[c] \in OidcRequest
         /\ cookie \in [remember : Oidc!Remember \cup {None}, refresh_token : 1..MaxTokens \cup {None},
                        code_verifier : Tab \cup {None}, came_from : BOOLEAN]
         /\ subject \in Oidc!Remember
  BY PortalAssumption DEF Oidc!OidcAssumption, Oidc!TypeOK, OidcRequest, Oidc!Cookies, Oidc!Remember, Oidc!Tokens

LEMMA OneMoreToken ==
  ASSUME Oidc!TypeOK, given < MaxTokens
  PROVE  given + 1 \in 1..MaxTokens /\ given + 1 \in 0..MaxTokens
  BY PortalAssumption DEF Oidc!OidcAssumption, Oidc!TypeOK

LEMMA OidcLoginKeeps ==
  ASSUME OidcInv, NEW t \in Tab, NEW came_from \in BOOLEAN, Oidc!OidcLogin(t, came_from)
  PROVE  OidcInv'
  <1> USE DEF Oidc!OidcLogin
  <1>1. cookie'.remember = cookie.remember /\ cookie'.refresh_token = cookie.refresh_token /\ cookie' \in Oidc!Cookies
    BY DEF OidcInv, Oidc!TypeOK, Oidc!Cookies
  <1>2. Oidc!TypeOK'
    BY <1>1 DEF OidcInv, Oidc!TypeOK, Oidc!Setup, Oidc!Cookies, Oidc!Answers, Oidc!Idle, Oidc!NoSet, Oidc!Forget,
                Oidc!Remember, Oidc!Tokens
  <1>3. TokensInv' /\ SubjectInv'
    BY <1>1 DEF OidcInv, TokensInv, SubjectInv
  <1>4. OneUser'
    BY <1>1 DEF OidcInv, OneUser, Matches
  <1> QED
    BY <1>2, <1>3, <1>4 DEF OidcInv

(* An answer that sets the cookies came back alone, or nothing is said any more. *)
LEMMA OidcCallbackKeeps ==
  ASSUME OidcInv, NEW t \in Tab, Oidc!OidcCallback(t)
  PROVE  OidcInv'
  <1> USE PortalAssumption DEF Oidc!OidcAssumption
  <1>1. /\ given < MaxTokens /\ given' = given + 1 /\ revoked' = FALSE
        /\ rows' \in Oidc!Updated(subject)
        /\ tab' = [tab EXCEPT ![t] = "done"]
        /\ UNCHANGED <<setup, subject, call>>
        /\ overlapped' = (overlapped \/ ~cookie.came_from \/ \E c \in Call : call[c] # Oidc!Idle)
        /\ changed' = (changed /\ ~cookie.came_from)
    BY DEF Oidc!OidcCallback, Oidc!Give
  <1>2. IF cookie.came_from
        THEN /\ cookie' = [remember |-> subject, refresh_token |-> given + 1, code_verifier |-> None, came_from |-> FALSE]
             /\ stale' = FALSE
        ELSE UNCHANGED <<cookie, stale>>
    BY DEF Oidc!OidcCallback, Oidc!NewTokens
  <1>3. given \in Nat /\ subject \in Oidc!Remember
    BY OidcTypes DEF OidcInv
  <1>4. cookie' \in Oidc!Cookies
    <2>1. CASE cookie.came_from
      <3>1. given + 1 \in 1..MaxTokens
        BY <1>1, <1>3 DEF OidcInv, Oidc!TypeOK
      <3>2. [remember |-> subject, refresh_token |-> given + 1, code_verifier |-> None, came_from |-> FALSE]
              \in Oidc!Cookies
        BY <1>3, <3>1 DEF Oidc!Cookies, Oidc!Tokens
      <3> QED
        BY <1>2, <2>1, <3>2
    <2>2. CASE ~cookie.came_from
      BY <1>2, <2>2 DEF OidcInv, Oidc!TypeOK
    <2> QED
      BY <2>1, <2>2
  <1>5. rows' \in [UserName -> Mail \cup {None}]
    BY <1>1, UpdatedIsOneUser DEF OidcInv
  <1>6. Oidc!TypeOK'
    <2>1. /\ given' \in 0..MaxTokens
          /\ revoked' \in BOOLEAN /\ stale' \in BOOLEAN /\ overlapped' \in BOOLEAN /\ changed' \in BOOLEAN
      <3>1. given' \in 0..MaxTokens
        BY <1>1, <1>3 DEF OidcInv, Oidc!TypeOK
      <3>2. stale' \in BOOLEAN
        BY <1>2 DEF OidcInv, Oidc!TypeOK
      <3>3. revoked' \in BOOLEAN /\ overlapped' \in BOOLEAN /\ changed' \in BOOLEAN
        BY <1>1
      <3> QED
        BY <3>1, <3>2, <3>3
    <2>2. tab' \in [Tab -> {"closed", "away", "done"}] /\ setup' = setup /\ subject' = subject /\ call' = call
      BY <1>1 DEF OidcInv, Oidc!TypeOK
    <2> QED
      BY <1>4, <1>5, <2>1, <2>2 DEF OidcInv, Oidc!TypeOK, Oidc!Setup, Oidc!Cookies, Oidc!Answers, Oidc!Idle, Oidc!NoSet,
         Oidc!Forget, Oidc!Remember, Oidc!Tokens
  <1>7. ASSUME ~overlapped'
        PROVE  /\ \A c \in Call : call[c].set = "no answer"
               /\ cookie'.remember = subject /\ cookie'.refresh_token = given'
    <2>1. cookie.came_from /\ \A c \in Call : call[c] = Oidc!Idle
      BY <1>1, <1>7, Zenon
    <2>2. given' = given + 1
      BY <1>1
    <2>3. cookie'.remember = subject /\ cookie'.refresh_token = given'
      BY <1>2, <2>1, <2>2
    <2> QED
      BY <2>1, <2>3, OidcAnswers
  <1>8. TokensInv' /\ SubjectInv'
    BY <1>1, <1>7 DEF TokensInv, SubjectInv
  <1>9. OneUser'
    BY <1>1, UpdatedIsOneUser DEF OidcInv, OneUser
  <1> QED
    BY <1>6, <1>8, <1>9 DEF OidcInv

LEMMA RefusedCallbackKeeps ==
  ASSUME OidcInv, NEW t \in Tab, Oidc!RefusedCallback(t)
  PROVE  OidcInv'
  <1>1. /\ tab' = [tab EXCEPT ![t] = "done"]
        /\ UNCHANGED <<setup, subject, rows, cookie, stale, call, changed>>
    BY DEF Oidc!RefusedCallback
  <1>2. tab' \in [Tab -> {"closed", "away", "done"}]
    BY <1>1 DEF OidcInv, Oidc!TypeOK
  <1>3. CASE UNCHANGED <<given, revoked, overlapped>>
    <2>1. Oidc!TypeOK'
      BY <1>1, <1>2, <1>3 DEF OidcInv, Oidc!TypeOK
    <2>2. TokensInv' /\ SubjectInv' /\ OneUser'
      BY <1>1, <1>3 DEF OidcInv, TokensInv, SubjectInv, OneUser, Matches
    <2> QED
      BY <2>1, <2>2 DEF OidcInv
  <1>4. CASE Oidc!Give /\ overlapped' = TRUE
    <2>1. given' \in 0..MaxTokens /\ revoked' = FALSE
      BY <1>4, OneMoreToken DEF OidcInv, Oidc!Give
    <2>2. Oidc!TypeOK'
      BY <1>1, <1>2, <1>4, <2>1 DEF OidcInv, Oidc!TypeOK
    <2> QED
      BY <1>4, <2>2 DEF OidcInv, TokensInv, SubjectInv, OneUser
  <1> QED
    BY <1>3, <1>4 DEF Oidc!RefusedCallback

LEMMA NewTokensAre ==
  ASSUME Oidc!TypeOK, given < MaxTokens
  PROVE  /\ Oidc!NewTokens \in OidcRequest /\ Oidc!NewTokens.set = "tokens"
         /\ Oidc!NewTokens.remember = subject /\ Oidc!NewTokens.refresh_token = given + 1
  <1> DEFINE r == [set |-> "tokens", remember |-> subject, refresh_token |-> given + 1]
  <1>1. given + 1 \in 1..MaxTokens
    BY OneMoreToken
  <1>2. r \in [set : {"tokens"}, remember : Oidc!Remember, refresh_token : 1..MaxTokens]
    BY <1>1, OidcTypes
  <1>3. Oidc!NewTokens = r
    BY DEF Oidc!NewTokens
  <1> QED
    BY <1>2, <1>3 DEF OidcRequest, Oidc!Answers, Oidc!Tokens

(* The provider takes the token of the browser only while no other answer brings a newer one. *)
LEMMA NoneOnTheirWay ==
  ASSUME OidcInv, Oidc!Exchanges, ~overlapped
  PROVE  \A c \in Call : call[c].set # "tokens"
  BY DEF OidcInv, TokensInv, Oidc!Exchanges

LEMMA ViewKeeps ==
  ASSUME OidcInv, NEW c \in Call, NEW own \in BOOLEAN, Oidc!View(c, own)
  PROVE  OidcInv'
  <1>1. /\ call[c] = Oidc!Idle /\ cookie.remember # None
        /\ UNCHANGED <<setup, subject, rows, cookie, stale, tab, changed>>
    BY DEF Oidc!View
  <1>2. call[c].set = "no answer"
    BY <1>1, OidcAnswers
  <1>3. CASE ~Oidc!Exchanges
    <2>1. call' = [call EXCEPT ![c] = Oidc!NoSet] /\ UNCHANGED <<given, revoked, overlapped>>
      BY <1>3 DEF Oidc!View
    <2>2. /\ call' \in [Call -> OidcRequest]
          /\ \A d \in Call : call'[d] = IF d = c THEN Oidc!NoSet ELSE call[d]
      BY <2>1, OidcAnswers, OneOidcRequest DEF OidcInv
    <2>3. Oidc!TypeOK'
      BY <1>1, <2>1, <2>2 DEF OidcInv, Oidc!TypeOK, OidcRequest
    <2>4. TokensInv' /\ SubjectInv'
      BY <1>1, <1>2, <2>1, <2>2, OidcAnswers DEF OidcInv, TokensInv, SubjectInv
    <2>5. OneUser'
      BY <1>1, <2>1 DEF OidcInv, OneUser, Matches
    <2> QED
      BY <2>3, <2>4, <2>5 DEF OidcInv
  <1>4. CASE Oidc!Exchanges
    <2>1. /\ given < MaxTokens /\ given' = given + 1 /\ revoked' = FALSE
          /\ overlapped' = (overlapped \/ own)
          /\ call' = [call EXCEPT ![c] = IF ~own THEN Oidc!NewTokens ELSE Oidc!NoSet]
      BY <1>4 DEF Oidc!View, Oidc!Give
    <2> DEFINE r == IF ~own THEN Oidc!NewTokens ELSE Oidc!NoSet
    <2>2. r \in OidcRequest
      BY <2>1, NewTokensAre, OidcAnswers DEF OidcInv
    <2>3. /\ call' \in [Call -> OidcRequest]
          /\ \A d \in Call : call'[d] = IF d = c THEN r ELSE call[d]
      BY <2>1, <2>2, OneOidcRequest DEF OidcInv
    <2>4. given' \in 0..MaxTokens
      BY <2>1, OneMoreToken DEF OidcInv
    <2>5. Oidc!TypeOK'
      BY <1>1, <2>1, <2>3, <2>4 DEF OidcInv, Oidc!TypeOK, OidcRequest
    <2>6. ASSUME ~overlapped'
          PROVE  /\ ~overlapped /\ r = Oidc!NewTokens /\ \A d \in Call : call[d].set # "tokens"
                 /\ r.set = "tokens" /\ r.remember = subject /\ r.refresh_token = given' /\ cookie.refresh_token # given'
      <3>1. ~overlapped /\ ~own
        BY <2>1, <2>6
      <3>2. cookie.refresh_token = given /\ given \in Nat
        BY <1>4, OidcTypes DEF OidcInv, Oidc!Exchanges
      <3>3. cookie.refresh_token # given'
        BY <2>1, <3>2
      <3>4. r = Oidc!NewTokens
        BY <3>1
      <3> HIDE DEF r
      <3> QED
        BY <1>4, <2>1, <3>1, <3>3, <3>4, NoneOnTheirWay, NewTokensAre DEF OidcInv
    <2> HIDE DEF r
    <2>7. TokensInv' /\ SubjectInv'
      BY <1>1, <2>3, <2>6 DEF OidcInv, TokensInv, SubjectInv
    <2>8. OneUser'
      BY <1>1, <2>6 DEF OidcInv, OneUser, Matches
    <2> QED
      BY <2>5, <2>7, <2>8 DEF OidcInv
  <1> QED
    BY <1>3, <1>4

LEMMA SameCardinality == \A S : Oidc!Cardinality(S) = Cardinality(S)
  BY DEF Oidc!Cardinality, Cardinality

LEMMA LogoutKeeps ==
  ASSUME OidcInv, NEW c \in Call, NEW revoke \in BOOLEAN, Oidc!Logout(c, revoke)
  PROVE  OidcInv'
  <1> DEFINE exchanges == Oidc!Exchanges /\ ~revoke
             found == Cardinality(Oidc!Matching(cookie.remember)) = 1 /\ (stale => exchanges)
             r == IF found THEN Oidc!Forget ELSE Oidc!NoSet
  <1>1. /\ call[c] = Oidc!Idle /\ cookie.remember # None
        /\ UNCHANGED <<setup, subject, rows, cookie, stale, tab, changed>>
        /\ call' = [call EXCEPT ![c] = r]
        /\ overlapped' = (overlapped \/ (~found /\ exchanges))
        /\ exchanges => Oidc!Give
        /\ ~exchanges => given' = given /\ revoked' = (revoked \/ (revoke /\ cookie.refresh_token = given))
    BY SameCardinality, Zenon DEF Oidc!Logout
  <1>2. r \in {Oidc!Forget, Oidc!NoSet} /\ (r = Oidc!Forget \/ ~found)
    OBVIOUS
  <1> HIDE DEF found, r
  <1>3. call[c].set = "no answer" /\ r.set \in {"forget", "nothing"} /\ r \in OidcRequest
    BY <1>1, <1>2, OidcAnswers
  <1>4. /\ call' \in [Call -> OidcRequest]
        /\ \A d \in Call : call'[d] = IF d = c THEN r ELSE call[d]
    BY <1>1, <1>3, OneOidcRequest DEF OidcInv
  <1>5. OneUser'
    BY <1>1 DEF OidcInv, OneUser, Matches
  <1>6. CASE exchanges
    <2>1. given < MaxTokens /\ given' = given + 1 /\ revoked' = FALSE
      BY <1>1, <1>6 DEF Oidc!Give
    <2>2. given' \in 0..MaxTokens /\ overlapped' \in BOOLEAN
      BY <1>1, <2>1, OneMoreToken DEF OidcInv
    <2>3. Oidc!TypeOK'
      BY <1>1, <1>4, <2>1, <2>2 DEF OidcInv, Oidc!TypeOK, OidcRequest
    <2>4. ASSUME ~overlapped'
          PROVE  ~overlapped /\ r.set = "forget" /\ \A d \in Call : call[d].set # "tokens"
      <3>1. ~overlapped /\ found
        BY <1>1, <1>6, <2>4
      <3> QED
        BY <1>2, <1>6, <3>1, OidcAnswers, NoneOnTheirWay
    <2>5. TokensInv' /\ SubjectInv'
      BY <1>1, <1>4, <2>4 DEF OidcInv, TokensInv, SubjectInv
    <2> QED
      BY <1>5, <2>3, <2>5 DEF OidcInv
  <1>7. CASE ~exchanges
    <2>1. given' = given /\ revoked' = (revoked \/ (revoke /\ cookie.refresh_token = given)) /\ overlapped' = overlapped
      BY <1>1, <1>7 DEF OidcInv, Oidc!TypeOK
    <2>2. Oidc!TypeOK'
      BY <1>1, <1>4, <2>1 DEF OidcInv, Oidc!TypeOK, OidcRequest
    <2>3. TokensInv' /\ SubjectInv'
      BY <1>1, <1>3, <1>4, <2>1 DEF OidcInv, TokensInv, SubjectInv
    <2> QED
      BY <1>5, <2>2, <2>3 DEF OidcInv
  <1> QED
    BY <1>6, <1>7

LEMMA ReceiveKeeps ==
  ASSUME OidcInv, NEW c \in Call, Oidc!Receive(c)
  PROVE  OidcInv'
  <1>1. /\ call[c] # Oidc!Idle
        /\ stale' = (stale /\ call[c].set = "nothing")
        /\ call' = [call EXCEPT ![c] = Oidc!Idle]
        /\ overlapped' = (overlapped \/ (call[c] # Oidc!NoSet /\ \E d \in Call \ {c} : call[d] # Oidc!Idle))
        /\ UNCHANGED <<setup, subject, rows, given, revoked, tab, changed>>
    BY DEF Oidc!Receive
  <1>2. /\ call' \in [Call -> OidcRequest]
        /\ \A d \in Call : call'[d] = IF d = c THEN Oidc!Idle ELSE call[d]
    BY <1>1, OidcAnswers, OneOidcRequest DEF OidcInv
  <1>3. /\ call[c] \in OidcRequest /\ cookie \in Oidc!Cookies
        /\ given \in Nat /\ given # None
    BY OidcTypes DEF OidcInv, Oidc!TypeOK
  <1>4. CASE call[c].set = "nothing"
    <2>1. cookie' = cookie
      BY <1>4 DEF Oidc!Receive
    <2>2. overlapped' = overlapped /\ stale' = stale
      BY <1>1, <1>3, <1>4, OidcAnswers DEF OidcInv, Oidc!TypeOK
    <2>3. Oidc!TypeOK'
      BY <1>1, <1>2, <2>1, <2>2 DEF OidcInv, Oidc!TypeOK, OidcRequest
    <2>4. TokensInv' /\ SubjectInv'
      BY <1>1, <1>2, <1>4, <2>1, <2>2, OidcAnswers DEF OidcInv, TokensInv, SubjectInv
    <2>5. OneUser'
      BY <1>1, <2>1, <2>2 DEF OidcInv, OneUser, Matches
    <2> QED
      BY <2>3, <2>4, <2>5 DEF OidcInv
  <1>5. CASE call[c].set # "nothing"
    <2>1. call[c] # Oidc!NoSet /\ call[c].set \in {"forget", "tokens"}
      BY <1>1, <1>3, <1>5, OidcAnswers
    <2>2. ASSUME ~overlapped'
          PROVE  ~overlapped /\ \A d \in Call : call'[d].set = "no answer"
      <3>1. ~overlapped /\ ~(call[c] # Oidc!NoSet /\ \E d \in Call \ {c} : call[d] # Oidc!Idle)
        BY <1>1, <2>2, Zenon
      <3> QED
        BY <1>2, <2>1, <3>1, OidcAnswers
    <2>3. stale' = FALSE /\ overlapped' \in BOOLEAN
      BY <1>1, <1>5
    <2>4. CASE call[c].set = "forget"
      <3>1. cookie' = [cookie EXCEPT !.remember = None, !.refresh_token = None]
        BY <2>4 DEF Oidc!Receive
      <3>2. cookie' \in Oidc!Cookies /\ cookie'.remember = None /\ cookie'.refresh_token = None
        BY <1>3, <3>1 DEF Oidc!Cookies
      <3>3. Oidc!TypeOK'
        BY <1>1, <1>2, <2>3, <3>2 DEF OidcInv, Oidc!TypeOK, OidcRequest
      <3>4. TokensInv' /\ SubjectInv' /\ OneUser'
        BY <2>2, <3>2 DEF TokensInv, SubjectInv, OneUser
      <3> QED
        BY <3>3, <3>4 DEF OidcInv
    <2>5. CASE call[c].set = "tokens"
      <3>1. cookie' = [cookie EXCEPT !.remember = call[c].remember, !.refresh_token = call[c].refresh_token]
        BY <2>5 DEF Oidc!Receive
      <3>2. call[c].remember \in Oidc!Remember /\ call[c].refresh_token \in 1..MaxTokens
        BY <1>3, <2>5, OidcAnswers
      <3>3. /\ cookie' \in Oidc!Cookies /\ cookie'.remember = call[c].remember
            /\ cookie'.refresh_token = call[c].refresh_token
        BY <1>3, <3>1, <3>2 DEF Oidc!Cookies, Oidc!Tokens
      <3>4. Oidc!TypeOK'
        BY <1>1, <1>2, <2>3, <3>3 DEF OidcInv, Oidc!TypeOK, OidcRequest
      <3>5. TokensInv'
        BY <1>1, <2>2, <2>5, <3>3 DEF OidcInv, TokensInv
      <3>6. SubjectInv'
        BY <1>1, <2>2, <2>5, <3>3 DEF OidcInv, SubjectInv
      <3>7. OneUser'
        BY <1>1, <2>2, <2>5 DEF OidcInv, TokensInv, OneUser, Matches
      <3> QED
        BY <3>4, <3>5, <3>6, <3>7 DEF OidcInv
    <2> QED
      BY <2>1, <2>4, <2>5
  <1> QED
    BY <1>4, <1>5

LEMMA CookieOverKeeps ==
  ASSUME OidcInv, NEW k \in {"refresh_token", "code_verifier"}, Oidc!CookieOver(k)
  PROVE  OidcInv'
  <1>1. /\ cookie' = [cookie EXCEPT ![k] = None]
        /\ UNCHANGED <<setup, subject, rows, given, revoked, stale, tab, call, overlapped, changed>>
    BY DEF Oidc!CookieOver
  <1>2. /\ cookie' \in Oidc!Cookies /\ cookie'.remember = cookie.remember
        /\ cookie'.refresh_token \in {cookie.refresh_token, None}
    <2>1. cookie \in Oidc!Cookies
      BY DEF OidcInv, Oidc!TypeOK
    <2>2. CASE k = "refresh_token"
      BY <1>1, <2>1, <2>2 DEF Oidc!Cookies
    <2>3. CASE k = "code_verifier"
      BY <1>1, <2>1, <2>3 DEF Oidc!Cookies
    <2> QED
      BY <2>2, <2>3
  <1>3. Oidc!TypeOK'
    BY <1>1, <1>2 DEF OidcInv, Oidc!TypeOK
  <1>4. TokensInv'
    BY <1>1, <1>2, OidcTypes DEF OidcInv, TokensInv
  <1>5. SubjectInv'
    BY <1>1, <1>2 DEF OidcInv, SubjectInv
  <1>6. OneUser'
    BY <1>1, <1>2 DEF OidcInv, OneUser, Matches
  <1> QED
    BY <1>3, <1>4, <1>5, <1>6 DEF OidcInv

LEMMA SubjectChangesKeeps ==
  ASSUME OidcInv, Oidc!SubjectChanges
  PROVE  OidcInv'
  <1>1. /\ subject' \in [username : UserName, email : Mail] /\ changed' = TRUE
        /\ UNCHANGED <<setup, rows, cookie, given, revoked, stale, tab, call, overlapped>>
    BY DEF Oidc!SubjectChanges
  <1>2. Oidc!TypeOK'
    BY <1>1 DEF OidcInv, Oidc!TypeOK
  <1>3. TokensInv'
    BY <1>1 DEF OidcInv, TokensInv
  <1> QED
    BY <1>1, <1>2, <1>3 DEF OidcInv, SubjectInv, OneUser

LEMMA TokenOverKeeps ==
  ASSUME OidcInv, Oidc!TokenOver
  PROVE  OidcInv'
  <1>1. /\ stale' = TRUE
        /\ UNCHANGED <<setup, subject, rows, cookie, given, revoked, tab, call, overlapped, changed>>
    BY DEF Oidc!TokenOver
  <1>2. Oidc!TypeOK'
    BY <1>1 DEF OidcInv, Oidc!TypeOK
  <1> QED
    BY <1>1, <1>2 DEF OidcInv, TokensInv, SubjectInv, OneUser, Matches

LEMMA OidcStep == ASSUME OidcInv, [Oidc!Next]_oidcVars PROVE OidcInv'
  <1>1. CASE UNCHANGED oidcVars
    <2>1. UNCHANGED <<setup, subject, rows, cookie, given, revoked, stale, tab, call, overlapped, changed>>
      BY <1>1 DEF oidcVars
    <2>2. Oidc!TypeOK'
      BY <2>1 DEF OidcInv, Oidc!TypeOK
    <2> QED
      BY <2>1, <2>2 DEF OidcInv, TokensInv, SubjectInv, OneUser, Matches
  <1>2. CASE Oidc!Next
    BY <1>2, RefusedCallbackKeeps, OidcCallbackKeeps, OidcLoginKeeps, ReceiveKeeps, ViewKeeps, LogoutKeeps,
       TokenOverKeeps, SubjectChangesKeeps, CookieOverKeeps DEF Oidc!Next
  <1> QED
    BY <1>1, <1>2

LEMMA OnlyOidc == ASSUME part = "oidc", [PortalNext]_vars PROVE part' = "oidc" /\ [Oidc!Next]_oidcVars
  <1>1. CASE UNCHANGED vars
    BY <1>1 DEF vars, oidcVars
  <1>2. CASE PortalNext
    BY <1>2 DEF PortalNext, In, Oidc!Next
  <1> QED
    BY <1>1, <1>2

LEMMA OidcKept == PortalSpec => [](part = "oidc" => OidcInv)
  <1> DEFINE Inv == part = "oidc" => OidcInv
  <1>1. PortalInit => Inv
    BY OidcInitially DEF PortalInit, OidcInit
  <1>2. Inv /\ [PortalNext]_vars => Inv'
    <2>1. CASE part = "oidc"
      BY <2>1, OnlyOidc, OidcStep
    <2>2. CASE part # "oidc"
      BY <2>2 DEF PortalNext, In, vars
    <2> QED
      BY <2>1, <2>2
  <1> QED
    BY <1>1, <1>2, PTL DEF PortalSpec

(* The refresh token of the browser is the one that the provider gave last, when every answer reached the browser
   in order. *)
THEOREM LastTokenIsKept == PortalSpec => []RefreshTokenIsGood
  <1>1. (part = "oidc" => OidcInv) => RefreshTokenIsGood
    BY OidcAnswers DEF OidcInv, TokensInv, RefreshTokenIsGood, Oidc!RefreshTokenIsGood
  <1> QED
    BY <1>1, OidcKept, PTL

(* What the browser remembers of a subject is matched with one row, until the provider says something else. *)
THEOREM SubjectIsOneUser == PortalSpec => []RememberedIsOneUser
  <1>1. (part = "oidc" => OidcInv) => RememberedIsOneUser
    <2> SUFFICES ASSUME OidcInv, ~overlapped, setup.create_user, ~changed, cookie.remember # None
                 PROVE  Cardinality(Oidc!Matching(cookie.remember)) = 1
      BY SameCardinality, Zenon DEF RememberedIsOneUser, Oidc!RememberedIsOneUser
    <2>1. PICK n \in UserName : \A k \in UserName : Matches(k, subject) <=> k = n
      BY DEF OidcInv, OneUser
    <2>2. cookie.remember = subject
      BY DEF OidcInv, SubjectInv
    <2>3. Oidc!Matching(subject) = {n}
      BY <2>1, MatchingIs
    <2> QED
      BY <2>2, <2>3, FS_Singleton
  <1> QED
    BY <1>1, OidcKept, PTL

-----------------------------------------------------------------------------
(* The upgrade of the files of a project. *)

(* How far the upgrade is: the step that runs, or that has to be run. *)
Step == IF running = None THEN instructed ELSE running[1]

(* A run began with the step that was instructed, and does not go past 11 in one; nothing runs at the end. *)
Order ==
  /\ finished => running = None /\ instructed = None /\ markers = {}
  /\ ~finished => /\ instructed \in Files!Step \ {2} /\ instructed <= Step
                  /\ Step = 12 => instructed = 12
                  /\ Step = 13 => instructed \in {12, 13}
                  /\ Step = 14 => instructed = 14
  /\ running # None /\ running[2] = "half" => running[1] \in {1, 3, 4}

(* The markers of the steps before were taken away, but for that of the last one. *)
MarkersInv == ~finished => \A k \in markers : k >= IF running = None THEN instructed - 1 ELSE running[1]

(* The new template is there from step 5 on, and what tells about it until step 11. *)
TemplateInv ==
  ~finished => /\ Step >= 5 => template.disk = "new" /\ template.index = "new"
               /\ Step \in 5..11 => upgrade_yaml
               /\ Step >= 12 => ~upgrade_yaml

(* Nothing was committed before the last step. *)
HeadInv ==
  ~finished => /\ \A f \in File : head[f] \in {"none", "own", "old"}
               /\ running \in {<<1, "half">>, <<2, "start">>} => content = head

Owned(f) == f \in Managed \ Unmanaged

(* What may be half a file: the copy was begun when it did not belong to the owner. *)
MayBeHalf(f) ==
  f \in Template /\ (f \in Unmanaged \/ (f \notin Managed /\ (f \in Include \ Exclude => f \in NewFile)))

(* New files are of the template, and not the owner's. *)
ContentInv ==
  \A f \in File : /\ content[f] = "new" => f \in Template /\ ~Owned(f)
                  /\ content[f] = "half" => MayBeHalf(f)

(* Step 7 has taken them all. *)
Taken ==
  /\ \A f \in Template : content[f] = "half" => f \in NewFile \cap Include
  /\ \A f \in Template \ (Include \cup Extra \cup Managed) : content[f] \in {"new", "own"}

TakenInv == ~finished /\ Step >= 8 => Taken

FilesInv == Files!TypeOK /\ Order /\ MarkersInv /\ TemplateInv /\ HeadInv /\ ContentInv /\ TakenInv /\ Files!FinishedIsUpgraded

-----------------------------------------------------------------------------
LEMMA StepsAreNotNone ==
  ASSUME NEW n \in 0..14, NEW h \in {"start", "half"}
  PROVE  <<n, h>> # None /\ n # None
  BY PortalAssumption DEF Files!UpgradeAssumption

LEMMA AtIs ==
  ASSUME FilesInv, NEW n \in 0..14, NEW h \in {"start", "half"}, Files!At(n, h)
  PROVE  /\ running # None /\ running[1] = n /\ running[2] = h /\ Step = n
         /\ ~finished /\ instructed \in 0..14 /\ instructed <= n /\ \A k \in markers : k >= n
  <1>1. running = <<n, h>> /\ running # None
    BY StepsAreNotNone DEF Files!At
  <1>2. running[1] = n /\ running[2] = h /\ Step = n
    BY <1>1 DEF Step
  <1>3. ~finished
    BY <1>1 DEF FilesInv, Order
  <1> QED
    BY <1>1, <1>2, <1>3 DEF FilesInv, Order, MarkersInv, Files!Step

LEMMA RunningIs ==
  ASSUME NEW n \in 0..14, NEW h \in {"start", "half"}, running' = <<n, h>>
  PROVE  running' # None /\ running'[1] = n /\ running'[2] = h /\ Step' = n
  BY StepsAreNotNone DEF Step

(* The step that runs calls the next one, or stops and tells to run it or itself. *)
LEMMA NextStep ==
  ASSUME FilesInv, NEW n \in 0..14, NEW h \in {"start", "half"}, Files!At(n, h), NEW k \in 0..14,
         \/ Files!Go(k) /\ k = n + 1 /\ k \notin {12, 14}
         \/ Files!Stop(k) /\ k \in {n, n + 1} /\ k # 2 /\ (Files!Fine \/ Files!Trouble)
  PROVE  /\ running' \in {None} \cup (Files!Step \X {"start", "half"}) /\ markers' \in SUBSET (1..11)
         /\ instructed' \in Files!Step \cup {None} /\ troubles' \in 0..MaxTroubles
         /\ Order' /\ MarkersInv' /\ Step' = k
         /\ finished = FALSE /\ finished' = FALSE /\ Step = n /\ UNCHANGED finished
         /\ running' # <<1, "half">> /\ (running' = <<2, "start">> => k = 2)
  <1>1. /\ running # None /\ running[1] = n /\ Step = n /\ ~finished /\ instructed \in 0..14 /\ instructed <= n
        /\ \A i \in markers : i >= n
    BY AtIs
  <1>2. markers \in SUBSET (1..11) /\ finished \in BOOLEAN /\ troubles \in 0..MaxTroubles /\ MaxTroubles \in Nat
    BY PortalAssumption DEF FilesInv, Files!TypeOK, Files!UpgradeAssumption
  <1>3. CASE Files!Go(k) /\ k = n + 1 /\ k \notin {12, 14}
    <2>1. running' = <<k, "start">> /\ markers' = Files!Entered(k) /\ UNCHANGED <<troubles, finished, instructed>>
      BY <1>3 DEF Files!Go, Files!Begin
    <2>2. running' # None /\ running'[1] = k /\ running'[2] = "start" /\ Step' = k
      BY <2>1, RunningIs
    <2>3. markers' \in SUBSET (1..11) /\ \A i \in markers' : i >= k
      BY <1>1, <1>2, <1>3, <2>1 DEF Files!Entered
    <2>4. Order'
      BY <1>1, <1>3, <2>1, <2>2 DEF FilesInv, Order, Files!Step
    <2>5. MarkersInv'
      BY <2>2, <2>3 DEF MarkersInv
    <2>6. running' # <<1, "half">> /\ (running' = <<2, "start">> => k = 2)
      BY <2>2
    <2>7. running' \in {None} \cup (Files!Step \X {"start", "half"})
      BY <2>1 DEF Files!Step
    <2> QED
      BY <1>1, <1>2, <2>1, <2>2, <2>3, <2>4, <2>5, <2>6, <2>7 DEF Files!Step
  <1>4. CASE Files!Stop(k) /\ k \in {n, n + 1} /\ k # 2 /\ (Files!Fine \/ Files!Trouble)
    <2>1. running' = None /\ instructed' = k /\ UNCHANGED <<markers, finished>>
      BY <1>4 DEF Files!Stop
    <2>2. Step' = k
      BY <2>1 DEF Step
    <2>3. troubles' \in 0..MaxTroubles
      BY <1>2, <1>4 DEF Files!Fine, Files!Trouble
    <2>4. Order'
      BY <1>1, <1>2, <1>4, <2>1, <2>2 DEF Order, Files!Step
    <2>5. MarkersInv'
      BY <1>1, <1>2, <1>4, <2>1 DEF MarkersInv
    <2>6. None # <<1, "half">> /\ None # <<2, "start">>
      BY StepsAreNotNone
    <2> QED
      BY <1>1, <1>2, <2>1, <2>2, <2>3, <2>4, <2>5, <2>6 DEF Files!Step
  <1> QED
    BY <1>3, <1>4

(* The second half of a step follows the first. *)
LEMMA SecondHalf ==
  ASSUME FilesInv, NEW n \in {1, 3, 4}, Files!At(n, "start"), running' = <<n, "half">>,
         UNCHANGED <<markers, instructed, finished, troubles>>
  PROVE  /\ running' \in {None} \cup (Files!Step \X {"start", "half"}) /\ markers' \in SUBSET (1..11)
         /\ instructed' \in Files!Step \cup {None} /\ troubles' \in 0..MaxTroubles
         /\ Order' /\ MarkersInv' /\ Step' = n
         /\ finished = FALSE /\ finished' = FALSE /\ Step = n
         /\ (n # 1 => running' # <<1, "half">>) /\ running' # <<2, "start">>
  <1>1. /\ running # None /\ running[1] = n /\ Step = n /\ ~finished /\ instructed \in 0..14 /\ instructed <= n
        /\ \A i \in markers : i >= n
    BY AtIs
  <1>2. running' # None /\ running'[1] = n /\ running'[2] = "half" /\ Step' = n
    BY RunningIs
  <1>3. Order'
    BY <1>1, <1>2 DEF FilesInv, Order, Files!Step
  <1>4. MarkersInv'
    BY <1>1, <1>2 DEF MarkersInv
  <1> QED
    BY <1>1, <1>2, <1>3, <1>4 DEF FilesInv, Files!TypeOK, Files!Step

(* A step that changes no file. *)
LEMMA QuietKeeps ==
  ASSUME FilesInv, NEW n \in 0..14, NEW h \in {"start", "half"}, Files!At(n, h), NEW k \in 0..14,
         \/ Files!Go(k) /\ k = n + 1 /\ k \notin {12, 14}
         \/ Files!Stop(k) /\ k \in {n, n + 1} /\ k # 2 /\ (Files!Fine \/ Files!Trouble),
         UNCHANGED <<upgrade_yaml, template, content, head, managed_files>>,
         k \notin {5, 8, 12} \/ k = n,
         k = 2 => content = head
  PROVE  FilesInv'
  <1>1. /\ running' \in {None} \cup (Files!Step \X {"start", "half"}) /\ markers' \in SUBSET (1..11)
        /\ instructed' \in Files!Step \cup {None} /\ troubles' \in 0..MaxTroubles
        /\ Order' /\ MarkersInv' /\ Step' = k
        /\ finished = FALSE /\ finished' = FALSE /\ Step = n
        /\ running' # <<1, "half">> /\ (running' = <<2, "start">> => k = 2)
    BY NextStep
  <1>2. k \in {n, n + 1}
    BY DEF Files!Go, Files!Stop
  <1>3. Files!TypeOK'
    BY <1>1 DEF FilesInv, Files!TypeOK
  <1>4. TemplateInv'
    BY <1>1, <1>2 DEF FilesInv, TemplateInv
  <1>5. HeadInv'
    BY <1>1 DEF FilesInv, HeadInv
  <1>6. ContentInv'
    BY DEF FilesInv, ContentInv
  <1>7. TakenInv'
    BY <1>1, <1>2 DEF FilesInv, TakenInv, Taken
  <1>8. Files!FinishedIsUpgraded'
    BY <1>1 DEF Files!FinishedIsUpgraded
  <1> QED
    BY <1>1, <1>3, <1>4, <1>5, <1>6, <1>7, <1>8 DEF FilesInv

LEMMA QuietSteps ==
  ASSUME FilesInv,
         \/ Files!step0 \/ Files!step1 \/ Files!step5 \/ Files!step8 \/ Files!step9 \/ Files!step10 \/ Files!step12
  PROVE  FilesInv'
  <1>1. CASE Files!step0
    <2>1. Files!At(0, "start") /\ UNCHANGED <<upgrade_yaml, template, content, head, managed_files>>
      BY <1>1 DEF Files!step0
    <2>2. Files!Go(1) \/ ((Files!Stop(0) \/ Files!Stop(1)) /\ Files!Fine)
      BY <1>1 DEF Files!step0
    <2> QED
      BY <2>1, <2>2, QuietKeeps
  <1>2. CASE Files!step1
    <2>1. Files!At(1, "half") /\ Files!Go(2) /\ UNCHANGED <<upgrade_yaml, template, content, head, managed_files>>
      BY <1>2 DEF Files!step1
    <2>2. content = head
      BY <2>1, AtIs DEF FilesInv, HeadInv, Files!At
    <2> QED
      BY <2>1, <2>2, QuietKeeps
  <1>3. CASE Files!step5
    BY <1>3, QuietKeeps DEF Files!step5
  <1>4. CASE Files!step8
    BY <1>4, QuietKeeps DEF Files!step8, Files!GoOrStop
  <1>5. CASE Files!step9
    BY <1>5, QuietKeeps DEF Files!step9, Files!GoOrStop
  <1>6. CASE Files!step10
    BY <1>6, QuietKeeps DEF Files!step10, Files!GoOrStop
  <1>7. CASE Files!step12
    BY <1>7, QuietKeeps DEF Files!step12, Files!Error
  <1> QED
    BY <1>1, <1>2, <1>3, <1>4, <1>5, <1>6, <1>7

(* What step 1 takes from the last commit has no new file. *)
LEMMA ResetStepKeeps == ASSUME FilesInv, Files!step1_reset PROVE FilesInv'
  <1>1. /\ Files!At(1, "start") /\ running' = <<1, "half">>
        /\ content' = head /\ template' = [template EXCEPT !.disk = template.head, !.index = template.head]
        /\ UNCHANGED <<markers, instructed, upgrade_yaml, head, managed_files, finished, troubles>>
    BY DEF Files!step1_reset
  <1>2. /\ running' \in {None} \cup (Files!Step \X {"start", "half"}) /\ markers' \in SUBSET (1..11)
        /\ instructed' \in Files!Step \cup {None} /\ troubles' \in 0..MaxTroubles
        /\ Order' /\ MarkersInv' /\ Step' = 1 /\ finished = FALSE /\ finished' = FALSE
    BY <1>1, SecondHalf
  <1>3. Files!TypeOK'
    BY <1>1, <1>2 DEF FilesInv, Files!TypeOK
  <1>4. TemplateInv' /\ TakenInv'
    BY <1>2 DEF TemplateInv, TakenInv
  <1>5. HeadInv' /\ ContentInv'
    BY <1>1, <1>2 DEF FilesInv, HeadInv, ContentInv
  <1>6. Files!FinishedIsUpgraded'
    BY <1>2 DEF Files!FinishedIsUpgraded
  <1> QED
    BY <1>2, <1>3, <1>4, <1>5, <1>6 DEF FilesInv

(* Steps 2 and 3 commit what is there: the files are those of the last commit. *)
LEMMA CommitStepsKeep == ASSUME FilesInv, Files!step2 \/ Files!step3 PROVE FilesInv'
  <1>1. CASE Files!step2
    <2>1. Files!At(2, "start") /\ Files!Go(3) /\ UNCHANGED <<upgrade_yaml, content>>
      BY <1>1 DEF Files!step2
    <2>2. content = head
      BY <2>1, AtIs DEF FilesInv, HeadInv, Files!At
    <2>3. /\ head' = head
          /\ managed_files' \in [disk : BOOLEAN, head : BOOLEAN]
          /\ template' \in [disk : Files!Places, index : Files!Places, head : Files!Places]
      BY <1>1, <2>2 DEF FilesInv, Files!TypeOK, Files!step2
    <2>4. /\ running' \in {None} \cup (Files!Step \X {"start", "half"}) /\ markers' \in SUBSET (1..11)
          /\ instructed' \in Files!Step \cup {None} /\ troubles' \in 0..MaxTroubles
          /\ Order' /\ MarkersInv' /\ Step' = 3 /\ finished = FALSE /\ finished' = FALSE
          /\ running' # <<1, "half">> /\ running' # <<2, "start">>
      BY <2>1, NextStep
    <2>5. Files!TypeOK'
      BY <2>1, <2>3, <2>4 DEF FilesInv, Files!TypeOK
    <2>6. TemplateInv' /\ TakenInv' /\ Files!FinishedIsUpgraded'
      BY <2>4 DEF TemplateInv, TakenInv, Files!FinishedIsUpgraded
    <2>7. HeadInv' /\ ContentInv'
      BY <2>1, <2>3, <2>4 DEF FilesInv, HeadInv, ContentInv
    <2> QED
      BY <2>4, <2>5, <2>6, <2>7 DEF FilesInv
  <1>2. CASE Files!step3
    <2>1. /\ Files!At(3, "half") /\ Files!Go(4) /\ upgrade_yaml' = FALSE
          /\ template' = [template EXCEPT !.index = template.disk, !.head = template.disk]
          /\ UNCHANGED <<content, head, managed_files>>
      BY <1>2 DEF Files!step3
    <2>2. /\ running' \in {None} \cup (Files!Step \X {"start", "half"}) /\ markers' \in SUBSET (1..11)
          /\ instructed' \in Files!Step \cup {None} /\ troubles' \in 0..MaxTroubles
          /\ Order' /\ MarkersInv' /\ Step' = 4 /\ finished = FALSE /\ finished' = FALSE
          /\ running' # <<1, "half">> /\ running' # <<2, "start">>
      BY <2>1, NextStep
    <2>3. Files!TypeOK'
      BY <2>1, <2>2 DEF FilesInv, Files!TypeOK
    <2>4. TemplateInv' /\ TakenInv' /\ Files!FinishedIsUpgraded'
      BY <2>2 DEF TemplateInv, TakenInv, Files!FinishedIsUpgraded
    <2>5. HeadInv' /\ ContentInv'
      BY <2>1, <2>2 DEF FilesInv, HeadInv, ContentInv
    <2> QED
      BY <2>2, <2>3, <2>4, <2>5 DEF FilesInv
  <1> QED
    BY <1>1, <1>2

(* The first halves of steps 3 and 4, and their errors, change the template alone. *)
LEMMA FirstHalvesKeep == ASSUME FilesInv, Files!step3_move \/ Files!step4_remove PROVE FilesInv'
  <1> DEFINE Kept(n) == /\ running' \in {None} \cup (Files!Step \X {"start", "half"}) /\ markers' \in SUBSET (1..11)
                        /\ instructed' \in Files!Step \cup {None} /\ troubles' \in 0..MaxTroubles
                        /\ Order' /\ MarkersInv' /\ Step' = n /\ finished = FALSE /\ finished' = FALSE
                        /\ running' # <<1, "half">> /\ running' # <<2, "start">>
  <1>1. UNCHANGED <<content, head, managed_files>> /\ upgrade_yaml' \in BOOLEAN
        /\ template' \in [disk : Files!Places, index : Files!Places, head : Files!Places]
    BY DEF FilesInv, Files!TypeOK, Files!Places, Files!step3_move, Files!step4_remove
  <1>2. Kept(3) \/ Kept(4)
    <2>1. CASE Files!step3_move
      <3>1. Files!At(3, "start")
        BY <2>1 DEF Files!step3_move
      <3>2. CASE Files!Error(3)
        <4>1. Files!Stop(3) /\ Files!Trouble
          BY <3>2 DEF Files!Error
        <4> QED
          BY <3>1, <4>1, NextStep
      <3>3. CASE running' = <<3, "half">> /\ UNCHANGED <<markers, instructed, finished, troubles>>
        BY <3>1, <3>3, SecondHalf
      <3> QED
        BY <2>1, <3>2, <3>3 DEF Files!step3_move
    <2>2. CASE Files!step4_remove
      <3>1. Files!At(4, "start")
        BY <2>2 DEF Files!step4_remove
      <3>2. CASE Files!Error(4)
        <4>1. Files!Stop(4) /\ Files!Trouble
          BY <3>2 DEF Files!Error
        <4> QED
          BY <3>1, <4>1, NextStep
      <3>3. CASE running' = <<4, "half">> /\ UNCHANGED <<markers, instructed, finished, troubles>>
        BY <3>1, <3>3, SecondHalf
      <3> QED
        BY <2>2, <3>2, <3>3 DEF Files!step4_remove
    <2> QED
      BY <2>1, <2>2
  <1>3. Files!TypeOK'
    BY <1>1, <1>2 DEF FilesInv, Files!TypeOK
  <1>4. TemplateInv' /\ TakenInv' /\ Files!FinishedIsUpgraded'
    BY <1>2 DEF TemplateInv, TakenInv, Files!FinishedIsUpgraded
  <1>5. HeadInv' /\ ContentInv'
    BY <1>1, <1>2 DEF FilesInv, HeadInv, ContentInv
  <1> QED
    BY <1>2, <1>3, <1>4, <1>5 DEF FilesInv

LEMMA Step4Keeps == ASSUME FilesInv, Files!step4 PROVE FilesInv'
  <1>1. Files!At(4, "half") /\ upgrade_yaml' = TRUE /\ UNCHANGED <<content, head, managed_files>>
    BY DEF Files!step4
  <1>2. \/ Files!Go(5) /\ template' = [template EXCEPT !.disk = "new", !.index = "new"]
        \/ Files!Stop(4) /\ Files!Trouble /\ template' = [template EXCEPT !.disk = "new"]
    BY DEF Files!step4, Files!Error
  <1>3. /\ running' \in {None} \cup (Files!Step \X {"start", "half"}) /\ markers' \in SUBSET (1..11)
        /\ instructed' \in Files!Step \cup {None} /\ troubles' \in 0..MaxTroubles
        /\ Order' /\ MarkersInv' /\ finished = FALSE /\ finished' = FALSE
        /\ running' # <<1, "half">> /\ running' # <<2, "start">>
        /\ Step' = 4 \/ (Step' = 5 /\ template' = [template EXCEPT !.disk = "new", !.index = "new"])
    <2>1. CASE Files!Go(5) /\ template' = [template EXCEPT !.disk = "new", !.index = "new"]
      BY <1>1, <2>1, NextStep
    <2>2. CASE Files!Stop(4) /\ Files!Trouble
      BY <1>1, <2>2, NextStep
    <2> QED
      BY <1>2, <2>1, <2>2
  <1>4. Files!TypeOK'
    <2>1. template' \in [disk : Files!Places, index : Files!Places, head : Files!Places]
      BY <1>2 DEF FilesInv, Files!TypeOK, Files!Places
    <2> QED
      BY <1>1, <1>3, <2>1 DEF FilesInv, Files!TypeOK
  <1>5. TemplateInv'
    <2>1. CASE Step' = 4
      BY <2>1 DEF TemplateInv
    <2>2. CASE Step' = 5 /\ template' = [template EXCEPT !.disk = "new", !.index = "new"]
      <3>1. template'.disk = "new" /\ template'.index = "new"
        BY <2>2 DEF FilesInv, Files!TypeOK
      <3> QED
        BY <1>1, <2>2, <3>1 DEF TemplateInv
    <2> QED
      BY <1>3, <2>1, <2>2
  <1>6. TakenInv' /\ Files!FinishedIsUpgraded'
    BY <1>3 DEF TakenInv, Files!FinishedIsUpgraded
  <1>7. HeadInv' /\ ContentInv'
    BY <1>1, <1>3 DEF FilesInv, HeadInv, ContentInv
  <1> QED
    BY <1>3, <1>4, <1>5, <1>6, <1>7 DEF FilesInv

(* What is moved was not in the new template, so it is not new. *)
LEMMA Step6Keeps == ASSUME FilesInv, Files!step6 PROVE FilesInv'
  <1> USE PortalAssumption DEF Files!UpgradeAssumption
  <1>1. Files!At(6, "start") /\ upgrade_yaml /\ UNCHANGED <<upgrade_yaml, template, head, managed_files>>
    BY DEF Files!step6
  <1>2. (Files!Stop(7) /\ Files!Fine) \/ Files!Go(7)
    BY DEF Files!step6
  <1>3. /\ running' \in {None} \cup (Files!Step \X {"start", "half"}) /\ markers' \in SUBSET (1..11)
        /\ instructed' \in Files!Step \cup {None} /\ troubles' \in 0..MaxTroubles
        /\ Order' /\ MarkersInv' /\ Step' = 7 /\ finished = FALSE /\ finished' = FALSE /\ Step = 6
        /\ running' # <<1, "half">> /\ running' # <<2, "start">>
    <2>1. CASE Files!Stop(7) /\ Files!Fine
      BY <1>1, <2>1, NextStep
    <2>2. CASE Files!Go(7)
      BY <1>1, <2>2, NextStep
    <2> QED
      BY <1>2, <2>1, <2>2
  <1> DEFINE Source(f) == CHOOSE m \in Moved : m[2] = f /\ Files!Moves(m)
             next(f) == IF (f \in Removed /\ Files!Leaves(f)) \/ \E m \in Moved : m[1] = f /\ Files!Moves(m) THEN "none"
                        ELSE IF \E m \in Moved : m[2] = f /\ Files!Moves(m) THEN content[Source(f)[1]]
                        ELSE content[f]
  <1>4. content' = [f \in File |-> next(f)]
    BY DEF Files!step6
  <1>5. ASSUME NEW f \in File
        PROVE  \/ next(f) = "none" \/ next(f) = content[f]
               \/ \E g \in File \ Template : next(f) = content[g]
    <2>1. CASE \E m \in Moved : m[2] = f /\ Files!Moves(m)
      <3>1. Source(f) \in Moved
        BY <2>1
      <3>2. Source(f)[1] \in File \ Template
        BY <3>1
      <3> HIDE DEF Source
      <3> QED
        BY <2>1, <3>2
    <2>2. CASE ~ \E m \in Moved : m[2] = f /\ Files!Moves(m)
      BY <2>2
    <2> QED
      BY <2>1, <2>2
  <1> HIDE DEF next
  <1>6. /\ content' \in [File -> Files!Contents]
        /\ \A f \in File : \/ content'[f] = "none" \/ content'[f] = content[f]
                           \/ content'[f] \notin {"new", "half"}
    BY <1>4, <1>5 DEF FilesInv, Files!TypeOK, Files!Contents, ContentInv, MayBeHalf
  <1>7. Files!TypeOK'
    BY <1>1, <1>3, <1>6 DEF FilesInv, Files!TypeOK
  <1>8. TemplateInv'
    BY <1>1, <1>3 DEF FilesInv, TemplateInv
  <1>9. ContentInv'
    BY <1>6 DEF FilesInv, ContentInv, MayBeHalf, Owned
  <1>10. HeadInv'
    BY <1>1, <1>3 DEF FilesInv, HeadInv
  <1>11. TakenInv' /\ Files!FinishedIsUpgraded'
    BY <1>3 DEF TakenInv, Files!FinishedIsUpgraded
  <1> QED
    BY <1>3, <1>7, <1>8, <1>9, <1>10, <1>11 DEF FilesInv

(* A file that is still half a copy has become the owner's: it was new, and exists now. *)
LEMMA Step7Keeps == ASSUME FilesInv, Files!step7 PROVE FilesInv'
  <1> USE PortalAssumption DEF Files!UpgradeAssumption
  <1>1. Files!At(7, "start") /\ upgrade_yaml /\ UNCHANGED <<upgrade_yaml, template, head, managed_files>>
    BY DEF Files!step7
  <1>2. PICK some \in SUBSET Files!Got :
          /\ content' = [f \in File |-> IF f \in some THEN "new" ELSE content[f]]
          /\ (Files!Go(8) /\ some = Files!Got) \/ (Files!Stop(7) /\ Files!Trouble)
    BY DEF Files!step7, Files!Error
  <1>3. /\ running' \in {None} \cup (Files!Step \X {"start", "half"}) /\ markers' \in SUBSET (1..11)
        /\ instructed' \in Files!Step \cup {None} /\ troubles' \in 0..MaxTroubles
        /\ Order' /\ MarkersInv' /\ finished = FALSE /\ finished' = FALSE /\ Step = 7
        /\ running' # <<1, "half">> /\ running' # <<2, "start">>
        /\ Step' = 7 \/ (Step' = 8 /\ some = Files!Got)
    <2>1. CASE Files!Go(8) /\ some = Files!Got
      BY <1>1, <2>1, NextStep
    <2>2. CASE Files!Stop(7) /\ Files!Trouble
      BY <1>1, <2>2, NextStep
    <2> QED
      BY <1>2, <2>1, <2>2
  <1>4. \A f \in Files!Got : f \in Template /\ f \in File /\ ~Owned(f)
    BY DEF Files!Got, Files!IsManaged, Owned
  <1>5. Files!TypeOK'
    <2>1. content' \in [File -> Files!Contents]
      BY <1>2 DEF FilesInv, Files!TypeOK, Files!Contents
    <2> QED
      BY <1>1, <1>3, <2>1 DEF FilesInv, Files!TypeOK
  <1>6. TemplateInv'
    BY <1>1, <1>3 DEF FilesInv, TemplateInv
  <1>7. ContentInv'
    BY <1>2, <1>4 DEF FilesInv, ContentInv, MayBeHalf, Owned
  <1>8. HeadInv'
    BY <1>1, <1>3 DEF FilesInv, HeadInv
  <1>9. ASSUME some = Files!Got PROVE Taken'
    <2>1. ASSUME NEW f \in Template, content'[f] = "half" PROVE f \in NewFile \cap Include
      <3>1. f \in File /\ f \notin some /\ content[f] = "half"
        BY <1>2, <2>1
      <3>2. Files!IsManaged(f) /\ MayBeHalf(f)
        BY <1>9, <3>1 DEF FilesInv, ContentInv, Files!Got
      <3> QED
        BY <3>1, <3>2 DEF Files!IsManaged, Files!Exists, MayBeHalf
    <2>2. ASSUME NEW f \in Template \ (Include \cup Extra \cup Managed) PROVE content'[f] \in {"new", "own"}
      <3>1. f \in Files!Got
        BY <2>2 DEF Files!Got, Files!IsManaged
      <3> QED
        BY <1>2, <1>9, <3>1
    <2> QED
      BY <2>1, <2>2 DEF Taken
  <1>10. TakenInv'
    BY <1>3, <1>9 DEF TakenInv
  <1>11. Files!FinishedIsUpgraded'
    BY <1>3 DEF Files!FinishedIsUpgraded
  <1> QED
    BY <1>3, <1>5, <1>6, <1>7, <1>8, <1>10, <1>11 DEF FilesInv

LEMMA LateStepsKeep == ASSUME FilesInv, Files!step11 \/ Files!step13 PROVE FilesInv'
  <1> DEFINE Kept(n) == /\ running' \in {None} \cup (Files!Step \X {"start", "half"}) /\ markers' \in SUBSET (1..11)
                        /\ instructed' \in Files!Step \cup {None} /\ troubles' \in 0..MaxTroubles
                        /\ Order' /\ MarkersInv' /\ Step' = n /\ Step = n - 1 /\ finished = FALSE /\ finished' = FALSE
                        /\ running' # <<1, "half">> /\ running' # <<2, "start">>
  <1>1. UNCHANGED <<content, head, managed_files>>
    BY DEF Files!step11, Files!step13
  <1>2. Kept(12) \/ Kept(14)
    <2>1. CASE Files!step11
      <3>1. Files!At(11, "start") /\ Files!Stop(12) /\ Files!Fine
        BY <2>1 DEF Files!step11
      <3> QED
        BY <3>1, NextStep
    <2>2. CASE Files!step13
      <3>1. Files!At(13, "start") /\ Files!Stop(14) /\ Files!Fine
        BY <2>2 DEF Files!step13
      <3> QED
        BY <3>1, NextStep
    <2> QED
      BY <2>1, <2>2
  <1>3. /\ upgrade_yaml' = FALSE /\ template'.disk = "new" /\ template'.index = "new"
        /\ template' \in [disk : Files!Places, index : Files!Places, head : Files!Places]
    <2>1. template.disk = "new" /\ template.index = "new"
          /\ template \in [disk : Files!Places, index : Files!Places, head : Files!Places]
      BY <1>2 DEF FilesInv, TemplateInv, Files!TypeOK
    <2>2. CASE Files!step11
      BY <2>1, <2>2 DEF Files!step11
    <2>3. CASE Files!step13
      <3>1. Files!At(13, "start")
        BY <2>3 DEF Files!step13
      <3>2. Step = 13
        BY <3>1, AtIs
      <3>3. upgrade_yaml = FALSE
        BY <1>2, <3>2 DEF FilesInv, TemplateInv, Files!TypeOK
      <3> QED
        BY <2>1, <2>3, <3>3 DEF Files!step13
    <2> QED
      BY <2>2, <2>3
  <1>4. Files!TypeOK'
    BY <1>1, <1>2, <1>3 DEF FilesInv, Files!TypeOK
  <1>5. TemplateInv'
    BY <1>2, <1>3 DEF TemplateInv
  <1>6. HeadInv' /\ ContentInv'
    BY <1>1, <1>2 DEF FilesInv, HeadInv, ContentInv
  <1>7. TakenInv'
    BY <1>1, <1>2 DEF FilesInv, TakenInv, Taken
  <1>8. Files!FinishedIsUpgraded'
    BY <1>2 DEF Files!FinishedIsUpgraded
  <1> QED
    BY <1>2, <1>4, <1>5, <1>6, <1>7, <1>8 DEF FilesInv

(* The last step commits the template that is in the index and the files that were taken. *)
LEMMA Step14Keeps == ASSUME FilesInv, Files!step14 PROVE FilesInv'
  <1> USE PortalAssumption DEF Files!UpgradeAssumption
  <1>1. /\ Files!At(14, "start") /\ running' = None /\ instructed' = None /\ finished' = TRUE
        /\ head' = content /\ template' = [template EXCEPT !.head = template.index]
        /\ managed_files' = [managed_files EXCEPT !.head = managed_files.disk]
        /\ UNCHANGED <<markers, upgrade_yaml, content, troubles>>
    BY DEF Files!step14
  <1>2. Step = 14 /\ ~finished /\ \A k \in markers : k >= 14
    BY <1>1, AtIs
  <1>3. markers = {}
    BY <1>2 DEF FilesInv, Files!TypeOK
  <1>4. template.index = "new" /\ ~upgrade_yaml /\ Taken
    BY <1>2 DEF FilesInv, TemplateInv, TakenInv
  <1>5. Files!TypeOK'
    BY <1>1 DEF FilesInv, Files!TypeOK
  <1>6. Order' /\ MarkersInv' /\ TemplateInv' /\ HeadInv' /\ TakenInv'
    BY <1>1, <1>3 DEF Order, MarkersInv, TemplateInv, HeadInv, TakenInv
  <1>7. ContentInv'
    BY <1>1 DEF FilesInv, ContentInv
  <1>8. Files!FinishedIsUpgraded'
    <2>1. template'.head = "new" /\ markers' = {} /\ ~upgrade_yaml'
      BY <1>1, <1>3, <1>4 DEF FilesInv, Files!TypeOK
    <2>2. \A f \in Managed \ Unmanaged : head'[f] # "new"
      <3> SUFFICES ASSUME NEW f \in Managed \ Unmanaged, content[f] = "new" PROVE FALSE
        BY <1>1
      <3> QED
        BY DEF FilesInv, ContentInv, Owned
    <2> QED
      BY <1>1, <1>4, <2>1, <2>2 DEF Files!FinishedIsUpgraded, Taken
  <1> QED
    BY <1>5, <1>6, <1>7, <1>8 DEF FilesInv

(* ./upgrade begins with the step that was instructed, with the first ones, or past the checkers. *)
LEMMA RunStepKeeps == ASSUME FilesInv, NEW n \in 0..14, Files!RunStep(n) PROVE FilesInv'
  <1>1. /\ running = None /\ ~finished
        /\ n = instructed \/ n \in {0, 1} \/ (n = 13 /\ instructed = 12 /\ 11 \notin markers)
        /\ running' = <<n, "start">> /\ markers' = Files!Entered(n) /\ instructed' = n
        /\ UNCHANGED <<troubles, finished, upgrade_yaml, template, content, head, managed_files>>
    BY DEF Files!RunStep, Files!Begin
  <1>2. instructed \in 0..14 \ {2} /\ Step = instructed /\ markers \in SUBSET (1..11) /\ finished \in BOOLEAN
        /\ \A k \in markers : k >= instructed - 1
    BY <1>1 DEF FilesInv, Order, Step, MarkersInv, Files!TypeOK, Files!Step
  <1>3. running' # None /\ running'[1] = n /\ running'[2] = "start" /\ Step' = n
    BY <1>1, RunningIs
  <1>4. n # 2
    BY <1>1, <1>2
  <1>5. markers' \in SUBSET (1..11) /\ \A k \in markers' : k >= n
    BY <1>1, <1>2 DEF Files!Entered
  <1>6. Files!TypeOK'
    <2>1. running' \in Files!Step \X {"start", "half"}
      BY <1>1 DEF Files!Step
    <2> QED
      BY <1>1, <1>5, <2>1 DEF FilesInv, Files!TypeOK, Files!Step
  <1>7. Order'
    BY <1>1, <1>3, <1>4 DEF Order, Files!Step
  <1>8. MarkersInv'
    BY <1>3, <1>5 DEF MarkersInv
  <1>9. TemplateInv'
    BY <1>1, <1>2, <1>3 DEF FilesInv, TemplateInv
  <1>10. HeadInv'
    <2>1. running' # <<1, "half">> /\ running' # <<2, "start">>
      BY <1>3, <1>4
    <2> QED
      BY <1>1, <2>1 DEF FilesInv, HeadInv
  <1>11. ContentInv'
    BY <1>1 DEF FilesInv, ContentInv
  <1>12. TakenInv'
    BY <1>1, <1>2, <1>3 DEF FilesInv, TakenInv, Taken
  <1>13. Files!FinishedIsUpgraded'
    BY <1>1 DEF Files!FinishedIsUpgraded
  <1> QED
    BY <1>6, <1>7, <1>8, <1>9, <1>10, <1>11, <1>12, <1>13 DEF FilesInv

(* After an interruption the step that was instructed is run again, which is not past the interrupted one. *)
LEMMA InterruptKeeps == ASSUME FilesInv, Files!Interrupt PROVE FilesInv'
  <1> USE PortalAssumption DEF Files!UpgradeAssumption
  <1>1. /\ running # None /\ Files!Trouble /\ running' = None
        /\ UNCHANGED <<markers, instructed, upgrade_yaml, template, head, finished>>
    BY DEF Files!Interrupt
  <1>2. managed_files' \in [disk : BOOLEAN, head : BOOLEAN] /\ troubles' \in 0..MaxTroubles
    BY <1>1 DEF FilesInv, Files!TypeOK, Files!Trouble, Files!Interrupt
  <1>3. ~finished /\ Step = running[1] /\ Step' = instructed /\ instructed \in 0..14 \ {2} /\ instructed <= Step
    BY <1>1 DEF FilesInv, Order, Step, Files!Step
  <1>4. Step \in 0..14 /\ (Step >= 12 => instructed >= 12) /\ (Step = 12 => instructed = 12)
        /\ (Step = 13 => instructed \in {12, 13}) /\ (Step = 14 => instructed = 14)
    BY <1>1, <1>3 DEF FilesInv, Order, Files!TypeOK, Files!Step
  <1>5. PICK half \in SUBSET Files!Got :
          /\ half # {} => Step = 7
          /\ content' = [f \in File |-> IF f \in half THEN "half" ELSE content[f]]
    <2>1. CASE UNCHANGED content
      <3>1. content' = [f \in File |-> IF f \in {} THEN "half" ELSE content[f]]
        BY <2>1 DEF FilesInv, Files!TypeOK
      <3>2. {} \in SUBSET Files!Got
        OBVIOUS
      <3> QED
        BY <3>1, <3>2, Zenon
    <2>2. ASSUME Files!At(7, "start"), NEW f \in Files!Got, content' = [content EXCEPT ![f] = "half"]
          PROVE  \E half \in SUBSET Files!Got :
                   /\ half # {} => Step = 7
                   /\ content' = [g \in File |-> IF g \in half THEN "half" ELSE content[g]]
      <3>1. Step = 7
        BY <2>2, AtIs
      <3>2. content' = [g \in File |-> IF g \in {f} THEN "half" ELSE content[g]]
        BY <2>2 DEF FilesInv, Files!TypeOK
      <3> QED
        BY <3>1, <3>2
    <2> QED
      BY <2>1, <2>2 DEF Files!Interrupt
  <1>6. \A f \in Files!Got : MayBeHalf(f)
    BY DEF Files!Got, Files!IsManaged, MayBeHalf
  <1>7. Files!TypeOK'
    <2>1. content' \in [File -> Files!Contents]
      BY <1>5 DEF FilesInv, Files!TypeOK, Files!Contents
    <2> QED
      BY <1>1, <1>2, <2>1 DEF FilesInv, Files!TypeOK
  <1>8. Order'
    BY <1>1, <1>3 DEF Order, Files!Step
  <1>9. MarkersInv'
    BY <1>1, <1>3, <1>4 DEF FilesInv, MarkersInv, Files!TypeOK
  <1>10. TemplateInv'
    BY <1>1, <1>3, <1>4 DEF FilesInv, TemplateInv
  <1>11. HeadInv'
    BY <1>1, StepsAreNotNone DEF FilesInv, HeadInv
  <1>12. ContentInv'
    BY <1>5, <1>6 DEF FilesInv, ContentInv
  <1>13. TakenInv'
    <2> SUFFICES ASSUME instructed >= 8 PROVE Taken'
      BY <1>1, <1>3 DEF TakenInv
    <2>1. half = {} /\ Taken
      BY <1>3, <1>4, <1>5 DEF FilesInv, TakenInv
    <2> QED
      BY <1>5, <2>1 DEF Taken
  <1>14. Files!FinishedIsUpgraded'
    BY <1>1, <1>3 DEF Files!FinishedIsUpgraded
  <1> QED
    BY <1>7, <1>8, <1>9, <1>10, <1>11, <1>12, <1>13, <1>14 DEF FilesInv

(* What the owner writes is the owner's. *)
LEMMA OwnerKeeps == ASSUME FilesInv, Files!FillManagedFiles \/ \E f \in File : Files!Edit(f) PROVE FilesInv'
  <1> USE PortalAssumption DEF Files!UpgradeAssumption
  <1>1. running = None /\ UNCHANGED <<running, markers, instructed, upgrade_yaml, template, head, finished>>
    BY DEF Files!FillManagedFiles, Files!Edit
  <1>2. Step' = Step /\ running # <<1, "half">> /\ running # <<2, "start">>
    BY <1>1, StepsAreNotNone DEF Step
  <1>3. Order' /\ MarkersInv' /\ TemplateInv' /\ HeadInv' /\ Files!FinishedIsUpgraded'
    <2>1. Order'
      BY <1>1, <1>2 DEF FilesInv, Order
    <2>2. MarkersInv' /\ Files!FinishedIsUpgraded'
      BY <1>1 DEF FilesInv, MarkersInv, Files!FinishedIsUpgraded
    <2>3. TemplateInv' /\ HeadInv'
      BY <1>1, <1>2 DEF FilesInv, TemplateInv, HeadInv
    <2> QED
      BY <2>1, <2>2, <2>3
  <1>4. CASE Files!FillManagedFiles
    <2>1. managed_files' = [managed_files EXCEPT !.disk = TRUE] /\ UNCHANGED <<content, troubles>>
      BY <1>4 DEF Files!FillManagedFiles
    <2>2. Files!TypeOK'
      BY <1>1, <2>1 DEF FilesInv, Files!TypeOK
    <2>3. ContentInv' /\ TakenInv'
      BY <1>1, <1>2, <2>1 DEF FilesInv, ContentInv, TakenInv, Taken
    <2> QED
      BY <1>3, <2>2, <2>3 DEF FilesInv
  <1>5. ASSUME NEW f \in File, Files!Edit(f) PROVE FilesInv'
    <2>1. /\ content' = [content EXCEPT ![f] = "own"] /\ Files!Trouble /\ UNCHANGED managed_files
      BY <1>5 DEF Files!Edit
    <2>2. content' = [g \in File |-> IF g = f THEN "own" ELSE content[g]]
      BY <2>1 DEF FilesInv, Files!TypeOK
    <2>3. content' \in [File -> Files!Contents]
      BY <2>2 DEF FilesInv, Files!TypeOK, Files!Contents
    <2>4. Files!TypeOK'
      BY <1>1, <2>1, <2>3 DEF FilesInv, Files!TypeOK, Files!Trouble
    <2>5. ContentInv'
      BY <2>2 DEF FilesInv, ContentInv
    <2>6. TakenInv'
      <3> SUFFICES ASSUME Taken PROVE Taken'
        BY <1>1, <1>2 DEF FilesInv, TakenInv
      <3> QED
        BY <2>2 DEF Taken
    <2> QED
      BY <1>3, <2>4, <2>5, <2>6 DEF FilesInv
  <1> QED
    BY <1>4, <1>5

LEMMA FilesInitially == ASSUME Files!Init PROVE FilesInv
  <1> USE PortalAssumption DEF Files!UpgradeAssumption
  <1>1. /\ running = None /\ markers = {} /\ instructed = 0 /\ upgrade_yaml = FALSE
        /\ template = [disk |-> "old", index |-> "old", head |-> "old"]
        /\ head \in [File -> {"none", "own", "old"}] /\ content = head
        /\ managed_files \in [disk : BOOLEAN, head : {FALSE}] /\ finished = FALSE /\ troubles = 0
    BY DEF Files!Init
  <1>2. Step = 0
    BY <1>1 DEF Step
  <1>3. Files!TypeOK
    <2>1. template \in [disk : Files!Places, index : Files!Places, head : Files!Places]
      BY <1>1 DEF Files!Places
    <2>2. content \in [File -> Files!Contents] /\ head \in [File -> Files!Contents]
      BY <1>1 DEF Files!Contents
    <2>3. managed_files \in [disk : BOOLEAN, head : BOOLEAN]
      BY <1>1
    <2>4. troubles \in 0..MaxTroubles /\ instructed \in Files!Step \cup {None}
      BY <1>1 DEF Files!Step
    <2> QED
      BY <1>1, <2>1, <2>2, <2>3, <2>4 DEF Files!TypeOK
  <1>4. Order /\ MarkersInv /\ TemplateInv /\ TakenInv /\ Files!FinishedIsUpgraded
    BY <1>1, <1>2 DEF Order, MarkersInv, TemplateInv, TakenInv, Files!FinishedIsUpgraded, Files!Step
  <1>5. HeadInv /\ ContentInv
    BY <1>1 DEF HeadInv, ContentInv
  <1> QED
    BY <1>3, <1>4, <1>5 DEF FilesInv

LEMMA FilesStep == ASSUME FilesInv, [Files!Next]_filesVars PROVE FilesInv'
  <1>1. CASE UNCHANGED filesVars
    <2>1. UNCHANGED <<running, markers, instructed, upgrade_yaml, template, content, head, managed_files, finished,
                      troubles>>
      BY <1>1 DEF filesVars
    <2>2. Files!TypeOK'
      BY <2>1 DEF FilesInv, Files!TypeOK
    <2>3. Order' /\ MarkersInv' /\ TemplateInv' /\ HeadInv'
      BY <2>1 DEF FilesInv, Order, MarkersInv, TemplateInv, HeadInv, Step
    <2>4. ContentInv' /\ TakenInv' /\ Files!FinishedIsUpgraded'
      BY <2>1 DEF FilesInv, ContentInv, TakenInv, Taken, Step, Files!FinishedIsUpgraded
    <2> QED
      BY <2>2, <2>3, <2>4 DEF FilesInv
  <1>2. CASE Files!Next
    <2>1. CASE \E n \in Files!Step : Files!RunStep(n)
      BY <2>1, RunStepKeeps DEF Files!Step
    <2>2. CASE Files!step0 \/ Files!step1 \/ Files!step5 \/ Files!step8 \/ Files!step9 \/ Files!step10 \/ Files!step12
      BY <2>2, QuietSteps
    <2>3. CASE Files!step1_reset \/ Files!step2 \/ Files!step3 \/ Files!step3_move \/ Files!step4_remove \/ Files!step4
      BY <2>3, ResetStepKeeps, CommitStepsKeep, FirstHalvesKeep, Step4Keeps
    <2>4. CASE Files!step6 \/ Files!step7 \/ Files!step11 \/ Files!step13 \/ Files!step14
      BY <2>4, Step6Keeps, Step7Keeps, LateStepsKeep, Step14Keeps
    <2>5. CASE Files!Interrupt \/ Files!FillManagedFiles \/ \E f \in File : Files!Edit(f)
      BY <2>5, InterruptKeeps, OwnerKeeps
    <2> QED
      BY <1>2, <2>1, <2>2, <2>3, <2>4, <2>5 DEF Files!Next
  <1> QED
    BY <1>1, <1>2

LEMMA OnlyFiles == ASSUME part = "files", [PortalNext]_vars PROVE part' = "files" /\ [Files!Next]_filesVars
  <1>1. CASE UNCHANGED vars
    BY <1>1 DEF vars, filesVars
  <1>2. CASE PortalNext
    BY <1>2 DEF PortalNext, In, Files!Next
  <1> QED
    BY <1>1, <1>2

LEMMA FilesKept == PortalSpec => [](part = "files" => FilesInv)
  <1> DEFINE Inv == part = "files" => FilesInv
  <1>1. PortalInit => Inv
    BY FilesInitially DEF PortalInit, FilesInit
  <1>2. Inv /\ [PortalNext]_vars => Inv'
    <2>1. CASE part = "files"
      BY <2>1, OnlyFiles, FilesStep
    <2>2. CASE part # "files"
      BY <2>2 DEF PortalNext, In, vars
    <2> QED
      BY <2>1, <2>2
  <1> QED
    BY <1>1, <1>2, PTL DEF PortalSpec

(* An upgrade that ends has committed the new template and all that it had to take, and left nothing behind, whatever
   was interrupted, failed, edited or begun again on the way; and a step that the owner is told to run finds what it
   needs. *)
THEOREM UpgradesEndComplete == PortalSpec => []UpgradesAreComplete
  <1>1. (part = "files" => FilesInv) => UpgradesAreComplete
    <2> SUFFICES ASSUME FilesInv PROVE Files!FinishedIsUpgraded /\ Files!InstructedStepRuns
      BY DEF UpgradesAreComplete
    <2>1. Files!FinishedIsUpgraded
      BY DEF FilesInv
    <2>2. ASSUME instructed \in {6, 7, 8, 9, 10, 11, 12}
          PROVE  (upgrade_yaml \/ instructed = 12) /\ template.index = "new"
      <3>1. ~finished
        BY <2>2, PortalAssumption DEF FilesInv, Order, Files!UpgradeAssumption
      <3>2. Step \in 0..14 /\ instructed <= Step /\ (Step >= 12 => instructed >= 12)
        BY <2>2, <3>1 DEF FilesInv, Order, Step, Files!TypeOK, Files!Step
      <3> QED
        BY <2>2, <3>1, <3>2 DEF FilesInv, TemplateInv
    <2> QED
      BY <2>1, <2>2 DEF Files!InstructedStepRuns
  <1> QED
    BY <1>1, FilesKept, PTL

=============================================================================
