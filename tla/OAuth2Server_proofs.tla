------------------------- MODULE OAuth2Server_proofs -------------------------
(***************************************************************************)
(* Proofs about OAuth2Server, for any clients, users, codes and number of  *)
(* concurrent requests: its types, that it keeps the promise of            *)
(* OneTimeCode, that nothing is left of a deleted user or client, and that *)
(* a code goes to who has the verifier of its own challenge.               *)
(***************************************************************************)
EXTENDS OAuth2Server, TLAPS

(* A request is well typed, and works on a code unless it is a refresh. *)
RequestOK(r) ==
  r \in Request /\ (r.pc \notin {"idle", "refresh"} => r.code \in Code /\ r.row \in Code)

LEMMA NoRequestType ==
  \A g \in Grant : RequestOK(NoRequest(g)) /\ RequestOK([NoRequest(g) EXCEPT !.pc = "refresh"])
BY DEF NoRequest, RequestOK, Request, CodeOrNone

(* Replacing the request of one thread. *)
LEMMA OneRequest ==
  ASSUME TypeOK, NEW t \in Thread, NEW r, RequestOK(r), tx' = [tx EXCEPT ![t] = r]
  PROVE  /\ tx' \in [Thread -> Request]
         /\ \A u \in Thread : tx'[u].pc \notin {"idle", "refresh"} =>
              tx'[u].code \in Code /\ tx'[u].row \in Code
<1>1. tx' \in [Thread -> Request]
  BY DEF TypeOK, RequestOK
<1>2. \A u \in Thread : tx'[u] = IF u = t THEN r ELSE tx[u]
  BY DEF TypeOK
<1> QED
  BY <1>1, <1>2 DEF TypeOK, RequestOK

LEMMA RollbackType ==
  ASSUME TypeOK, NEW t \in Thread, Rollback(t)
  PROVE  TypeOK'
<1>1. RequestOK(NoRequest(tx[t].grant))
  BY NoRequestType DEF TypeOK, Request
<1>2. tx' = [tx EXCEPT ![t] = NoRequest(tx[t].grant)]
  BY DEF Rollback
<1> QED
  BY <1>1, <1>2, OneRequest DEF Rollback, TypeOK

LEMMA SavedCodeType ==
  ASSUME TypeOK, LockInv, NEW t \in Thread, tx[t].pc = "flushed"
  PROVE  SavedCode(t) \in Row
<1>1. tx[t] \in Request /\ tx[t].code \in Code /\ tx[t].row \in Code
  BY DEF TypeOK
<1>2. CASE tx[t].isnew
  BY <1>1, <1>2 DEF SavedCode, Row, Request, CodeOrNone
<1>3. CASE ~tx[t].isnew
  <2>1. codes[tx[t].grant] \in Row
    BY <1>1, <1>3 DEF LockInv, TypeOK, Request
  <2> QED
    BY <1>1, <1>3, <2>1 DEF SavedCode, Row, Request
<1> QED
  BY <1>2, <1>3

(* Every step changes the state within its types. *)
LEMMA TypeStep == TypeOK /\ LockInv /\ [Next]_vars => TypeOK'
<1> SUFFICES ASSUME TypeOK, LockInv, [Next]_vars PROVE TypeOK'
  OBVIOUS
<1>1. ASSUME NEW t \in Thread, NEW g \in Grant, NEW n \in Code,
             NEW s \in CodeOrNone, NEW v \in CodeOrNone, Authorize(t, g, n, s, v)
      PROVE  TypeOK'
  <2> DEFINE r == [pc |-> "authorize", grant |-> g, code |-> n,
                   row |-> IF codes[g] = None THEN n ELSE codes[g].id,
                   isnew |-> codes[g] = None,
                   state |-> s, challenge |-> v, pkce |-> FALSE]
  <2>1. codes[g] # None => codes[g].id \in Code
    BY DEF TypeOK, Row
  <2>2. RequestOK(r)
    BY <2>1 DEF RequestOK, Request, CodeOrNone
  <2>3. tx' = [tx EXCEPT ![t] = r]
    BY <1>1 DEF Authorize
  <2> HIDE DEF r
  <2> QED
    BY <1>1, <2>2, <2>3, OneRequest DEF Authorize, TypeOK
<1>2. ASSUME NEW t \in Thread, NEW g \in Grant, NEW n \in Code,
             NEW s \in CodeOrNone, NEW v \in CodeOrNone, Exchange(t, g, n, s, v)
      PROVE  TypeOK'
  <2> DEFINE r == [pc |-> "validated", grant |-> g, code |-> n, row |-> codes[g].id,
                   isnew |-> FALSE, state |-> None, challenge |-> v, pkce |-> FALSE]
  <2>1. codes[g].id \in Code
    BY <1>2 DEF Exchange, CodeValid, Holds, TypeOK, Row
  <2>2. RequestOK(r)
    BY <2>1 DEF RequestOK, Request, CodeOrNone
  <2>3. tx' = [tx EXCEPT ![t] = r]
    BY <1>2 DEF Exchange
  <2> HIDE DEF r
  <2> QED
    BY <1>2, <2>2, <2>3, OneRequest DEF Exchange, TypeOK
<1>3. ASSUME NEW t \in Thread, NEW g \in Grant, Refresh(t, g) PROVE TypeOK'
  <2>1. tx' = [tx EXCEPT ![t] = [NoRequest(g) EXCEPT !.pc = "refresh"]]
    BY <1>3 DEF Refresh
  <2> QED
    BY <1>3, <2>1, NoRequestType, OneRequest DEF Refresh, TypeOK
<1>4. ASSUME NEW t \in Thread, AuthorizeFlush(t) PROVE TypeOK'
  <2> DEFINE r == [tx[t] EXCEPT !.pc = "flushed", !.pkce = required[tx[t].grant[1]].pkce]
  <2>1. CASE Rollback(t)
    BY <2>1, RollbackType
  <2>2. CASE ~Rollback(t)
    <3>1. /\ tx' = [tx EXCEPT ![t] = r]
          /\ UNCHANGED <<exist, required, codes, tokens, given, answers>>
      BY <1>4, <2>2 DEF AuthorizeFlush
    <3>2. required[tx[t].grant[1]].pkce \in BOOLEAN
      BY DEF TypeOK, Request, Grant
    <3>3. RequestOK(r)
      BY <1>4, <3>2 DEF TypeOK, RequestOK, Request, AuthorizeFlush
    <3> HIDE DEF r
    <3> QED
      BY <3>1, <3>3, OneRequest DEF TypeOK
  <2> QED
    BY <2>1, <2>2
<1>5. ASSUME NEW t \in Thread, AuthorizeCommit(t) PROVE TypeOK'
  <2>1. CASE Rollback(t)
    BY <2>1, RollbackType
  <2>2. CASE ~Rollback(t)
    <3> DEFINE r == tx[t]
    <3>0. /\ r.pc = "flushed"
          /\ codes' = [codes EXCEPT ![r.grant] = SavedCode(t)]
          /\ given' = [given EXCEPT ![r.code] =
               [state |-> r.state, challenged |-> r.pkce /\ r.challenge # None]]
          /\ tx' = [tx EXCEPT ![t] = NoRequest(r.grant)]
          /\ UNCHANGED <<exist, required, tokens, answers>>
      BY <1>5, <2>2 DEF AuthorizeCommit
    <3>1. r \in Request /\ r.code \in Code /\ r.row \in Code
      BY <3>0 DEF TypeOK
    <3>2. SavedCode(t) \in Row
      BY <3>0, SavedCodeType
    <3>3. codes' \in [Grant -> Row \cup {None}]
      BY <3>0, <3>1, <3>2 DEF TypeOK
    <3>4. given' \in [Code -> Given \cup {None}]
      BY <3>0, <3>1 DEF TypeOK, Given, Request
    <3>5. RequestOK(NoRequest(r.grant))
      BY <3>1, NoRequestType DEF Request
    <3> QED
      BY <3>0, <3>3, <3>4, <3>5, OneRequest DEF TypeOK
  <2> QED
    BY <2>1, <2>2
<1>6. ASSUME NEW t \in Thread, SaveToken(t) PROVE TypeOK'
  <2> DEFINE r == [tx[t] EXCEPT !.pc = "saving", !.isnew = ~tokens[tx[t].grant]]
  <2>1. RequestOK(r)
    <3>1. tx[t] \in Request /\ RequestOK(tx[t])
      BY <1>6 DEF TypeOK, RequestOK
    <3>2. tokens[tx[t].grant] \in BOOLEAN
      BY <1>6, <3>1 DEF TypeOK, Request
    <3> QED
      BY <1>6, <3>1, <3>2 DEF RequestOK, Request, SaveToken
  <2>2. tx' = [tx EXCEPT ![t] = r]
    BY <1>6 DEF SaveToken
  <2> HIDE DEF r
  <2> QED
    BY <1>6, <2>1, <2>2, OneRequest DEF SaveToken, TypeOK
<1>7. ASSUME NEW t \in Thread, InvalidateCode(t) PROVE TypeOK'
  <2> DEFINE r == [tx[t] EXCEPT !.pc = "found", !.row = codes[tx[t].grant].id]
  <2>1. CASE Rollback(t)
    BY <2>1, RollbackType
  <2>2. CASE ~Rollback(t)
    <3>1. /\ tx' = [tx EXCEPT ![t] = r]
          /\ UNCHANGED <<exist, required, codes, tokens, given, answers>>
          /\ codes[tx[t].grant] # None /\ tx[t].pc = "saving"
      BY <1>7, <2>2 DEF InvalidateCode, Holds
    <3>2. codes[tx[t].grant].id \in Code
      BY <3>1 DEF TypeOK, Request, Row
    <3>3. RequestOK(r)
      BY <3>1, <3>2 DEF TypeOK, RequestOK, Request, CodeOrNone
    <3> HIDE DEF r
    <3> QED
      BY <3>1, <3>3, OneRequest DEF TypeOK
  <2> QED
    BY <2>1, <2>2
<1>8. ASSUME NEW t \in Thread, ExchangeCommit(t) PROVE TypeOK'
  <2>1. RequestOK(NoRequest(tx[t].grant)) /\ tx[t].grant \in Grant
    BY NoRequestType DEF TypeOK, Request
  <2>2. tx' = [tx EXCEPT ![t] = NoRequest(tx[t].grant)]
    BY <1>8 DEF ExchangeCommit
  <2>3. codes' \in [Grant -> Row \cup {None}]
    BY <1>8, <2>1 DEF ExchangeCommit, TypeOK
  <2>4. tokens' \in [Grant -> BOOLEAN]
    BY <1>8, <2>1, Zenon DEF ExchangeCommit, TypeOK
  <2>5. answers' \in [Code -> Nat]
    BY <1>8 DEF ExchangeCommit, TypeOK
  <2> QED
    BY <1>8, <2>1, <2>2, <2>3, <2>4, <2>5, OneRequest DEF ExchangeCommit, TypeOK
<1>9. ASSUME NEW t \in Thread, RefreshCommit(t) \/ RequestFails(t) PROVE TypeOK'
  BY <1>9, RollbackType DEF RefreshCommit, RequestFails
<1>10. ASSUME NEW g \in Grant, CodeExpires(g) PROVE TypeOK'
  BY <1>10 DEF CodeExpires, TypeOK, Row
<1>11. ASSUME NEW c \in Client, NEW r \in [state : BOOLEAN, pkce : BOOLEAN], SetRequired(c, r)
       PROVE TypeOK'
  BY <1>11 DEF SetRequired, TypeOK
<1>12. ASSUME NEW x \in exist, Delete(x) PROVE TypeOK'
  <2>1. exist' \subseteq Client \cup User
    BY <1>12 DEF Delete, TypeOK
  <2>2. codes' \in [Grant -> Row \cup {None}]
    BY <1>12 DEF Delete, TypeOK
  <2>3. tokens' \in [Grant -> BOOLEAN]
    BY <1>12, Zenon DEF Delete, TypeOK
  <2> QED
    BY <1>12, <2>1, <2>2, <2>3 DEF Delete, TypeOK
<1>13. CASE UNCHANGED vars
  BY <1>13 DEF vars, TypeOK
<1> QED
  BY <1>1, <1>2, <1>3, <1>4, <1>5, <1>6, <1>7, <1>8, <1>9, <1>10, <1>11, <1>12,
     <1>13 DEF Next, Receive, Step

(* What a step that only replaces the request of one thread has to respect.  *)
LEMMA LocalStep ==
  ASSUME TypeOK, CodeInv, NEW t \in Thread, NEW r,
         tx' = [tx EXCEPT ![t] = r], UNCHANGED <<codes, given, answers>>,
         r.pc = "found" =>
           /\ Unanswered(r.code)
           /\ \A g \in Grant : Holds(g, r.code) => g = r.grant /\ codes[g].id = r.row
           /\ \A u \in Thread : tx[u].pc = "found" /\ tx[u].code = r.code => u = t,
         r.pc \in {"authorize", "flushed"} =>
           /\ given[r.code] = None
           /\ \A u \in Thread : Authorizing(u) /\ tx[u].code = r.code => u = t,
         r.pc = "flushed" /\ ~r.isnew =>
           codes[r.grant] # None /\ codes[r.grant].id = r.row
  PROVE  CodeInv'
<1>1. \A u \in Thread : tx'[u] = IF u = t THEN r ELSE tx[u]
  BY DEF TypeOK
<1>2. StoredInv' /\ SingleInv'
  BY DEF CodeInv, StoredInv, SingleInv, Unanswered
<1>3. FoundInv'
  BY <1>1 DEF CodeInv, FoundInv, Unanswered, Holds
<1>4. FreshInv'
  BY <1>1 DEF CodeInv, FreshInv, Authorizing
<1>5. LockInv'
  BY <1>1 DEF CodeInv, LockInv
<1> QED
  BY <1>2, <1>3, <1>4, <1>5 DEF CodeInv

LEMMA RollbackStep ==
  ASSUME TypeOK, CodeInv, NEW t \in Thread, Rollback(t)
  PROVE  CodeInv'
<1>1. NoRequest(tx[t].grant).pc = "idle"
  BY DEF NoRequest
<1> QED
  BY <1>1, LocalStep DEF Rollback

(* The commit of an authorization stores a code that was never seen before. *)
LEMMA AuthorizeCommitStep ==
  ASSUME TypeOK, CodeInv, NEW t \in Thread, AuthorizeCommit(t)
  PROVE  CodeInv'
<1>1. CASE Rollback(t)
  BY <1>1, RollbackStep
<1>2. CASE ~Rollback(t)
  <2> DEFINE g == tx[t].grant
             n == tx[t].code
  <2>1. /\ tx[t].pc = "flushed"
        /\ tx[t].isnew => codes[g] = None
        /\ codes' = [codes EXCEPT ![g] = SavedCode(t)]
        /\ given' = [given EXCEPT ![n] =
             [state |-> tx[t].state, challenged |-> tx[t].pkce /\ tx[t].challenge # None]]
        /\ tx' = [tx EXCEPT ![t] = NoRequest(g)]
        /\ answers' = answers
    BY <1>2 DEF AuthorizeCommit
  <2>2. g \in Grant /\ n \in Code
    BY <2>1 DEF TypeOK, Request
  <2>3. SavedCode(t).code = n /\ SavedCode(t).id = tx[t].row
    BY DEF SavedCode
  <2>4. \A u \in Thread : u # t => tx'[u] = tx[u]
    BY <2>1 DEF TypeOK
  <2>5. tx'[t].pc = "idle"
    BY <2>1 DEF TypeOK, NoRequest
  <2>6. \A h \in Grant : codes'[h] = IF h = g THEN SavedCode(t) ELSE codes[h]
    BY <2>1, <2>2 DEF TypeOK
  <2>7. SavedCode(t) # None
    BY <2>1, SavedCodeType, NoneAssumption DEF CodeInv
  <2>8. /\ given[n] = None /\ answers[n] = 0 /\ given'[n] # None
        /\ \A m \in Code : m # n => given'[m] = given[m]
    <3>1. given[n] = None /\ answers[n] = 0
      BY <2>1, <2>2 DEF CodeInv, FreshInv, Authorizing
    <3>2. [state |-> tx[t].state, challenged |-> tx[t].pkce /\ tx[t].challenge # None] \in Given
      BY DEF TypeOK, Request, Given
    <3>3. given'[n] # None
      BY <2>1, <2>2, <3>2, NoneAssumption DEF TypeOK
    <3>4. \A m \in Code : m # n => given'[m] = given[m]
      BY <2>1 DEF TypeOK
    <3> QED
      BY <3>1, <3>3, <3>4
  <2> HIDE DEF g, n
  <2>9. StoredInv'
    <3> SUFFICES ASSUME NEW h \in Grant, codes'[h] # None PROVE Unanswered(codes[h].code)'
      BY DEF StoredInv
    <3>1. CASE h = g
      BY <2>1, <2>3, <2>6, <2>8, <3>1 DEF Unanswered
    <3>2. CASE h # g
      <4>1. codes'[h] = codes[h] /\ codes[h].code \in Code /\ Unanswered(codes[h].code)
        BY <2>6, <3>2 DEF CodeInv, StoredInv, TypeOK, Row
      <4> QED
        BY <2>1, <2>8, <4>1 DEF Unanswered
    <3> QED
      BY <3>1, <3>2
  <2>10. FoundInv'
    <3> SUFFICES ASSUME NEW u \in Thread, tx'[u].pc = "found"
                 PROVE  /\ Unanswered(tx[u].code)'
                        /\ \A h \in Grant : Holds(h, tx[u].code)' =>
                             h = tx'[u].grant /\ codes'[h].id = tx'[u].row
                        /\ \A w \in Thread : tx'[w].pc = "found" /\ tx'[w].code = tx'[u].code => w = u
      BY DEF FoundInv
    <3>1. u # t /\ tx'[u] = tx[u]
      BY <2>4, <2>5
    <3>2. Unanswered(tx[u].code) /\ tx[u].code # n /\ tx[u].code \in Code
      BY <2>8, <3>1 DEF CodeInv, FoundInv, Unanswered, TypeOK
    <3>3. Unanswered(tx[u].code)'
      BY <2>1, <2>8, <3>1, <3>2 DEF Unanswered
    <3>4. ASSUME NEW h \in Grant, Holds(h, tx[u].code)'
          PROVE  h = tx'[u].grant /\ codes'[h].id = tx'[u].row
      <4>1. h # g
        BY <2>3, <2>6, <3>1, <3>2, <3>4 DEF Holds
      <4> QED
        BY <2>6, <3>1, <3>4, <4>1 DEF Holds, CodeInv, FoundInv
    <3>5. ASSUME NEW w \in Thread, tx'[w].pc = "found", tx'[w].code = tx'[u].code
          PROVE  w = u
      BY <2>4, <2>5, <3>1, <3>5 DEF CodeInv, FoundInv
    <3> QED
      BY <3>3, <3>4, <3>5
  <2>11. FreshInv'
    <3>1. \A m \in Code : given'[m] = None => answers'[m] = 0
      BY <2>1, <2>8 DEF CodeInv, FreshInv
    <3>2. ASSUME NEW u \in Thread, Authorizing(u)'
          PROVE  /\ given'[tx'[u].code] = None
                 /\ \A w \in Thread : Authorizing(w)' /\ tx'[w].code = tx'[u].code => w = u
      <4>1. u # t /\ tx'[u] = tx[u] /\ Authorizing(u)
        BY <2>4, <2>5, <3>2 DEF Authorizing
      <4>2. tx[u].code \in Code /\ tx[u].code # n
        BY <2>1, <4>1 DEF CodeInv, FreshInv, Authorizing, TypeOK, n
      <4>3. given'[tx'[u].code] = None
        BY <2>8, <4>1, <4>2 DEF CodeInv, FreshInv
      <4>4. ASSUME NEW w \in Thread, Authorizing(w)', tx'[w].code = tx'[u].code PROVE w = u
        BY <2>4, <2>5, <4>1, <4>4 DEF CodeInv, FreshInv, Authorizing
      <4> QED
        BY <4>3, <4>4
    <3> QED
      BY <3>1, <3>2 DEF FreshInv
  <2>12. SingleInv'
    <3>1. \A h \in Grant : h # g /\ codes[h] # None => codes[h].code # n
      BY <2>2, <2>8 DEF CodeInv, StoredInv, Unanswered
    <3> QED
      BY <2>3, <2>6, <3>1 DEF CodeInv, SingleInv
  <2>13. LockInv'
    <3> SUFFICES ASSUME NEW u \in Thread, tx'[u].pc = "flushed", ~tx'[u].isnew
                 PROVE  codes'[tx'[u].grant] # None /\ codes'[tx'[u].grant].id = tx'[u].row
      BY DEF LockInv
    <3>1. u # t /\ tx'[u] = tx[u] /\ tx[u].grant \in Grant
      BY <2>4, <2>5 DEF TypeOK, Request
    <3>2. codes[tx[u].grant] # None /\ codes[tx[u].grant].id = tx[u].row
      BY <3>1 DEF CodeInv, LockInv
    <3>3. CASE tx[u].grant = g
      <4>1. ~tx[t].isnew
        BY <2>1, <3>2, <3>3
      <4>2. codes[g].id = tx[t].row
        BY <2>1, <4>1 DEF CodeInv, LockInv, g
      <4> QED
        BY <2>2, <2>3, <2>6, <2>7, <3>1, <3>2, <3>3, <4>2
    <3>4. CASE tx[u].grant # g
      BY <2>6, <3>1, <3>2, <3>4
    <3> QED
      BY <3>3, <3>4
  <2> QED
    BY <2>9, <2>10, <2>11, <2>12, <2>13 DEF CodeInv
<1> QED
  BY <1>1, <1>2

(* The commit of an exchange removes the only row that holds its code. *)
LEMMA ExchangeCommitStep ==
  ASSUME TypeOK, CodeInv, NEW t \in Thread, ExchangeCommit(t)
  PROVE  CodeInv'
<1> DEFINE g == tx[t].grant
           n == tx[t].code
<1>1. /\ tx[t].pc = "found" /\ ~CodeLocked(g) /\ given' = given
      /\ g \in Grant /\ n \in Code /\ Unanswered(n)
  BY DEF ExchangeCommit, TypeOK, Request, CodeInv, FoundInv
<1>2. \A u \in Thread : u # t => tx'[u] = tx[u]
  BY DEF ExchangeCommit, TypeOK
<1>3. tx'[t].pc = "idle"
  BY DEF ExchangeCommit, TypeOK, NoRequest
<1>4. \A h \in Grant : codes'[h] \in {codes[h], None} /\ (h # g => codes'[h] = codes[h])
  BY <1>1 DEF ExchangeCommit, TypeOK
<1>5. \A h \in Grant : codes'[h] # None => codes'[h].code # n
  <2> SUFFICES ASSUME NEW h \in Grant, codes'[h] # None, codes'[h].code = n PROVE FALSE
    OBVIOUS
  <2>1. codes'[h] = codes[h]
    BY <1>4
  <2>2. h = g /\ codes[g].id = tx[t].row
    BY <1>1, <2>1 DEF CodeInv, FoundInv, Holds
  <2> QED
    BY <1>1, <2>1, <2>2 DEF ExchangeCommit, TypeOK
<1>6. \A m \in Code : m # n => answers'[m] = answers[m]
  BY DEF ExchangeCommit, TypeOK
<1> HIDE DEF g, n
<1>7. StoredInv'
  <2> SUFFICES ASSUME NEW h \in Grant, codes'[h] # None PROVE Unanswered(codes[h].code)'
    BY DEF StoredInv
  <2>1. codes'[h] = codes[h] /\ codes[h].code \in Code /\ Unanswered(codes[h].code)
    BY <1>4 DEF CodeInv, StoredInv, TypeOK, Row
  <2> QED
    BY <1>1, <1>5, <1>6, <2>1 DEF Unanswered
<1>8. FoundInv'
  <2> SUFFICES ASSUME NEW u \in Thread, tx'[u].pc = "found"
               PROVE  /\ Unanswered(tx[u].code)'
                      /\ \A h \in Grant : Holds(h, tx[u].code)' =>
                           h = tx'[u].grant /\ codes'[h].id = tx'[u].row
                      /\ \A w \in Thread : tx'[w].pc = "found" /\ tx'[w].code = tx'[u].code => w = u
    BY DEF FoundInv
  <2>1. u # t /\ tx'[u] = tx[u]
    BY <1>2, <1>3
  <2>2. Unanswered(tx[u].code) /\ tx[u].code # n /\ tx[u].code \in Code
    BY <1>1, <2>1 DEF CodeInv, FoundInv, TypeOK, n
  <2>3. Unanswered(tx[u].code)'
    BY <1>1, <1>6, <2>1, <2>2 DEF Unanswered
  <2>4. ASSUME NEW h \in Grant, Holds(h, tx[u].code)'
        PROVE  h = tx'[u].grant /\ codes'[h].id = tx'[u].row
    BY <1>4, <2>1, <2>4 DEF Holds, CodeInv, FoundInv
  <2>5. ASSUME NEW w \in Thread, tx'[w].pc = "found", tx'[w].code = tx'[u].code
        PROVE  w = u
    BY <1>2, <1>3, <2>1, <2>5 DEF CodeInv, FoundInv
  <2> QED
    BY <2>3, <2>4, <2>5
<1>9. FreshInv'
  <2>1. \A m \in Code : given'[m] = None => answers'[m] = 0
    BY <1>1, <1>6 DEF CodeInv, FreshInv, Unanswered
  <2>2. \A u \in Thread : Authorizing(u)' => u # t /\ tx'[u] = tx[u] /\ Authorizing(u)
    BY <1>2, <1>3 DEF Authorizing
  <2> QED
    BY <1>1, <2>1, <2>2 DEF CodeInv, FreshInv
<1>10. SingleInv'
  BY <1>4 DEF CodeInv, SingleInv
<1>11. LockInv'
  <2> SUFFICES ASSUME NEW u \in Thread, tx'[u].pc = "flushed", ~tx'[u].isnew
               PROVE  codes'[tx'[u].grant] # None /\ codes'[tx'[u].grant].id = tx'[u].row
    BY DEF LockInv
  <2>1. tx'[u] = tx[u] /\ tx[u].grant \in Grant
    BY <1>2, <1>3 DEF TypeOK, Request
  <2>2. tx[u].grant # g
    BY <1>1, <2>1 DEF CodeLocked
  <2> QED
    BY <1>4, <2>1, <2>2 DEF CodeInv, LockInv
<1> QED
  BY <1>7, <1>8, <1>9, <1>10, <1>11 DEF CodeInv

(* A step that may remove rows whose grant is not locked, or mark a row as   *)
(* expired, and changes nothing else that the invariant is about.            *)
LEMMA RemoveStep ==
  ASSUME TypeOK, CodeInv, UNCHANGED <<tx, given, answers>>,
         \A g \in Grant :
           \/ codes'[g] = None /\ ~CodeLocked(g)
           \/ codes'[g] = codes[g]
           \/ /\ codes[g] # None /\ codes'[g] # None
              /\ codes'[g].id = codes[g].id /\ codes'[g].code = codes[g].code
  PROVE  CodeInv'
<1>1. \A g \in Grant : codes'[g] # None =>
         /\ codes[g] # None
         /\ codes'[g].id = codes[g].id /\ codes'[g].code = codes[g].code
  OBVIOUS
<1>2. StoredInv'
  BY <1>1 DEF CodeInv, StoredInv, Unanswered
<1>3. FoundInv'
  BY <1>1 DEF CodeInv, FoundInv, Unanswered, Holds
<1>4. FreshInv'
  BY DEF CodeInv, FreshInv, Authorizing
<1>5. SingleInv'
  BY <1>1 DEF CodeInv, SingleInv
<1>6. LockInv'
  <2> SUFFICES ASSUME NEW u \in Thread, tx[u].pc = "flushed", ~tx[u].isnew
               PROVE  codes'[tx[u].grant] # None /\ codes'[tx[u].grant].id = tx[u].row
    BY DEF LockInv
  <2>1. tx[u].grant \in Grant /\ CodeLocked(tx[u].grant)
    BY DEF CodeLocked, TypeOK, Request
  <2>2. codes[tx[u].grant] # None /\ codes[tx[u].grant].id = tx[u].row
    BY DEF CodeInv, LockInv
  <2> QED
    BY <2>1, <2>2
<1> QED
  BY <1>2, <1>3, <1>4, <1>5, <1>6 DEF CodeInv

LEMMA CodeInvStep == TypeOK /\ CodeInv /\ [Next]_vars => CodeInv'
<1> SUFFICES ASSUME TypeOK, CodeInv, [Next]_vars PROVE CodeInv'
  OBVIOUS
<1>1. ASSUME NEW t \in Thread, NEW g \in Grant, NEW n \in Code,
             NEW s \in CodeOrNone, NEW v \in CodeOrNone, Authorize(t, g, n, s, v)
      PROVE  CodeInv'
  <2> DEFINE r == [pc |-> "authorize", grant |-> g, code |-> n,
                   row |-> IF codes[g] = None THEN n ELSE codes[g].id,
                   isnew |-> codes[g] = None,
                   state |-> s, challenge |-> v, pkce |-> FALSE]
  <2>1. tx' = [tx EXCEPT ![t] = r] /\ UNCHANGED <<codes, given, answers>>
    BY <1>1 DEF Authorize
  <2>2. given[n] = None /\ \A u \in Thread : tx[u].code # n
    BY <1>1 DEF Authorize, Fresh
  <2>3. r.pc = "authorize" /\ r.code = n
    OBVIOUS
  <2> HIDE DEF r
  <2> QED
    BY <2>1, <2>2, <2>3, LocalStep
<1>2. ASSUME NEW t \in Thread, NEW g \in Grant, NEW n \in Code,
             NEW s \in CodeOrNone, NEW v \in CodeOrNone, Exchange(t, g, n, s, v)
      PROVE  CodeInv'
  <2> DEFINE r == [pc |-> "validated", grant |-> g, code |-> n, row |-> codes[g].id,
                   isnew |-> FALSE, state |-> None, challenge |-> v, pkce |-> FALSE]
  <2>1. tx' = [tx EXCEPT ![t] = r] /\ UNCHANGED <<codes, given, answers>>
    BY <1>2 DEF Exchange
  <2>2. r.pc = "validated"
    OBVIOUS
  <2> HIDE DEF r
  <2> QED
    BY <2>1, <2>2, LocalStep
<1>3. ASSUME NEW t \in Thread, NEW g \in Grant, Refresh(t, g) PROVE CodeInv'
  <2>1. [NoRequest(g) EXCEPT !.pc = "refresh"].pc = "refresh"
    BY DEF NoRequest
  <2>2. /\ tx' = [tx EXCEPT ![t] = [NoRequest(g) EXCEPT !.pc = "refresh"]]
        /\ UNCHANGED <<codes, given, answers>>
    BY <1>3 DEF Refresh
  <2> QED
    BY <2>1, <2>2, LocalStep
<1>4. ASSUME NEW t \in Thread, AuthorizeFlush(t) PROVE CodeInv'
  <2> DEFINE r == [tx[t] EXCEPT !.pc = "flushed", !.pkce = required[tx[t].grant[1]].pkce]
  <2>1. CASE Rollback(t)
    BY <2>1, RollbackStep
  <2>2. CASE ~Rollback(t)
    <3>1. /\ tx' = [tx EXCEPT ![t] = r]
          /\ UNCHANGED <<codes, given, answers>>
          /\ tx[t].pc = "authorize"
          /\ ~tx[t].isnew => codes[tx[t].grant] # None /\ codes[tx[t].grant].id = tx[t].row
      BY <1>4, <2>2 DEF AuthorizeFlush
    <3>2. /\ r.pc = "flushed" /\ r.code = tx[t].code /\ r.isnew = tx[t].isnew
          /\ r.grant = tx[t].grant /\ r.row = tx[t].row
      BY DEF TypeOK, Request
    <3>3. /\ given[tx[t].code] = None
          /\ \A u \in Thread : Authorizing(u) /\ tx[u].code = tx[t].code => u = t
      BY <3>1 DEF CodeInv, FreshInv, Authorizing
    <3> HIDE DEF r
    <3> QED
      BY <3>1, <3>2, <3>3, LocalStep
  <2> QED
    BY <2>1, <2>2
<1>5. ASSUME NEW t \in Thread, SaveToken(t) PROVE CodeInv'
  <2> DEFINE r == [tx[t] EXCEPT !.pc = "saving", !.isnew = ~tokens[tx[t].grant]]
  <2>1. tx' = [tx EXCEPT ![t] = r] /\ UNCHANGED <<codes, given, answers>>
    BY <1>5 DEF SaveToken
  <2>2. r.pc = "saving"
    BY DEF TypeOK, Request
  <2> HIDE DEF r
  <2> QED
    BY <2>1, <2>2, LocalStep
<1>6. ASSUME NEW t \in Thread, InvalidateCode(t) PROVE CodeInv'
  <2> DEFINE r == [tx[t] EXCEPT !.pc = "found", !.row = codes[tx[t].grant].id]
  <2>1. CASE Rollback(t)
    BY <2>1, RollbackStep
  <2>2. CASE ~Rollback(t)
    <3>1. /\ tx' = [tx EXCEPT ![t] = r]
          /\ UNCHANGED <<codes, given, answers>>
          /\ Holds(tx[t].grant, tx[t].code) /\ ~TokenLocked(tx[t].grant)
      BY <1>6, <2>2 DEF InvalidateCode
    <3>2. /\ r.pc = "found" /\ r.code = tx[t].code /\ r.grant = tx[t].grant
          /\ r.row = codes[tx[t].grant].id /\ tx[t].grant \in Grant
      BY DEF TypeOK, Request
    <3>3. Unanswered(tx[t].code)
      BY <3>1, <3>2 DEF CodeInv, StoredInv, Holds
    <3>4. \A g \in Grant : Holds(g, tx[t].code) => g = tx[t].grant
      BY <3>1, <3>2 DEF CodeInv, SingleInv, Holds
    <3>5. ASSUME NEW u \in Thread, tx[u].pc = "found", tx[u].code = tx[t].code PROVE FALSE
      <4>1. tx[u].grant = tx[t].grant
        BY <3>1, <3>2, <3>5 DEF CodeInv, FoundInv
      <4> QED
        BY <3>1, <3>5, <4>1 DEF TokenLocked
    <3> HIDE DEF r
    <3> QED
      BY <3>1, <3>2, <3>3, <3>4, <3>5, LocalStep
  <2> QED
    BY <2>1, <2>2
<1>7. ASSUME NEW t \in Thread, RefreshCommit(t) \/ RequestFails(t) PROVE CodeInv'
  BY <1>7, RollbackStep DEF RefreshCommit, RequestFails
<1>8. ASSUME NEW g \in Grant, CodeExpires(g) PROVE CodeInv'
  <2>1. codes[g] \in Row
    BY <1>8 DEF CodeExpires, TypeOK
  <2>2. codes' = [codes EXCEPT ![g] = [codes[g] EXCEPT !.expired = TRUE]]
    BY <1>8 DEF CodeExpires
  <2>3. /\ codes'[g].id = codes[g].id /\ codes'[g].code = codes[g].code
        /\ codes[g] # None /\ codes'[g] \in Row
    BY <1>8, <2>1, <2>2 DEF CodeExpires, TypeOK, Row
  <2>4. \A h \in Grant : h # g => codes'[h] = codes[h]
    BY <2>2 DEF TypeOK
  <2> QED
    BY <1>8, <2>3, <2>4, RemoveStep, NoneAssumption DEF CodeExpires
<1>9. ASSUME NEW c \in Client, NEW r \in [state : BOOLEAN, pkce : BOOLEAN], SetRequired(c, r)
      PROVE CodeInv'
  BY <1>9, RemoveStep DEF SetRequired
<1>10. ASSUME NEW x \in exist, Delete(x) PROVE CodeInv'
  <2>1. \A g \in Grant : (codes'[g] = None /\ ~CodeLocked(g)) \/ codes'[g] = codes[g]
    BY <1>10 DEF Delete
  <2> QED
    BY <1>10, <2>1, RemoveStep DEF Delete
<1>11. CASE UNCHANGED vars
  BY <1>11, RemoveStep DEF vars
<1> QED
  BY <1>1, <1>2, <1>3, <1>4, <1>5, <1>6, <1>7, <1>8, <1>9, <1>10, <1>11,
     AuthorizeCommitStep, ExchangeCommitStep DEF Next, Receive, Step

LEMMA InitTypes == Init => TypeOK /\ CodeInv
<1> SUFFICES ASSUME Init PROVE TypeOK /\ CodeInv
  OBVIOUS
<1>1. \A t \in Thread : tx[t] \in Request /\ tx[t].pc = "idle"
  <2>1. PICK g \in Grant : tx = [t \in Thread |-> NoRequest(g)]
    BY DEF Init
  <2>2. NoRequest(g) \in Request /\ NoRequest(g).pc = "idle"
    BY NoRequestType DEF RequestOK, NoRequest
  <2> QED
    BY <2>1, <2>2
<1>2. tx \in [Thread -> Request]
  BY <1>1 DEF Init
<1>3. TypeOK
  BY <1>1, <1>2 DEF Init, TypeOK
<1>4. CodeInv
  BY <1>1 DEF Init, CodeInv, StoredInv, FoundInv, FreshInv, SingleInv, LockInv, Authorizing
<1> QED
  BY <1>3, <1>4

(* TypeOK and CodeInv hold in every reachable state, for all constants. *)
THEOREM TypeCorrect == Spec => []TypeOK
<1>1. TypeOK /\ CodeInv /\ [Next]_vars => TypeOK' /\ CodeInv'
  BY TypeStep, CodeInvStep DEF CodeInv
<1> QED
  BY <1>1, InitTypes, PTL DEF Spec

THEOREM CodeInvariant == Spec => []CodeInv
<1>1. TypeOK /\ CodeInv /\ [Next]_vars => TypeOK' /\ CodeInv'
  BY TypeStep, CodeInvStep DEF CodeInv
<1> QED
  BY <1>1, InitTypes, PTL DEF Spec

(* The commit of an authorization issues its code, or fails.                 *)
LEMMA AuthorizeIssues ==
  ASSUME TypeOK, CodeInv, NEW t \in Thread, AuthorizeCommit(t)
  PROVE  UNCHANGED <<Issued, answers>> \/ Promise!Issue(tx[t].code)
<1> DEFINE n == tx[t].code
           i == [state |-> tx[t].state, challenged |-> tx[t].pkce /\ tx[t].challenge # None]
<1>1. CASE Rollback(t)
  BY <1>1 DEF Rollback, Issued
<1>2. CASE ~Rollback(t)
  <2>1. tx[t].pc = "flushed"
    BY <1>2 DEF AuthorizeCommit
  <2>2. given' = [given EXCEPT ![n] = i] /\ answers' = answers
    BY <1>2 DEF AuthorizeCommit
  <2>3. n \in Code /\ given[n] = None
    BY <2>1 DEF TypeOK, CodeInv, FreshInv, Authorizing
  <2>4. i # None
    <3>1. i \in Given
      BY DEF Given, TypeOK, Request
    <3> QED
      BY <3>1, NoneAssumption
  <2> HIDE DEF n, i
  <2>5. \A m \in Code : given'[m] = IF m = n THEN i ELSE given[m]
    BY <2>2 DEF TypeOK
  <2>6. Issued' = Issued \cup {n} /\ n \notin Issued
    BY <2>3, <2>4, <2>5 DEF Issued
  <2> QED
    BY <2>2, <2>6 DEF Promise!Issue, n
<1> QED
  BY <1>1, <1>2

(* The commit of an exchange answers its code, for the first time.           *)
LEMMA ExchangeAnswers ==
  ASSUME TypeOK, CodeInv, NEW t \in Thread, ExchangeCommit(t)
  PROVE  Promise!Answer(tx[t].code)
<1> DEFINE n == tx[t].code
<1>1. tx[t].pc = "found" /\ given' = given /\ answers' = [answers EXCEPT ![n] = @ + 1]
  BY DEF ExchangeCommit
<1>2. n \in Code /\ given[n] # None /\ answers[n] = 0
  BY <1>1 DEF TypeOK, CodeInv, FoundInv, Unanswered
<1> HIDE DEF n
<1>3. answers' = [answers EXCEPT ![n] = 1]
  BY <1>1, <1>2 DEF TypeOK
<1>4. Issued' = Issued /\ n \in Issued
  BY <1>1, <1>2 DEF Issued
<1> QED
  BY <1>2, <1>3, <1>4 DEF Promise!Answer, n

(* The server implements OneTimeCode: a commit of an authorization issues    *)
(* its code, a commit of an exchange answers its code for the first time,    *)
(* and nothing else shows.                                                   *)
THEOREM CodesOnce == Spec => CodesAnsweredOnce
<1>1. Init => Promise!Init
  BY DEF Init, Promise!Init, Issued
<1>2. ASSUME TypeOK, CodeInv, [Next]_vars
      PROVE  [Promise!Next]_<<Issued, answers>>
  <2>1. ASSUME NEW t \in Thread, AuthorizeCommit(t)
        PROVE  [Promise!Next]_<<Issued, answers>>
    <3>1. CASE UNCHANGED <<Issued, answers>>
      BY <3>1
    <3>2. CASE tx[t].pc = "flushed"
      <4>1. tx[t].code \in Code
        BY <1>2, <3>2 DEF TypeOK
      <4> QED
        BY <1>2, <2>1, <4>1, AuthorizeIssues DEF Promise!Next
    <3> QED
      BY <2>1, <3>2 DEF AuthorizeCommit
  <2>2. ASSUME NEW t \in Thread, ExchangeCommit(t)
        PROVE  [Promise!Next]_<<Issued, answers>>
    <3>1. tx[t].code \in Code
      BY <1>2, <2>2 DEF ExchangeCommit, TypeOK
    <3> QED
      BY <1>2, <2>2, <3>1, ExchangeAnswers DEF Promise!Next
  <2>3. CASE UNCHANGED <<given, answers>>
    BY <2>3 DEF Issued
  <2>4. ASSUME NEW t \in Thread, NEW g \in Grant, Receive(t, g)
        PROVE  UNCHANGED <<given, answers>>
    BY <2>4 DEF Receive, Authorize, Exchange, Refresh
  <2>5. ASSUME NEW t \in Thread, Step(t) \/ RequestFails(t),
               ~AuthorizeCommit(t), ~ExchangeCommit(t)
        PROVE  UNCHANGED <<given, answers>>
    BY <2>5 DEF Step, AuthorizeFlush, SaveToken, InvalidateCode, RefreshCommit,
       RequestFails, Rollback
  <2> QED
    BY <1>2, <2>1, <2>2, <2>3, <2>4, <2>5 DEF Next, vars, CodeExpires, SetRequired, Delete
<1> QED
  BY <1>1, <1>2, TypeCorrect, CodeInvariant, PTL DEF Spec, CodesAnsweredOnce, Promise!Spec
-----------------------------------------------------------------------------
(* What was deleted.  An exchange that is about to commit tokens has the row *)
(* of the tokens locked, and with it the client and the user it refers to.   *)
FoundExists == \A t \in Thread : tx[t].pc = "found" => Exist(tx[t].grant)

LEMMA GrantStep ==
  TypeOK /\ CodeInv /\ NoGrantOfDeleted /\ FoundExists /\ [Next]_vars
    => NoGrantOfDeleted' /\ FoundExists'
<1> SUFFICES ASSUME TypeOK, CodeInv, NoGrantOfDeleted, FoundExists, [Next]_vars
             PROVE  NoGrantOfDeleted' /\ FoundExists'
  OBVIOUS
(* No step but Delete and the two commits changes what the invariant is about, and InvalidateCode
   alone makes an exchange find its code. *)
<1>1. ASSUME UNCHANGED <<exist, tokens>>,
             \A g \in Grant : codes'[g] # None => codes[g] # None \/ Exist(g),
             \A t \in Thread : tx'[t].pc = "found" =>
               \/ tx'[t] = tx[t]
               \/ Exist(tx'[t].grant)
      PROVE  NoGrantOfDeleted' /\ FoundExists'
  BY <1>1 DEF NoGrantOfDeleted, FoundExists, Exist
<1>2. ASSUME NEW t \in Thread, NEW g \in Grant, Receive(t, g)
      PROVE  NoGrantOfDeleted' /\ FoundExists'
  <2>1. UNCHANGED <<exist, tokens, codes>>
    BY <1>2 DEF Receive, Authorize, Exchange, Refresh
  <2>2. tx'[t].pc # "found" /\ \A u \in Thread \ {t} : tx'[u] = tx[u]
    BY <1>2 DEF Receive, Authorize, Exchange, Refresh, NoRequest, TypeOK
  <2> QED
    BY <1>1, <2>1, <2>2
<1>3. ASSUME NEW t \in Thread, Rollback(t) PROVE NoGrantOfDeleted' /\ FoundExists'
  <2>1. tx'[t].pc # "found" /\ \A u \in Thread \ {t} : tx'[u] = tx[u]
    BY <1>3 DEF Rollback, NoRequest, TypeOK
  <2> QED
    BY <1>1, <1>3, <2>1 DEF Rollback
<1>4. ASSUME NEW t \in Thread, AuthorizeFlush(t) \/ SaveToken(t), ~Rollback(t)
      PROVE  NoGrantOfDeleted' /\ FoundExists'
  <2>1. tx'[t].pc # "found" /\ \A u \in Thread \ {t} : tx'[u] = tx[u]
    <3>1. CASE AuthorizeFlush(t)
      <4>1. tx' = [tx EXCEPT ![t] = [@ EXCEPT !.pc = "flushed", !.pkce = required[tx[t].grant[1]].pkce]]
        BY <1>4, <3>1 DEF AuthorizeFlush
      <4> QED
        BY <4>1 DEF TypeOK, Request
    <3>2. CASE SaveToken(t)
      <4>1. tx' = [tx EXCEPT ![t] = [@ EXCEPT !.pc = "saving", !.isnew = ~tokens[tx[t].grant]]]
        BY <3>2 DEF SaveToken
      <4> QED
        BY <4>1 DEF TypeOK, Request
    <3> QED
      BY <1>4, <3>1, <3>2
  <2>2. UNCHANGED <<exist, tokens, codes>>
    BY <1>4 DEF AuthorizeFlush, SaveToken
  <2> QED
    BY <1>1, <2>1, <2>2
<1>5. ASSUME NEW t \in Thread, AuthorizeCommit(t), ~Rollback(t)
      PROVE  NoGrantOfDeleted' /\ FoundExists'
  <2>1. /\ tx[t].pc = "flushed" /\ UNCHANGED <<exist, tokens>>
        /\ tx[t].isnew => Exist(tx[t].grant)
        /\ codes' = [codes EXCEPT ![tx[t].grant] = SavedCode(t)]
        /\ tx' = [tx EXCEPT ![t] = NoRequest(tx[t].grant)]
    BY <1>5 DEF AuthorizeCommit
  <2>2. Exist(tx[t].grant)
    BY <2>1 DEF CodeInv, LockInv, NoGrantOfDeleted, TypeOK, Request
  <2>3. \A g \in Grant : codes'[g] # None => codes[g] # None \/ Exist(g)
    BY <2>1, <2>2 DEF TypeOK
  <2>4. tx'[t].pc # "found" /\ \A u \in Thread \ {t} : tx'[u] = tx[u]
    BY <2>1 DEF NoRequest, TypeOK
  <2> QED
    BY <1>1, <2>1, <2>3, <2>4
<1>6. ASSUME NEW t \in Thread, InvalidateCode(t), ~Rollback(t)
      PROVE  NoGrantOfDeleted' /\ FoundExists'
  <2>1. /\ TokenSaved(t) /\ Holds(tx[t].grant, tx[t].code)
        /\ tx' = [tx EXCEPT ![t] = [@ EXCEPT !.pc = "found", !.row = codes[tx[t].grant].id]]
        /\ UNCHANGED <<exist, codes, tokens>>
    BY <1>6 DEF InvalidateCode
  <2>2. tx'[t].grant = tx[t].grant /\ tx[t].grant \in Grant
    BY <2>1 DEF TypeOK, Request
  <2>3. Exist(tx'[t].grant)
    BY <2>1, <2>2 DEF TokenSaved, NoGrantOfDeleted, TypeOK
  <2>4. \A u \in Thread \ {t} : tx'[u] = tx[u]
    BY <2>1 DEF TypeOK
  <2> QED
    BY <1>1, <2>1, <2>3, <2>4
<1>7. ASSUME NEW t \in Thread, ExchangeCommit(t) PROVE NoGrantOfDeleted' /\ FoundExists'
  <2>1. tx[t].grant \in Grant /\ Exist(tx[t].grant)
    BY <1>7 DEF ExchangeCommit, FoundExists, TypeOK, Request
  <2>2. \A g \in Grant : codes'[g] # None => codes[g] # None
    BY <1>7, <2>1 DEF ExchangeCommit, TypeOK
  <2>3. \A g \in Grant : tokens'[g] => tokens[g] \/ g = tx[t].grant
    BY <1>7, <2>1, Zenon DEF ExchangeCommit, TypeOK
  <2>4. tx'[t].pc # "found" /\ \A u \in Thread \ {t} : tx'[u] = tx[u]
    BY <1>7 DEF ExchangeCommit, NoRequest, TypeOK
  <2>5. exist' = exist
    BY <1>7 DEF ExchangeCommit
  <2>6. NoGrantOfDeleted'
    BY <2>1, <2>2, <2>3, <2>5 DEF NoGrantOfDeleted, Exist
  <2>7. FoundExists'
    BY <2>4, <2>5 DEF FoundExists, Exist
  <2> QED
    BY <2>6, <2>7
<1>8. ASSUME NEW g \in Grant, CodeExpires(g) PROVE NoGrantOfDeleted' /\ FoundExists'
  BY <1>1, <1>8 DEF CodeExpires, TypeOK
<1>9. ASSUME NEW c \in Client, NEW r \in [state : BOOLEAN, pkce : BOOLEAN], SetRequired(c, r)
      PROVE NoGrantOfDeleted' /\ FoundExists'
  BY <1>1, <1>9 DEF SetRequired
<1>10. ASSUME NEW x \in exist, Delete(x) PROVE NoGrantOfDeleted' /\ FoundExists'
  <2>1. \A g \in Grant : x \in {g[1], g[2]} => codes'[g] = None /\ ~tokens'[g] /\ ~TokenLocked(g)
    BY <1>10, Zenon DEF Delete
  <2>2. \A g \in Grant : x \notin {g[1], g[2]} =>
          codes'[g] = codes[g] /\ (tokens'[g] => tokens[g]) /\ (Exist(g) => Exist(g)')
    BY <1>10, Zenon DEF Delete, Exist
  <2>3. NoGrantOfDeleted'
    BY <2>1, <2>2 DEF NoGrantOfDeleted
  <2>4. \A t \in Thread : tx[t].pc = "found" => tx[t].grant \in Grant /\ x \notin {tx[t].grant[1], tx[t].grant[2]}
    BY <2>1 DEF TokenLocked, TypeOK, Request
  <2>5. FoundExists'
    BY <1>10, <2>2, <2>4 DEF Delete, FoundExists, Exist
  <2> QED
    BY <2>3, <2>5
<1>11. CASE UNCHANGED vars
  BY <1>1, <1>11 DEF vars
<1> QED
  BY <1>2, <1>3, <1>4, <1>5, <1>6, <1>7, <1>8, <1>9, <1>10, <1>11
  DEF Next, Step, RefreshCommit, RequestFails

(* No code and no tokens of a deleted user or client are left, whatever was  *)
(* in flight when it was deleted.                                            *)
THEOREM NothingOfDeleted == Spec => []NoGrantOfDeleted
<1>1. Init => NoGrantOfDeleted /\ FoundExists
  BY DEF Init, NoGrantOfDeleted, FoundExists, NoRequest
<1> QED
  BY <1>1, GrantStep, TypeCorrect, CodeInvariant, PTL DEF Spec

-----------------------------------------------------------------------------
(* Challenges.  A code under way carries its own challenge or none; a stored *)
(* one that was asked for with a challenge carries it; an exchange that was  *)
(* validated is of a code that was issued, and has the verifier of its       *)
(* challenge.                                                                *)
Exchanging(t) == tx[t].pc \in {"validated", "saving", "found"}

Challenged(n) == given[n] # None /\ given[n].challenged

ChallengeInv ==
  /\ \A t \in Thread : Authorizing(t) => tx[t].challenge \in {tx[t].code, None}
  /\ \A g \in Grant : codes[g] # None /\ Challenged(codes[g].code) =>
       codes[g].challenge = codes[g].code
  /\ \A t \in Thread : Exchanging(t) =>
       /\ given[tx[t].code] # None
       /\ Challenged(tx[t].code) => tx[t].challenge = tx[t].code

LEMMA ChallengeVerifies ==
  ASSUME TypeOK, ChallengeInv
  PROVE  VerifierOfItsCode
BY DEF ChallengeInv, Exchanging, Challenged, VerifierOfItsCode

(* A step that replaces the request of one thread, leaves what was sent for  *)
(* each code alone and may remove rows or mark them as expired.              *)
LEMMA ChallengeLocal ==
  ASSUME TypeOK, ChallengeInv, NEW t \in Thread, NEW r,
         tx' = [tx EXCEPT ![t] = r], given' = given,
         \A g \in Grant : codes'[g] # None =>
           /\ codes[g] # None
           /\ codes'[g].code = codes[g].code /\ codes'[g].challenge = codes[g].challenge,
         r.pc \in {"authorize", "flushed"} => r.challenge \in {r.code, None},
         r.pc \in {"validated", "saving", "found"} =>
           given[r.code] # None /\ (Challenged(r.code) => r.challenge = r.code)
  PROVE  ChallengeInv'
<1>1. \A u \in Thread : tx'[u] = IF u = t THEN r ELSE tx[u]
  BY DEF TypeOK
<1>2. \A u \in Thread : Authorizing(u)' => tx'[u].challenge \in {tx'[u].code, None}
  BY <1>1 DEF ChallengeInv, Authorizing
<1>3. \A g \in Grant : codes'[g] # None /\ Challenged(codes[g].code)' =>
         codes'[g].challenge = codes'[g].code
  BY DEF ChallengeInv, Challenged
<1>4. ASSUME NEW u \in Thread, Exchanging(u)'
      PROVE  /\ given'[tx'[u].code] # None
             /\ Challenged(tx[u].code)' => tx'[u].challenge = tx'[u].code
  <2>1. CASE u = t
    BY <1>1, <1>4, <2>1 DEF Exchanging, Challenged
  <2>2. CASE u # t
    BY <1>1, <1>4, <2>2 DEF ChallengeInv, Exchanging, Challenged
  <2> QED
    BY <2>1, <2>2
<1> QED
  BY <1>2, <1>3, <1>4 DEF ChallengeInv

LEMMA ChallengeRollback ==
  ASSUME TypeOK, ChallengeInv, NEW t \in Thread, Rollback(t)
  PROVE  ChallengeInv'
<1>1. NoRequest(tx[t].grant).pc = "idle"
  BY DEF NoRequest
<1> QED
  BY <1>1, ChallengeLocal DEF Rollback

(* The commit of an authorization writes the challenge in the row whenever   *)
(* it counts as sent.                                                        *)
LEMMA ChallengeCommit ==
  ASSUME TypeOK, CodeInv, ChallengeInv, NEW t \in Thread, AuthorizeCommit(t), ~Rollback(t)
  PROVE  ChallengeInv'
<1> DEFINE n == tx[t].code
           i == [state |-> tx[t].state, challenged |-> tx[t].pkce /\ tx[t].challenge # None]
<1>1. /\ tx[t].pc = "flushed"
      /\ codes' = [codes EXCEPT ![tx[t].grant] = SavedCode(t)]
      /\ given' = [given EXCEPT ![n] = i]
      /\ tx' = [tx EXCEPT ![t] = NoRequest(tx[t].grant)]
  BY DEF AuthorizeCommit
<1>2. n \in Code /\ given[n] = None /\ tx[t].grant \in Grant
  BY <1>1 DEF TypeOK, Request, CodeInv, FreshInv, Authorizing
<1>3. \A m \in Code : given'[m] = IF m = n THEN i ELSE given[m]
  BY <1>1 DEF TypeOK
<1>4. i.challenged => tx[t].pkce /\ tx[t].challenge = n
  BY <1>1 DEF ChallengeInv, Authorizing
<1>5. SavedCode(t).code = n /\ (tx[t].pkce => SavedCode(t).challenge = tx[t].challenge)
  BY DEF SavedCode
<1>6. \A u \in Thread : tx'[u] = IF u = t THEN NoRequest(tx[t].grant) ELSE tx[u]
  BY <1>1 DEF TypeOK
<1>7. NoRequest(tx[t].grant).pc = "idle"
  BY DEF NoRequest
<1> HIDE DEF n, i
<1>8. \A u \in Thread : Authorizing(u)' => tx'[u].challenge \in {tx'[u].code, None}
  BY <1>6, <1>7 DEF ChallengeInv, Authorizing
<1>9. ASSUME NEW g \in Grant, codes'[g] # None, Challenged(codes[g].code)'
      PROVE  codes'[g].challenge = codes'[g].code
  <2>1. CASE g = tx[t].grant
    <3>1. codes'[g] = SavedCode(t)
      BY <1>1, <2>1 DEF TypeOK
    <3> QED
      BY <1>2, <1>3, <1>4, <1>5, <1>9, <3>1 DEF Challenged
  <2>2. CASE g # tx[t].grant
    <3>1. codes'[g] = codes[g] /\ codes[g].code \in Code
      BY <1>1, <1>9, <2>2 DEF TypeOK, Row
    <3>2. codes[g].code # n
      BY <1>2, <1>9, <3>1 DEF CodeInv, StoredInv, Unanswered
    <3> QED
      BY <1>3, <1>9, <3>1, <3>2 DEF ChallengeInv, Challenged
  <2> QED
    BY <2>1, <2>2
<1>10. ASSUME NEW u \in Thread, Exchanging(u)'
       PROVE  /\ given'[tx'[u].code] # None
              /\ Challenged(tx[u].code)' => tx'[u].challenge = tx'[u].code
  <2>1. u # t /\ tx'[u] = tx[u] /\ Exchanging(u)
    BY <1>6, <1>7, <1>10 DEF Exchanging
  <2>2. tx[u].code \in Code /\ given[tx[u].code] # None
    BY <2>1 DEF ChallengeInv, Exchanging, TypeOK
  <2>3. given'[tx[u].code] = given[tx[u].code]
    BY <1>2, <1>3, <2>2
  <2> QED
    BY <2>1, <2>2, <2>3 DEF ChallengeInv, Challenged
<1> QED
  BY <1>8, <1>9, <1>10 DEF ChallengeInv

LEMMA ChallengeStep ==
  TypeOK /\ CodeInv /\ ChallengeInv /\ [Next]_vars => ChallengeInv'
<1> SUFFICES ASSUME TypeOK, CodeInv, ChallengeInv, [Next]_vars PROVE ChallengeInv'
  OBVIOUS
<1>1. ASSUME NEW t \in Thread, NEW g \in Grant, NEW n \in Code,
             NEW s \in CodeOrNone, NEW v \in CodeOrNone, Authorize(t, g, n, s, v)
      PROVE  ChallengeInv'
  <2> DEFINE r == [pc |-> "authorize", grant |-> g, code |-> n,
                   row |-> IF codes[g] = None THEN n ELSE codes[g].id,
                   isnew |-> codes[g] = None,
                   state |-> s, challenge |-> v, pkce |-> FALSE]
  <2>1. tx' = [tx EXCEPT ![t] = r] /\ UNCHANGED <<codes, given>>
    BY <1>1 DEF Authorize
  <2>2. r.pc = "authorize" /\ r.challenge \in {r.code, None}
    BY <1>1 DEF Authorize
  <2> HIDE DEF r
  <2> QED
    BY <2>1, <2>2, ChallengeLocal
<1>2. ASSUME NEW t \in Thread, NEW g \in Grant, NEW n \in Code,
             NEW s \in CodeOrNone, NEW v \in CodeOrNone, Exchange(t, g, n, s, v)
      PROVE  ChallengeInv'
  <2> DEFINE r == [pc |-> "validated", grant |-> g, code |-> n, row |-> codes[g].id,
                   isnew |-> FALSE, state |-> None, challenge |-> v, pkce |-> FALSE]
  <2>1. /\ tx' = [tx EXCEPT ![t] = r] /\ UNCHANGED <<codes, given>>
        /\ codes[g] # None /\ codes[g].code = n /\ Verified(g, v)
    BY <1>2 DEF Exchange, CodeValid, Holds
  <2>2. given[n] # None
    BY <2>1 DEF CodeInv, StoredInv, Unanswered
  <2>3. Challenged(n) => v = n
    <3>1. Challenged(n) => codes[g].challenge = n
      BY <2>1 DEF ChallengeInv
    <3> QED
      BY <2>1, <3>1, DistinctAssumption DEF Verified
  <2>4. r.pc = "validated" /\ r.code = n /\ r.challenge = v
    OBVIOUS
  <2> HIDE DEF r
  <2> QED
    BY <2>1, <2>2, <2>3, <2>4, ChallengeLocal
<1>3. ASSUME NEW t \in Thread, NEW g \in Grant, Refresh(t, g) PROVE ChallengeInv'
  <2>1. [NoRequest(g) EXCEPT !.pc = "refresh"].pc = "refresh"
    BY DEF NoRequest
  <2> QED
    BY <1>3, <2>1, ChallengeLocal DEF Refresh
<1>4. ASSUME NEW t \in Thread, AuthorizeFlush(t), ~Rollback(t) PROVE ChallengeInv'
  <2> DEFINE r == [tx[t] EXCEPT !.pc = "flushed", !.pkce = required[tx[t].grant[1]].pkce]
  <2>1. tx' = [tx EXCEPT ![t] = r] /\ UNCHANGED <<codes, given>> /\ tx[t].pc = "authorize"
    BY <1>4 DEF AuthorizeFlush
  <2>2. r.pc = "flushed" /\ r.challenge = tx[t].challenge /\ r.code = tx[t].code
    BY DEF TypeOK, Request
  <2>3. tx[t].challenge \in {tx[t].code, None}
    BY <2>1 DEF ChallengeInv, Authorizing
  <2> HIDE DEF r
  <2> QED
    BY <2>1, <2>2, <2>3, ChallengeLocal
<1>5. ASSUME NEW t \in Thread, SaveToken(t) PROVE ChallengeInv'
  <2> DEFINE r == [tx[t] EXCEPT !.pc = "saving", !.isnew = ~tokens[tx[t].grant]]
  <2>1. tx' = [tx EXCEPT ![t] = r] /\ UNCHANGED <<codes, given>> /\ Exchanging(t)
    BY <1>5 DEF SaveToken, Exchanging
  <2>2. r.pc = "saving" /\ r.challenge = tx[t].challenge /\ r.code = tx[t].code
    BY DEF TypeOK, Request
  <2> HIDE DEF r
  <2> QED
    BY <2>1, <2>2, ChallengeLocal DEF ChallengeInv
<1>6. ASSUME NEW t \in Thread, InvalidateCode(t), ~Rollback(t) PROVE ChallengeInv'
  <2> DEFINE r == [tx[t] EXCEPT !.pc = "found", !.row = codes[tx[t].grant].id]
  <2>1. tx' = [tx EXCEPT ![t] = r] /\ UNCHANGED <<codes, given>> /\ Exchanging(t)
    BY <1>6 DEF InvalidateCode, Exchanging
  <2>2. r.pc = "found" /\ r.challenge = tx[t].challenge /\ r.code = tx[t].code
    BY DEF TypeOK, Request
  <2> HIDE DEF r
  <2> QED
    BY <2>1, <2>2, ChallengeLocal DEF ChallengeInv
<1>7. ASSUME NEW t \in Thread, ExchangeCommit(t) PROVE ChallengeInv'
  <2>1. /\ tx' = [tx EXCEPT ![t] = NoRequest(tx[t].grant)] /\ given' = given
        /\ tx[t].grant \in Grant
    BY <1>7 DEF ExchangeCommit, TypeOK, Request
  <2>2. \A g \in Grant : codes'[g] # None => codes[g] # None /\ codes'[g] = codes[g]
    BY <1>7, <2>1 DEF ExchangeCommit, TypeOK
  <2>3. NoRequest(tx[t].grant).pc = "idle"
    BY DEF NoRequest
  <2> QED
    BY <2>1, <2>2, <2>3, ChallengeLocal
<1>8. ASSUME UNCHANGED <<tx, given>>,
             \A g \in Grant : codes'[g] # None =>
               /\ codes[g] # None
               /\ codes'[g].code = codes[g].code /\ codes'[g].challenge = codes[g].challenge
      PROVE  ChallengeInv'
  BY <1>8 DEF ChallengeInv, Authorizing, Exchanging, Challenged
<1>9. ASSUME NEW g \in Grant, CodeExpires(g) PROVE ChallengeInv'
  <2>1. codes[g] \in Row /\ codes' = [codes EXCEPT ![g] = [codes[g] EXCEPT !.expired = TRUE]]
    BY <1>9 DEF CodeExpires, TypeOK
  <2>2. \A h \in Grant : codes'[h] = IF h = g THEN [codes[g] EXCEPT !.expired = TRUE] ELSE codes[h]
    BY <2>1 DEF TypeOK
  <2>3. /\ [codes[g] EXCEPT !.expired = TRUE].code = codes[g].code
        /\ [codes[g] EXCEPT !.expired = TRUE].challenge = codes[g].challenge
    BY <2>1 DEF Row
  <2> QED
    BY <1>8, <1>9, <2>2, <2>3 DEF CodeExpires
<1>10. ASSUME NEW c \in Client, NEW r \in [state : BOOLEAN, pkce : BOOLEAN], SetRequired(c, r)
       PROVE ChallengeInv'
  BY <1>8, <1>10 DEF SetRequired
<1>11. ASSUME NEW x \in exist, Delete(x) PROVE ChallengeInv'
  BY <1>8, <1>11 DEF Delete
<1>12. CASE UNCHANGED vars
  BY <1>8, <1>12 DEF vars
<1> QED
  BY <1>1, <1>2, <1>3, <1>4, <1>5, <1>6, <1>7, <1>9, <1>10, <1>11, <1>12,
     ChallengeRollback, ChallengeCommit
  DEF Next, Receive, Step, RefreshCommit, RequestFails

(* A code that was asked for with a challenge while its client had to send   *)
(* one is only exchanged by who has the verifier of that authorization.      *)
THEOREM VerifierMatches == Spec => []VerifierOfItsCode
<1>1. Init => ChallengeInv
  BY DEF Init, ChallengeInv, Authorizing, Exchanging, NoRequest
<1>2. TypeOK /\ ChallengeInv => VerifierOfItsCode
  BY ChallengeVerifies
<1> QED
  BY <1>1, <1>2, ChallengeStep, TypeCorrect, CodeInvariant, PTL DEF Spec
=============================================================================
