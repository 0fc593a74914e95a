----------------------------- MODULE OAuth2Server -----------------------------
(***************************************************************************)
(* The OAuth2 authorization server (lib/oauth2.py, driven by oauthlib from *)
(* views/login.py): authorization codes, their exchange for tokens and the *)
(* refresh of tokens, as transactions of concurrent requests on the tables *)
(* oauth2_authorizationcode and oauth2_bearertoken.                        *)
(*                                                                         *)
(* Transactions run at PostgreSQL's READ COMMITTED: a query sees what is   *)
(* committed when it runs; a flushed INSERT or UPDATE locks its row until  *)
(* the end of the transaction, and another writer of the row waits; then   *)
(* an INSERT of the same unique key fails, and so does an UPDATE of a row  *)
(* that is gone.  A DELETE goes by primary key.                            *)
(*                                                                         *)
(* A state parameter and a code challenge are abstracted to the code of    *)
(* the authorization they were sent with; tokens to whether there are any. *)
(***************************************************************************)
EXTENDS Naturals, FiniteSets

CONSTANTS
  Client, User,   \* OAuth2Client and User rows
  Code,           \* bound: the codes generate_token can return, each once
  Thread,         \* bound: concurrent requests
  None

Grant == Client \X User

ASSUME DistinctAssumption == Client \cap User = {} /\ None \notin Code

VARIABLES
  exist,      \* the clients and users that exist
  required,   \* required[c]: state_required and pkce_required of client c
  codes,      \* codes[g]: committed row of oauth2_authorizationcode, or None
  tokens,     \* tokens[g]: whether oauth2_bearertoken holds a committed row
  tx,         \* tx[t]: the request that thread t serves
  given,      \* history: given[n]: what the client sent for the code n
  answers     \* history: answers[n]: number of tokens answered for the code n

vars == <<exist, required, codes, tokens, tx, given, answers>>

-----------------------------------------------------------------------------
(* Types *)

CodeOrNone == Code \cup {None}

(* id stands for the primary key: the code the row was inserted with. *)
Row == [id : Code, code : Code, state : CodeOrNone, challenge : CodeOrNone,
        expired : BOOLEAN]

Given == [state : CodeOrNone, challenged : BOOLEAN]

ASSUME NoneAssumption == None \notin Row /\ None \notin Given

(* pc is "idle"; "authorize" or "flushed" in an authorization; "validated",  *)
(* "saving" or "found" in an exchange; "refresh" in a refresh.  row is the   *)
(* primary key of the code row the request works on, isnew says that it      *)
(* found no row to update, pkce that the client required a challenge.        *)
Request ==
  [pc : {"idle", "authorize", "flushed", "validated", "saving", "found", "refresh"},
   grant : Grant, code : CodeOrNone, row : CodeOrNone, isnew : BOOLEAN,
   state : CodeOrNone, challenge : CodeOrNone, pkce : BOOLEAN]

TypeOK ==
  /\ exist \subseteq Client \cup User
  /\ required \in [Client -> [state : BOOLEAN, pkce : BOOLEAN]]
  /\ codes \in [Grant -> Row \cup {None}]
  /\ tokens \in [Grant -> BOOLEAN]
  /\ tx \in [Thread -> Request]
  /\ \A t \in Thread : tx[t].pc \notin {"idle", "refresh"} =>
       tx[t].code \in Code /\ tx[t].row \in Code
  /\ given \in [Code -> Given \cup {None}]
  /\ answers \in [Code -> Nat]

NoRequest(g) ==
  [pc |-> "idle", grant |-> g, code |-> None, row |-> None, isnew |-> FALSE,
   state |-> None, challenge |-> None, pkce |-> FALSE]

Init ==
  /\ exist = Client \cup User
  /\ required \in [Client -> [state : BOOLEAN, pkce : BOOLEAN]]
  /\ codes = [g \in Grant |-> None]
  /\ tokens = [g \in Grant |-> FALSE]
  /\ \E g \in Grant : tx = [t \in Thread |-> NoRequest(g)]
  /\ given = [n \in Code |-> None]
  /\ answers = [n \in Code |-> 0]

-----------------------------------------------------------------------------
(* Rows and locks *)

Exist(g) == {g[1], g[2]} \subseteq exist

CodeLocked(g) ==
  \E t \in Thread : tx[t].grant = g /\ tx[t].pc = "flushed" /\ ~tx[t].isnew

\* mutant
NeverLocked(g) == FALSE

TokenLocked(g) == \E t \in Thread : tx[t].grant = g /\ tx[t].pc = "found"

Holds(g, n) == codes[g] # None /\ codes[g].code = n

(* token_urlsafe never returns the same code twice. *)
Fresh(n) == given[n] = None /\ \A t \in Thread : tx[t].code # n

(* The transaction is rolled back: an exception left the view. *)
Rollback(t) ==
  /\ tx' = [tx EXCEPT ![t] = NoRequest(tx[t].grant)]
  /\ UNCHANGED <<exist, required, codes, tokens, given, answers>>

-----------------------------------------------------------------------------
(* The authorization of client g[1] by user g[2], who is logged in           *)

(* oauthlib validates the request (a challenge is there if the client must   *)
(* send one), and save_authorization_code looks for the row of the grant.    *)
Authorize(t, g, n, s, ch) ==
  /\ tx[t].pc = "idle"
  /\ Exist(g) /\ Fresh(n)
  /\ s \in {n, None} /\ ch \in {n, None}
  /\ required[g[1]].pkce => ch = n
  /\ tx' = [tx EXCEPT ![t] =
       [pc |-> "authorize", grant |-> g, code |-> n,
        row |-> IF codes[g] = None THEN n ELSE codes[g].id,
        isnew |-> codes[g] = None,
        state |-> s, challenge |-> ch, pkce |-> FALSE]]
  /\ UNCHANGED <<exist, required, codes, tokens, given, answers>>

(* The query for the client flushes the UPDATE of a row that was found; then *)
(* the state parameter may be missing.                                       *)
AuthorizeFlush(t) ==
  LET g == tx[t].grant IN
  /\ tx[t].pc = "authorize"
  /\ tx[t].isnew \/ ~CodeLocked(g)
  /\ IF /\ tx[t].isnew \/ (codes[g] # None /\ codes[g].id = tx[t].row)
        /\ required[g[1]].state => tx[t].state # None
       THEN /\ tx' = [tx EXCEPT ![t] = [@ EXCEPT !.pc = "flushed", !.pkce = required[g[1]].pkce]]
            /\ UNCHANGED <<exist, required, codes, tokens, given, answers>>
       ELSE Rollback(t)

(* mutant: a new row has no primary key *)
SavedWithoutKey(t) ==
  [id |-> IF tx[t].isnew THEN None ELSE tx[t].row, code |-> tx[t].code,
   state |-> None, challenge |-> None, expired |-> FALSE]

(* mutant: the challenge is written in a new row only, as the state is *)
SavedChallengeOnce(t) ==
  LET old == codes[tx[t].grant] IN
  [id |-> tx[t].row, code |-> tx[t].code,
   state |-> IF tx[t].isnew THEN tx[t].state ELSE old.state,
   challenge |-> IF tx[t].isnew THEN tx[t].challenge ELSE old.challenge,
   expired |-> FALSE]

(* The row that the transaction commits.  The state parameter is written in  *)
(* a new row only; the challenge only when the client requires one.          *)
SavedCode(t) ==
  LET r == tx[t]
      challenge == IF r.pkce THEN r.challenge
                   ELSE IF r.isnew THEN None ELSE codes[r.grant].challenge IN
  [id |-> r.row, code |-> r.code,
   state |-> IF r.isnew THEN r.state ELSE codes[r.grant].state,
   challenge |-> challenge, expired |-> FALSE]

(* mutant: the commit also needs the row of the tokens *)
AuthorizeCommitLater(t) ==
  /\ tx[t].pc = "flushed"
  /\ ~TokenLocked(tx[t].grant)
  /\ tx[t].isnew => codes[tx[t].grant] = None /\ Exist(tx[t].grant)
  /\ codes' = [codes EXCEPT ![tx[t].grant] = SavedCode(t)]
  /\ given' = [given EXCEPT ![tx[t].code] = [state |-> tx[t].state, challenged |-> FALSE]]
  /\ tx' = [tx EXCEPT ![t] = NoRequest(tx[t].grant)]
  /\ UNCHANGED <<exist, required, tokens, answers>>

(* mutant: no foreign keys *)
AuthorizeCommitForAnyone(t) ==
  /\ tx[t].pc = "flushed"
  /\ tx[t].isnew => codes[tx[t].grant] = None
  /\ codes' = [codes EXCEPT ![tx[t].grant] = SavedCode(t)]
  /\ given' = [given EXCEPT ![tx[t].code] = [state |-> tx[t].state, challenged |-> FALSE]]
  /\ tx' = [tx EXCEPT ![t] = NoRequest(tx[t].grant)]
  /\ UNCHANGED <<exist, required, tokens, answers>>

(* The view commits; a new row is inserted only now, and its unique key and  *)
(* its foreign keys are checked.                                             *)
AuthorizeCommit(t) ==
  LET r == tx[t] IN
  /\ r.pc = "flushed"
  /\ IF r.isnew => codes[r.grant] = None /\ Exist(r.grant)
       THEN /\ codes' = [codes EXCEPT ![r.grant] = SavedCode(t)]
            /\ given' = [given EXCEPT ![r.code] =
                 [state |-> r.state, challenged |-> r.pkce /\ r.challenge # None]]
            /\ tx' = [tx EXCEPT ![t] = NoRequest(r.grant)]
            /\ UNCHANGED <<exist, required, tokens, answers>>
       ELSE Rollback(t)

-----------------------------------------------------------------------------
(* The exchange of the code n for tokens                                     *)

(* validate_code accepts; s is the state parameter of the token request.     *)
CodeValid(g, n, s) ==
  /\ Holds(g, n) /\ ~codes[g].expired
  /\ required[g[1]].state => codes[g].state = s

(* oauthlib accepts the verifier, named by the challenge it belongs to.      *)
Verified(g, v) ==
  IF codes[g].challenge # None THEN v = codes[g].challenge ELSE ~required[g[1]].pkce

(* The whole validation, confirm_redirect_uri last. *)
Exchange(t, g, n, s, v) ==
  /\ tx[t].pc = "idle"
  /\ CodeValid(g, n, s) /\ Verified(g, v)
  /\ tx' = [tx EXCEPT ![t] =
       [pc |-> "validated", grant |-> g, code |-> n, row |-> codes[g].id,
        isnew |-> FALSE, state |-> None, challenge |-> v, pkce |-> FALSE]]
  /\ UNCHANGED <<exist, required, codes, tokens, given, answers>>

(* save_bearer_token looks for the row of the grant. *)
SaveToken(t) ==
  /\ tx[t].pc = "validated"
  /\ tx' = [tx EXCEPT ![t] = [@ EXCEPT !.pc = "saving", !.isnew = ~tokens[tx[t].grant]]]
  /\ UNCHANGED <<exist, required, codes, tokens, given, answers>>

(* The flush of the token row: an INSERT or an UPDATE. *)
TokenSaved(t) ==
  LET g == tx[t].grant IN
  IF tx[t].isnew THEN ~tokens[g] /\ Exist(g) ELSE tokens[g]

(* invalidate_authorization_code queries the code to delete, which first     *)
(* flushes the token; .one() raises when the code is not there any more.     *)
InvalidateCode(t) ==
  LET g == tx[t].grant IN
  /\ tx[t].pc = "saving"
  /\ ~TokenLocked(g)
  /\ IF TokenSaved(t) /\ Holds(g, tx[t].code)
       THEN /\ tx' = [tx EXCEPT ![t] = [@ EXCEPT !.pc = "found", !.row = codes[g].id]]
            /\ UNCHANGED <<exist, required, codes, tokens, given, answers>>
       ELSE Rollback(t)

(* mutant: the code stays *)
ExchangeKeepsCode(t) ==
  /\ tx[t].pc = "found"
  /\ tokens' = [tokens EXCEPT ![tx[t].grant] = TRUE]
  /\ answers' = [answers EXCEPT ![tx[t].code] = @ + 1]
  /\ tx' = [tx EXCEPT ![t] = NoRequest(tx[t].grant)]
  /\ UNCHANGED <<exist, required, codes, given>>

(* The commit flushes the DELETE, which waits for the row; then the tokens   *)
(* are answered.                                                             *)
ExchangeCommit(t) ==
  LET r == tx[t] IN
  /\ r.pc = "found"
  /\ ~CodeLocked(r.grant)
  /\ tokens' = [tokens EXCEPT ![r.grant] = TRUE]
  /\ codes' = IF codes[r.grant] # None /\ codes[r.grant].id = r.row
                THEN [codes EXCEPT ![r.grant] = None] ELSE codes
  /\ answers' = [answers EXCEPT ![r.code] = @ + 1]
  /\ tx' = [tx EXCEPT ![t] = NoRequest(r.grant)]
  /\ UNCHANGED <<exist, required, given>>

-----------------------------------------------------------------------------
(* The refresh of tokens: validate_refresh_token finds their row ... *)
Refresh(t, g) ==
  /\ tx[t].pc = "idle"
  /\ tokens[g]
  /\ tx' = [tx EXCEPT ![t] = [NoRequest(g) EXCEPT !.pc = "refresh"]]
  /\ UNCHANGED <<exist, required, codes, tokens, given, answers>>

(* ... and the commit updates it. *)
RefreshCommit(t) ==
  /\ tx[t].pc = "refresh"
  /\ ~TokenLocked(tx[t].grant)
  /\ Rollback(t)   \* the row is there with other tokens, or it is gone

(* Any request may fail before it commits. *)
RequestFails(t) ==
  /\ tx[t].pc # "idle"
  /\ Rollback(t)

-----------------------------------------------------------------------------
(* Meanwhile *)

CodeExpires(g) ==
  /\ codes[g] # None /\ ~codes[g].expired
  /\ codes' = [codes EXCEPT ![g].expired = TRUE]
  /\ UNCHANGED <<exist, required, tokens, tx, given, answers>>

(* An admin changes what a client must send. *)
SetRequired(c, r) ==
  /\ required[c] # r
  /\ required' = [required EXCEPT ![c] = r]
  /\ UNCHANGED <<exist, codes, tokens, tx, given, answers>>

(* An admin deletes a client or a user: ON DELETE CASCADE, which waits for   *)
(* the rows that refer to it.                                                *)
Delete(x) ==
  LET gone == {g \in Grant : x \in {g[1], g[2]}} IN
  /\ x \in exist
  /\ \A g \in gone : ~CodeLocked(g) /\ ~TokenLocked(g)
  /\ exist' = exist \ {x}
  /\ codes' = [g \in Grant |-> IF g \in gone THEN None ELSE codes[g]]
  /\ tokens' = [g \in Grant |-> g \notin gone /\ tokens[g]]
  /\ UNCHANGED <<required, tx, given, answers>>

-----------------------------------------------------------------------------
Step(t) ==
  \/ AuthorizeFlush(t)
  \/ AuthorizeCommit(t)
  \/ SaveToken(t)
  \/ InvalidateCode(t)
  \/ ExchangeCommit(t)
  \/ RefreshCommit(t)

Receive(t, g) ==
  \/ \E n \in Code, s, v \in CodeOrNone : Authorize(t, g, n, s, v) \/ Exchange(t, g, n, s, v)
  \/ Refresh(t, g)

Next ==
  \/ \E t \in Thread :
       \/ \E g \in Grant : Receive(t, g)
       \/ Step(t)
       \/ RequestFails(t)
  \/ \E g \in Grant : CodeExpires(g)
  \/ \E c \in Client, r \in [state : BOOLEAN, pkce : BOOLEAN] : SetRequired(c, r)
  \/ \E x \in exist : Delete(x)

(* A request that runs goes on, and PostgreSQL serves the transactions that  *)
(* wait for a row in their order.                                            *)
Fairness == \A t \in Thread : SF_vars(Step(t))

Spec == Init /\ [][Next]_vars

FairSpec == Spec /\ Fairness

-----------------------------------------------------------------------------
(* Properties *)

(* A code is answered with tokens at most once, and only if it was issued,   *)
(* whatever the exchanges that race for it.                                  *)
Issued == {n \in Code : given[n] # None}

Promise == INSTANCE OneTimeCode WITH issued <- Issued

CodesAnsweredOnce == Promise!Spec

(* The invariant behind it.  A code that is stored, or that an exchange is   *)
(* about to answer, was issued and not answered; no two exchanges are about  *)
(* to answer the same code, and the row that one of them deletes is the only *)
(* one that may still hold its code; a code that is being issued was never   *)
(* seen before; and the row that an authorization has locked stays.          *)
Authorizing(t) == tx[t].pc \in {"authorize", "flushed"}

Unanswered(n) == given[n] # None /\ answers[n] = 0

StoredInv == \A g \in Grant : codes[g] # None => Unanswered(codes[g].code)

FoundInv ==
  \A t \in Thread : tx[t].pc = "found" =>
    /\ Unanswered(tx[t].code)
    /\ \A g \in Grant : Holds(g, tx[t].code) =>
         g = tx[t].grant /\ codes[g].id = tx[t].row
    /\ \A u \in Thread : tx[u].pc = "found" /\ tx[u].code = tx[t].code => u = t

FreshInv ==
  /\ \A n \in Code : given[n] = None => answers[n] = 0
  /\ \A t \in Thread : Authorizing(t) =>
       /\ given[tx[t].code] = None
       /\ \A u \in Thread : Authorizing(u) /\ tx[u].code = tx[t].code => u = t

SingleInv ==
  \A g, h \in Grant :
    codes[g] # None /\ codes[h] # None /\ codes[g].code = codes[h].code => g = h

LockInv ==
  \A t \in Thread : tx[t].pc = "flushed" /\ ~tx[t].isnew =>
    codes[tx[t].grant] # None /\ codes[tx[t].grant].id = tx[t].row

CodeInv == StoredInv /\ FoundInv /\ FreshInv /\ SingleInv /\ LockInv

(* A code that was asked for with a challenge while its client had to send   *)
(* one is only ever exchanged by who has the verifier of that very           *)
(* authorization, even if the admin changes the client in between.           *)
VerifierOfItsCode ==
  \A t \in Thread :
    /\ tx[t].pc \in {"validated", "saving", "found"}
    /\ given[tx[t].code].challenged
    => tx[t].challenge = tx[t].code

(* Nothing of a deleted user or client is left, whatever was in flight when  *)
(* it was deleted.                                                           *)
NoGrantOfDeleted ==
  \A g \in Grant : codes[g] # None \/ tokens[g] => Exist(g)

(* Every request ends: no two of them wait for each other's rows. *)
RequestsEnd == \A t \in Thread : tx[t].pc # "idle" ~> tx[t].pc = "idle"

(* The state parameter that is stored with a code is the one its client sent *)
(* for it: "That value should be saved and used in 'validate_code'."         *)
StateOfItsCode ==
  \A g \in Grant : codes[g] # None => codes[g].state = given[codes[g].code].state

(* Only a code that was used is invalidated: "Invalidate an authorization    *)
(* code after use."                                                          *)
OnlyUsedInvalidated ==
  [][\A g \in Grant :
       codes[g] # None /\ codes'[g] = None /\ exist' = exist
         => answers'[codes[g].code] > 0]_vars
=============================================================================
