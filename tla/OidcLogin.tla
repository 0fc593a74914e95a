------------------------------ MODULE OidcLogin ------------------------------
(***************************************************************************)
(* A browser that logs in with OpenID Connect (lib/oidc.py, views/login.py):    *)
(* the cookies that the answers set and the requests carry, the refresh of       *)
(* the access token inside of any request that asks for its user, the row of     *)
(* static.user that a subject is matched with.  The identity provider is         *)
(* external: it gives tokens for a code and its verifier, and new ones for the   *)
(* refresh token that it gave last.  Requests of one browser overlap.            *)
(***************************************************************************)
EXTENDS Naturals, FiniteSets

CONSTANTS
  Call,            \* requests of the browser that are answered at the same time
  Tab,             \* logins that the browser starts
  MaxTokens,       \* bound: tokens that the provider gives
  Name,            \* user names
  Mail,            \* addresses
  Subject,         \* what the provider knows of the user at first
  None

OidcAssumption ==
  /\ MaxTokens \in Nat /\ Subject \in [username : Name, email : Mail]
  /\ None \notin Nat /\ None \notin Mail

VARIABLES
  setup,           \* authentication.openid_connect
  subject,         \* what the provider knows of the user: "sub" and "email"
  rows,            \* static.user: user name to address
  cookie,          \* the cookies of the browser
  given,           \* tokens that the provider gave; the last ones are the good ones
  revoked,         \* the last tokens were revoked
  stale,           \* the access token that the browser has is over
  tab,             \* where each login of the browser is
  call,            \* the requests under way
  overlapped,      \* history: an answer did not reach the cookies, or reached them out of order
  changed          \* history: the subject is not the one of the last callback any more

oidcVars == <<setup, subject, rows, cookie, given, revoked, stale, tab, call, overlapped, changed>>

Tokens == 1..MaxTokens
Setup == [match_field : {"username", "email"}, update_fields : SUBSET {"username", "email"},
          create_user : BOOLEAN]

(* The cookie that remembers carries what the provider said of the user with the tokens. *)
Remember == [username : Name, email : Mail]
Cookies == [remember : Remember \cup {None}, refresh_token : Tokens \cup {None},
            code_verifier : Tab \cup {None}, came_from : BOOLEAN]
Nothing == [remember |-> None, refresh_token |-> None, code_verifier |-> None, came_from |-> FALSE]

(* What an answer sets. *)
Idle    == [set |-> "no answer"]
NoSet   == [set |-> "nothing"]
Forget  == [set |-> "forget"]
Answers == {NoSet, Forget} \cup [set : {"tokens"}, remember : Remember, refresh_token : Tokens]

TypeOK ==
  /\ setup \in Setup /\ subject \in [username : Name, email : Mail]
  /\ rows \in [Name -> Mail \cup {None}]
  /\ cookie \in Cookies /\ given \in 0..MaxTokens /\ revoked \in BOOLEAN /\ stale \in BOOLEAN
  /\ tab \in [Tab -> {"closed", "away", "done"}]
  /\ call \in [Call -> {Idle} \cup Answers]
  /\ overlapped \in BOOLEAN /\ changed \in BOOLEAN

Init ==
  /\ setup \in Setup
  /\ subject = Subject
  /\ rows \in [Name -> Mail \cup {None}]
  /\ cookie = Nothing /\ given = 0 /\ revoked = FALSE /\ stale = FALSE
  /\ tab = [t \in Tab |-> "closed"] /\ call = [c \in Call |-> Idle]
  /\ overlapped = FALSE /\ changed = FALSE

-----------------------------------------------------------------------------
(* get_user_from_remember: the rows that match what is remembered. *)
Matching(remember) ==
  {n \in Name : /\ rows[n] # None
                /\ IF setup.match_field = "username" THEN n = remember.username
                   ELSE rows[n] = remember.email}

(* The rows once the callback has updated the one that it found, or created one.  More than one
   match, or a name that is taken, is an error. *)
ChangedRow(remember) ==
  LET name(n) == IF "username" \in setup.update_fields THEN remember.username ELSE n
      mail(n) == IF "email" \in setup.update_fields THEN remember.email ELSE rows[n]
  IN {[[rows EXCEPT ![n] = None] EXCEPT ![name(n)] = mail(n)] :
        n \in {k \in Matching(remember) : Matching(remember) = {k} /\ (name(k) = k \/ rows[name(k)] = None)}}

NewRow(remember) ==
  IF ~setup.create_user THEN {rows}
  ELSE {[rows EXCEPT ![n] = remember.email] : n \in {k \in {remember.username} : rows[k] = None}}

(* mutant: a user is created although there is one *)
ChangedOrNew(remember) == ChangedRow(remember) \cup NewRow(remember)

Updated(remember) == IF Matching(remember) = {} THEN NewRow(remember) ELSE ChangedRow(remember)

(* mutant: the refresh token is the one that was used *)
SameRefreshToken == [set |-> "tokens", remember |-> subject,
                     refresh_token |-> IF cookie.refresh_token = None THEN given + 1 ELSE cookie.refresh_token]

(* OidcRemember.remember: the cookies of new tokens. *)
NewTokens == [set |-> "tokens", remember |-> subject, refresh_token |-> given + 1]

Give == given < MaxTokens /\ given' = given + 1 /\ revoked' = FALSE

(* Login.oidc_login: another tab takes the cookies of the one before. *)
OidcLogin(t, came_from) ==
  /\ tab[t] = "closed"
  /\ tab' = [tab EXCEPT ![t] = "away"]
  /\ cookie' = [cookie EXCEPT !.code_verifier = t, !.came_from = came_from \/ cookie.came_from]
  /\ UNCHANGED <<setup, subject, rows, given, revoked, stale, call, overlapped, changed>>

(* Login.oidc_callback: with came_from, the answer carries the cookies that were set. *)
OidcCallback(t) ==
  /\ tab[t] = "away" /\ cookie.code_verifier = t
  /\ tab' = [tab EXCEPT ![t] = "done"]
  /\ Give
  /\ rows' \in Updated(subject)
  /\ IF cookie.came_from
     THEN /\ cookie' = [remember |-> subject, refresh_token |-> NewTokens.refresh_token,
                        code_verifier |-> None, came_from |-> FALSE]
          /\ stale' = FALSE
     ELSE UNCHANGED <<cookie, stale>>
  /\ overlapped' = (overlapped \/ ~cookie.came_from \/ \E c \in Call : call[c] # Idle)
  /\ changed' = (changed /\ ~cookie.came_from)
  /\ UNCHANGED <<setup, subject, call>>

(* The verifier is the one of another tab, or it is over; or the row of the user could not be
   found or written: the answer is an error, which sets no cookie.  The tokens were given. *)
RefusedCallback(t) ==
  /\ tab[t] = "away"
  /\ tab' = [tab EXCEPT ![t] = "done"]
  /\ \/ cookie.code_verifier # t /\ UNCHANGED <<given, revoked, overlapped>>
     \/ /\ cookie.code_verifier = t /\ Give
        /\ Updated(subject) = {}
        /\ overlapped' = TRUE
  /\ UNCHANGED <<setup, subject, rows, cookie, stale, call, changed>>

(* get_user_from_request: an access token that is over is exchanged, when the refresh token is
   there and the provider takes it. *)
Exchanges == stale /\ cookie.refresh_token = given /\ ~revoked

(* A view asks for its user. A view that makes an answer of its own leaves what was set aside. *)
View(c, own) ==
  /\ call[c] = Idle /\ cookie.remember # None
  /\ call' = [call EXCEPT ![c] = IF Exchanges /\ ~own THEN NewTokens ELSE NoSet]
  /\ IF Exchanges THEN Give /\ overlapped' = (overlapped \/ own)
     ELSE UNCHANGED <<given, revoked, overlapped>>
  /\ UNCHANGED <<setup, subject, rows, cookie, stale, tab, changed>>

(* Login.logout: the tokens are revoked, when the client knows how, before the user is asked for; a
   user that is not found makes it an error that clears no cookie. *)
Logout(c, revoke) ==
  LET exchanges == Exchanges /\ ~revoke
      found == Cardinality(Matching(cookie.remember)) = 1 /\ (stale => exchanges)
  IN /\ call[c] = Idle /\ cookie.remember # None
     /\ call' = [call EXCEPT ![c] = IF found THEN Forget ELSE NoSet]
     /\ IF exchanges THEN Give
        ELSE given' = given /\ revoked' = (revoked \/ (revoke /\ cookie.refresh_token = given))
     /\ overlapped' = (overlapped \/ (~found /\ exchanges))
     /\ UNCHANGED <<setup, subject, rows, cookie, stale, tab, changed>>

(* The browser gets an answer: it keeps the cookies that the answer sets. *)
Receive(c) ==
  /\ call[c] # Idle
  /\ cookie' = CASE call[c].set = "nothing" -> cookie
                 [] call[c].set = "forget"  -> [cookie EXCEPT !.remember = None, !.refresh_token = None]
                 [] call[c].set = "tokens"  -> [cookie EXCEPT !.remember = call[c].remember,
                                                              !.refresh_token = call[c].refresh_token]
  /\ stale' = (stale /\ call[c].set = "nothing")
  /\ call' = [call EXCEPT ![c] = Idle]
  /\ overlapped' = (overlapped \/ (call[c] # NoSet /\ \E d \in Call \ {c} : call[d] # Idle))
  /\ UNCHANGED <<setup, subject, rows, given, revoked, tab, changed>>

(* The access token is over; the cookie of the refresh token is; the verifier is. *)
TokenOver ==
  /\ cookie.remember # None /\ ~stale /\ stale' = TRUE
  /\ UNCHANGED <<setup, subject, rows, cookie, given, revoked, tab, call, overlapped, changed>>

CookieOver(k) ==
  /\ cookie[k] # None /\ cookie' = [cookie EXCEPT ![k] = None]
  /\ UNCHANGED <<setup, subject, rows, given, revoked, stale, tab, call, overlapped, changed>>

(* The user's address or name changes at the provider; bound: once after a login, until the next one. *)
SubjectChanges ==
  /\ cookie.remember # None /\ ~changed
  /\ subject' \in [username : Name, email : Mail] \ {subject}
  /\ changed' = TRUE
  /\ UNCHANGED <<setup, rows, cookie, given, revoked, stale, tab, call, overlapped>>

Next ==
  \/ \E t \in Tab : RefusedCallback(t) \/ OidcCallback(t) \/ \E came_from \in BOOLEAN : OidcLogin(t, came_from)
  \/ \E c \in Call : Receive(c) \/ \E b \in BOOLEAN : View(c, b) \/ Logout(c, b)
  \/ TokenOver \/ SubjectChanges
  \/ \E k \in {"refresh_token", "code_verifier"} : CookieOver(k)

Spec == Init /\ [][Next]_oidcVars

-----------------------------------------------------------------------------
(* The refresh token that the browser has is the one that the provider takes, as long as every answer
   reached the cookies before the next request left. *)
RefreshTokenIsGood ==
  ~overlapped /\ (\A c \in Call : call[c] = Idle) /\ cookie.refresh_token # None
     => cookie.refresh_token = given

(* A subject that was remembered is one user, and the same one until the provider says something
   else of it: what the callback matches, updates or creates is what later requests match, as long as every
   answer reached the cookies before the next request left. *)
RememberedIsOneUser ==
  ~overlapped /\ setup.create_user /\ ~changed /\ cookie.remember # None
     => Cardinality(Matching(cookie.remember)) = 1
=============================================================================
