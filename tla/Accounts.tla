------------------------------- MODULE Accounts -------------------------------
(***************************************************************************)
(* The account of one user of the table static.user, under the views of       *)
(* views/login.py and the administration: logins with a password and, where   *)
(* the application wants it, a second factor, the count of failed logins,      *)
(* temporary passwords, changes of the password.  Every request is a           *)
(* transaction that reads the row, decides, and writes the columns that it     *)
(* changed when it commits; requests of several threads interleave.            *)
(***************************************************************************)
EXTENDS Naturals, TLC

CONSTANTS
  Thread,          \* requests that are handled at the same time
  Generated,       \* passwords that the application makes up
  Chosen,          \* passwords that the user chooses
  Secret,          \* secrets of second factors
  None,
  MaxConsecutiveFailures

AccountsAssumption ==
  /\ MaxConsecutiveFailures \in Nat \ {0}
  /\ None \notin Generated \cup Chosen \cup Secret

VARIABLES
  twoFactor,       \* authentication.two_factor
  user,            \* the row
  expired,         \* expire_on is over
  loggedIn,        \* the browser has the cookie that remembers the user
  request,         \* what every thread has read and will write
  failures,        \* history: failed logins since the last login or reactivation
  mailed,          \* history: the last password mailed, until the user changes the password
  disturbed        \* history: some write was made of values that were not the row's any more,
                   \* or a temporary password that was not both mailed and stored

accountVars == <<twoFactor, user, expired, loggedIn, request, failures, mailed, disturbed>>
history == <<failures, mailed, disturbed>>

Words == Generated \cup Chosen

(* tech_data is one column: it is written as a whole. *)
User == [password : [word : Words, legacy : BOOLEAN], temp_password : Generated \cup {None},
         is_password_changed : BOOLEAN, deactivated : BOOLEAN,
         tech_data : [consecutive_failed : 0..MaxConsecutiveFailures, secret : Secret \cup {None}]]

Idle == [kind |-> "idle"]
Kinds == {"login", "first login", "failure", "change", "reset", "unsent reset"}

TypeOK ==
  /\ twoFactor \in BOOLEAN /\ expired \in BOOLEAN /\ loggedIn \in BOOLEAN /\ disturbed \in BOOLEAN
  /\ user \in User
  /\ request \in [Thread -> {Idle} \cup [kind : Kinds, read : User, new : User]]
  /\ failures \in 0..MaxConsecutiveFailures
  /\ mailed \in Generated \cup {None}

(* UserViews.save: a new user has a generated password to change; users of old
   versions have one that is hashed in the old way. *)
Init ==
  /\ twoFactor \in BOOLEAN
  /\ \E word \in Words :
       user = [password |-> [word |-> word, legacy |-> word \in Chosen], temp_password |-> None,
               is_password_changed |-> word \in Chosen, deactivated |-> FALSE,
               tech_data |-> [consecutive_failed |-> 0, secret |-> None]]
  /\ mailed = IF user.password.word \in Generated THEN user.password.word ELSE None
  /\ expired = FALSE /\ loggedIn = FALSE /\ disturbed = FALSE /\ failures = 0
  /\ request = [t \in Thread |-> Idle]

-----------------------------------------------------------------------------
(* User.validate_password: a password hashed in the old way is hashed anew, a temporary
   password takes the place of the password. *)
IsPassword(word)  == word = user.password.word
IsTemporary(word) == ~IsPassword(word) /\ word = user.temp_password

(* mutant: the temporary password is thrown away when the password is right *)
RehashedAndCleared == [user EXCEPT !.password.legacy = FALSE, !.temp_password = None]

Rehashed == [user EXCEPT !.password.legacy = FALSE]

(* mutant: it is not to be changed *)
TemporaryToStay(word) == [user EXCEPT !.password = [word |-> word, legacy |-> FALSE], !.temp_password = None]

Temporary(word) == [user EXCEPT !.password = [word |-> word, legacy |-> FALSE], !.temp_password = None,
                                !.is_password_changed = FALSE]

Validated(word) == IF IsPassword(word) THEN Rehashed ELSE Temporary(word)

(* default_user_validator. *)
ValidateUser(word) == ~user.deactivated /\ ~expired /\ (IsPassword(word) \/ IsTemporary(word))

(* The request of a thread has decided what to write. *)
Decide(t, kind, new) ==
  /\ request' = [request EXCEPT ![t] = [kind |-> kind, read |-> user, new |-> new]]
  /\ UNCHANGED <<twoFactor, user, expired, loggedIn>>

(* The login of a user whose secret or password is new: the answer asks for a new password.
   An OAuth2 client is sent to a page that says so, by an exception, which rolls back. *)
FirstLogin(t, word) ==
  /\ request[t] = Idle
  /\ ValidateUser(word)
  /\ LET row == Validated(word) IN
       IF twoFactor
       THEN /\ row.tech_data.secret = None \/ ~row.is_password_changed
            /\ \E secret \in Secret :
                 Decide(t, "first login", [row EXCEPT !.is_password_changed = FALSE,
                                                      !.tech_data.secret = secret])
       ELSE /\ ~row.is_password_changed
            /\ Decide(t, "login", [row EXCEPT !.tech_data.consecutive_failed = 0])
  /\ UNCHANGED history

(* Login.login with everything right. A second factor that is wrong or missing rolls back:
   it is not counted. *)
LogIn(t, word, otp) ==
  /\ request[t] = Idle
  /\ ValidateUser(word)
  /\ Validated(word).is_password_changed
  /\ twoFactor => otp # None /\ otp = user.tech_data.secret
  /\ Decide(t, "login", [Validated(word) EXCEPT !.tech_data.consecutive_failed = 0])
  /\ UNCHANGED history

(* mutant: one more is let pass *)
MoreThanTooMany(failed) == failed > MaxConsecutiveFailures

TooMany(failed) == failed >= MaxConsecutiveFailures

(* Login.login with a wrong password: the failures are counted in a transaction that commits
   before the error is raised. *)
FailLogin(t, word) ==
  /\ request[t] = Idle
  /\ ~ValidateUser(word) /\ ~user.deactivated
  /\ Decide(t, "failure",
       IF TooMany(user.tech_data.consecutive_failed + 1)
       THEN [user EXCEPT !.deactivated = TRUE, !.tech_data.consecutive_failed = 0]
       ELSE [user EXCEPT !.tech_data.consecutive_failed = @ + 1])
  /\ UNCHANGED history

(* Login.change_password, for the login that is given, with its second factor, or for the user
   of the cookie. *)
ChangePassword(t, old, new, otp) ==
  /\ request[t] = Idle
  /\ (twoFactor => otp = user.tech_data.secret) \/ loggedIn
  /\ ValidateUser(old)
  /\ Decide(t, "change", [Validated(old) EXCEPT !.password = [word |-> new, legacy |-> FALSE],
                                                !.is_password_changed = TRUE])
  /\ UNCHANGED history

Passwords(row) == {row.password.word, row.temp_password}

(* A password that is made up is new. *)
Unused ==
  Generated \ ({mailed} \cup Passwords(user)
                \cup UNION {Passwords(request[t].read) \cup Passwords(request[t].new) :
                              t \in {u \in Thread : request[u] # Idle}})

(* Login.loginresetpassword: the temporary password is made before the view looks whether the user
   is deactivated; it is mailed before the transaction commits. *)
ResetPassword(t) ==
  /\ request[t] = Idle
  /\ \E word \in Unused :
       /\ Decide(t, IF user.deactivated THEN "unsent reset" ELSE "reset", [user EXCEPT !.temp_password = word])
       /\ mailed' = IF user.deactivated THEN mailed ELSE word
  /\ UNCHANGED <<failures, disturbed>>

-----------------------------------------------------------------------------
(* SQLAlchemy writes the columns that differ from what was read. *)
Written(r, row) == [c \in DOMAIN row |-> IF r.new[c] # r.read[c] THEN r.new[c] ELSE row[c]]

Counted(n) == IF n < MaxConsecutiveFailures THEN n + 1 ELSE n

Commit(t) ==
  LET r == request[t] IN
  /\ r # Idle
  /\ user' = Written(r, user)
  /\ loggedIn' = (loggedIn \/ r.kind = "change" \/ (r.kind = "login" /\ r.new.is_password_changed))
  /\ failures' = CASE r.kind = "login" -> 0
                   [] r.kind = "failure" -> Counted(failures)
                   [] OTHER -> failures
  /\ mailed' = IF r.kind = "change" THEN None ELSE mailed
  /\ disturbed' = (disturbed \/ r.read # user \/ r.kind = "unsent reset")
  /\ request' = [request EXCEPT ![t] = Idle]
  /\ UNCHANGED <<twoFactor, expired>>

(* The transaction is rolled back: the database is gone, or the answer is an exception. *)
Abort(t) ==
  /\ request[t] # Idle
  /\ request' = [request EXCEPT ![t] = Idle]
  /\ disturbed' = (disturbed \/ request[t].kind = "reset")
  /\ UNCHANGED <<twoFactor, user, expired, loggedIn, failures, mailed>>

(* Login.logout. *)
LogOut == loggedIn /\ loggedIn' = FALSE /\ UNCHANGED <<twoFactor, user, expired, request, history>>

(* The administrator activates the user again. *)
Reactivate ==
  /\ user.deactivated
  /\ user' = [user EXCEPT !.deactivated = FALSE]
  /\ failures' = 0
  /\ UNCHANGED <<twoFactor, expired, loggedIn, request, mailed, disturbed>>

Expire == ~expired /\ expired' = TRUE /\ UNCHANGED <<twoFactor, user, loggedIn, request, history>>

Next ==
  \/ \E t \in Thread, word \in Words, otp \in Secret \cup {None} :
       \/ FirstLogin(t, word)
       \/ LogIn(t, word, otp)
       \/ FailLogin(t, word)
       \/ \E new \in Chosen : ChangePassword(t, word, new, otp)
  \/ \E t \in Thread : ResetPassword(t) \/ Commit(t) \/ Abort(t)
  \/ LogOut \/ Reactivate \/ Expire

Spec == Init /\ [][Next]_accountVars

-----------------------------------------------------------------------------
(* The count of failures is the number of failed logins since the last good one, and the account
   is deactivated when there are too many, as long as no two requests read the same row. *)
FailuresCounted ==
  ~disturbed => /\ failures < MaxConsecutiveFailures => user.tech_data.consecutive_failed = failures
                /\ failures = MaxConsecutiveFailures => user.deactivated

(* A password that the application made up, and the user cannot have chosen, is to be changed, whether it
   was the first one or took its place later. *)
GeneratedIsChanged == ~disturbed => (user.password.word \in Generated \ Chosen => ~user.is_password_changed)

(* The password that was mailed last works until the user changes the password: no login, failure or
   deactivation in between makes it useless. *)
MailedPasswordWorks ==
  ~disturbed /\ (\A t \in Thread : request[t].kind # "reset")
     => mailed \in {None, user.password.word, user.temp_password}
=============================================================================
