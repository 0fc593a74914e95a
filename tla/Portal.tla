-------------------------------- MODULE Portal --------------------------------
(***************************************************************************)
(* One instance of every part of the portal that shares no state with the      *)
(* others: a behaviour is one of one part, for steps of two of them commute.    *)
(* Variables are renamed where two parts use the same name.                     *)
(***************************************************************************)
EXTENDS Raster

CONSTANTS
  Parts,                                                        \* the parts that take steps
  Generated, Chosen, Secret, MaxConsecutiveFailures,            \* Accounts
  Call, Tab, MaxTokens, UserName, Mail, Subject,                \* OidcLogin
  Themes, Groups, TreeLayers, Children, ItemName, Kind, Roles,  \* ThemeSearch
  Interfaces, Anonymous, ExportedTo, Tables, Visits,
  Edited,                                                       \* bound: the items that are edited
  Url, Ref, Shortened, LastSegment, MaxTries, MaxHits,          \* Shortener
  Input, MaxLayers, Dimensions,                                 \* BlockMerge
  File, Template, NewFile, Removed, Moved, Include, Exclude,    \* Upgrade
  Extra, Managed, NoTouch, Unmanaged, MaxTroubles,
  Document, Rows, Server, ServerUrl, Lower, Local, Piece        \* CapabilitiesFilter

VARIABLES
  part,
  main, static, catalogue, refused_revisions,
  twoFactor, user, expired, loggedIn, attempt, failures, mailed, disturbed,
  setup, subject, rows, cookie, given, revoked, stale, tab, call, overlapped, changed,
  db, tsearch, duplicate_name, fresh,
  shorturl, request, answered, sent, served, raced,
  layers, at, block_part, time, node, dimensions, refused, failed,
  running, markers, instructed, upgrade_yaml, template, content, head, managed_files, finished, troubles,
  document, database, started, path, texts, element, downstream, cut

-----------------------------------------------------------------------------
(* The schemas. *)
Schema == INSTANCE SchemaUpgrade WITH db <- catalogue, failed <- refused_revisions

(* The requests of an account. *)
Account == INSTANCE Accounts WITH request <- attempt

(* The logins of a browser. *)
Oidc == INSTANCE OidcLogin WITH Name <- UserName

(* The full-text search and the themes. *)
Search == INSTANCE ThemeSearch WITH
            Theme <- Themes, Group <- Groups, Layer <- TreeLayers, Name <- ItemName, Role <- Roles,
            Interface <- Interfaces, Exported <- ExportedTo, Database <- Tables

(* Short URLs. *)
Short == INSTANCE Shortener WITH Request <- Thread, mailed <- sent

(* The time of a block of layers. *)
Block == INSTANCE BlockMerge WITH part <- block_part, Dimension <- Dimensions

(* The files of a project. *)
Files == INSTANCE Upgrade

(* The capabilities that are filtered. *)
Filter == INSTANCE CapabilitiesFilter WITH Url <- ServerUrl, Database <- Rows

ASSUME PortalAssumption ==
  /\ Account!AccountsAssumption /\ Oidc!OidcAssumption /\ Search!ThemeSearchAssumption
  /\ Edited \subseteq Themes \cup TreeLayers
  /\ Short!ShortenerAssumption /\ Block!BlockMergeAssumption /\ Files!UpgradeAssumption
  /\ Filter!CapabilitiesFilterAssumption

-----------------------------------------------------------------------------
schemaVars  == <<main, static, catalogue, refused_revisions>>
accountVars == <<twoFactor, user, expired, loggedIn, attempt, failures, mailed, disturbed>>
oidcVars    == <<setup, subject, rows, cookie, given, revoked, stale, tab, call, overlapped, changed>>
searchVars  == <<db, tsearch, duplicate_name, fresh>>
shortVars   == <<shorturl, request, answered, sent, served, raced>>
blockVars   == <<layers, at, block_part, time, node, dimensions, refused, failed>>
filesVars   == <<running, markers, instructed, upgrade_yaml, template, content, head, managed_files, finished,
                 troubles>>
filterVars  == <<document, database, started, path, texts, element, downstream, cut>>

vars == <<part, schemaVars, accountVars, oidcVars, searchVars, rasterVars, shortVars, blockVars, filesVars,
          filterVars>>

(* A part that takes no steps has no values, but for the rasters, which wait in their only initial state. *)

SchemaInit ==
  IF part = "schema" THEN Schema!Init
  ELSE /\ main = None /\ static = None /\ catalogue = None /\ refused_revisions = None

AccountInit ==
  IF part = "account" THEN Account!Init
  ELSE /\ twoFactor = None /\ user = None /\ expired = None /\ loggedIn = None /\ attempt = None
       /\ failures = None /\ mailed = None /\ disturbed = None

OidcInit ==
  IF part = "oidc" THEN Oidc!Init
  ELSE /\ setup = None /\ subject = None /\ rows = None /\ cookie = None /\ given = None
       /\ revoked = None /\ stale = None /\ tab = None /\ call = None /\ overlapped = None
       /\ changed = None

SearchInit ==
  IF part = "search" THEN Search!Init
  ELSE /\ db = None /\ tsearch = None /\ duplicate_name = None /\ fresh = None

ShortInit ==
  IF part = "short" THEN Short!Init
  ELSE /\ shorturl = None /\ request = None /\ answered = None /\ sent = None /\ served = None
       /\ raced = None

BlockInit ==
  IF part = "block" THEN Block!Init
  ELSE /\ layers = None /\ at = None /\ block_part = None /\ time = None /\ node = None
       /\ dimensions = None /\ refused = None /\ failed = None

FilesInit ==
  IF part = "files" THEN Files!Init
  ELSE /\ running = None /\ markers = None /\ instructed = None /\ upgrade_yaml = None
       /\ template = None /\ content = None /\ head = None /\ managed_files = None
       /\ finished = None /\ troubles = None

FilterInit ==
  IF part = "filter" THEN Filter!Init
  ELSE /\ document = None /\ database = None /\ started = None /\ path = None /\ texts = None
       /\ element = None /\ downstream = None /\ cut = None

PortalInit == part \in Parts /\ SchemaInit /\ AccountInit /\ OidcInit /\ SearchInit
              /\ Init /\ ShortInit /\ BlockInit /\ FilesInit /\ FilterInit

(* A part takes a step, and no other one does. *)
In(p) ==
  /\ part = p /\ UNCHANGED part
  /\ IF p = "schema"  THEN TRUE ELSE UNCHANGED schemaVars
  /\ IF p = "account" THEN TRUE ELSE UNCHANGED accountVars
  /\ IF p = "oidc"    THEN TRUE ELSE UNCHANGED oidcVars
  /\ IF p = "search"  THEN TRUE ELSE UNCHANGED searchVars
  /\ IF p = "raster"  THEN TRUE ELSE UNCHANGED rasterVars
  /\ IF p = "short"   THEN TRUE ELSE UNCHANGED shortVars
  /\ IF p = "block"   THEN TRUE ELSE UNCHANGED blockVars
  /\ IF p = "files"   THEN TRUE ELSE UNCHANGED filesVars
  /\ IF p = "filter"  THEN TRUE ELSE UNCHANGED filterVars

PortalNext ==
  \/ In("schema")  /\ \E r \in DOMAIN Schema!Main : Schema!UpgradeMain(r)
  \/ In("schema")  /\ \E r \in DOMAIN Schema!Main : Schema!DowngradeMain(r)
  \/ In("schema")  /\ \E r \in DOMAIN Schema!Static : Schema!UpgradeStatic(r)
  \/ In("schema")  /\ \E r \in DOMAIN Schema!Static : Schema!DowngradeStatic(r)
  \/ In("account") /\ \E t \in Thread, word \in Account!Words : Account!FirstLogin(t, word)
  \/ In("account") /\ \E t \in Thread, word \in Account!Words, otp \in Secret \cup {None} : Account!LogIn(t, word, otp)
  \/ In("account") /\ \E t \in Thread, word \in Account!Words : Account!FailLogin(t, word)
  \/ In("account") /\ \E t \in Thread, word \in Account!Words, new \in Chosen,
                        otp \in Secret \cup {None} : Account!ChangePassword(t, word, new, otp)
  \/ In("account") /\ \E t \in Thread : Account!ResetPassword(t)
  \/ In("account") /\ \E t \in Thread : Account!Commit(t)
  \/ In("account") /\ \E t \in Thread : Account!Abort(t)
  \/ In("account") /\ Account!LogOut
  \/ In("account") /\ Account!Reactivate
  \/ In("account") /\ Account!Expire
  \/ In("oidc")    /\ \E t \in Tab : Oidc!RefusedCallback(t)
  \/ In("oidc")    /\ \E t \in Tab : Oidc!OidcCallback(t)
  \/ In("oidc")    /\ \E t \in Tab, came_from \in BOOLEAN : Oidc!OidcLogin(t, came_from)
  \/ In("oidc")    /\ \E c \in Call : Oidc!Receive(c)
  \/ In("oidc")    /\ \E c \in Call, own \in BOOLEAN : Oidc!View(c, own)
  \/ In("oidc")    /\ \E c \in Call, revoke \in BOOLEAN : Oidc!Logout(c, revoke)
  \/ In("oidc")    /\ Oidc!TokenOver
  \/ In("oidc")    /\ Oidc!SubjectChanges
  \/ In("oidc")    /\ \E k \in {"refresh_token", "code_verifier"} : Oidc!CookieOver(k)
  \/ In("search")  /\ Search!Import
  \/ In("search")  /\ \E x \in Edited : Search!Edit(x)
  \/ In("raster")  /\ \E t \in Thread, l \in DataLayer : Begin(t, l)
  \/ In("raster")  /\ \E t \in Thread : LockRequest(t)
  \/ In("raster")  /\ \E t \in Thread : GetData(t)
  \/ In("raster")  /\ \E t \in Thread : OpenFails(t)
  \/ In("raster")  /\ \E t \in Thread : Read(t)
  \/ In("raster")  /\ \E t \in Thread : Notify(t)
  \/ In("raster")  /\ \E t \in Thread : CloseAll(t)
  \/ In("raster")  /\ \E t \in Thread : Reset(t)
  \/ In("raster")  /\ \E l \in DataLayer : Replace(l)
  \/ In("raster")  /\ \E l \in DataLayer : Toggle(l)
  \/ In("short")   /\ \E q \in Thread, url \in Url, email \in BOOLEAN : Short!CreateShortened(q, url, email)
  \/ In("short")   /\ \E q \in Thread, url \in Url, email \in BOOLEAN : Short!Create(q, url, email)
  \/ In("short")   /\ \E q \in Thread, ref \in Ref : Short!Found(q, ref)
  \/ In("short")   /\ \E q \in Thread, ref \in Ref : Short!Taken(q, ref)
  \/ In("short")   /\ \E q \in Thread, ref \in Ref : Short!Read(q, ref)
  \/ In("short")   /\ \E q \in Thread : Short!Commit(q)
  \/ In("short")   /\ \E q \in Thread : Short!Refused(q)
  \/ In("short")   /\ \E q \in Thread : Short!Hit(q)
  \/ In("block")   /\ Block!MergeDimensions
  \/ In("block")   /\ Block!ShowOnLayer
  \/ In("block")   /\ Block!ShowOnBlock
  \/ In("block")   /\ Block!RefuseTime
  \/ In("block")   /\ Block!Fail
  \/ In("block")   /\ Block!LayerDone
  \/ In("files")   /\ \E n \in Files!Step : Files!RunStep(n)
  \/ In("files")   /\ Files!step0
  \/ In("files")   /\ Files!step1_reset
  \/ In("files")   /\ Files!step1
  \/ In("files")   /\ Files!step2
  \/ In("files")   /\ Files!step3_move
  \/ In("files")   /\ Files!step3
  \/ In("files")   /\ Files!step4_remove
  \/ In("files")   /\ Files!step4
  \/ In("files")   /\ Files!step5
  \/ In("files")   /\ Files!step6
  \/ In("files")   /\ Files!step7
  \/ In("files")   /\ Files!step8
  \/ In("files")   /\ Files!step9
  \/ In("files")   /\ Files!step10
  \/ In("files")   /\ Files!step11
  \/ In("files")   /\ Files!step12
  \/ In("files")   /\ Files!step13
  \/ In("files")   /\ Files!step14
  \/ In("files")   /\ Files!Interrupt
  \/ In("files")   /\ Files!FillManagedFiles
  \/ In("files")   /\ \E f \in File : Files!Edit(f)
  \/ In("filter")  /\ Filter!StartElement
  \/ In("filter")  /\ Filter!Cut
  \/ In("filter")  /\ Filter!Characters
  \/ In("filter")  /\ Filter!EndElement

PortalSpec == PortalInit /\ [][PortalNext]_vars

-----------------------------------------------------------------------------
(* Every variable of a part keeps its type. *)
PortalTypeOK == CASE part = "account" -> Account!TypeOK
                  [] part = "oidc"    -> Oidc!TypeOK
                  [] part = "search"  -> Search!TypeOK
                  [] part = "short"   -> Short!TypeOK
                  [] part = "files"   -> Files!TypeOK
                  [] part = "filter"  -> Filter!TypeOK
                  [] OTHER            -> TypeOK

(* Whatever way alembic took through the branches and back, at the last revisions the schemas are what the
   classes of the models declare. *)
HeadIsDeclared == part = "schema" => Schema!HeadIsDeclared

(* Migrations fail only when static is not upgraded after main and downgraded before it, and at the few
   revisions that stored rows can be in the way of. *)
FailsOnlyForOrderOrRows == part = "schema" => Schema!FailsOnlyForOrderOrRows

(* A downgrade gives back the tables, columns and keys that its upgrade changed. *)
DowngradeUndoes ==
  [][part = "schema" => /\ Schema!Undone(Schema!Main, main, main')
                        /\ Schema!Undone(Schema!Static, static, static')]_schemaVars

(* consecutive_failed counts the failed logins since the last good one, and too many deactivate the user. *)
FailuresCounted == part = "account" => Account!FailuresCounted

(* A password that the application made up is to be changed before the user is logged in. *)
GeneratedIsChanged == part = "account" => Account!GeneratedIsChanged

(* The password that loginresetpassword mailed works until the user has changed the password. *)
MailedPasswordWorks == part = "account" => Account!MailedPasswordWorks

(* The refresh token in the cookie is the one that the provider takes, when every answer reached the browser. *)
RefreshTokenIsGood == part = "oidc" => Oidc!RefreshTokenIsGood

(* What a callback remembers is matched with exactly one row of static.user by later requests. *)
RememberedIsOneUser == part = "oidc" => Oidc!RememberedIsOneUser

(* The full-text search finds what the themes show to the same user, and nothing else. *)
SearchAndThemesAgree == part = "search" => Search!FoundIsShown /\ Search!ShownIsFound

(* A short URL that was answered leads to its URL for ever, and hits are lost by races only. *)
ShortUrlsResolve == part = "short" => Short!AnswersResolve /\ Short!HitsLostOnlyByRace

(* The layers of a block that are exported get all their times and dimensions. *)
TimesAreServed == part = "block" => Block!LayersAreServed /\ Block!FailsOnlyForMix

(* An upgrade that ends is complete, however often it was interrupted, and a step that c2cupgrade tells to
   run can run. *)
UpgradesAreComplete == part = "files" => Files!FinishedIsUpgraded /\ Files!InstructedStepRuns

(* The filtered capabilities list the layers that the user has a right to and no others, in groups that have
   layers; those of TinyOWS list what it lets the user change. *)
CapabilitiesAreFiltered ==
  part = "filter" => /\ Filter!RefusedIsHidden /\ Filter!NoEmptyGroup
                     /\ Filter!KeptIsShown /\ Filter!ListsWhatIsAllowed
=============================================================================
