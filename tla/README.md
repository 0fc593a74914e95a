# TLA+ models of c2cgeoportal

These modules specify the parts of c2cgeoportal that keep a state or decide who sees what: the caches
and their invalidation, the OAuth2 server, the access control of QGIS Server, the editing of features
under restriction areas, the layer tree with its synchronizer, accounts, OpenID Connect, the themes
and their search, rasters, short URLs, the filter of capabilities, the migrations of the schemas and
the script that upgrades a project.  TLC checks small instances; TLAPS proves the safety properties of
all of them but the schemas, and three refinements, for every value of the constants.

    tlc -config CacheSafety.cfg MCHybridCache      # a run: a cfg and its MC module
    tlapm LayerTree_proofs.tla                     # the proofs of one component

Source paths below are abbreviated: `geoportal/` is
`src/geoportal/c2cgeoportal_geoportal/`, `admin/` is `src/admin/c2cgeoportal_admin/`, `commons/` is
`src/commons/c2cgeoportal_commons/`, `qgis/` is `src/docker/qgisserver/geomapfish_qgisserver/`.
`PROJECT.json` maps every definition to its lines and lists the hazards behind the properties.

## 1. The system

Four programs share one PostgreSQL database: the **geoportal** (Pyramid, several processes, pods and
threads), the **admin interface** (Pyramid with c2cgeoform), **QGIS Server** with the plugin of
`qgis/accesscontrol.py`, and command line scripts.  Requests are transactions (pyramid_tm, READ
COMMITTED, flush on query, commit after the view has returned).  Redis holds cached values, and
c2cwsgiutils' broadcast sends the messages that invalidate caches to every process.

| Component | State it keeps | Operations | Hard behaviours | What makes it correct |
|---|---|---|---|---|
| Cache (`geoportal/lib/caching.py`, `geoportal/__init__.py`) | a dictionary per process, Redis, the time of the last invalidation per region | get, set, delete, create on a miss, invalidate | handlers race with stores of all processes; the message goes out before the commit; restarts | nothing older than the last handled invalidation is answered; every message is handled |
| OAuth2 server (`geoportal/lib/oauth2.py`, `views/login.py`) | rows of codes and of tokens, one of each per client and user | authorize, exchange, refresh, revoke | concurrent exchanges and authorizations of one grant; deleted clients; row locks | a code is answered once, to who has its verifier; nothing survives a deleted user; no deadlock |
| QGIS access control (`qgis/accesscontrol.py`) | layers, areas, the OGC server, a lock | the calls of QGIS Server, the handler of invalidations | check without the lock, failures with the lock, caches that depend on each other | rights no older than the last invalidation; every call ends |
| Restriction areas (`geoportal/lib/layers.py`, `views/layers.py`, the plugin) | none: queries | who reads, writes, sees | four forms of one rule, NULL areas, NULL geometries | who may write may read, with every program |
| Feature editing (`geoportal/views/layers.py`) | the rows of a layer | create, update, delete, read | check and write are apart; errors in the middle of a collection | what is written lies within an area of its writer |
| Layer tree (`admin/schemas/treegroup.py`, `views/layertree.py`, `views/treeitems.py`) | items and the links between them | save, new, unlink, delete | validation against what is committed, not against what runs | themes hold groups, no link without ends, no cycles, no copies |
| Synchronizer (`admin/lib/ogcserver_synchronizer.py`) | what the transaction has written | check, synchronize with three options, dry run | a walk of many steps, with other requests in between | items end up where the capabilities have them |
| Users and login (`geoportal/views/login.py`, `commons/models/static.py`) | password, temporary password, failure counter, second factor, deactivation, expiry | login, first login, change, reset, logout | the row is read, decided on and written back by requests at the same time; mails go before the commit | failures count and deactivate; made-up passwords are changed; mailed ones work |
| OpenID Connect (`geoportal/lib/oidc.py`, `views/login.py`) | cookies of the browser, rows of users | login, callback, refresh within any request, logout | answers that overlap each other; renamed subjects | the refresh token is the last one; what is remembered is one user |
| Themes export (`geoportal/views/theme.py`) | none but caches | themes, groups, capabilities of servers | recursion over links; errors are collected | every layer a role may see and no other |
| Time of WMS-T (`geoportal/lib/wmstparsing.py`) | the time and dimensions of a block | merge layer by layer | layers refused in the middle; mixed intervals | the block serves what its layers have |
| Proxies and capabilities filter (`geoportal/views/*proxy.py`, `lib/filter_capabilities.py`) | the stack of elements of a document | add role parameters, filter layers | names come after the elements they decide on, in pieces | no layer that the user has no right to, and all others |
| Raster, profile (`geoportal/views/raster.py`, `profile.py`) | table of open data sets, a lock, handlers | get, invalidate | a data set closed while it is read | values of the current file |
| Short URLs (`geoportal/views/shortener.py`) | reference, URL, hits | create, get, mail | two requests choose one reference; mail before commit | a reference leads to its URL for ever |
| Full-text search (`views/fulltextsearch.py`, `scripts/theme2fts.py`) | table tsearch | query, fill | three programs decide who may see an item | what is found is shown, what is shown is found |
| Schemas (`commons/alembic`, `commons/models`) | the catalogue of PostgreSQL, the revisions applied | upgrade, downgrade of 73 revisions in two histories | branches in any order; each schema needs revisions of the other | at the last revisions the tables are those of the classes |
| Scripts (`geoportal/scripts/c2cupgrade.py`) | marker files, instructions, index and commits of the project | fifteen steps of an upgrade | interrupted, failing, resumed, begun again | a finished upgrade is complete, the instructed step can run |
| Functionalities (`geoportal/lib/functionality.py`) | cached rows | fallback user, registered, intranet, anonymous | order of fallbacks | the first level that has a value decides |
| Print, resource proxy, vector tiles, feedback, checks, metrics, interface pages, translations, reflection, extractors, forms of single rows, deployment | none of their own | translate and forward, render, generate | I/O | outside of what these modules can say |

They interact through the database (`admin` writes what `geoportal` and `qgis` read), through the
broadcast (`cache_invalidate_cb` in `commons/models/__init__.py`, called by ORM listeners and by
admin views, handled in `geoportal/__init__.py` and `qgis/accesscontrol.py`), and through Redis.

## 2. The modules

| Module | Models | Uses |
|---|---|---|
| `HybridCache` | the cache and its invalidation | `SharedCache` by INSTANCE |
| `OAuth2Server` | codes, exchanges, refreshes as transactions | `OneTimeCode` by INSTANCE |
| `OneTimeCode` | abstract: a code is issued once and answered at most once | |
| `SharedCache` | abstract: one store for all processes, in which an invalidation is one step | |
| `QgisAccessControl` | the plugin: caches, lock, handler | `SharedCache` by INSTANCE |
| `RestrictionAreas` | the rules of restriction areas as operators, those of the geoportal and those of QGIS Server | |
| `LayerEditing` | the editing views as transactions | `RestrictionAreas` by EXTENDS |
| `LayerTree` | forms, page of the layer tree, synchronizer as transactions | |
| `Alembic` | the operations of alembic on the catalogue, and when PostgreSQL refuses them | |
| `MainMigrations`, `StaticMigrations` | every revision of the two schemas, upgrade and downgrade | `Alembic` |
| `DataModel` | the tables that the classes declare | `Alembic` |
| `SchemaUpgrade` | alembic's commands over both histories | the four above |
| `Accounts` | the row of one user under concurrent requests | |
| `OidcLogin` | a browser, its cookies and the identity provider | |
| `ThemeSearch` | theme2fts, the search and the themes over one layer tree | |
| `BlockMerge` | the merge of times and dimensions in a block of the themes | |
| `Raster` | the table of open data sets | |
| `Shortener` | the table of short URLs | |
| `CapabilitiesFilter` | a document on its way through the SAX filter | |
| `Upgrade` | the steps of c2cupgrade | |
| `Portal` | one instance of each of the last nine, one of them a behaviour | `Raster` by EXTENDS, the others by INSTANCE |
| `X_proofs` | theorems about X | X, TLAPS |
| `PortalThemes_proofs` | theorems about the search, the themes and their blocks, the filter, and the types of all parts | `Portal_proofs` and `Raster_proofs`, TLAPS |
| `MCX` | constants and symmetry for TLC | X |

Definitions marked *mutant* restate a definition with a plausible bug; no specification uses them.
They show that the property of the same run would notice the bug.

### HybridCache

`memory[p]` is `MEMORY_CACHE_DICT` of process p, `redis` the server, `inval[p]` the time that
dogpile's invalidation strategy keeps, `inbox` and `handler` the messages and the thread that
handles them, in the four steps of `handle` (`geoportal/__init__.py:689`): invalidate the regions,
list the keys, delete them one by one in both places, clear.  `job[p][t]` is a creator in thread t
and the two stores that follow it.  A value is the *version of the database* it was made of; times
tick when a region is invalidated.  An admin view flushes and broadcasts (`Flush`), and commits
later (`Commit`) or not at all (`Abort`).

Assumed: the clocks of hosts are synchronised; the creators that fetch missing capabilities for the
themes are other threads, which may or may not have run.  `floor` and `raced` are history: what was
committed at p's last invalidation, and whether a creator was then between its reading and its
return (or has since used an ingredient that p refuses).

* `StaleOnlyByRace`: after an invalidation p answers nothing older than that invalidation, unless it
  was raced.  The deletions do not achieve this, because they race with stores, with the copy from
  Redis into the memory, and with other processes; the comparison of times does.
* `CacheInv` is the invariant behind it, over every place where a value can be.
* `CacheIsShared` is refinement: `SharedCache!Spec`, in which there are no times, memories or deletions.
  Around a key are the versions that Redis, a memory or a thread on its way to them holds; a process
  accepts those whose time it does not refuse.  An invalidation is one step there, after which p accepts
  nothing that was around: here it is the first of the four steps, `HandleInvalidate`, and the
  deletions are no more than a loss of values.  What is refused once is never accepted again, whichever
  process copies or keeps it, unless p restarts.
* `InvalidationHandled`: every message is handled to its last step, or the process stops.
* `NewValuesOnAllPods` **is violated**: the message precedes the commit (finding below).

### OAuth2Server

`codes[g]` and `tokens[g]` are the rows of the grant g, a client and a user; `tx[t]` is the
transaction of a request with what it has read and not yet committed.  A flushed UPDATE locks its
row, a flushed INSERT its key; a DELETE goes by primary key and, when the row is gone, deletes
nothing.  `Exchange` is the whole validation by oauthlib (one step: it only reads);
`InvalidateCode` flushes the token and looks the code up; `ExchangeCommit` deletes it and answers.
A state parameter and a challenge are abstracted to the code of the authorization that sent them.
Secrets, redirect URIs, scopes and the life of access tokens are left out; so are introspection and
revocation.

* `CodesAnsweredOnce` is refinement: `OneTimeCode!Spec` with the issued codes as `issued`.
  `CodeInv` is the invariant behind it.
* `VerifierOfItsCode`: a challenge holds although the row is reused by later authorizations and the
  admin changes what the client must send.  `NoGrantOfDeleted`: the foreign keys leave nothing.
* `RequestsEnd`: no two transactions wait for each other's rows.
* `StateOfItsCode` and `OnlyUsedInvalidated` **are violated** (findings below).

### QgisAccessControl

`layers` and `areaCache` are the caches, as versions of the rows; `call[t]` goes through `get_area`
and `get_layers` in the order of their statements, with the first look at `self.layers` before the
lock, the second look after it, and the lock held until the layers are stored or a query fails.
`committed` is what the database that the plugin reads shows, which may be a replica.  The choice
of the OGC servers at the creation of the plugin is left out; once found, the server is not looked
for again, and an invalidation then only drops the layers.

* `PermissionsFresh`, with `AccessInv` behind it: the rights of a call that started after an
  invalidation are no older than what that invalidation found.
* `LayersAreShared` is refinement of the same `SharedCache`, with one process and one key.  A thread
  between its reading and its storing is a creator; storing is `Replace`, carrying out an invalidation is
  `Invalidate`, and that the plugin is never raced is what the lock is for.  The areas do not implement it.
* `RaisedOnlyByRace`: a call raises in three ways, told apart by its answer.  `Failed`: a query failed, or
  a geometry did not convert or have a union.  `Raised`: the two looks straddle an invalidation.
  `Unknown`: `get_area` found no layer of GeoMapFish for the layer (`UnknownIn` says in which versions
  there is none); such a call gets the layers a second time for its message, where it may be raced or
  fail as well, and it was refused by rows no older than the last invalidation before it.
* `InvalidationsCarriedOut`, `CallsEnd`: nobody keeps the lock.
* `AreaInvalidated` **is violated**: the areas are never dropped (finding below).

### RestrictionAreas, LayerEditing

A geometry is a non-empty set of places, containment is inclusion.  `RestrictionAreas` has one
operator per query: what `_InsertCallback`, `_UpdateCallback` and `_DeleteCallback` require, what
`_proto_read` lists, what `read_one` shows, and what the plugin's `get_restriction_areas` and its
filters allow.  In `LayerEditing` a request loads and checks (`Update`, `Create` once per feature,
`Delete`), and its write is the end of the transaction; the areas do not change during a behaviour.
`CreateWrite` also stands for a collection with an invalid geometry, which is answered with an error
and committed as far as it went.  papyrus' Protocol is external.

* `WrittenWithin`, with `PendingInv`: what is written lies within one area of its writer.
* `WriterReads`: the writer can read the feature, list it, and see and edit it with QGIS Server.
* `BothWithin` **is violated**: the geometry that is overwritten may not be the one that was checked.

### LayerTree

`items` and `rows` are the tables treeitem and layergroup_treeitem; a link is a group, an item and a
copy number that stands for its primary key.  A transaction (`req[a]`) holds what it has made,
deleted, added and dropped; `RowsOf` and `ItemsOf` are what it sees: what others have committed in
the meantime and its own writes.  `Save` and `New` are the forms with the validator of
`treegroup.py`, `Unlink` and `Delete` the page of the layer tree; `SyncStart` begins a walk over a
capabilities document, whose calls `GetItem` and `SortItem` carry out one by one, followed by
`CheckLayers` and one `CleanGroup` per group.  `Commit` checks the unique names and the foreign keys.

A document is the sequence of calls of the walk; `IsWalk` says what such a sequence is like.  Left
out: the order of children, columns other than name and type (an item that is deleted and made anew
is the same), what a new layer copies from the default one, and layers of other OGC servers.  The
names of one document are taken to be distinct.

`slip` is history: commits that no validation has seen as a whole, because another request had
committed since they read ("race"), because a new group was given a parent *and* children ("new"),
or because children were ordered and parents kept ("sync").

* `TreeInv`: themes hold groups only, nothing holds a theme, and no link lacks an end.
* `CycleOnlyUnchecked`: a cycle comes about in one of the three ways and in no other.  Each of them
  really leads to a cycle: TLC reaches states with a cycle after each.
* `CopiesOnlyByRace`: an item is twice in a group only after a race.
* `ParentsOfCapabilities`: with force_parents and without a race every item of the document ends up
  with exactly the parent it has there, whatever ordering and cleaning did after the move.
* `PendingInv`: what the transaction sees before its commit.  No run checks it, the proofs rest on it.

### Alembic, MainMigrations, StaticMigrations, DataModel, SchemaUpgrade

`Alembic` has one operator per operation of `alembic.op` that the migrations call; a catalogue is its
tables with their columns (type, NULL, default, keys, references), constraints and indices, and the
trigger on roles.  `Run` applies the operations of a revision and stops at the first that PostgreSQL
refuses, for one of two reasons.  `Accepted` is about the catalogue: a missing or an existing table,
column or constraint, a drop that something depends on.  `Contradicted` is about the rows, which are no
part of the state: whether there are rows, allowed by the catalogue, that the operation does not take (a
NULL in a column that becomes NOT NULL and was given no value before, two rows of one name under a new
unique name, a reference without its row, an area of the other type, a row that is deleted and referred
to).  `inTheWay` chooses whether the database has them.  A revision is a definition named after it (`r...` in `MainMigrations`, `s...` in
`StaticMigrations`) with its parents, its upgrade and its downgrade in the order of the code,
conditions on what exists included.  `SchemaUpgrade` applies or takes back one revision of one schema
per step, when alembic would allow it; a refused command leaves the database as it was, as DDL is
transactional, and is remembered in `failed`.  Histories start from an empty or from a legacy database.

* `HeadIsDeclared`: in whatever order branches were taken, with downgrades in between, at the last
  revisions of both the catalogue is what `DataModel` declares.  One exception is named
  (`LimitedUrl`): when main is taken back below its first revision and applied again, the limit of
  the URL of static.shorturl is back, which static has lifted once.
* `FailsOnlyForOrderOrRows`: the catalogue is the reason in three orders only, each of them static before
  the revision of main that it needs or main downgraded under it; and rows are the reason at ten upgrades
  and six downgrades only, which are listed.  All other revisions convert whatever rows there are.
* `DowngradeUndoes`: after a downgrade that no row is in the way of, the columns with their types and the
  keys are those before the upgrade.  NULL, defaults and indices are left out of it, because several
  downgrades do not restore them (3f89, 7530/21f1, e004, 116b, 54645, b6b09).

### Accounts

`user` is the row, `request[t]` what a request read and will write; `Commit` writes the columns that
changed (`tech_data` is one column, so the counter and the secret of the second factor are written
together), `Abort` drops them.  A login, a failed one, a first one, a change and a reset are the
actions; passwords are kept in the old or in the new hash, and a login with the old one rehashes.
`disturbed` is history: two transactions overlapped on the row, or a temporary password was mailed by
a request that did not commit.

* `FailuresCounted`: the counter is the number of failures since the last login, and at the maximum
  the user is deactivated; stated until requests overlap, when two failures may count once.
* `GeneratedIsChanged`: a password that the application made, and that nobody chose by chance, is never
  taken for one that the user chose.
* `MailedPasswordWorks`: no login, failure, rehashing or deactivation makes the mailed password useless.

### OidcLogin

A browser with two tabs: `OidcLogin` sets the verifier, `OidcCallback` spends it, `View` is any
request that asks for its user, which refreshes a token that is over, and `Receive` puts the cookies
of an answer into the browser, so that answers overlap with later requests.  `setup` has every
combination of match_field, update_fields and create_user.  `overlapped` and `changed` are history.

* `RefreshTokenIsGood`: without overlap, the refresh token in the cookie is the one the provider
  takes, through failed refreshes, logouts and callbacks in other tabs.
* `RememberedIsOneUser`: without overlap, what a callback remembers is matched with exactly one row by
  later requests.  Two creations at once may make two rows with one address.

### ThemeSearch

`Shown` follows `_themes`, `_group` and `_create_layer_query` for a set of roles, `Indexed` what
theme2fts writes role by role, `Found` the query of the search.  `Visits` are orders in which the
script comes to items of the same name, of which it keeps one.  `Import` fills the table, `Edit`
changes who may see an item, after which rows are not `fresh` until the next import.

* `SearchAndThemesAgree`: what a user finds is shown to him, but for what leads to items that the
  export leaves out (faulty ones; private layers of types other than WMS and WMTS), and what is
  shown to a role it finds, but for items whose name another item has.

### BlockMerge

The layers of a block come one by one: `MergeDimensions`, then each extent is merged (`ShowOnLayer`
for the first, `ShowOnBlock` when a second joins), refused (`RefuseTime`) or fails everything
(`Fail`).  An extent is a set of values, or an interval with a start and an end; dates are numbers, and
the notation is parsed outside.  `_merge_time` does nothing for a layer that is not `known`: whose name is
a list of names, or no name of the capabilities.  A `nameless` layer has a child that the capabilities do
not name, which raises an error that nothing catches.  Merging two intervals takes the lowest start and the
highest end (`Joined`), so that the instants of the second are lost when they are in another phase.

* `TimesAreServed`: an exported layer that is known and has time finds its interval, mode and widget on the
  block or on itself, never on both, and its dimensions on the block, although layers around it were
  refused after parts of them were merged.  Its range is covered always, and each of its instants unless
  a layer of the block has the same interval in another phase.  Uncaught failures come from a mix of
  intervals and values, or of intervals, and from nameless layers only.

### Raster

`thread` is a request (waiting for the lock, having it, having the data set) or an event whose
handlers, one per request so far, close and empty the table one after the other.  Files are replaced
and disappear.  `announced` is history: the versions at the beginning of the last event that ended.

* `OpenDataSets`: nobody reads a closed data set or leaves one open outside of the table, and a
  request that begins after an invalidation reads no older file than the invalidation found.

### Shortener

`CreateShortened` is a URL that is short already, `Create` begins a search, `Found` and `Taken` are
one look at a reference, `Commit` and `Refused` the end of the transaction against the unique index;
`Read` and `Hit` read a reference and write the counter back.

* `ShortUrlsResolve`: what was answered leads to its URL for ever; what was only mailed may not,
  but then the reference is another request's answer.  Hits are lost only by overlapping reads.

### CapabilitiesFilter

`path` is `layers_path`, `element` the attributes of `_Layer`, `texts` what the parser is about to
deliver: the name of a layer and those of its styles, which are elements `Name` within the layer too.
`Cut` is the end of the parser's buffer in the middle of a name.  What the accumulated actions write
at the end of the first layer is computed there (`EndElement`).  The lists are made of the rows:
`layers_blacklist` with the structure that was asked for without roles, `layers_whitelist`, and
`IsAllowed` for the transactions of TinyOWS.

* `CapabilitiesAreFiltered`: a refused layer and what is in it are not written; a group does not
  remain when all of its layers are refused; a kept one is written; TinyOWS lists what it lets
  pass.  Exceptions are named: a name that the parser cut, a style with the name of a refused layer, the
  first layer (which stays when something in it is kept), and servers that share a URL.

### Upgrade

`RunStep` starts a step from the command line, each step is an action, those that change files in
two stages are two; `Interrupt` stops a step between, an error stops it with instructions.  The
template has a place on the disk, in the index and in the last commit; a file of the project is
absent, the owner's, old, new or half copied.

* `UpgradesAreComplete`: an upgrade that ends has committed the new template and files, however
  often it was interrupted or begun again, and the steps 6 to 12, when instructed, find what they need.

## 3. The runs

| Run | Instance | Question |
|---|---|---|
| `CacheSafety` | two processes that restart, one key of Redis, one modification, one broadcast | is anything stale answered after an invalidation? |
| `CacheLiveness` | one process with two threads, themes made of cached capabilities, one broadcast | do the memory and Redis act as one store (`SharedCache`)? is every message handled? |
| `CacheAllPods` (violation) | two processes that stay up | do all pods get the new values? |
| `OAuth2Requests` | two requests, two codes, one grant, admin changes and deletions | codes once, verifiers, nothing left, no deadlock |
| `OAuth2State`, `OAuth2Invalidate` (violations) | two requests, two codes | is the state parameter saved; is only a used code deleted? |
| `QgisServer` | two threads, two modifications and broadcasts, one failure, a server that appears late | fresh rights, invalidations in one step (`SharedCache`), causes of exceptions, progress |
| `QgisAreas` (violation) | one thread | do invalidations reach the areas? |
| `LayerEdits` | two requests, two users, three features, two layers with areas of two places | within the areas; writers read |
| `LayerOriginal` (violation) | the same with two features | is the original geometry within the area? |
| `LayerTreeEdits` | two requests at a time, eight trees, three documents, up to three copies of a link | the tree and the synchronizer |
| `Portal` | see below; one part a behaviour | schemas, accounts, OpenID Connect, search, rasters, short URLs, blocks, capabilities, upgrades |

*Why the bounds are enough to be interesting.*  In the caches one modification and one broadcast
give every order of message, commit, creation, store and deletion; a second process is what makes
Redis shared.  Two exchanges and a second code of one grant are what the races over a row need; a
second grant shares no row with the first.  Two threads are one holder of the lock and one that
waits, next to the handler.  For the tree, two requests are one that validates and one that
commits in between; longer histories start from the trees that earlier requests leave (empty, flat,
nested both ways, shared, with a copy, with a cycle).  What the bounds leave open for the safety
properties, the theorems close: `CacheIsShared` is checked with one process, because its refinement mapping is
slow to evaluate, and proved for any number.

*The run `Portal`.*  Its parts share no variable and no part reads what another writes, so a behaviour
of several is a shuffle of one of each: `part` chooses one, and the others keep a dummy value.  The
parts and their bounds:

| Part | Instance | Why it is enough |
|---|---|---|
| schema | all revisions, no bound | every order of the branches and every way back |
| account | two requests, two made-up passwords, one chosen, a secret, two failures | one request in the middle of another; one password mailed over another |
| oidc | two tabs, one request, two tokens, two names and addresses | a callback in another tab; one refresh after the first token |
| search | two themes that share a group, three layers, two roles | public, private and restricted ways to one item; a name twice |
| raster | two threads, two layers, two requests, two versions | one reads while one closes; the theorem covers the rest |
| short | two requests, two references, three URLs, two hits | the same free reference; one URL that is short already |
| block | up to three layers out of thirteen kinds, one dimension, one interval in two phases | before, at and after the second layer with time; a layer of another phase before and after |
| files | four files, one trouble | one interruption, error or edit at every place |
| filter | five trees of four layers, with and without names, every set of private layers | a layer in a group in a group in the first layer |

`Bound` stops a behaviour where nothing is said of it any more (a disturbed account, overlapped
answers, rows that are not fresh) and two combinations that add nothing: the browser of an expired
account, and the second row of users in a setup that creates none.  The two threads of accounts,
rasters and short URLs are a symmetry set.

Deadlock is not checked: every system here may stop, because nobody has to send a request and the
numbers of modifications, broadcasts, codes and requests are bounded; documents, blocks and upgrades end.  Progress is stated as a
property instead.  Processes, threads, codes and admins are symmetry sets where only safety is
checked.

*Fairness.*  `HybridCache` assumes weak fairness of the handler of a process (its subscriber thread
runs) and of a creator after its start; none of Commit, of requests or of restarts.
`OAuth2Server` assumes strong fairness of the next step of a running request: PostgreSQL serves the
transactions that wait for a row in their order, so who waits for a lock that is released again and
again gets it.  `QgisAccessControl` assumes only weak fairness of the handler and of a running call,
because Python's lock is not fair; that suffices as calls are bounded in their use of the lock.
The parts of `Portal` state safety only and assume no fairness.

## 4. What disagrees with a comment or a document

| Run | The code | What is said |
|---|---|---|
| `CacheAllPods` | the broadcast is sent while the transaction is open; a process that is quick caches the old rows with a new time, for good | "broadcast the invalidation to have the new values on all the pods" (`admin/views/ogc_servers.py:175`) |
| `OAuth2State` | a code in a row that was found keeps the state of the authorization before | "That value should be saved and used in 'validate_code'" (`geoportal/lib/oauth2.py:556`) |
| `OAuth2Invalidate` | the row is deleted by primary key, with a newer code in it | "Invalidate an authorization code after use" (`geoportal/lib/oauth2.py:413`) |
| `QgisAreas` | `area_cache` lives as long as the process | "will be invalidated ... after each modification in the Theme or the RestrictionArea" (`src/doc/integrator/caching.rst:33`) |
| `LayerOriginal` | the geometry is checked when it is loaded and overwritten later, without a lock | "we need both the "original" and "new" geometry to be within the restriction area" (`geoportal/views/layers.py:154`) |

Other disagreements and surprises that modelling showed, which the models contain and no run singles out:

* *Capabilities.*  A name that lies across the end of the parser's buffer (64 kB) comes in two pieces,
  neither of which is the name of a private layer (`Cut`).  A style is looked up like a layer.
* *Search.*  `--duplicate-name` of theme2fts does the opposite of its help (`scripts/theme2fts.py:70`);
  doc/integrator/fulltext_search.rst:113 says that rows which are not public are not for anonymous users, but
  rows of the anonymous role are.  Private vector tiles and COG layers are indexed and never exported.
* *Short URLs.*  A URL whose path begins like the one of a base counts as short on any host, and its
  last segment is answered unverified.
* *Blocks.*  The instants and dimensions of a refused layer stay in its block.  A mix of values and
  intervals, or a child that the capabilities do not name, raises an error that nothing catches, and there
  are no themes.  A layer with a list of names, which commons/models/main.py:1090 allows, is exported
  without its time and without an error.  2000/2010/P2Y and 2001/2011/P2Y become 2000/2011/P2Y, without 2001.
* *Upgrades.*  When step 4 is interrupted between `git rm` and `git add`, the step that the
  instructions name fails until the upgrade begins again at step 1; an interrupted copy of a new file
  that a pattern leaves to its owner is never taken again.
* *Accounts.*  A wrong second factor does not count as a failure, the first login does not reset the
  failures with a second factor, and a reset goes to deactivated users too.
* *OpenID Connect.*  doc/integrator/authentication_oidc.rst says that a user is created at the first
  login and matched by address; the defaults are user names and no creation.  A refresh in a view that
  returns a response of its own loses the new refresh token; a logout with a token that is over keeps the
  cookies.
* *Schemas.*  doc/developer/server_side.rst:118 says that scripts should not fail when they are run more than
  once; most do.  Between 9268a1dffac0 and 7530011a66a7 the trigger names a column that does not exist.
  834a3cfc02f2 changes the type of areas without converting them, so it is refused as soon as one is stored;
  e004f76e951a, b6b09f414fe8, 87f8330ed64e, 910b4ca53b68 and others require columns, and
  e7e03dedade3 unique names, of rows that were allowed to differ and are not changed before.

## 5. The proofs

Each `X_proofs` module proves an inductive invariant of X, one lemma or step per action, and draws
the theorems from it with PTL.  Nothing bounds the sets of processes, threads, requests, users, codes
or items.

| Module | Theorems | Inductive invariant, and why it is needed |
|---|---|---|
| `HybridCache_proofs` | `TypeCorrect`, `CacheInvariant`, `NoStaleWithoutRace`, `CacheRefinesShared` (refinement of `SharedCache`), `PromiseKeepsFresh` (about `SharedCache`) | `CacheInv`: an old value is refused wherever it lies, also on its way from a creator to the memory and to Redis, where the answers do not show it yet |
| `OAuth2Server_proofs` | `TypeCorrect`, `CodeInvariant`, `CodesOnce` (refinement of `OneTimeCode`), `NothingOfDeleted`, `VerifierMatches` | `CodeInv`: of two exchanges that found one code, the row lock of the tokens lets only one go on, so a code about to be answered is held by nobody else; the other two add what a transaction has flushed and not committed: its rows are of grants that exist, and the challenge in a row is that of the code in it |
| `QgisAccessControl_proofs` | `TypeCorrect`, `AccessInvariant`, `FreshPermissions`, `RaisesOnlyByRace`, `LayersRefineShared` (refinement of `SharedCache`) | `AccessInv`: who reads the rows holds the lock until they are stored, so the layers are never older than `floor`; `RaceInv` adds what a call saw at its first look, what has been dropped since, and the rows that a refused call has got |
| `LayerEditing_proofs` | `ReadOneIsListed`, `WriteImpliesQgis`, `PermissionsAndFilters` (about the rules alone), `TypeCorrect`, `EditInvariant`, `WriterReadsCorrect` | types, `PendingInv` and `WrittenWithin`: what is pending was allowed |
| `Raster_proofs` | `TypeCorrect`, `OpenDataSetsCorrect` | `IInv`: who reads or closes has the lock, so a table that is being closed is seen by nobody; no data set of the table is older than what was `announced` |
| `Portal_proofs` | `ShortUrlsAreKept`, `FailuresAreCounted`, `MadeUpIsToBeChanged`, `MailedIsUsable`, `LastTokenIsKept`, `SubjectIsOneUser`, `UpgradesEndComplete` | one per part: `ShortInv` (a reference that is about to be answered is unique or refused at its commit; who reads a counter has read no more than was served), `AccountInv` (`Decided`: what a request will write, as a function of what it has read; nothing else has been written since, or the account is disturbed), `OidcInv` (the cookie and the answers on their way have the last token that was given), `FilesInv` (`Order`, `MarkersInv`: which marker, template and file can be there before which step; `ContentInv`: a file that is half copied belongs to a step that will be run again) |
| `PortalThemes_proofs` | `TimesOfLayersAreServed`, `SearchIsTheThemes`, `CapabilitiesShowRights`, `PartsKeepTypes` | `BlockInv`: `MergedInv` and `NodeInv` say what the merged time of a block owes to each layer before it is shown, and `RefuseTime` leaves; `SearchInv`: the rows are those of one run of the script over the tables as they are; `FilterInv` (below); for the types, the invariants of all parts together |
| `LayerTree_proofs` | `TypeCorrect`, `TreeCorrect`, `PendingCorrect`, `CycleOnlyUncheckedCorrect`, `CopiesOnlyByRaceCorrect`, `ParentsCorrect` | all invariants of the run together: the commit needs what the transaction sees to be acyclic and single, and a walk needs its visited items to sit under visited parents |

`CacheRefinesShared` and `LayersRefineShared` say what the two caches have in common, which their code does
not share: the geoportal relies on the times of dogpile's regions, the plugin on a lock.  In `HybridCache`
an invalidation empties what p accepts, because all that is stored anywhere, or on its way, was stamped
before (`CacheInv`), and no store gives a value a new time (`StoresNothing`; the mutant `SetRedisStamps` does).  `Get` and `Miss`
change what is answered, as they copy from Redis, and never what is accepted, as no process accepts a
copy that it refuses in Redis.  A process that is down accepts whatever is around, for it will start without a
time.  In `QgisAccessControl` the steps between `LayersRead` and `LayersStored` exclude `HandleClear` and
`HandleServer` by the lock (`AccessInv`), hence `raced` is FALSE throughout.  `PromiseKeepsFresh` then
argues over `SharedCache` alone that nothing older than the last invalidation is accepted, unless raced.

The argument of `LayerTree_proofs`: `Above(R, i)` is the least set of groups that holds the groups
of i and is closed upwards.  `AcyclicGrows` is the rule of the forms (children that are neither the
group nor above it make no cycle), `AcyclicSameLinks` that fewer links or copies make none.  An item
that the walk creates, or moves with force_parents, is not above its new parent, because the parent
and all that is above it were visited before and names are distinct (`LinkedSound`).  Ordering then
only adds copies of links that exist.  Cleaning can not delete a group of the document, because its
children were moved into it.

`SearchIsTheThemes` rests on what is below an item.  `Below` is a recursive function over so many levels
as there are groups, which is enough for every tree, and for one that goes round as well: `BelowIs`
proves that it is closed under children.  A level that adds no group is the last (`OneLevelMore`), and
each level before it added one, so there are not more than groups (`BelowIsClosed`).  tlapm knows no
induction over the naturals with an operator as parameter; `InductionOverSet` states it for a *set* of
numbers and is proved from the well-foundedness of `<`, and `BelowToIs` with it that the function exists.

`CapabilitiesShowRights` rests on `FilterInv`, because what is written is decided long after a name is read:
`PathInv` says that the path of the parser is the open layer with those around it, and `TextsInv` what is
still to be read of its names.  For each layer, the attribute `hidden` is traced to a layer that was kept
(`VisibleInv`, `SeenInv`), `self_hidden` to one that was refused (`RefusedInv`, `ReasonInv`, `InheritInv`),
and `children_nb` is the number of the children that are not hidden by themselves (`ChildrenInv`); a layer is
written when the layers around it have ended and none of them was left out (`WrittenInv`).  The layers around
a layer are a recursive function too (`OverIs`, by `InductionOverSet`).

Every part of `Portal` has a lemma that steps of other parts leave it alone (`OnlyShort`, ...), so that
`XKept` carries its invariant over to `PortalSpec`.

Assumptions: types and bounds are as the constants say (`TypesAssumption`, `BoundsAssumption`, ...),
a document is a walk (`DocumentAssumption`), no data set is None (`RasterAssumption`), nor a version, a value or a creator of a cache (`NoValueAssumption`, `ValueAssumption`), and the trees to start from satisfy the invariants
(`StartAssumption`; the empty tree does).  `PortalAssumption` gathers those of the parts: the set of groups is
finite and no layer is a theme or a group; an interval has a first and a last instant; what c2cupgrade
moves is no file of the template, and what it manages are files; in a document a layer comes after the
one that it is in, and a feature type is in none and has a name; None is no name, address, extent or step.  TLC evaluates all of them in the runs.

Model-checked only: liveness (`InvalidationHandled`, `RequestsEnd`, `InvalidationsCarriedOut`,
`CallsEnd`), which is out of the prover's reach under fairness; `HeadIsDeclared`, `FailsOnlyForOrderOrRows` and
`DowngradeUndoes`, which have no constants and are about the contents of 73 fixed revisions, so that TLC
checks every case and a proof would only compute the same again; and the violations, which counterexamples settle.

## 6. Not modelled, and the plan

Partly modelled components leave out what their notes in `PROJECT.json` name.  Components without a
module are rendering, forwarding, reading of configuration, reflection of tables and build tools:
they keep no state, or the state is a library's, and a model of them would restate the code line by
line.  Functionalities are one fallback over four lists and were left out for that reason.

Left out within modelled parts, in order of weight:

1. the values of tokens in `OAuth2Server`: two refreshes with the same refresh token
   (`geoportal/lib/oauth2.py:685`), introspection, revocation;
2. the role parameters that the proxies send to MapServer and QGIS Server, and the parsing of WFS-T bodies;
3. rows in the migrations: a statement that moves data needs its tables and columns, and only whether rows can be
   in its way is known, not which; two revisions do not add up to rows that a third is refused for;
4. the depth limit of groups (`geoportal/views/theme.py:643`) and cycles in the recursive queries
   (`admin/schemas/treegroup.py:102`); empty groups that the synchronizer removes in one pass
   (`admin/lib/ogcserver_synchronizer.py:165`);
5. features without geometry (`geoportal/views/layers.py:128`) and the column of the last editor
   (`:98`) in `LayerEditing`;
6. an OGC server that is deleted and made again while the plugin keeps its row
   (`qgis/accesscontrol.py:413`);
7. users that only the provider knows (`provide_roles`) and the Bearer header in `OidcLogin`.
