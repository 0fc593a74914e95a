----------------------------- MODULE SchemaUpgrade -----------------------------
(***************************************************************************)
(* The schemas of the database under `alembic --name=main` and               *)
(* `alembic --name=static`, upgrade or downgrade, one revision at a time.    *)
(* A command is one transaction: when an operation is refused the database    *)
(* stays as it was.  Between two commands users and administrators store      *)
(* rows, which are in the way of a command or are not.  The revisions of main have branches: alembic takes the   *)
(* revisions of two branches in any order.                                    *)
(***************************************************************************)
EXTENDS MainMigrations, StaticMigrations, DataModel

VARIABLES
  main,      \* the revisions that are applied to the schema main
  static,    \* and to the schema static
  db,        \* the catalogue
  failed     \* the revision whose upgrade or downgrade the last command did not do, and why

schemaVars == <<main, static, db, failed>>

Main ==
  "166ff2dcc48d" :> r166ff2dcc48d @@ "415746eb9f6" :> r415746eb9f6 @@
  "54645a535ad6" :> r54645a535ad6 @@ "1d5d4abfebd1" :> r1d5d4abfebd1 @@
  "20137477bd02" :> r20137477bd02 @@ "164ac0819a61" :> r164ac0819a61 @@
  "5109242131ce" :> r5109242131ce @@ "32527659d57b" :> r32527659d57b @@
  "53ba1a68d5fe" :> r53ba1a68d5fe @@ "1418cb05921b" :> r1418cb05921b @@
  "2b8ed8c1df94" :> r2b8ed8c1df94 @@ "a4f1aac9bda" :> ra4f1aac9bda @@
  "116b9b79fc4d" :> r116b9b79fc4d @@ "22e6dfb556de" :> r22e6dfb556de @@
  "29f2a32859ec" :> r29f2a32859ec @@ "6a412d9437b1" :> r6a412d9437b1 @@
  "951ff84bd8ec" :> r951ff84bd8ec @@ "daf738d5bae4" :> rdaf738d5bae4 @@
  "b60f2a505f42" :> rb60f2a505f42 @@ "8117bb9bba16" :> r8117bb9bba16 @@
  "7d271f4527cd" :> r7d271f4527cd @@ "e7e03dedade3" :> re7e03dedade3 @@
  "ec82a8906649" :> rec82a8906649 @@ "596ba21e3833" :> r596ba21e3833 @@
  "ee25d267bf46" :> ree25d267bf46 @@ "e004f76e951a" :> re004f76e951a @@
  "32b21aa1d0ed" :> r32b21aa1d0ed @@ "9268a1dffac0" :> r9268a1dffac0 @@
  "6d87fdad275a" :> r6d87fdad275a @@ "d8ef99bc227e" :> rd8ef99bc227e @@
  "94db7e7e5b21" :> r94db7e7e5b21 @@ "d48a63b348f1" :> rd48a63b348f1 @@
  "21f11066f8ec" :> r21f11066f8ec @@ "7530011a66a7" :> r7530011a66a7 @@
  "809650bd04c3" :> r809650bd04c3 @@ "dba87f2647f9" :> rdba87f2647f9 @@
  "338b57593823" :> r338b57593823 @@ "c75124553bf3" :> rc75124553bf3 @@
  "e85afd327ab3" :> re85afd327ab3 @@ "1de20166b274" :> r1de20166b274 @@
  "56dc90838d90" :> r56dc90838d90 @@ "78fd093c8393" :> r78fd093c8393 @@
  "eeb345672454" :> reeb345672454 @@ "028477929d13" :> r028477929d13 @@
  "678f88c7ad5e" :> r678f88c7ad5e @@ "16e43f8c0330" :> r16e43f8c0330 @@
  "87f8330ed64e" :> r87f8330ed64e @@ "a00109812f89" :> ra00109812f89 @@
  "52916d8fde8b" :> r52916d8fde8b @@ "04f05bfbb05e" :> r04f05bfbb05e @@
  "44c91d82d419" :> r44c91d82d419 @@ "b6b09f414fe8" :> rb6b09f414fe8 @@
  "a4558f032d7d" :> ra4558f032d7d @@ "2e57710fecfe" :> r2e57710fecfe @@
  "834a3cfc02f2" :> r834a3cfc02f2 @@ "33528a10237c" :> r33528a10237c

Static ==
  "3f89a7d71a5e" :> s3f89a7d71a5e @@ "1da396a88908" :> s1da396a88908 @@
  "5472fbc19f39" :> s5472fbc19f39 @@ "1857owc78a07" :> s1857owc78a07 @@
  "53d671b17b20" :> s53d671b17b20 @@ "ae5e88f35669" :> sae5e88f35669 @@
  "0c640a58a09a" :> s0c640a58a09a @@ "bd029dbfc11a" :> sbd029dbfc11a @@
  "107b81f5b9fe" :> s107b81f5b9fe @@ "7ef947f30f20" :> s7ef947f30f20 @@
  "44c91d82d419" :> s44c91d82d419 @@ "76d72fb3fcb9" :> s76d72fb3fcb9 @@
  "910b4ca53b68" :> s910b4ca53b68 @@ "aa41e9613256" :> saa41e9613256 @@
  "267b4c1bde2e" :> s267b4c1bde2e @@ "f5e8b5dd3241" :> sf5e8b5dd3241 @@ "3d75d1d9500b" :> s3d75d1d9500b

Revisions == [main |-> Main, static |-> Static]

Follow(revisions, applied, r) == \E n \in applied : r \in revisions[n].down

-----------------------------------------------------------------------------
(* A new database, or one that the version 1.6 made without alembic: it has the
   tables of the first revision of main and no version. *)
Legacy == Result(EmptyDatabase, r166ff2dcc48d_upgrade)

Init ==
  /\ main = {} /\ static = {} /\ failed = {}
  /\ db \in {EmptyDatabase, Legacy}

(* run_migrations_online. *)
Migrate(r, operations) == \E inTheWay \in BOOLEAN :
  LET run == Run(db, operations, inTheWay)
  IN  IF Stopped(run) THEN db' = db /\ failed' = {[revision |-> r, status |-> run.status]}
                      ELSE db' = run.db /\ failed' = {}

UpgradeMain(r) ==
  /\ r \notin main /\ Main[r].down \subseteq main
  /\ Migrate(r, Main[r].upgrade)
  /\ main' = IF failed' = {} THEN main \cup {r} ELSE main
  /\ UNCHANGED static

DowngradeMain(r) ==
  /\ r \in main /\ ~Follow(Main, main, r)
  /\ Migrate(r, Main[r].downgrade)
  /\ main' = IF failed' = {} THEN main \ {r} ELSE main
  /\ UNCHANGED static

UpgradeStatic(r) ==
  /\ r \notin static /\ Static[r].down \subseteq static
  /\ Migrate(r, Static[r].upgrade)
  /\ static' = IF failed' = {} THEN static \cup {r} ELSE static
  /\ UNCHANGED main

DowngradeStatic(r) ==
  /\ r \in static /\ ~Follow(Static, static, r)
  /\ Migrate(r, Static[r].downgrade)
  /\ static' = IF failed' = {} THEN static \ {r} ELSE static
  /\ UNCHANGED main

Next ==
  \/ \E r \in DOMAIN Main : UpgradeMain(r) \/ DowngradeMain(r)
  \/ \E r \in DOMAIN Static : UpgradeStatic(r) \/ DowngradeStatic(r)

Spec == Init /\ [][Next]_schemaVars

-----------------------------------------------------------------------------
AtHead == main = DOMAIN Main /\ static = DOMAIN Static

(* The first revision of static lifts a limit of a table that the first revision of main
   makes: the limit is back, for good, when main is undone and redone below it. *)
LimitedUrl == [DeclaredTables EXCEPT !.static_shorturl.url.type = "text of 1000"]

(* Whatever way the two schemas came to their last revisions, in any order of the branches,
   with downgrades in between, from a new database or from a legacy one, the database is what
   the classes of the models declare, but for the limit of the length of short URLs; and no
   trigger is left that changes a table that is not there. *)
HeadIsDeclared ==
  AtHead => /\ Comparable(db.tables) \in {DeclaredTables, LimitedUrl}
            /\ Unnamed(db.constraints) = DeclaredConstraints
            /\ db.trigger => HasColumn(db, db.calls, "role_name")

(* static has to be upgraded after main and downgraded before it: the schemas are tied at the table of the
   short URLs, which main makes, and at the table of the users, which static takes over from main. *)
OutOfOrder(r) == \/ r = "3f89a7d71a5e" /\ main = {}
                 \/ r = "1da396a88908" /\ "415746eb9f6" \notin main
                 \/ r = "415746eb9f6" /\ "1da396a88908" \in static

(* Rows can be in the way of these upgrades: a layer without a time mode or on a server without URL; two items
   or two servers of one name, or items without name; layers without what they need; a role that has the name
   of a new one; a layer of the first version with a dimension; a theme without order; things without name;
   servers that have the new name; any area that is stored; and OAuth2 rows and short URLs without what they need. *)
UpgradesForSomeRows == {"116b9b79fc4d", "e7e03dedade3", "e004f76e951a", "028477929d13", "56dc90838d90",
                        "87f8330ed64e", "b6b09f414fe8", "2e57710fecfe", "834a3cfc02f2", "910b4ca53b68"}

(* And of these downgrades: an item twice in one group; dimensions of layers that are not WMTS; a role that is
   used; servers that have the old name; any area that is stored; and a user whose role is gone. *)
DowngradesForSomeRows == {"54645a535ad6", "8117bb9bba16", "028477929d13", "2e57710fecfe", "834a3cfc02f2",
                          "1da396a88908"}

(* A command fails only out of order, or at one of the revisions above, when rows are in the way: all others
   convert whatever rows there are, and nothing is refused for what the catalogue is, in any order of the
   branches and with downgrades in between. *)
FailsOnlyForOrderOrRows ==
  \A f \in failed :
    \/ f.status = "failed" /\ OutOfOrder(f.revision)
    \/ f.status = "refused" /\ f.revision \in IF f.revision \in main \cup static THEN DowngradesForSomeRows
                                                                               ELSE UpgradesForSomeRows

(* What a downgrade gives back: the columns with their types, and the keys.  Some lose NOT NULL
   or a default, and the indices that an upgrade adds may stay. *)
Shape(d) == [columns |-> [t \in DOMAIN d.tables |-> [c \in DOMAIN d.tables[t] |-> d.tables[t][c].type]],
             keys |-> {k \in d.constraints : k.kind # "index"}]

Undone(revisions, before, after) ==
  \A r \in after \ before :
    \/ r \in {"3f89a7d71a5e", "166ff2dcc48d"}
    \/ LET run == Run(db', revisions[r].downgrade, FALSE)
       IN  ~Stopped(run) /\ (run.db = db \/ Shape(run.db) = Shape(db))

(* The downgrade of a revision that was just applied succeeds, when no row is in its way, and gives
   back every table, column and key that the upgrade changed: a migration that went wrong can be
   undone.  The first revisions do not: a legacy database had its tables before, and the limit of
   the length of short URLs is not set again. *)
DowngradeUndoes ==
  [][Undone(Main, main, main') /\ Undone(Static, static, static')]_schemaVars
=============================================================================
