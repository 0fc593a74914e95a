------------------------------- MODULE Alembic -------------------------------
(***************************************************************************)
(* The operations of alembic that the migrations of c2cgeoportal call, as   *)
(* changes of the catalogue of PostgreSQL.  A catalogue holds the columns   *)
(* of every table, the constraints and indices, and what is left of the     *)
(* trigger on roles.  A migration is a sequence of operations; each has the *)
(* conditions under which PostgreSQL refuses it: those of the catalogue,    *)
(* and those of the rows that are stored, of which only is known whether    *)
(* they are in the way.  Tables of the schema static are prefixed with      *)
(* static_.                                                                 *)
(***************************************************************************)
EXTENDS Naturals, Sequences, FiniteSets, TLC, SequencesExt

NoTable == "no table"

-----------------------------------------------------------------------------
(* Columns, as sqlalchemy.Column declares them.  The length of a text is left
   out, as alembic's comparison does when one of two sides gives none. *)

Column(type) == [type |-> type, null |-> TRUE, default |-> FALSE, pk |-> FALSE,
                 unique |-> FALSE, index |-> FALSE, ref |-> NoTable, cascade |-> FALSE]

NotNull(column)       == [column EXCEPT !.null = FALSE]
ServerDefault(column) == [column EXCEPT !.default = TRUE]
Unique(column)        == [column EXCEPT !.unique = TRUE]
Indexed(column)       == [column EXCEPT !.index = TRUE]
PrimaryKey(column)    == [column EXCEPT !.pk = TRUE, !.null = FALSE]
Cascade(column)       == [column EXCEPT !.cascade = TRUE]

Number  == Column("int")
Bool == Column("bool")
Real == Column("float")
Text == Column("text")
Time == Column("timestamp")
Zoned == Column("timestamp with time zone")
Id   == ServerDefault(PrimaryKey(Number))

ForeignKey(table) == [Number EXCEPT !.ref = table]
Key(table)        == PrimaryKey(ForeignKey(table))

(* Several columns of one declaration. *)
Of(column, names) == [c \in names |-> column]

(* The two columns of an association table. *)
Link(a, b) == (a \o "_id") :> Key(a) @@ (b \o "_id") :> Key(b)
CascadingLink(a, b) == [c \in DOMAIN Link(a, b) |-> Cascade(Link(a, b)[c])]

-----------------------------------------------------------------------------
(* Operations: alembic.op. *)

CreateTable(t, cols)      == [op |-> "create table", t |-> t, cols |-> cols]
DropTable(t)              == [op |-> "drop table", t |-> t]
RenameTable(t, new)       == [op |-> "rename table", t |-> t, new |-> new]
AddColumn(t, c, column)   == [op |-> "add column", t |-> t, c |-> c, column |-> column]
DropColumn(t, c)          == [op |-> "drop column", t |-> t, c |-> c]
RenameColumn(t, c, new)   == [op |-> "rename column", t |-> t, c |-> c, new |-> new]
SetNull(t, c, null)       == [op |-> "alter null", t |-> t, c |-> c, null |-> null]
SetType(t, c, type)       == [op |-> "alter type", t |-> t, c |-> c, type |-> type]
Constrain(con)            == [op |-> "create constraint", con |-> con]
DropConstraint(name, t)   == [op |-> "drop constraint", name |-> name, t |-> t]
DropIndexIfAny(name, t)   == [op |-> "drop index if any", name |-> name, t |-> t]
Execute(uses)             == [op |-> "execute", uses |-> uses]
GiveValue(t, c)           == [op |-> "give value", t |-> t, c |-> c]
Copy(from, c, t, d)       == [op |-> "copy", from |-> from, c |-> c, t |-> t, d |-> d]
Write(t, cols)            == [op |-> "write", t |-> t, cols |-> cols]
Delete(tables, cleared)   == [op |-> "delete", tables |-> tables, cleared |-> cleared]
CreateFunction(t, again)  == [op |-> "create function", t |-> t, again |-> again]
DropFunction              == [op |-> "drop function"]
CreateTrigger             == [op |-> "create trigger"]
DropTrigger               == [op |-> "drop trigger"]
ReturnIfTable(t)          == [op |-> "return if table", t |-> t]

(* Execute is a statement that no row makes fail.  The others are GiveValue, an UPDATE of the rows where c is
   NULL; Copy, an INSERT that copies c of a table, or of NoTable when an outer join may find nothing, to d of t;
   Write, of values that another row of t may have; Delete, of rows of some tables, when those of the tables
   cleared that refer to them are gone. *)

(* Constraints and indices carry the names that PostgreSQL or the migration gives them. *)
Constraint(kind, name, t, cols, ref, cascade) ==
  [kind |-> kind, name |-> name, t |-> t, cols |-> cols, ref |-> ref, cascade |-> cascade]

References(name, t, c, ref)        == Constraint("fk", name, t, {c}, ref, FALSE)
ReferencesCascade(name, t, c, ref) == Constraint("fk", name, t, {c}, ref, TRUE)
UniqueOn(name, t, cols)            == Constraint("unique", name, t, cols, NoTable, FALSE)
IndexOn(name, t, cols)             == Constraint("index", name, t, cols, NoTable, FALSE)
PrimaryKeyOn(name, t, cols)        == Constraint("pk", name, t, cols, NoTable, FALSE)

(* Declared with its columns, a table has these. *)
ConstraintsOf(t, cols) ==
  LET of(kind) == {c \in DOMAIN cols : CASE kind = "fk" -> cols[c].ref # NoTable
                                         [] kind = "unique" -> cols[c].unique
                                         [] kind = "index" -> cols[c].index
                                         [] OTHER -> cols[c].pk}
  IN  {Constraint("fk", t \o "_" \o c \o "_fkey", t, {c}, cols[c].ref, cols[c].cascade) : c \in of("fk")}
      \cup {UniqueOn(t \o "_" \o c \o "_key", t, {c}) : c \in of("unique")}
      \cup {IndexOn("ix_" \o t \o "_" \o c, t, {c}) : c \in of("index")}
      \cup (IF of("pk") = {} THEN {} ELSE {PrimaryKeyOn(t \o "_pkey", t, of("pk"))})

Stored(column) == [type |-> column.type, null |-> column.null, default |-> column.default]

-----------------------------------------------------------------------------
(* What an operation does.  calls is the table that the function called
   on_role_name_change updates, trigger whether it is attached to role. *)

EmptyDatabase == [tables |-> <<>>, constraints |-> {}, calls |-> NoTable, trigger |-> FALSE]

HasColumn(db, t, c) == t \in DOMAIN db.tables /\ c \in DOMAIN db.tables[t]
NamedOn(db, name, t) == {k \in db.constraints : k.name = name /\ k.t = t}

(* Whether PostgreSQL accepts the operation whatever the rows: what it names is there, or
   not yet, and a table that others refer to is not dropped. *)
Accepted(db, o) ==
  CASE o.op = "create table" ->
         /\ o.t \notin DOMAIN db.tables
         /\ \A c \in DOMAIN o.cols : o.cols[c].ref \in DOMAIN db.tables \cup {NoTable}
    [] o.op = "drop table" ->
         /\ o.t \in DOMAIN db.tables
         /\ \A k \in db.constraints : k.ref = o.t => k.t = o.t
    [] o.op = "rename table" -> o.t \in DOMAIN db.tables /\ o.new \notin DOMAIN db.tables
    [] o.op = "add column" ->
         /\ o.t \in DOMAIN db.tables /\ ~HasColumn(db, o.t, o.c)
         /\ o.column.ref \in DOMAIN db.tables \cup {NoTable}
    [] o.op = "rename column" -> HasColumn(db, o.t, o.c) /\ ~HasColumn(db, o.t, o.new)
    [] o.op \in {"drop column", "alter null", "alter type", "give value"} -> HasColumn(db, o.t, o.c)
    [] o.op = "copy" -> HasColumn(db, o.t, o.d) /\ (o.from # NoTable => HasColumn(db, o.from, o.c))
    [] o.op = "write" -> \A c \in o.cols : HasColumn(db, o.t, c)
    [] o.op = "delete" -> o.tables \cup o.cleared \subseteq DOMAIN db.tables
    [] o.op = "create constraint" ->
         /\ NamedOn(db, o.con.name, o.con.t) = {}
         /\ \A c \in o.con.cols : HasColumn(db, o.con.t, c)
         /\ o.con.ref \in DOMAIN db.tables \cup {NoTable}
         /\ o.con.kind = "pk" => \A k \in db.constraints : k.t = o.con.t => k.kind # "pk"
    [] o.op = "drop constraint" -> NamedOn(db, o.name, o.t) # {}
    [] o.op = "execute" -> \A t \in DOMAIN o.uses : \A c \in o.uses[t] : HasColumn(db, t, c)
    [] o.op = "create function" -> o.again \/ db.calls = NoTable
    [] o.op = "drop function" -> db.calls # NoTable /\ ~db.trigger
    [] o.op = "create trigger" -> ~db.trigger /\ db.calls # NoTable /\ "role" \in DOMAIN db.tables
    [] o.op = "drop trigger" -> db.trigger
    [] OTHER -> TRUE

Renamed(S, old, new) == {IF c = old THEN new ELSE c : c \in S}

(* The catalogue after an operation that PostgreSQL accepts. *)
After(db, o) ==
  CASE o.op = "create table" ->
         [db EXCEPT !.tables = (o.t :> [c \in DOMAIN o.cols |-> Stored(o.cols[c])]) @@ @,
                    !.constraints = @ \cup ConstraintsOf(o.t, o.cols)]
    [] o.op = "drop table" ->
         [db EXCEPT !.tables = Restrict(@, DOMAIN @ \ {o.t}),
                    !.constraints = {k \in @ : k.t # o.t},
                    !.trigger = @ /\ o.t # "role"]
    [] o.op = "rename table" ->
         [db EXCEPT !.tables = (o.new :> @[o.t]) @@ Restrict(@, DOMAIN @ \ {o.t}),
                    !.constraints = {[k EXCEPT !.t = IF @ = o.t THEN o.new ELSE @,
                                               !.ref = IF @ = o.t THEN o.new ELSE @] : k \in @}]
    [] o.op = "add column" ->
         [db EXCEPT !.tables[o.t] = (o.c :> Stored(o.column)) @@ @,
                    !.constraints = @ \cup {k \in ConstraintsOf(o.t, o.c :> o.column) : k.kind # "pk"}]
    [] o.op = "drop column" ->
         [db EXCEPT !.tables[o.t] = Restrict(@, DOMAIN @ \ {o.c}),
                    !.constraints = {k \in @ : k.t # o.t \/ o.c \notin k.cols}]
    [] o.op = "rename column" ->
         [db EXCEPT !.tables[o.t] = (o.new :> @[o.c]) @@ Restrict(@, DOMAIN @ \ {o.c}),
                    !.constraints = {IF k.t = o.t THEN [k EXCEPT !.cols = Renamed(@, o.c, o.new)]
                                                  ELSE k : k \in @}]
    [] o.op = "alter null" -> [db EXCEPT !.tables[o.t][o.c].null = o.null]
    [] o.op = "alter type" -> [db EXCEPT !.tables[o.t][o.c].type = o.type]
    [] o.op = "create constraint" -> [db EXCEPT !.constraints = @ \cup {o.con}]
    [] o.op \in {"drop constraint", "drop index if any"} ->
         [db EXCEPT !.constraints = @ \ NamedOn(db, o.name, o.t)]
    [] o.op = "create function" -> [db EXCEPT !.calls = o.t]
    [] o.op = "drop function" -> [db EXCEPT !.calls = NoTable]
    [] o.op = "create trigger" -> [db EXCEPT !.trigger = TRUE]
    [] o.op = "drop trigger" -> [db EXCEPT !.trigger = FALSE]
    [] OTHER -> db

-----------------------------------------------------------------------------
(* What the rows can contradict.  A migration that is run has a catalogue; the columns that it gave values;
   the tables that it made, without rows of their own; and the keys that it dropped, which the rows keep to. *)

(* A key that is made again, or on the table that the table of the old key refers to. *)
Known(run, k) ==
  \E d \in run.dropped : /\ d.kind = "fk" /\ d.t = k.t /\ d.cols = k.cols
                         /\ \/ d.ref = k.ref
                            \/ \E f \in run.db.constraints :
                                 f.kind = "fk" /\ f.t = d.ref /\ f.cols = {"id"} /\ f.ref = k.ref

(* No two rows agree on columns of which one counts the rows, or that are unique already. *)
Distinct(db, t, cols) ==
  \/ \E c \in cols : db.tables[t][c] = Stored(Id)
  \/ \E k \in db.constraints : k.t = t /\ k.kind \in {"unique", "pk"} /\ k.cols \subseteq cols

(* Whether PostgreSQL refuses the operation for some rows that the catalogue allows. *)
Contradicted(run, o) ==
  CASE o.op = "add column" -> ~o.column.null /\ ~o.column.default /\ o.t \notin run.new
    [] o.op = "alter null" -> ~o.null /\ run.db.tables[o.t][o.c].null /\ <<o.t, o.c>> \notin run.given
    [] o.op = "alter type" -> {o.type, run.db.tables[o.t][o.c].type} = {"polygon", "multipolygon"}
    [] o.op = "create constraint" ->
         /\ o.con.t \notin run.new
         /\ \/ o.con.kind = "fk" /\ ~Known(run, o.con)
            \/ o.con.kind \in {"unique", "pk"} /\ ~Distinct(run.db, o.con.t, o.con.cols)
    [] o.op = "copy" -> ~run.db.tables[o.t][o.d].null /\ (o.from # NoTable => run.db.tables[o.from][o.c].null)
    [] o.op = "write" -> \E k \in run.db.constraints :
                           k.t = o.t /\ k.kind \in {"unique", "pk"} /\ k.cols \subseteq o.cols
    [] o.op = "delete" -> \E k \in run.db.constraints :
                            k.ref \in o.tables /\ ~k.cascade /\ k.t \notin o.cleared
    [] OTHER -> FALSE

Continued(run, o) ==
  [run EXCEPT !.db = After(@, o),
              !.given = IF o.op = "give value" THEN @ \cup {<<o.t, o.c>>} ELSE @,
              !.new = IF o.op = "create table" THEN @ \cup {o.t} ELSE @,
              !.dropped = IF o.op = "drop constraint" THEN @ \cup NamedOn(run.db, o.name, o.t) ELSE @]

(* A migration runs its operations in order: one that the catalogue does not allow fails it, and one that
   the rows are in the way of, when they are, has it refused.  Some migrations end at once when their table
   is there already. *)
Step(run, o, inTheWay) ==
  CASE run.status # "running" -> run
    [] o.op = "return if table" /\ o.t \in DOMAIN run.db.tables -> [run EXCEPT !.status = "returned"]
    [] ~Accepted(run.db, o) -> [run EXCEPT !.status = "failed"]
    [] inTheWay /\ Contradicted(run, o) -> [run EXCEPT !.status = "refused"]
    [] OTHER -> Continued(run, o)

Run(db, operations, inTheWay) ==
  LET run[n \in 0..Len(operations)] ==
        IF n = 0 THEN [db |-> db, given |-> {}, new |-> {}, dropped |-> {}, status |-> "running"]
                 ELSE Step(run[n - 1], operations[n], inTheWay)
  IN  run[Len(operations)]

Stopped(run) == run.status \in {"failed", "refused"}

Result(db, operations) == Run(db, operations, FALSE).db

(* The same operation for every element of a sequence: the loops of the migrations. *)
ForEach(seq, operations(_)) == FlattenSeq([i \in DOMAIN seq |-> operations(seq[i])])

(* Columns become NOT NULL, some of them after the rows without a value are given one. *)
Require(columns, given) ==
  ForEach(columns, LAMBDA c : (IF c \in given THEN <<GiveValue(c[1], c[2])>> ELSE <<>>)
                              \o <<SetNull(c[1], c[2], FALSE)>>)

(* A migration: the revisions it follows, what it does and what undoes it. *)
Revision(down, upgrade, downgrade) == [down |-> down, upgrade |-> upgrade, downgrade |-> downgrade]

(* Merges of two branches change nothing. *)
Merge(down) == Revision(down, <<>>, <<>>)
=============================================================================
