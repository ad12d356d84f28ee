------------------------------- MODULE Sqlite -------------------------------
(***************************************************************************)
(* What the migrations use of SQLite: tables with their constraints, rows, *)
(* and the effect of a statement on both. A database is [tables, rows]. A  *)
(* table that refers to another is itself referred to by none.             *)
(***************************************************************************)
EXTENDS Naturals, Sequences, TLC

CONSTANTS Null

\* required: NOT NULL; defaults: required columns that a statement may leave out;
\* unique: the sets of columns with a UNIQUE constraint; references: by column.
Table(required, optional, defaults, unique, references) ==
  [required |-> required, optional |-> optional, defaults |-> defaults,
   unique |-> unique, references |-> references]

References(table, onDelete) == [table |-> table, onDelete |-> onDelete]

Columns(table) == table.required \cup table.optional

EmptyDatabase == [tables |-> <<>>, rows |-> <<>>]

Create(t, table) == [stmt |-> "create", table |-> t, as |-> table]
Copy(to, from, columns) ==
  [stmt |-> "copy", table |-> to, from |-> from, columns |-> columns]
Drop(t) == [stmt |-> "drop", table |-> t]
Rename(t, to) == [stmt |-> "rename", table |-> t, to |-> to]
DeleteDuplicates(t, column) == [stmt |-> "deduplicate", table |-> t, by |-> column]

Without(f, x) == [y \in (DOMAIN f) \ {x} |-> f[y]]

\* An inserted row: a column that is not named has its default, or NULL.
Inserted(table, columns, row) ==
  [c \in Columns(table) |->
     IF c \in columns THEN row[c] ELSE IF c \in table.defaults THEN "default" ELSE Null]

\* The constraints that are checked whether or not foreign keys are.
RowsValid(table, rows) ==
  /\ \A r \in rows : \A c \in table.required : r[c] # Null
  /\ \A key \in table.unique \cup {{"id"}} : \A r, q \in rows :
       (\A c \in key : r[c] # Null /\ r[c] = q[c]) => r = q

\* What foreign keys demand of rows that are stored while they are enforced.
ReferencesHold(db, t, rows) ==
  \A c \in DOMAIN db.tables[t].references :
    LET u == db.tables[t].references[c].table
    IN  \A r \in rows : r[c] # Null => u \in DOMAIN db.rows /\ \E q \in db.rows[u] : q["id"] = r[c]

\* Rows of the other tables that refer to one of these rows of t.
Referring(db, t, gone) ==
  {<<u, r, c>> \in UNION {{u} \X db.rows[u] \X DOMAIN db.tables[u].references :
                            u \in DOMAIN db.tables} :
     db.tables[u].references[c].table = t /\ \E g \in gone : g["id"] = r[c]}

\* DELETE with foreign keys enforced: refused, or with what it cascades to. Setting a
\* required column to NULL is refused as well.
Deleted(db, t, gone) ==
  LET refs == Referring(db, t, gone)
      does(x, what) == db.tables[x[1]].references[x[3]].onDelete = what
      fine == \A x \in refs : does(x, "CASCADE")
      taken(u) == {r \in db.rows[u] : \E c \in DOMAIN db.tables[u].references : <<u, r, c>> \in refs}
  IN  [ok |-> fine,
       db |-> IF ~fine THEN db
              ELSE [db EXCEPT !.rows = [u \in DOMAIN @ |->
                      IF u = t THEN @[u] \ gone ELSE @[u] \ taken(u)]]]

Done(db) == [ok |-> TRUE, db |-> db]
Failed(db) == [ok |-> FALSE, db |-> db]

\* RENAME TO also changes the references of every other table, foreign keys enforced
\* or not (since SQLite 3.26).
Renamed(db, t, to) ==
  LET moved(f) == (to :> f[t]) @@ Without(f, t)
      follow(ref) == IF ref.table = t THEN [ref EXCEPT !.table = to] ELSE ref
      tables == [u \in DOMAIN db.tables |->
                   [db.tables[u] EXCEPT !.references = [c \in DOMAIN @ |-> follow(@[c])]]]
  IN  [tables |-> moved(tables), rows |-> moved(db.rows)]

\* Dropping a table deletes its rows first when foreign keys are enforced.
Dropped(db, t, enforced) ==
  LET r == IF enforced THEN Deleted(db, t, db.rows[t]) ELSE Done(db)
  IN  IF r.ok THEN Done([tables |-> Without(r.db.tables, t), rows |-> Without(r.db.rows, t)])
      ELSE Failed(db)

\* WHERE id NOT IN (SELECT MIN(id) ... GROUP BY column)
Deduplicated(db, t, by, enforced) ==
  LET gone == {r \in db.rows[t] : \E q \in db.rows[t] : q[by] = r[by] /\ q["id"] < r["id"]}
  IN  IF enforced THEN Deleted(db, t, gone) ELSE Done([db EXCEPT !.rows[t] = @ \ gone])

Copied(db, s) ==
  LET rows == db.rows[s.table] \cup
                {Inserted(db.tables[s.table], s.columns, r) : r \in db.rows[s.from]}
  IN  IF RowsValid(db.tables[s.table], rows)
      THEN Done([db EXCEPT !.rows[s.table] = rows]) ELSE Failed(db)

\* The effect of statement s: what it names must exist, what it creates must not.
Run(db, s, enforced) ==
  LET exists(t) == t \in DOMAIN db.tables IN
  CASE s.stmt = "create" /\ ~exists(s.table) ->
         Done([tables |-> (s.table :> s.as) @@ db.tables, rows |-> (s.table :> {}) @@ db.rows])
    [] s.stmt = "copy" /\ exists(s.table) /\ exists(s.from)
         /\ s.columns \subseteq Columns(db.tables[s.table]) \cap Columns(db.tables[s.from]) ->
         Copied(db, s)
    [] s.stmt = "drop" /\ exists(s.table) -> Dropped(db, s.table, enforced)
    [] s.stmt = "rename" /\ exists(s.table) /\ ~exists(s.to) -> Done(Renamed(db, s.table, s.to))
    [] s.stmt = "deduplicate" /\ exists(s.table) -> Deduplicated(db, s.table, s.by, enforced)
    [] OTHER -> Failed(db)
=============================================================================
