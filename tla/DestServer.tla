----------------------------- MODULE DestServer -----------------------------
(***************************************************************************)
(* The MySQL server of the destination, as far as the statements the tool  *)
(* sends tell it apart: each ALTER or CREATE is atomic, is accepted or     *)
(* rejected by the rules on columns, indexes and foreign keys (with        *)
(* foreign_key_checks on), and changes one table.  External: the server is *)
(* not part of the repository.  A database is a function from tables to    *)
(* schemas.                                                                *)
(***************************************************************************)
EXTENDS SchemaDiff

Constraints(db) == UNION {{<<t, k>> : k \in DOMAIN db[t].fks} : t \in DOMAIN db}

\* Columns that a constraint can connect.
Alike(c, d) == c.type = d.type /\ c.charset = d.charset

\* An index serves columns that are its leftmost ones.
Serves(s, columns) == \E n \in DOMAIN s.idx : IsPrefix(columns, s.idx[n].cols)

ValidForeign(db, t, fk) ==
  LET child == db[t]
      parent == db[fk.parent]
  IN  /\ ToSet(fk.cols) \subseteq ColNames(child)
      /\ ToSet(fk.refs) \subseteq ColNames(parent)
      /\ \A i \in DOMAIN fk.cols : Alike(Column(child, fk.cols[i]), Column(parent, fk.refs[i]))
      /\ Serves(child, fk.cols)
      /\ Serves(parent, fk.refs)

ValidTable(s) ==
  Exists(s) => /\ Cardinality(ColNames(s)) = Len(s.cols)
               /\ \A n \in DOMAIN s.idx : ToSet(s.idx[n].cols) \subseteq ColNames(s)
               /\ \A n \in DOMAIN s.checks : ToSet(s.checks[n].cols) \subseteq ColNames(s)

ValidDatabase(db) ==
  /\ \A t \in DOMAIN db : ValidTable(db[t])
  /\ \A c \in Constraints(db) : ValidForeign(db, c[1], db[c[1]].fks[c[2]])
  /\ \A c, d \in Constraints(db) : c[2] = d[2] => c = d
  /\ \A t, u \in DOMAIN db : t # u => DOMAIN db[t].checks \cap DOMAIN db[u].checks = {}

\* The columns of t that some constraint of db uses, as a child or as a parent.
Constrained(db, t) ==
  UNION {ToSet(db[c[1]].fks[c[2]].cols) : c \in {x \in Constraints(db) : x[1] = t}}
    \cup UNION {ToSet(db[c[1]].fks[c[2]].refs) :
                  c \in {x \in Constraints(db) : db[x[1]].fks[x[2]].parent = t}}

-----------------------------------------------------------------------------
(* One clause of an ALTER of table t.  s is the table with the earlier     *)
(* clauses applied; index names are looked up in the table as it was.      *)

Anchored(s, after) == after = AtFront \/ after \in ColNames(s)

\* A line that shows no character set means the default of the table it is put in.
Stored(s, line) == [line EXCEPT !.charset = IF @ = "inherited" THEN s.charset ELSE @]

\* Indexes and CHECKs have names of their own: a name may stand for one of each.
Namespace(kind) == IF kind = "CHECK" THEN "checks" ELSE "idx"

\* A constrained column keeps its type and is not dropped.
Applicable(db, t, s, c) ==
  LET retypes == \/ c.col.name \notin ColNames(s)
                 \/ /\ ~Alike(Stored(s, c.col), Column(s, c.col.name))
                    /\ c.col.name \in Constrained(db, t)
  IN  \/ c.op = "DROP FOREIGN KEY" /\ c.constraint \in DOMAIN db[t].fks
      \/ c.op \in {"DROP INDEX", "REPLACE INDEX"} /\ c.name \in DOMAIN db[t][Namespace(c.kind)]
      \/ c.op = "DROP COLUMN" /\ c.name \in ColNames(s) \ Constrained(db, t)
      \/ c.op = "ADD" /\ c.col.name \notin ColNames(s) /\ Anchored(s, c.after)
      \/ c.op = "CHANGE" /\ ~retypes
      \/ c.op = "MODIFY" /\ ~retypes /\ Anchored(s, c.after) /\ c.after # c.col.name
      \/ c.op = "ADD INDEX" /\ c.name \notin DOMAIN s[Namespace(c.index.kind)]
      \/ /\ c.op = "ADD CONSTRAINT" /\ c.constraint \notin {x[2] : x \in Constraints(db)}
         /\ Serves(s, c.fk.cols) \/ ToString(c.constraint) \notin DOMAIN s.idx

Without(f, n) == [x \in DOMAIN f \ {n} |-> f[x]]

With(f, n, v) == [x \in DOMAIN f \cup {n} |-> IF x = n THEN v ELSE f[x]]

DropCol(cols, n) == Only(cols, LAMBDA c : c.name # n)

PutAfter(cols, after, c) ==
  LET at == IF after = AtFront THEN 0
            ELSE CHOOSE i \in DOMAIN cols : cols[i].name = after
  IN  InsertAt(cols, at + 1, c)

\* A CHECK of nothing but the dropped column goes with it.
DropFromChecks(checks, n) ==
  [k \in {j \in DOMAIN checks : ToSet(checks[j].cols) # {n}} |-> checks[k]]

\* Dropping a column takes it out of the indexes; an index left empty goes too.
DropFromIndexes(idx, n) ==
  LET left(k) == Only(idx[k].cols, LAMBDA x : x # n)
  IN  [k \in {j \in DOMAIN idx : left(j) # <<>>} |-> [idx[k] EXCEPT !.cols = left(k)]]

\* The server adds the index a new constraint needs, under the constraint's name.
ForeignIndexed(s, k, fk) ==
  IF Serves(s, fk.cols) THEN s.idx
  ELSE With(s.idx, ToString(k), [kind |-> "INDEX", cols |-> fk.cols])

Changed(s, c) ==
  CASE c.op = "DROP FOREIGN KEY" -> [s EXCEPT !.fks = Without(@, c.constraint)]
    [] c.op = "DROP INDEX" -> [s EXCEPT ![Namespace(c.kind)] = Without(@, c.name)]
    [] c.op = "DROP COLUMN" -> [s EXCEPT !.cols = DropCol(@, c.name),
                                         !.idx = DropFromIndexes(@, c.name),
                                         !.checks = DropFromChecks(@, c.name)]
    [] c.op = "ADD" -> [s EXCEPT !.cols = PutAfter(@, c.after, Stored(s, c.col))]
    [] c.op = "CHANGE" ->
         [s EXCEPT !.cols[Position(s, c.col.name)] = Stored(s, c.col)]
    [] c.op = "MODIFY" ->
         [s EXCEPT !.cols = PutAfter(DropCol(@, c.col.name), c.after, Stored(s, c.col))]
    [] c.op = "REPLACE INDEX" ->
         LET left == [s EXCEPT ![Namespace(c.kind)] = Without(@, c.name)]
         IN  [left EXCEPT ![Namespace(c.index.kind)] = With(@, c.name, c.index)]
    [] c.op = "ADD INDEX" -> [s EXCEPT ![Namespace(c.index.kind)] = With(@, c.name, c.index)]
    [] c.op = "ADD CONSTRAINT" ->
         [s EXCEPT !.fks = With(@, c.constraint, c.fk), !.idx = ForeignIndexed(s, c.constraint, c.fk)]

\* One more clause; ok tells whether it and all before it applied.
Extended(db, t, before, c) ==
  IF before.ok /\ Applicable(db, t, before.s, c)
  THEN [ok |-> TRUE, s |-> Changed(before.s, c)]
  ELSE [ok |-> FALSE, s |-> before.s]

\* All clauses of an ALTER in order.
Altered(db, st) ==
  LET upto[n \in 0..Len(st.clauses)] ==
        IF n = 0 THEN [ok |-> TRUE, s |-> db[st.table]]
        ELSE Extended(db, st.table, upto[n - 1], st.clauses[n])
  IN  upto[Len(st.clauses)]

Outcome(db, st) ==
  IF st.clauses = <<>> THEN [ok |-> ~Exists(db[st.table]), s |-> st.create]
  ELSE IF ~Exists(db[st.table]) THEN [ok |-> FALSE, s |-> NoSchema]
  ELSE Altered(db, st)

After(db, st) == [db EXCEPT ![st.table] = Outcome(db, st).s]

Accepts(db, st) ==
  /\ Outcome(db, st).ok
  /\ Exists(Outcome(db, st).s)
  /\ ValidDatabase(After(db, st))
=============================================================================
