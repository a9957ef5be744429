--------------------------- MODULE ExecutionPlan ---------------------------
(***************************************************************************)
(* From the differences of all tables to the ordered list of statements a  *)
(* run executes (internal/execute.go): the order of the tables, the phases *)
(* of the statements, and the temporary removal of foreign keys that       *)
(* reference a table being altered.                                        *)
(*                                                                         *)
(* snap is allTableSchemas: from table to its alter record.  The code      *)
(* sorts the list of items stably by (phase, order) and walks it; here the *)
(* items are a set, each with what decides its place, and Precedes is the  *)
(* order the sort gives them.                                              *)
(***************************************************************************)
EXTENDS SchemaDiff

Changes(snap) == {t \in DOMAIN snap : snap[t].type \in {"create", "alter"}}

\* RelationTables: the tables the source's foreign keys reference.
RelationTables(a) == {a.src.fks[k].parent : k \in DOMAIN a.src.fks}

\* orderTableAlters: the least ready table by name comes next; once no table
\* is ready, those on a cycle and those behind them follow in name order.
OrderTableAlters(snap) ==
  LET tables == Changes(snap)
      parents(t) == (RelationTables(snap[t]) \cap tables) \ {t}
      ready(placed) == {t \in tables \ placed : parents(t) \subseteq placed}
      topo[n \in 0..Cardinality(tables)] ==
        IF n = 0 THEN <<>>
        ELSE LET before == topo[n - 1]
                 next == ready(ToSet(before))
             IN  IF Len(before) < n - 1 \/ next = {} THEN before
                 ELSE Append(before, Min(next))
      sorted == topo[Cardinality(tables)]
  IN  sorted \o InOrder(tables \ ToSet(sorted))

\* Mutant: constraints are installed along with the other changes.
PhaseOfTwo(st) ==
  IF st.clauses # <<>> /\ st.clauses[1].op = "DROP FOREIGN KEY" THEN 0 ELSE 1

\* ddlExecutionPhase: only the first clause of a statement is looked at.
Phase(st) ==
  IF st.clauses = <<>> THEN 1
  ELSE IF st.clauses[1].op = "DROP FOREIGN KEY" THEN 0
  ELSE IF st.clauses[1].op = "ADD CONSTRAINT" THEN 2
  ELSE 1

-----------------------------------------------------------------------------
(* Planned items                                                           *)

PlannedItem(order, index, st) ==
  [phase |-> Phase(st), order |-> order, index |-> index, stmt |-> st,
   temporary |-> FALSE, restore |-> FALSE, key |-> <<0, 0>>]

\* buildExecutionItems, for the tables in the given order.
PlannedItems(snap, ordered) ==
  UNION {LET sql == snap[ordered[n]].sql
         IN  {PlannedItem(n - 1, j, sql[j]) : j \in DOMAIN sql} : n \in DOMAIN ordered}

\* foreignKeyNamesFromAlterSQL over the planned items.
PlannedKeys(items) ==
  UNION {{<<i.stmt.table, c.constraint>> :
            c \in {x \in ToSet(i.stmt.clauses) : x.op \in {"DROP FOREIGN KEY", "ADD CONSTRAINT"}}}
         : i \in items}

-----------------------------------------------------------------------------
(* Temporary removal of inbound foreign keys                               *)

\* Mutant: a key that is replaced counts as kept.
ImpactAllButReplaced(c) == c.op = "DROP INDEX" /\ c.kind # "CHECK"

\* inboundImpactForAlter: dropping a key touches every inbound constraint,
\* changing or dropping a column those that reference the column.
ImpactAll(c) == c.op \in {"DROP INDEX", "REPLACE INDEX"} /\ c.kind # "CHECK"

\* Mutant: the clause CHANGE is not recognised.
ImpactColumnsNoChange(c) ==
  IF c.op = "MODIFY" THEN {c.col.name}
  ELSE IF c.op = "DROP COLUMN" THEN {c.name} ELSE {}

ImpactColumns(c) ==
  IF c.op \in {"CHANGE", "MODIFY"} THEN {c.col.name}
  ELSE IF c.op = "DROP COLUMN" THEN {c.name} ELSE {}

AlterClauses(a) == UNION {ToSet(a.sql[j].clauses) : j \in DOMAIN a.sql}

\* parentInboundImpact: is a constraint on these columns of the parent touched?  If
\* its columns are unknown, by every change or removal of a column.
Affects(snap, parent, refs) ==
  /\ parent \in DOMAIN snap
  /\ snap[parent].type = "alter"
  /\ \E c \in AlterClauses(snap[parent]) :
       \/ ImpactAll(c)
       \/ refs = <<>> /\ ImpactColumns(c) # {}
       \/ ImpactColumns(c) \cap ToSet(refs) # {}

Before(a, b) == a[1] < b[1] \/ (a[1] = b[1] /\ a[2] < b[2])

\* The destination's unplanned constraints that reference what the plan alters.
InboundKeys(snap, planned) ==
  LET all == UNION {{<<t, k>> : k \in DOMAIN snap[t].dst.fks} : t \in DOMAIN snap}
      fk(key) == snap[key[1]].dst.fks[key[2]]
  IN  {key \in all : /\ Affects(snap, fk(key).parent, fk(key).refs)
                     /\ key \notin PlannedKeys(planned)}

InScope(cfg, t) == t \in cfg.tables /\ t \notin cfg.ignored

\* Mutant: alter_ignore.foreign is not consulted.
UntouchableUnlessIgnored(cfg, snap, key) ==
  \/ ~InScope(cfg, key[1])
  \/ key[2] \notin DOMAIN snap[key[1]].src.fks

\* A constraint that may not be taken away, or could not be put back.
Untouchable(cfg, snap, key) ==
  \/ ~InScope(cfg, key[1])
  \/ key \in cfg.ignoreFks
  \/ key[2] \notin DOMAIN snap[key[1]].src.fks

DetachItem(key, order) ==
  [phase |-> 0, order |-> order, index |-> 0, temporary |-> TRUE, restore |-> FALSE, key |-> key,
   stmt |-> Alter(key[1], <<DropForeign(key[2])>>)]

\* Mutant: the restored constraint loses its ON DELETE rule.
RestoreItemNoRule(snap, key, order) ==
  [phase |-> 2, order |-> order, index |-> 0, temporary |-> TRUE, restore |-> TRUE, key |-> key,
   stmt |-> Alter(key[1], <<AddForeign(key[2], [snap[key[1]].src.fks[key[2]] EXCEPT
                                                  !.rule = "restrict"])>>)]

RestoreItem(snap, key, order) ==
  [phase |-> 2, order |-> order, index |-> 0, temporary |-> TRUE, restore |-> TRUE, key |-> key,
   stmt |-> Alter(key[1], <<AddForeign(key[2], snap[key[1]].src.fks[key[2]])>>)]

\* addInboundForeignKeyItems: the detaches count up from below every table's
\* order, the restores from behind the last one.
TemporaryItems(snap, changed, keys) ==
  LET rank(key) == Cardinality({k \in keys : Before(k, key)})
  IN  {DetachItem(key, rank(key) - 1 - Cardinality(DOMAIN snap)) : key \in keys}
        \cup {RestoreItem(snap, key, changed + rank(key)) : key \in keys}

\* The whole plan: a refusal, or the items.
Plan(cfg, snap) ==
  LET ordered == OrderTableAlters(snap)
      planned == PlannedItems(snap, ordered)
      inbound == InboundKeys(snap, planned)
      refused == \E key \in inbound : Untouchable(cfg, snap, key)
  IN  [refused |-> refused,
       items   |-> IF refused THEN {}
                   ELSE planned \cup TemporaryItems(snap, Len(ordered), inbound)]

\* sortExecutionItems: by phase, then by order; what is equal in both keeps
\* the place it was appended at, the planned items before the temporary ones.
Precedes(a, b) ==
  \/ a.phase < b.phase
  \/ /\ a.phase = b.phase
     /\ \/ a.order < b.order
        \/ /\ a.order = b.order
           /\ \/ ~a.temporary /\ b.temporary
              \/ a.temporary = b.temporary /\ a.index < b.index
=============================================================================
