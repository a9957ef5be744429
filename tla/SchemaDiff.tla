----------------------------- MODULE SchemaDiff -----------------------------
(***************************************************************************)
(* The comparison of one table of the source with the same table of the    *)
(* destination (internal/sync.go): which ALTER clauses make the            *)
(* destination's table look like the source's, in which order, and how     *)
(* they are grouped into statements.                                       *)
(*                                                                         *)
(* A table is what SHOW CREATE TABLE shows of it:                          *)
(*   cols : a sequence of [name, type, charset, comment, spelling]; type    *)
(*          stands for all else INFORMATION_SCHEMA reports of a column,    *)
(*          spelling for how its line is written (two spellings may mean   *)
(*          one column), charset is "none" for a type without one;         *)
(*   charset : the default of the table;                                   *)
(*   idx  : from index name to [kind, cols], kind "PRIMARY" or "INDEX";    *)
(*   checks : from the name of a CHECK to [kind, cols], kind "CHECK";      *)
(*   fks  : from constraint name to [cols, parent, refs, rule].            *)
(* Tables and constraint names are numbers, ordered as their names sort.   *)
(* A missing table is NoSchema, the empty text.                            *)
(***************************************************************************)
EXTENDS Selections

\* Comments that hold the words " FOREIGN KEY " and ") ENGINE".
SaysForeignKey == "says FOREIGN KEY"
SaysEngine == "says ENGINE"

\* The anchor of a clause placed FIRST.
AtFront == ""

NoSchema == [cols |-> <<>>, charset |-> "none", idx |-> <<>>, checks |-> <<>>, fks |-> <<>>]

Exists(s) == s.cols # <<>>

ColumnFields == {"name", "type", "charset", "comment", "spelling"}

WellFormed(s) ==
  /\ DOMAIN s = {"cols", "charset", "idx", "checks", "fks"}
  /\ s.cols \in Seq(ToSet(s.cols)) /\ \A c \in ToSet(s.cols) : DOMAIN c = ColumnFields
  /\ \A f \in {"idx", "checks", "fks"} : IsFiniteSet(DOMAIN s[f])

\* What a text of a table, or the missing text, holds.
IsSchema(s) == WellFormed(s) /\ (Exists(s) \/ s = NoSchema)

ColNames(s) == {s.cols[i].name : i \in DOMAIN s.cols}

IndexNames(s) == DOMAIN s.idx \cup DOMAIN s.checks

Position(s, n) == CHOOSE i \in DOMAIN s.cols : s.cols[i].name = n

Column(s, n) == s.cols[Position(s, n)]

\* The line of a column does not show a character set that is the table's default.
Line(s, c) == [c EXCEPT !.charset = IF @ = s.charset THEN "inherited" ELSE @]

\* Two maps in one: what both have is as in the first.
Merged(f, g) == [n \in DOMAIN f \cup DOMAIN g |-> IF n \in DOMAIN f THEN f[n] ELSE g[n]]

\* ParseSchema(RemoveTableSchemaConfig(text)): what is kept of the text up to the
\* first ") ENGINE".  In a comment, that ends the text in the middle of a line,
\* which is not parsed; rest holds that line, so that the records tell the texts apart.
\* CHECKs come after the indexes and into one map with them, under their names.
Parse(s) ==
  LET lines == [i \in DOMAIN s.cols |-> Line(s, s.cols[i])]
      said == {i \in DOMAIN s.cols : s.cols[i].comment = SaysEngine}
      parsed == Min(said \cup {Len(lines) + 1}) - 1
      whole(f) == IF said = {} THEN f ELSE <<>>
  IN  [cols |-> SubSeq(lines, 1, parsed), idx |-> whole(Merged(s.checks, s.idx)), fks |-> whole(s.fks),
       rest |-> {lines[i] : i \in said \cap {parsed + 1}}]

\* The answer of INFORMATION_SCHEMA.COLUMNS for a table.
FieldInfos(s) ==
  [n \in ColNames(s) |-> [column |-> Column(s, n), pos |-> Position(s, n)]]

\* charsetEquals and collationEquals: a column without one equals any.
SameCharset(a, b) == a = b \/ "none" \in {a, b}

\* Mutant: comments are not compared.
SameFieldNoComment(a, b) == a.type = b.type /\ SameCharset(a.charset, b.charset)

\* FieldInfo.Equals, whatever the spelling.
SameField(a, b) ==
  /\ a.type = b.type /\ a.comment = b.comment
  /\ SameCharset(a.charset, b.charset)

TimestampDatetime(a, b) ==
  a.type = "timestamp" /\ b.type = "datetime" /\ SameField(a, [b EXCEPT !.type = "timestamp"])

\* The clauses F(x) for the members of S, in one fixed order.
Clauses(S, F(_)) == LET q == SetToSeq(S) IN [k \in DOMAIN q |-> F(q[k])]

-----------------------------------------------------------------------------
(* Columns.  An alter record a holds the parsed texts of the source and    *)
(* the destination (src, dst) and the metadata read after them (sf, df).   *)

\* Mutant: every earlier column is an anchor.
AnchorAny(cfg, t, a, i) == IF i = 1 THEN AtFront ELSE a.src.cols[i - 1].name

\* beforeFieldName when column i of the source is reached: an ignored column
\* is an anchor only if the destination has it.
Anchor(cfg, t, a, i) ==
  LET placed == {j \in 1..(i - 1) :
                   \/ <<t, a.src.cols[j].name>> \notin cfg.ignoreCols
                   \/ a.src.cols[j].name \in ColNames(a.dst)}
  IN  IF placed = {} THEN AtFront ELSE a.src.cols[Max(placed)].name

\* The clause for column i of the source: none, or one of ADD, CHANGE, MODIFY.
ColumnClause(cfg, t, a, i) ==
  LET c == a.src.cols[i]
      n == c.name
      known == n \in DOMAIN a.sf /\ n \in DOMAIN a.df
      moved == cfg.fieldOrder /\ known /\ a.sf[n].pos # a.df[n].pos
      alike == c = Column(a.dst, n) \/ (known /\ SameField(a.sf[n].column, a.df[n].column))
      kept  == cfg.skipTs /\ known /\ TimestampDatetime(a.sf[n].column, a.df[n].column)
  IN  IF <<t, n>> \in cfg.ignoreCols THEN <<>>
      ELSE IF n \notin ColNames(a.dst)
           THEN <<[op |-> "ADD", col |-> c, after |-> Anchor(cfg, t, a, i)]>>
      ELSE IF alike
           THEN IF moved
                THEN <<[op |-> "MODIFY", col |-> c, after |-> Anchor(cfg, t, a, i)]>>
                ELSE <<>>
      ELSE IF kept THEN <<>>
      ELSE <<[op |-> "CHANGE", col |-> c]>>

ColumnClauses(cfg, t, a) ==
  FlattenSeq([i \in DOMAIN a.src.cols |-> ColumnClause(cfg, t, a, i)])

DroppedColumns(cfg, t, a) ==
  Clauses({n \in ColNames(a.dst) \ ColNames(a.src) : cfg.drop /\ <<t, n>> \notin cfg.ignoreCols},
          LAMBDA n : [op |-> "DROP COLUMN", name |-> n])

-----------------------------------------------------------------------------
(* Indexes and foreign keys                                                *)

Compared(cfg, t, a) == {n \in DOMAIN a.src.idx : <<t, n>> \notin cfg.ignoreIdx}

DroppedIndexes(cfg, t, a) ==
  Clauses({n \in DOMAIN a.dst.idx \ DOMAIN a.src.idx : cfg.drop /\ <<t, n>> \notin cfg.ignoreIdx},
          LAMBDA n : [op |-> "DROP INDEX", name |-> n, kind |-> a.dst.idx[n].kind])

\* Mutant: the two halves of a replacement are clauses of their own.
ReplacedIndexesInTwo(cfg, t, a) ==
  LET changed == SetToSeq({n \in Compared(cfg, t, a) \cap DOMAIN a.dst.idx :
                             a.src.idx[n] # a.dst.idx[n]})
  IN  FlattenSeq([k \in DOMAIN changed |->
        << [op |-> "DROP INDEX", name |-> changed[k], kind |-> a.dst.idx[changed[k]].kind],
           [op |-> "ADD INDEX", name |-> changed[k], index |-> a.src.idx[changed[k]]] >>])

\* An index replacement is one line, so it stays in one ALTER in every mode.
ReplacedIndexes(cfg, t, a) ==
  Clauses({n \in Compared(cfg, t, a) \cap DOMAIN a.dst.idx : a.src.idx[n] # a.dst.idx[n]},
          LAMBDA n : [op |-> "REPLACE INDEX", name |-> n,
                      kind |-> a.dst.idx[n].kind, index |-> a.src.idx[n]])

AddedIndexes(cfg, t, a) ==
  Clauses(Compared(cfg, t, a) \ DOMAIN a.dst.idx,
          LAMBDA n : [op |-> "ADD INDEX", name |-> n, index |-> a.src.idx[n]])

\* Mutant: only a constraint that both sides have is compared.
WantedForeignIfBoth(cfg, t, a) ==
  {k \in DOMAIN a.src.fks \cap DOMAIN a.dst.fks :
     <<t, k>> \notin cfg.ignoreFks /\ a.src.fks[k] # a.dst.fks[k]}

\* Foreign keys of the source that the destination lacks or defines otherwise.
WantedForeign(cfg, t, a) ==
  {k \in DOMAIN a.src.fks : /\ <<t, k>> \notin cfg.ignoreFks
                            /\ k \in DOMAIN a.dst.fks => a.src.fks[k] # a.dst.fks[k]}

DropForeign(k) == [op |-> "DROP FOREIGN KEY", constraint |-> k]

AddForeign(k, fk) == [op |-> "ADD CONSTRAINT", constraint |-> k, fk |-> fk]

DroppedForeign(cfg, t, a) ==
  Clauses((WantedForeign(cfg, t, a) \cap DOMAIN a.dst.fks)
            \cup {k \in DOMAIN a.dst.fks \ DOMAIN a.src.fks :
                    cfg.drop /\ <<t, k>> \notin cfg.ignoreFks},
          LAMBDA k : DropForeign(k))

AddedForeign(cfg, t, a) ==
  Clauses(WantedForeign(cfg, t, a), LAMBDA k : AddForeign(k, a.src.fks[k]))

\* getSchemaDiff: destructive dependencies first, foreign keys last.
SchemaDiffLines(cfg, t, a) ==
  DroppedForeign(cfg, t, a) \o DroppedIndexes(cfg, t, a) \o DroppedColumns(cfg, t, a)
    \o ColumnClauses(cfg, t, a) \o ReplacedIndexes(cfg, t, a)
    \o AddedIndexes(cfg, t, a) \o AddedForeign(cfg, t, a)

-----------------------------------------------------------------------------
(* Statements.  An ALTER has its clauses; a CREATE has no clauses and the  *)
(* schema to create, without its foreign keys.                             *)

Alter(t, clauses) == [table |-> t, clauses |-> clauses, create |-> NoSchema]

Create(t, s) == [table |-> t, clauses |-> <<>>, create |-> [s EXCEPT !.fks = <<>>]]

IsForeignDropLine(c) == c.op = "DROP FOREIGN KEY"

\* The text test looks for " FOREIGN KEY " anywhere in a line that starts with ADD.
IsForeignAddLine(c) ==
  \/ c.op = "ADD CONSTRAINT"
  \/ c.op = "ADD" /\ c.col.comment = SaysForeignKey

Groups(lines) ==
  << Only(lines, IsForeignDropLine),
     Only(lines, LAMBDA c : ~IsForeignDropLine(c) /\ ~IsForeignAddLine(c)),
     Only(lines, IsForeignAddLine) >>

AlterStatements(cfg, t, lines) ==
  IF cfg.single
  THEN LET each == FlattenSeq(Groups(lines)) IN [i \in DOMAIN each |-> Alter(t, <<each[i]>>)]
  ELSE LET some == Only(Groups(lines), LAMBDA g : g # <<>>)
       IN  [i \in DOMAIN some |-> Alter(t, some[i])]

\* The foreign keys are installed by statements of their own.
CreateStatements(t, s) ==
  <<Create(t, s)>>
    \o Clauses(DOMAIN s.fks, LAMBDA k : Alter(t, <<AddForeign(k, s.fks[k])>>))

\* getAlterDataBySchemaWithFields: the type of the change and its statements.  The
\* texts are compared, and a table is created, as they were read.
AlterData(cfg, t, a) ==
  LET parsed == [a EXCEPT !.src = Parse(@), !.dst = Parse(@)]
      lines == SchemaDiffLines(cfg, t, parsed)
      result(type, sql) == [type |-> type, src |-> parsed.src, dst |-> parsed.dst, sql |-> sql]
  IN  IF a.src = a.dst THEN result("no", <<>>)
      ELSE IF ~Exists(a.src) THEN result("drop", <<>>)
      ELSE IF ~Exists(a.dst) THEN result("create", CreateStatements(t, a.src))
      ELSE IF lines = <<>> THEN result("no", <<>>)
      ELSE result("alter", AlterStatements(cfg, t, lines))

\* What AlterData says of two tables nobody changes while they are read.
Difference(cfg, t, s, d) ==
  AlterData(cfg, t, [src |-> s, dst |-> d, sf |-> FieldInfos(s), df |-> FieldInfos(d)])
=============================================================================
