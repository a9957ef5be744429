----------------------------- MODULE MCExecute -----------------------------
(***************************************************************************)
(* Small databases for Execute: versions of a parent table and of a child  *)
(* table whose foreign key references it, three tables that reference each *)
(* other, and what a run of the tool meets on the way from one to another. *)
(***************************************************************************)
EXTENDS Execute

Parent == 1
Child == 2
TwoTables == {Parent, Child}

FkParent == 1
FkExtra == 2

Col(n, type) ==
  [name |-> n, type |-> type, charset |-> "none", comment |-> "", spelling |-> "plain"]
TextCol(n, type, charset) == [Col(n, type) EXCEPT !.charset = charset]
Key(cols) == [kind |-> "INDEX", cols |-> cols]
Primary(cols) == [kind |-> "PRIMARY", cols |-> cols]
Foreign(rule) == [cols |-> <<"pid">>, parent |-> Parent, refs |-> <<"id">>, rule |-> rule]

Schema(cols, idx, fks) ==
  [cols |-> cols, charset |-> "utf8", idx |-> idx, checks |-> <<>>, fks |-> fks]

ParentOf(cols, pk) == Schema(cols, "PRIMARY KEY" :> Primary(pk), <<>>)

ParentInt == ParentOf(<<Col("id", "int")>>, <<"id">>)
ParentBig == ParentOf(<<Col("id", "bigint")>>, <<"id">>)
ParentWide == ParentOf(<<Col("v", "int"), Col("id", "int"), Col("w", "int")>>, <<"id", "v">>)
ParentMoved == ParentOf(<<Col("id", "int"), Col("w", "int"), Col("v", "timestamp")>>, <<"id">>)
ParentSpelled == ParentOf(<<[Col("id", "int") EXCEPT !.spelling = "variant"], Col("v", "bigint")>>, <<"id">>)

ChildOf(type, key, fks) ==
  Schema(<<Col("cid", "int"), Col("pid", type)>>,
         ("PRIMARY KEY" :> Primary(<<"cid">>)) @@ (key :> Key(<<"pid">>)), fks)

ChildInt == ChildOf("int", "k", FkParent :> Foreign("cascade"))
ChildBig == ChildOf("bigint", "k", FkParent :> Foreign("cascade"))
ChildFree == ChildOf("int", "k", <<>>)
ChildFreeBig == ChildOf("bigint", "k", <<>>)
ChildRenamed == ChildOf("int", "k2", FkParent :> Foreign("cascade"))
ChildStrict == ChildOf("bigint", "k", FkParent :> Foreign("restrict"))
ChildTwice == ChildOf("int", "k", (FkParent :> Foreign("cascade")) @@ (FkExtra :> Foreign("cascade")))

Database(parent, child) == (Parent :> parent) @@ (Child :> child)

Parents == {NoSchema, ParentInt, ParentBig, ParentWide, ParentMoved, ParentSpelled}
Children == {NoSchema, ChildInt, ChildBig, ChildFree, ChildFreeBig, ChildRenamed,
             ChildStrict, ChildTwice}

ValidDatabases ==
  {db \in {Database(p, c) : p \in Parents, c \in Children} :
     (\A k \in DOMAIN db[Child].fks : Exists(db[Parent])) /\ ValidDatabase(db)}

Config ==
  [sync |-> TRUE, drop |-> FALSE, single |-> FALSE, fieldOrder |-> FALSE, skipTs |-> FALSE,
   tables |-> TwoTables, ignored |-> {}, ignoreCols |-> {}, ignoreIdx |-> {}, ignoreFks |-> {}]

StartsFrom(configs, sources, dests) ==
  {[cfg |-> c, src |-> s, dst |-> d] : c \in configs, s \in sources, d \in dests}

-----------------------------------------------------------------------------
(* Everything with everything, nobody interferes                           *)

PlainConfigs ==
  {Config, [Config EXCEPT !.single = TRUE], [Config EXCEPT !.drop = TRUE],
   [Config EXCEPT !.drop = TRUE, !.fieldOrder = TRUE], [Config EXCEPT !.fieldOrder = TRUE],
   [Config EXCEPT !.sync = FALSE]}
PlainStarts == StartsFrom(PlainConfigs, ValidDatabases, ValidDatabases)

-----------------------------------------------------------------------------
(* Failing calls                                                           *)

Before1 == {Database(ParentInt, ChildInt), Database(ParentInt, ChildTwice),
            Database(ParentWide, ChildFree), Database(ParentInt, NoSchema)}
After1 == {Database(ParentBig, ChildBig), Database(ParentBig, ChildStrict),
           Database(ParentWide, ChildInt), Database(ParentWide, ChildRenamed)}

Single == [Config EXCEPT !.single = TRUE]
FaultConfigs == {Config, [Single EXCEPT !.drop = TRUE]}
FaultStarts ==
  StartsFrom(FaultConfigs, After1 \cup {Database(p, ChildTwice) : p \in {ParentInt, ParentWide}}, Before1)

-----------------------------------------------------------------------------
(* Crashes, lost answers and a second run                                  *)

CrashConfigs == {Config, Single, [Config EXCEPT !.drop = TRUE]}
CrashStarts ==
  StartsFrom(CrashConfigs, After1, Before1 \cup {Database(ParentInt, ChildInt)})

-----------------------------------------------------------------------------
(* Another session changes something                                       *)

DriftEdits ==
  [side : {"source", "dest"}, table : {Parent}, schema : {NoSchema, ParentBig, ParentWide}]
    \cup [side : {"source", "dest"}, table : {Child}, schema : {NoSchema, ChildStrict, ChildFree}]
DriftStarts ==
  StartsFrom({Config}, {Database(ParentBig, ChildBig), Database(ParentWide, ChildInt)}, Before1)

\* Failing calls and other sessions together.
TroubledStarts == FaultStarts \cup DriftStarts

-----------------------------------------------------------------------------
(* Tables, columns and constraints out of scope                            *)

ScopeConfigs ==
  {[Config EXCEPT !.drop = d, !.tables = t, !.ignored = g, !.ignoreCols = c, !.ignoreFks = f] :
     d \in BOOLEAN, t \in {TwoTables, {Parent}}, g \in {{}, {Parent}, {Child}},
     c \in {{}, {<<Parent, "v">>, <<Child, "pid">>}, {<<Parent, "w">>}}, f \in {{}, {<<Child, FkParent>>}}}
ScopeStarts ==
  StartsFrom(ScopeConfigs, {Database(ParentBig, ChildBig), Database(ParentInt, ChildFree),
                            Database(ParentMoved, ChildInt)},
             Before1 \cup {Database(ParentWide, ChildInt)})

-----------------------------------------------------------------------------
(* Three tables: chains, cycles and self-references                        *)

ThreeTables == 1..3

Node(type, fks) ==
  Schema(<<Col("id", type), Col("pid", type)>>,
         ("PRIMARY KEY" :> Primary(<<"id">>)) @@ ("k" :> Key(<<"pid">>)), fks)

\* Table t may reference the next table, the last one the first or itself.
NodeForeign(t) ==
  {<<>>} \cup {t :> [cols |-> <<"pid">>, parent |-> p, refs |-> <<"id">>, rule |-> "cascade"] :
                 p \in IF t = 3 THEN {1, 3} ELSE {t + 1}}

Nodes(t) == {NoSchema} \cup {Node(type, f) : type \in {"int", "bigint"}, f \in NodeForeign(t)}

WebDatabases ==
  {db \in {<<a, b, c>> : a \in Nodes(1), b \in Nodes(2), c \in Nodes(3)} :
     (\A x \in Constraints(db) : Exists(db[db[x[1]].fks[x[2]].parent])) /\ ValidDatabase(db)}

WebStarts ==
  StartsFrom({[Config EXCEPT !.tables = ThreeTables], [Config EXCEPT !.tables = ThreeTables, !.drop = TRUE]},
             {db \in WebDatabases : Exists(db[1]) /\ Exists(db[2])}, {db \in WebDatabases : Exists(db[3])})

\* A table that references itself more often than there are tables, and is changed
\* along with one constraint: the orders of the detaches reach the planned ones.
SelfNode(type, rule) ==
  Schema(<<Col("id", type), Col("pid", type)>>,
         ("PRIMARY KEY" :> Primary(<<"id">>)) @@ ("k" :> Key(<<"pid">>)),
         [k \in 1..4 |-> [Foreign("cascade") EXCEPT !.rule = IF k = 4 THEN rule ELSE @]])
SelfStarts ==
  StartsFrom({[Config EXCEPT !.tables = {Parent}]},
             {<<SelfNode("bigint", "cascade")>>}, {<<SelfNode("int", "restrict")>>})

-----------------------------------------------------------------------------
(* What the texts of two tables do not say alike                           *)

TextTable(default, column) ==
  [ParentOf(<<Col("id", "int"), column>>, <<"id">>) EXCEPT !.charset = default]

TextTables ==
  {TextTable(d, [TextCol("v", type, c) EXCEPT !.comment = note]) :
     d \in {"utf8", "latin1"}, type \in {"varchar", "text"}, c \in {"utf8", "latin1"},
     note \in {"", "note"}}
TimeTables ==
  {TextTable("utf8", [Col("v", type) EXCEPT !.comment = note]) :
     type \in {"timestamp", "datetime"}, note \in {"", "note"}}

Alone(tables) == {Database(s, NoSchema) : s \in tables}

TextStarts ==
  StartsFrom({Config, [Config EXCEPT !.drop = TRUE]},
             Alone(TextTables), Alone(TextTables \cup {ParentInt, ParentWide}))
  \cup StartsFrom({Config, [Config EXCEPT !.skipTs = TRUE]}, Alone(TimeTables), Alone(TimeTables))

-----------------------------------------------------------------------------
(* Indexes and CHECKs, replaced and dropped along with their columns       *)

Named(n, kind, cols) == IF cols = <<>> THEN <<>> ELSE n :> [kind |-> kind, cols |-> cols]

Keyed(columns, k, c) ==
  [ParentOf(columns, <<"id">>) EXCEPT !.idx = @ @@ Named("k", "INDEX", k),
                                      !.checks = Named("c", "CHECK", c)]

KeyedTables ==
  {s \in {Keyed(<<Col("id", "int"), Col("v", "int")>> \o more, k, c) :
            more \in {<<>>, <<Col("w", "int")>>},
            k \in {<<>>, <<"v">>, <<"w">>, <<"v", "w">>}, c \in {<<>>, <<"v">>, <<"v", "w">>}} :
     ValidTable(s)}

KeyedStarts ==
  StartsFrom({Config, Single, [Config EXCEPT !.drop = TRUE],
              [Config EXCEPT !.drop = TRUE, !.ignoreIdx = {<<Parent, "k">>}]},
             Alone(KeyedTables), Alone(KeyedTables))

\* Everything that is planned without anybody interfering, as three tables.
PlanStarts ==
  WebStarts \cup
    {[s EXCEPT !.src = [t \in ThreeTables |-> IF t \in DOMAIN @ THEN @[t] ELSE NoSchema],
               !.dst = [t \in ThreeTables |-> IF t \in DOMAIN @ THEN @[t] ELSE NoSchema]] :
       s \in PlainStarts \cup ScopeStarts \cup SelfStarts \cup TextStarts \cup KeyedStarts}

-----------------------------------------------------------------------------
(* Where the code departs from what its comments, tests and README say     *)

\* A comment of the source holds ") ENGINE".
EngineStarts ==
  StartsFrom({[Config EXCEPT !.drop = TRUE]},
             Alone({ParentOf(<<Col("id", "int"), [Col("v", "int") EXCEPT !.comment = SaysEngine],
                               Col("w", "int")>>, <<"id">>)}),
             Alone({ParentOf(<<Col("id", "int"), Col("v", "int"), Col("w", "int")>>, <<"id">>)}))

\* Two tables that come to reference each other, the first gaining a column
\* whose comment holds the words FOREIGN KEY.
Mutual(t, type, fks, extra) ==
  Schema(Node(type, <<>>).cols \o extra, Node(type, <<>>).idx,
         IF fks THEN t :> [cols |-> <<"pid">>, parent |-> 3 - t, refs |-> <<"id">>, rule |-> "cascade"]
         ELSE <<>>)
CommentStarts ==
  StartsFrom({Config},
             {<<Mutual(1, "bigint", TRUE, <<[Col("note", "int") EXCEPT !.comment = SaysForeignKey]>>),
                Mutual(2, "bigint", TRUE, <<>>)>>},
             {<<Mutual(1, "int", FALSE, <<>>), Mutual(2, "int", FALSE, <<>>)>>})
=============================================================================
