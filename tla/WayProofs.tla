----------------------------- MODULE WayProofs -----------------------------
(***************************************************************************)
(* The proof that no foreign key stands in the way of a statement when it  *)
(* is sent, for every choice of tables, databases and configurations: what *)
(* is in the destination until the last phase is what was read of it, less *)
(* what earlier statements dropped, and of that everything a statement     *)
(* would disturb has been dropped in an earlier phase.  Last, that a plan  *)
(* is made from all there is to know.                                      *)
(***************************************************************************)
EXTENDS ExecuteProofs

-----------------------------------------------------------------------------
(* The clauses of one statement are of one kind.                           *)

OnlyDrops(C) == \A c \in C : IsForeignDropLine(c)
OnlyOthers(C) == \A c \in C : ~IsForeignDropLine(c) /\ ~IsForeignAddLine(c)
OnlyAdds(C) == \A c \in C : IsForeignAddLine(c)

Uniform(C) == OnlyDrops(C) \/ OnlyOthers(C) \/ OnlyAdds(C)

LEMMA GroupsUniform ==
  ASSUME NEW lines, lines \in Seq(ToSet(lines))
  PROVE  \A i \in 1..3 : Uniform(ToSet(Groups(lines)[i]))
<1> DEFINE L == ToSet(lines)
           P1 == {c \in L : IsForeignDropLine(c)}
           P2 == {c \in L : ~IsForeignDropLine(c) /\ ~IsForeignAddLine(c)}
           P3 == {c \in L : IsForeignAddLine(c)}
           g1 == Selected(lines, P1)
           g2 == Selected(lines, P2)
           g3 == Selected(lines, P3)
<1>1. \A i \in DOMAIN lines : lines[i] \in L
  BY DEF ToSet
<1>2. Groups(lines) = <<g1, g2, g3>>
  <2> HIDE DEF L
  <2>1. Only(lines, IsForeignDropLine) = g1
    BY <1>1 DEF Only, Selected
  <2>2. Only(lines, LAMBDA c : ~IsForeignDropLine(c) /\ ~IsForeignAddLine(c)) = g2
    BY <1>1 DEF Only, Selected
  <2>3. Only(lines, IsForeignAddLine) = g3
    BY <1>1 DEF Only, Selected
  <2> HIDE DEF g1, g2, g3
  <2> QED BY <2>1, <2>2, <2>3 DEF Groups
<1>3. \A C : /\ C \subseteq P1 => Uniform(C)
             /\ C \subseteq P2 => Uniform(C)
             /\ C \subseteq P3 => Uniform(C)
  BY DEF Uniform, OnlyDrops, OnlyOthers, OnlyAdds
<1> HIDE DEF P1, P2, P3, L
<1>4. lines \in Seq(L) /\ ToSet(lines) = L
  BY DEF L
<1>5. ToSet(g1) \subseteq P1 /\ ToSet(g2) \subseteq P2 /\ ToSet(g3) \subseteq P3
  BY <1>4, SelectedMembers
<1> HIDE DEF g1, g2, g3
<1>6. Uniform(ToSet(g1)) /\ Uniform(ToSet(g2)) /\ Uniform(ToSet(g3))
  BY <1>3, <1>5
<1> QED BY <1>2, <1>6

LEMMA AlterStatementsUniform ==
  ASSUME NEW config, NEW t, NEW lines, lines \in Seq(ToSet(lines))
  PROVE  \A j \in DOMAIN AlterStatements(config, t, lines) :
           /\ Uniform(ToSet(AlterStatements(config, t, lines)[j].clauses))
           /\ ToSet(AlterStatements(config, t, lines)[j].clauses) \subseteq ToSet(lines)
<1> DEFINE L == ToSet(lines)
           G == Groups(lines)
           sql == AlterStatements(config, t, lines)
<1>1. G \in Seq(Seq(L)) /\ DOMAIN G = 1..3
  BY OnlyMembers
<1>2. \A i \in 1..3 : Uniform(ToSet(G[i]))
  BY GroupsUniform
<1> HIDE DEF L, G
<1>3. CASE config.single
  <2> DEFINE each == FlattenSeq(G)
  <2>1. each \in Seq(L)
    BY <1>1, FlattenMembers
  <2>2. sql = [i \in DOMAIN each |-> Alter(t, <<each[i]>>)]
    BY <1>3 DEF AlterStatements, G
  <2> HIDE DEF each, sql
  <2>3. \A i \in DOMAIN sql : i \in DOMAIN each /\ sql[i].clauses = <<each[i]>> /\ each[i] \in L
    BY <2>1, <2>2 DEF Alter
  <2>4. \A c \in L : ToSet(<<c>>) = {c} /\ Uniform({c})
    BY ToSetSingle DEF Uniform, OnlyDrops, OnlyOthers, OnlyAdds
  <2>5. \A i \in DOMAIN sql : Uniform(ToSet(sql[i].clauses)) /\ ToSet(sql[i].clauses) \subseteq L
    <3> SUFFICES ASSUME NEW i \in DOMAIN sql
                 PROVE  Uniform(ToSet(sql[i].clauses)) /\ ToSet(sql[i].clauses) \subseteq L
      OBVIOUS
    <3> DEFINE c == each[i]
               C == ToSet(sql[i].clauses)
    <3>1. sql[i].clauses = <<c>> /\ c \in L
      BY <2>3
    <3>2. C = ToSet(<<c>>)
      BY <3>1
    <3> HIDE DEF c, C
    <3>3. ToSet(<<c>>) = {c} /\ Uniform({c})
      BY <2>4, <3>1
    <3>4. Uniform(C) /\ C \subseteq L
      BY <3>1, <3>2, <3>3
    <3> QED BY <3>4 DEF C
  <2> QED BY <2>5 DEF sql, L
<1>4. CASE ~config.single
  <2> DEFINE P == {g \in ToSet(G) : g # <<>>}
             some == Selected(G, P)
  <2>1. sql = [i \in DOMAIN some |-> Alter(t, some[i])]
    <3>1. Only(G, LAMBDA g : g # <<>>) = some
      <4>1. \A i \in DOMAIN G : G[i] \in ToSet(G)
        BY DEF ToSet
      <4> QED BY <4>1 DEF Only, Selected
    <3> HIDE DEF some
    <3> QED BY <1>4, <3>1 DEF AlterStatements, G
  <2> HIDE DEF P
  <2>2. ToSet(some) \subseteq ToSet(G)
    BY <1>1, SelectedMembers
  <2> HIDE DEF some, sql
  <2>3. \A i \in DOMAIN sql : i \in DOMAIN some /\ sql[i].clauses = some[i]
    BY <2>1 DEF Alter
  <2>4. \A i \in DOMAIN some : some[i] \in ToSet(some)
    BY DEF ToSet
  <2>5. \A g \in ToSet(G) : Uniform(ToSet(g)) /\ ToSet(g) \subseteq L
    <3>1. \A g \in ToSet(G) : \E i \in 1..3 : g = G[i]
      BY <1>1 DEF ToSet
    <3>2. ToSet(G) \subseteq Seq(L)
      BY <1>1, ToSetSeq
    <3>3. \A i \in 1..3 : ToSet(G[i]) \subseteq L
      <4> TAKE i \in 1..3
      <4>1. G[i] \in ToSet(G)
        BY <1>1 DEF ToSet
      <4> QED BY <3>2, <4>1, ToSetSeq
    <3> QED BY <1>2, <3>1, <3>3
  <2>6. \A i \in DOMAIN sql : Uniform(ToSet(sql[i].clauses)) /\ ToSet(sql[i].clauses) \subseteq L
    BY <2>2, <2>3, <2>4, <2>5
  <2> QED BY <2>6 DEF sql, L
<1> QED BY <1>3, <1>4

\* A comparison that says anything about a constraint of the destination drops it.
LEMMA ForeignDropped ==
  ASSUME NEW config, NEW t, NEW a, Parsed(a.src), Parsed(a.dst)
  PROVE  \A c \in ToSet(SchemaDiffLines(config, t, a)) :
           AboutForeign(c) /\ c.constraint \in DOMAIN a.dst.fks =>
             DropForeign(c.constraint) \in ToSet(SchemaDiffLines(config, t, a))
<1> DEFINE p1 == DroppedForeign(config, t, a)
           q2 == DroppedIndexes(config, t, a)
           q3 == DroppedColumns(config, t, a)
           q4 == ColumnClauses(config, t, a)
           q5 == ReplacedIndexes(config, t, a)
           q6 == AddedIndexes(config, t, a)
           q7 == AddedForeign(config, t, a)
           all == SchemaDiffLines(config, t, a)
           S == (WantedForeign(config, t, a) \cap DOMAIN a.dst.fks)
                  \cup {k \in DOMAIN a.dst.fks \ DOMAIN a.src.fks :
                          config.drop /\ <<t, k>> \notin config.ignoreFks}
           f == [k \in S |-> DropForeign(k)]
           W == WantedForeign(config, t, a)
<1>1. IsFiniteSet(S) /\ IsFiniteSet(W)
  <2>1. S \subseteq DOMAIN a.dst.fks /\ W \subseteq DOMAIN a.src.fks
    BY DEF WantedForeign
  <2> HIDE DEF S, W
  <2> QED BY <2>1, FS_Subset DEF Parsed
<1>2. p1 = Mapped(S, f)
  <2> DEFINE q == SetToSeq(S)
  <2>1. p1 = [k \in DOMAIN q |-> DropForeign(q[k])]
    BY DEF DroppedForeign, Clauses
  <2>2. q \in Seq(S)
    BY <1>1, SetToSeqMembers
  <2>3. Mapped(S, f) = [k \in DOMAIN q |-> f[q[k]]]
    BY DEF Mapped
  <2> HIDE DEF S, q, p1
  <2>4. \A k \in DOMAIN q : q[k] \in S
    BY <2>2
  <2> QED BY <2>1, <2>3, <2>4
<1>3. \A k \in W \cap DOMAIN a.dst.fks : DropForeign(k) \in ToSet(p1)
  <2>1. \A k \in W \cap DOMAIN a.dst.fks : k \in S
    OBVIOUS
  <2>2. \A k \in S : f[k] = DropForeign(k)
    OBVIOUS
  <2> HIDE DEF S, f, p1, W
  <2> QED BY <1>1, <1>2, <2>1, <2>2, MappedMembers
<1>4. \A c \in ToSet(p1) : c = DropForeign(c.constraint)
  <2>1. \A k \in S : f[k] = DropForeign(k)
    OBVIOUS
  <2>2. \A k : DropForeign(k).constraint = k
    BY DEF DropForeign
  <2> HIDE DEF S, f, p1
  <2>3. \A c \in ToSet(p1) : \E k \in S : c = f[k]
    BY <1>1, <1>2, MappedMembers
  <2> QED BY <2>1, <2>2, <2>3
<1>5. \A c \in ToSet(q7) : c.constraint \in W
  <2> DEFINE q == SetToSeq(W)
  <2>1. q7 = [k \in DOMAIN q |-> AddForeign(q[k], a.src.fks[q[k]])]
    BY DEF AddedForeign, Clauses
  <2>2. q \in Seq(W)
    BY <1>1, SetToSeqMembers
  <2> HIDE DEF W, q, q7
  <2>3. \A k \in DOMAIN q : q[k] \in W
    BY <2>2
  <2>4. \A k \in DOMAIN q7 : q7[k].constraint \in W
    BY <2>1, <2>3 DEF AddForeign
  <2> QED BY <2>4 DEF ToSet
<1>6. \A c \in ToSet(q2) \cup ToSet(q3) \cup ToSet(q5) \cup ToSet(q6) : ~AboutForeign(c)
  <2>2. \A c \in ToSet(q2) : c.op = "DROP INDEX"
    <3> DEFINE T == {n \in DOMAIN a.dst.idx \ DOMAIN a.src.idx : config.drop /\ <<t, n>> \notin config.ignoreIdx}
               F(n) == [op |-> "DROP INDEX", name |-> n, kind |-> a.dst.idx[n].kind]
               q == SetToSeq(T)
    <3>1. q2 = [k \in DOMAIN q |-> F(q[k])]
      BY DEF DroppedIndexes, Clauses
    <3>2. \A n : F(n).op = "DROP INDEX"
      OBVIOUS
    <3> HIDE DEF F, q, q2
    <3> QED BY <3>1, <3>2 DEF ToSet
  <2>3. \A c \in ToSet(q3) : c.op = "DROP COLUMN"
    <3> DEFINE T == {n \in ColNames(a.dst) \ ColNames(a.src) : config.drop /\ <<t, n>> \notin config.ignoreCols}
               F(n) == [op |-> "DROP COLUMN", name |-> n]
               q == SetToSeq(T)
    <3>1. q3 = [k \in DOMAIN q |-> F(q[k])]
      BY DEF DroppedColumns, Clauses
    <3>2. \A n : F(n).op = "DROP COLUMN"
      OBVIOUS
    <3> HIDE DEF F, q, q3
    <3> QED BY <3>1, <3>2 DEF ToSet
  <2>5. \A c \in ToSet(q5) : c.op = "REPLACE INDEX"
    <3> DEFINE T == {n \in Compared(config, t, a) \cap DOMAIN a.dst.idx : a.src.idx[n] # a.dst.idx[n]}
               F(n) == [op |-> "REPLACE INDEX", name |-> n, kind |-> a.dst.idx[n].kind, index |-> a.src.idx[n]]
               q == SetToSeq(T)
    <3>1. q5 = [k \in DOMAIN q |-> F(q[k])]
      BY DEF ReplacedIndexes, Clauses
    <3>2. \A n : F(n).op = "REPLACE INDEX"
      OBVIOUS
    <3> HIDE DEF F, q, q5
    <3> QED BY <3>1, <3>2 DEF ToSet
  <2>6. \A c \in ToSet(q6) : c.op = "ADD INDEX"
    <3> DEFINE T == Compared(config, t, a) \ DOMAIN a.dst.idx
               F(n) == [op |-> "ADD INDEX", name |-> n, index |-> a.src.idx[n]]
               q == SetToSeq(T)
    <3>1. q6 = [k \in DOMAIN q |-> F(q[k])]
      BY DEF AddedIndexes, Clauses
    <3>2. \A n : F(n).op = "ADD INDEX"
      OBVIOUS
    <3> HIDE DEF F, q, q6
    <3> QED BY <3>1, <3>2 DEF ToSet
  <2> QED BY <2>2, <2>3, <2>5, <2>6 DEF AboutForeign
<1>7. \A c \in ToSet(q4) : ~AboutForeign(c)
  BY ColumnClausesLed DEF AboutForeign
<1>8. /\ p1 \in Seq(ToSet(p1)) /\ q2 \in Seq(ToSet(q2)) /\ q3 \in Seq(ToSet(q3)) /\ q4 \in Seq(ToSet(q4))
      /\ q5 \in Seq(ToSet(q5)) /\ q6 \in Seq(ToSet(q6)) /\ q7 \in Seq(ToSet(q7))
  BY DroppedForeignPermitted, DroppedIndexesPermitted, DroppedColumnsPermitted, ColumnClausesPermitted,
     ReplacedIndexesPermitted, AddedIndexesPermitted, AddedForeignPermitted DEF AllPermitted
<1>9. ToSet(all) = ToSet(p1) \cup ToSet(q2) \cup ToSet(q3) \cup ToSet(q4)
                     \cup ToSet(q5) \cup ToSet(q6) \cup ToSet(q7)
  <2> DEFINE p2 == p1 \o q2
             p3 == p2 \o q3
             p4 == p3 \o q4
             p5 == p4 \o q5
             p6 == p5 \o q6
             p7 == p6 \o q7
  <2>0. all = p7
    BY DEF SchemaDiffLines
  <2>1. \A p, q : p \in Seq(ToSet(p)) /\ q \in Seq(ToSet(q)) =>
          p \o q \in Seq(ToSet(p \o q)) /\ ToSet(p \o q) = ToSet(p) \cup ToSet(q)
    <3> SUFFICES ASSUME NEW p, NEW q, p \in Seq(ToSet(p)), q \in Seq(ToSet(q))
                 PROVE  p \o q \in Seq(ToSet(p \o q)) /\ ToSet(p \o q) = ToSet(p) \cup ToSet(q)
      OBVIOUS
    <3> DEFINE T == ToSet(p) \cup ToSet(q)
    <3>1. p \in Seq(T) /\ q \in Seq(T)
      BY SeqMonotonic
    <3> HIDE DEF T
    <3>2. p \o q \in Seq(T) /\ ToSet(p \o q) = ToSet(p) \cup ToSet(q)
      BY <3>1, ToSetConcat
    <3> QED BY <3>2, SeqOwn
  <2> HIDE DEF p1, q2, q3, q4, q5, q6, q7, all
  <2>2. p2 \in Seq(ToSet(p2)) /\ ToSet(p2) = ToSet(p1) \cup ToSet(q2)
    BY <1>8, <2>1
  <2> HIDE DEF p2
  <2>3. p3 \in Seq(ToSet(p3)) /\ ToSet(p3) = ToSet(p2) \cup ToSet(q3)
    BY <1>8, <2>1, <2>2
  <2> HIDE DEF p3
  <2>4. p4 \in Seq(ToSet(p4)) /\ ToSet(p4) = ToSet(p3) \cup ToSet(q4)
    BY <1>8, <2>1, <2>3
  <2> HIDE DEF p4
  <2>5. p5 \in Seq(ToSet(p5)) /\ ToSet(p5) = ToSet(p4) \cup ToSet(q5)
    BY <1>8, <2>1, <2>4
  <2> HIDE DEF p5
  <2>6. p6 \in Seq(ToSet(p6)) /\ ToSet(p6) = ToSet(p5) \cup ToSet(q6)
    BY <1>8, <2>1, <2>5
  <2> HIDE DEF p6
  <2>7. ToSet(p7) = ToSet(p6) \cup ToSet(q7)
    BY <1>8, <2>1, <2>6
  <2> QED BY <2>0, <2>2, <2>3, <2>4, <2>5, <2>6, <2>7
<1> HIDE DEF p1, q2, q3, q4, q5, q6, q7, all, S, W
<1> SUFFICES ASSUME NEW c \in ToSet(all), AboutForeign(c), c.constraint \in DOMAIN a.dst.fks
             PROVE  DropForeign(c.constraint) \in ToSet(all)
  BY DEF all
<1>10. c \in ToSet(p1) \/ c \in ToSet(q7)
  BY <1>6, <1>7, <1>9
<1> QED BY <1>3, <1>4, <1>5, <1>9, <1>10
\* What a comparison that alters a table asks for, statement by statement.
LEMMA AlterDataGroups ==
  ASSUME NEW config, NEW t, NEW a, {"src", "dst"} \subseteq DOMAIN a,
         IsSchema(a.src), IsSchema(a.dst), AlterData(config, t, a).type = "alter"
  PROVE  \A j \in DOMAIN AlterData(config, t, a).sql :
           /\ Uniform(ToSet(AlterData(config, t, a).sql[j].clauses))
           /\ \A c \in ToSet(AlterData(config, t, a).sql[j].clauses) :
                /\ c.op = "ADD" => c.col \in ToSet(Parse(a.src).cols)
                /\ AboutForeign(c) /\ c.constraint \in DOMAIN Parse(a.dst).fks =>
                     \E m \in DOMAIN AlterData(config, t, a).sql :
                       DropForeign(c.constraint) \in ToSet(AlterData(config, t, a).sql[m].clauses)
<1> DEFINE p == [a EXCEPT !.src = Parse(a.src), !.dst = Parse(a.dst)]
           lines == SchemaDiffLines(config, t, p)
           d == AlterData(config, t, a)
           create == CreateStatements(t, a.src)
           alter == AlterStatements(config, t, lines)
<1>1. p.src = Parse(a.src) /\ p.dst = Parse(a.dst)
  OBVIOUS
<1>2. Parsed(p.src) /\ Parsed(p.dst)
  BY <1>1, ParseProper DEF IsSchema
<1>3. \/ d = [type |-> "no", src |-> p.src, dst |-> p.dst, sql |-> <<>>]
      \/ d = [type |-> "drop", src |-> p.src, dst |-> p.dst, sql |-> <<>>]
      \/ d = [type |-> "create", src |-> p.src, dst |-> p.dst, sql |-> create]
      \/ d = [type |-> "alter", src |-> p.src, dst |-> p.dst, sql |-> alter]
  BY DEF AlterData
<1> HIDE DEF p
<1>4. \A c \in ToSet(lines) : c.op = "ADD" => c.col \in ToSet(p.src.cols)
  BY <1>2, LinesLed
<1>5. AllPermitted(config, t, lines)
  BY <1>2, LinesPermitted
<1>6. \A c \in ToSet(lines) : AboutForeign(c) /\ c.constraint \in DOMAIN p.dst.fks =>
        DropForeign(c.constraint) \in ToSet(lines)
  BY <1>2, ForeignDropped
<1> HIDE DEF lines, d, create, alter
<1>7. d.sql = alter
  BY <1>3 DEF d
<1>8. lines \in Seq(ToSet(lines))
  BY <1>5 DEF AllPermitted
<1>9. \A j \in DOMAIN alter : Uniform(ToSet(alter[j].clauses)) /\ ToSet(alter[j].clauses) \subseteq ToSet(lines)
  BY <1>8, AlterStatementsUniform DEF alter
<1>10. \A c \in ToSet(lines) : \E j \in DOMAIN alter : c \in ToSet(alter[j].clauses)
  BY <1>5, AlterStatementsMembers DEF alter
<1>11. \A j \in DOMAIN d.sql :
         /\ Uniform(ToSet(d.sql[j].clauses))
         /\ \A c \in ToSet(d.sql[j].clauses) :
              /\ c.op = "ADD" => c.col \in ToSet(p.src.cols)
              /\ AboutForeign(c) /\ c.constraint \in DOMAIN p.dst.fks =>
                   \E m \in DOMAIN d.sql : DropForeign(c.constraint) \in ToSet(d.sql[m].clauses)
  BY <1>4, <1>6, <1>7, <1>9, <1>10
<1> QED BY <1>1, <1>11 DEF d

\* A table that is created was not there, and is created without constraints.
LEMMA AlterDataCreates ==
  ASSUME NEW config, NEW t, NEW a, {"src", "dst"} \subseteq DOMAIN a,
         IsSchema(a.src), IsSchema(a.dst), AlterData(config, t, a).type = "create"
  PROVE  /\ DOMAIN Parse(a.dst).fks = {}
         /\ \A j \in DOMAIN AlterData(config, t, a).sql :
              DOMAIN AlterData(config, t, a).sql[j].create.fks = {}
<1> DEFINE p == [a EXCEPT !.src = Parse(a.src), !.dst = Parse(a.dst)]
           d == AlterData(config, t, a)
           K == DOMAIN a.src.fks
           F(k) == Alter(t, <<AddForeign(k, a.src.fks[k])>>)
           q == SetToSeq(K)
           first == Create(t, a.src)
           adds == [k \in DOMAIN q |-> F(q[k])]
           create == CreateStatements(t, a.src)
           alter == AlterStatements(config, t, SchemaDiffLines(config, t, p))
<1>1. \/ d = [type |-> "no", src |-> p.src, dst |-> p.dst, sql |-> <<>>]
      \/ d = [type |-> "drop", src |-> p.src, dst |-> p.dst, sql |-> <<>>]
      \/ ~Exists(a.dst) /\ d = [type |-> "create", src |-> p.src, dst |-> p.dst, sql |-> create]
      \/ d = [type |-> "alter", src |-> p.src, dst |-> p.dst, sql |-> alter]
  BY DEF AlterData
<1>2. first.create.fks = <<>>
  BY DEF Create, IsSchema, WellFormed
<1>3. \A k : F(k).create.fks = <<>>
  BY DEF Alter, NoSchema
<1>4. create = <<first>> \o adds
  BY DEF CreateStatements, Clauses
<1> HIDE DEF p, d, first, F, create, alter
<1>5. ~Exists(a.dst) /\ d.sql = create
  BY <1>1 DEF d
<1>6. DOMAIN Parse(a.dst).fks = {}
  BY <1>5, ParseProper, NoSchemaWellFormed DEF IsSchema
<1>7. IsFiniteSet(K)
  BY DEF IsSchema, WellFormed
<1> HIDE DEF K
<1>8. DOMAIN q = 1..Len(q) /\ Len(q) \in Nat
  BY <1>7, SetToSeqMembers
<1> HIDE DEF q
<1> DEFINE S == {first} \cup {F(q[k]) : k \in DOMAIN q}
<1>9. <<first>> \o adds \in Seq(S)
  BY <1>8
<1>10. \A x \in S : DOMAIN x.create.fks = {}
  BY <1>2, <1>3
<1> HIDE DEF S, adds
<1>11. \A j \in DOMAIN create : DOMAIN create[j].create.fks = {}
  BY <1>4, <1>9, <1>10
<1> QED BY <1>5, <1>6, <1>11 DEF d

-----------------------------------------------------------------------------
(* What a snapshot says of the constraints of its table.                   *)

Grouped(t) ==
  \A j \in DOMAIN snap[t].sql :
    /\ Uniform(ToSet(snap[t].sql[j].clauses))
    /\ \A c \in ToSet(snap[t].sql[j].clauses) :
         /\ c.op = "ADD" => c.col \in ToSet(snap[t].src.cols)
         /\ AboutForeign(c) /\ c.constraint \in DOMAIN snap[t].dst.fks =>
              \E m \in DOMAIN snap[t].sql :
                DropForeign(c.constraint) \in ToSet(snap[t].sql[m].clauses)

Creating(t) ==
  /\ DOMAIN snap[t].dst.fks = {}
  /\ \A j \in DOMAIN snap[t].sql : DOMAIN snap[t].sql[j].create.fks = {}

LEMMA SnapshotGrouped ==
  ASSUME Snapshots, NEW t \in DOMAIN snap
  PROVE  /\ snap[t].type = "alter" => Grouped(t)
         /\ snap[t].type = "create" => Creating(t)
<1>1. PICK r : GoodReading(cfg, t, r) /\ snap[t] = AlterData(cfg, t, r)
  BY DEF Snapshots
<1>2. {"src", "dst"} \subseteq DOMAIN r /\ IsSchema(r.src) /\ IsSchema(r.dst)
  BY <1>1 DEF GoodReading
<1>3. snap[t].src = Parse(r.src) /\ snap[t].dst = Parse(r.dst)
  BY <1>1, <1>2, AlterDataSays
<1> DEFINE d == AlterData(cfg, t, r)
<1>4. d.type = "alter" =>
        \A j \in DOMAIN d.sql :
           /\ Uniform(ToSet(d.sql[j].clauses))
           /\ \A c \in ToSet(d.sql[j].clauses) :
                /\ c.op = "ADD" => c.col \in ToSet(Parse(r.src).cols)
                /\ AboutForeign(c) /\ c.constraint \in DOMAIN Parse(r.dst).fks =>
                     \E m \in DOMAIN d.sql : DropForeign(c.constraint) \in ToSet(d.sql[m].clauses)
  BY <1>2, AlterDataGroups
<1>5. d.type = "create" =>
        /\ DOMAIN Parse(r.dst).fks = {}
        /\ \A j \in DOMAIN d.sql : DOMAIN d.sql[j].create.fks = {}
  BY <1>2, AlterDataCreates
<1> HIDE DEF d
<1>6. snap[t] = d
  BY <1>1 DEF d
<1> QED BY <1>3, <1>4, <1>5, <1>6 DEF Grouped, Creating

-----------------------------------------------------------------------------
(* What a statement that only takes constraints away leaves.               *)

LEMMA LeastEarlier ==
  ASSUME NEW S, S # {}, NEW n \in Nat, S \subseteq 1..n
  PROVE  LET m == Min(S \cup {n + 1}) IN m \in S /\ (m - 1) + 1 = m
<1> DEFINE T == S \cup {n + 1}
           m == Min(T)
<1>1. T \in SUBSET Nat /\ T # {}
  OBVIOUS
<1>0. PICK y : y \in S
  OBVIOUS
<1>2. y \in 1..n /\ y \in T /\ y < n + 1
  BY <1>0
<1>3. m \in T /\ m <= y
  BY <1>1, <1>2, LeastMember
<1> HIDE DEF m
<1>4. m \in S /\ m \in Nat
  BY <1>2, <1>3
<1> QED BY <1>4 DEF m

\* A text that is not cut shows all constraints of its table.
LEMMA ParseWhole ==
  ASSUME NEW s, WellFormed(s), Parse(s).rest = {}
  PROVE  Parse(s).fks = s.fks
<1> DEFINE lines == [i \in DOMAIN s.cols |-> Line(s, s.cols[i])]
           said == {i \in DOMAIN s.cols : s.cols[i].comment = SaysEngine}
           ends == said \cup {Len(lines) + 1}
           parsed == Min(ends) - 1
           whole(f) == IF said = {} THEN f ELSE <<>>
           rest == {lines[i] : i \in said \cap {parsed + 1}}
<1>1. Parse(s).fks = whole(s.fks) /\ Parse(s).rest = rest
  BY DEF Parse
<1>2. DOMAIN s.cols = 1..Len(lines) /\ Len(lines) \in Nat
  <2>1. s.cols \in Seq(ToSet(s.cols))
    BY DEF WellFormed
  <2>2. DOMAIN s.cols = 1..Len(s.cols) /\ Len(s.cols) \in Nat
    BY <2>1
  <2>3. lines = [i \in 1..Len(s.cols) |-> Line(s, s.cols[i])]
    BY <2>2
  <2> HIDE DEF lines
  <2>4. DOMAIN lines = 1..Len(s.cols) /\ Len(lines) = Len(s.cols)
    BY <2>2, <2>3
  <2> QED BY <2>2, <2>4
<1>3. said = {}
  <2> SUFFICES ASSUME said # {} PROVE FALSE
    OBVIOUS
  <2>1. said \subseteq 1..Len(lines) /\ said # {}
    BY <1>2
  <2> HIDE DEF said
  <2>2. Min(ends) \in said /\ parsed + 1 = Min(ends)
    <3>1. \A n \in Nat : said \subseteq 1..n => LET m == Min(said \cup {n + 1}) IN m \in said /\ (m - 1) + 1 = m
      BY <2>1, LeastEarlier
    <3> QED BY <1>2, <2>1, <3>1
  <2> HIDE DEF parsed, lines
  <2>3. lines[Min(ends)] \in rest
    BY <2>2
  <2> QED BY <1>1, <2>3
<1> QED BY <1>1, <1>3

\* The clauses drop constraints, one after the other: those left were there and are
\* none of theirs.
LosesFirst(e, n) ==
  n \in ClauseDomain(e) /\ Prefix(e)[n].ok =>
    /\ WellFormed(Prefix(e)[n].s)
    /\ \A k \in DOMAIN Prefix(e)[n].s.fks :
         /\ k \in DOMAIN e.db[e.st.table].fks
         /\ Prefix(e)[n].s.fks[k] = e.db[e.st.table].fks[k]
         /\ \A i \in 1..n : e.st.clauses[i].constraint # k

LEMMA DropsRemove ==
  ASSUME NEW db, NEW st, Len(st.clauses) \in Nat, DOMAIN st.clauses = 1..Len(st.clauses),
         OnlyDrops(ToSet(st.clauses)), WellFormed(db[st.table]), Altered(db, st).ok
  PROVE  \A k \in DOMAIN Altered(db, st).s.fks :
           /\ k \in DOMAIN db[st.table].fks /\ Altered(db, st).s.fks[k] = db[st.table].fks[k]
           /\ DropForeign(k) \notin ToSet(st.clauses)
<1> DEFINE e == [db |-> db, st |-> st]
           F == Prefix(e)
           N == Len(st.clauses)
           old == db[st.table]
<1>1. e.db = db /\ e.st = st /\ Altered(db, st) = F[N] /\ F = [n \in 0..N |-> ClauseDef(e, F, n)]
  BY PrefixIs
<1> HIDE DEF e
<1>e. e.db = db /\ e.st = st
  BY <1>1
<1>2. F = [n \in 0..N |-> ClauseDef(e, F, n)]
  BY <1>1
<1> HIDE DEF F, N, old
<1>3. LosesFirst(e, 0)
  <2>1. F[0].s = old
    BY <1>2, <1>e DEF ClauseDef, old, N
  <2>2. WellFormed(old) /\ 1..0 = {}
    BY DEF old
  <2> QED BY <2>1, <2>2, <1>e DEF LosesFirst, F, old
<1>4. ASSUME NEW n \in Nat, LosesFirst(e, n) PROVE LosesFirst(e, n + 1)
  <2> DEFINE m == n + 1
             s == F[n].s
             u == F[m].s
             c == st.clauses[m]
  <2> SUFFICES ASSUME m \in 0..N, F[m].ok
               PROVE  /\ WellFormed(u)
                      /\ \A k \in DOMAIN u.fks :
                           /\ k \in DOMAIN old.fks /\ u.fks[k] = old.fks[k]
                           /\ \A i \in 1..m : st.clauses[i].constraint # k
    BY <1>e DEF LosesFirst, ClauseDomain, F, N, old
  <2>1. n \in 0..N /\ m \in 1..N /\ m # 0 /\ m - 1 = n /\ 1..m = (1..n) \cup {m}
    BY DEF N
  <2>2. F[m] = Extended(db, st.table, F[n], c)
    <3> HIDE DEF c
    <3>1. F[m] = ClauseDef(e, F, m)
      BY <1>2
    <3> QED BY <2>1, <3>1, <1>e DEF ClauseDef, c
  <2>3. c.op = "DROP FOREIGN KEY"
    <3>1. m \in DOMAIN st.clauses
      BY <2>1 DEF N
    <3>2. c \in ToSet(st.clauses)
      BY <3>1 DEF ToSet
    <3> QED BY <3>2 DEF OnlyDrops, IsForeignDropLine
  <2> HIDE DEF m, c
  <2>4. F[n].ok /\ Applicable(db, st.table, s, c) /\ u = Changed(s, c)
    BY <2>2 DEF Extended
  <2>5. WellFormed(s) /\ \A k \in DOMAIN s.fks :
          /\ k \in DOMAIN old.fks /\ s.fks[k] = old.fks[k]
          /\ \A i \in 1..n : st.clauses[i].constraint # k
    BY <1>4, <2>1, <2>4, <1>e DEF LosesFirst, ClauseDomain, F, N, old
  <2> HIDE DEF s, u
  <2>6. ProperClause(c)
    BY <2>3 DEF ProperClause
  <2>7. WellFormed(u)
    BY <2>4, <2>5, <2>6, ChangedKeeps DEF Keeps
  <2>8. u.fks = Without(s.fks, c.constraint)
    <3>1. u = [s EXCEPT !.fks = Without(s.fks, c.constraint)]
      BY <2>3, <2>4 DEF Changed
    <3> QED BY <2>5, <3>1 DEF WellFormed
  <2>9. \A k \in DOMAIN u.fks : k \in DOMAIN s.fks /\ k # c.constraint /\ u.fks[k] = s.fks[k]
    BY <2>8 DEF Without
  <2>10. \A k \in DOMAIN u.fks : \A i \in 1..m : st.clauses[i].constraint # k
    BY <2>1, <2>5, <2>9 DEF c
  <2> QED BY <2>5, <2>7, <2>9, <2>10
<1>5. \A n \in Nat : LosesFirst(e, n)
  <2> DEFINE W == {n \in Nat : LosesFirst(e, n)}
  <2>1. 0 \in W /\ \A n \in Nat : n \in W => n + 1 \in W
    BY <1>3, <1>4
  <2> HIDE DEF W
  <2>2. Nat \subseteq W
    BY <2>1, Induct
  <2> QED BY <2>2 DEF W
<1>6. N \in 0..N /\ N \in Nat
  BY DEF N
<1>7. \A k \in DOMAIN F[N].s.fks :
        /\ k \in DOMAIN old.fks /\ F[N].s.fks[k] = old.fks[k]
        /\ \A i \in 1..N : st.clauses[i].constraint # k
  <2>1. LosesFirst(e, N)
    BY <1>5, <1>6
  <2>2. F[N].ok
    BY <1>1
  <2>3. N \in ClauseDomain(e) /\ Prefix(e)[N].ok
    BY <1>6, <1>e, <2>2 DEF ClauseDomain, F, N
  <2> HIDE DEF N
  <2> QED BY <2>1, <2>3, <1>e DEF LosesFirst, F, old
<1>8. \A k : DropForeign(k) \in ToSet(st.clauses) => \E i \in 1..N : st.clauses[i].constraint = k
  <2>1. \A k : DropForeign(k).constraint = k
    BY DEF DropForeign
  <2>2. \A c \in ToSet(st.clauses) : \E i \in 1..N : st.clauses[i] = c
    BY DEF ToSet, N
  <2> QED BY <2>1, <2>2
<1>9. Altered(db, st) = F[N]
  BY <1>1
<1> HIDE DEF N
<1> QED BY <1>7, <1>8, <1>9 DEF old

Loses(s, u, C) ==
  \A k \in DOMAIN u.fks :
    k \in DOMAIN s.fks /\ u.fks[k] = s.fks[k] /\ DropForeign(k) \notin C

\* An accepted statement that installs no constraint leaves those it does not drop.
LEMMA AlterLoses ==
  ASSUME NEW db, NEW st, st.table \in DOMAIN db, Accepts(db, st), ProperStatement(st),
         WellFormed(db[st.table]), st.clauses # <<>>,
         OnlyDrops(ToSet(st.clauses)) \/ OnlyOthers(ToSet(st.clauses))
  PROVE  Loses(db[st.table], After(db, st)[st.table], ToSet(st.clauses))
<1> DEFINE u == After(db, st)[st.table]
<1>0. Len(st.clauses) \in Nat /\ DOMAIN st.clauses = 1..Len(st.clauses)
  BY DEF ProperStatement
<1>1. u = Outcome(db, st).s /\ Outcome(db, st).ok
  BY DEF After, Accepts
<1>2. Outcome(db, st).ok => Outcome(db, st) = Altered(db, st)
  BY DEF Outcome
<1>3. CASE OnlyDrops(ToSet(st.clauses))
  <2>1. u = Altered(db, st).s /\ Altered(db, st).ok
    BY <1>1, <1>2
  <2>2. \A k \in DOMAIN Altered(db, st).s.fks :
           /\ k \in DOMAIN db[st.table].fks /\ Altered(db, st).s.fks[k] = db[st.table].fks[k]
           /\ DropForeign(k) \notin ToSet(st.clauses)
    BY <1>0, <1>3, <2>1, DropsRemove
  <2> HIDE DEF u
  <2> QED BY <2>1, <2>2 DEF Loses, u
<1>4. CASE OnlyOthers(ToSet(st.clauses))
  <2>1. Leaves(db[st.table], u, ToSet(st.clauses))
    BY AcceptedStatement DEF ProperStatement
  <2> HIDE DEF u
  <2>2. \A c \in ToSet(st.clauses) : TouchedForeign(c) = {}
    BY <1>4 DEF OnlyOthers, IsForeignDropLine, IsForeignAddLine, TouchedForeign
  <2>3. \A k \in DOMAIN u.fks : k \in DOMAIN db[st.table].fks /\ u.fks[k] = db[st.table].fks[k]
    BY <2>1, <2>2 DEF Leaves
  <2>4. \A k : DropForeign(k) \notin ToSet(st.clauses)
    <3>1. \A k : DropForeign(k).op = "DROP FOREIGN KEY"
      BY DEF DropForeign
    <3> QED BY <1>4, <3>1 DEF OnlyOthers, IsForeignDropLine
  <2> QED BY <2>3, <2>4 DEF Loses, u
<1> QED BY <1>3, <1>4

-----------------------------------------------------------------------------
(* The phases of a plan, and what it takes away first.                     *)

LEMMA PlanPhases ==
  ASSUME NEW c, NEW s, ~Plan(c, s).refused
  PROVE  /\ \A i \in Plan(c, s).items : ~i.temporary => i.phase = Phase(i.stmt)
         /\ \A t \in DOMAIN s : \A k \in DOMAIN s[t].dst.fks :
              Affects(s, s[t].dst.fks[k].parent, s[t].dst.fks[k].refs) =>
                \/ <<t, k>> \in PlannedKeys(OwnItems(Plan(c, s).items))
                \/ \E i \in Plan(c, s).items : i.phase = 0 /\ i.stmt = Alter(t, <<DropForeign(k)>>)
<1> DEFINE ordered == OrderTableAlters(s)
           planned == PlannedItems(s, ordered)
           inbound == InboundKeys(s, planned)
           temps == TemporaryItems(s, Len(ordered), inbound)
           refused == \E key \in inbound : Untouchable(c, s, key)
           rank(key) == Cardinality({k \in inbound : Before(k, key)})
           D(key) == DetachItem(key, rank(key) - 1 - Cardinality(DOMAIN s))
           R(key) == RestoreItem(s, key, Len(ordered) + rank(key))
           its == Plan(c, s).items
<1>1. its = planned \cup temps
  <2>1. Plan(c, s) = [refused |-> refused, items |-> IF refused THEN {} ELSE planned \cup temps]
    BY DEF Plan
  <2> HIDE DEF refused, planned, temps
  <2>2. Plan(c, s).refused = refused /\ Plan(c, s).items = IF refused THEN {} ELSE planned \cup temps
    BY <2>1
  <2> QED BY <2>2
<1>2. \A i \in planned : i.temporary = FALSE /\ i.phase = Phase(i.stmt)
  <2> HIDE DEF ordered
  <2> QED BY DEF PlannedItems, PlannedItem
<1>3. temps = {D(key) : key \in inbound} \cup {R(key) : key \in inbound}
  BY DEF TemporaryItems
<1>4. \A t, k : /\ D(<<t, k>>).phase = 0
                /\ D(<<t, k>>).stmt = Alter(t, <<DropForeign(k)>>)
  BY DEF DetachItem
<1>5. \A key : D(key).temporary = TRUE /\ R(key).temporary = TRUE
  BY DEF DetachItem, RestoreItem
<1>6. \A t \in DOMAIN s : \A k \in DOMAIN s[t].dst.fks :
        Affects(s, s[t].dst.fks[k].parent, s[t].dst.fks[k].refs) =>
          <<t, k>> \in PlannedKeys(planned) \/ <<t, k>> \in inbound
  <2> HIDE DEF planned
  <2> SUFFICES ASSUME NEW t \in DOMAIN s, NEW k \in DOMAIN s[t].dst.fks,
                      Affects(s, s[t].dst.fks[k].parent, s[t].dst.fks[k].refs),
                      <<t, k>> \notin PlannedKeys(planned)
               PROVE  <<t, k>> \in inbound
    OBVIOUS
  <2>1. <<t, k>> \in UNION {{<<x, y>> : y \in DOMAIN s[x].dst.fks} : x \in DOMAIN s}
    OBVIOUS
  <2>2. <<t, k>>[1] = t /\ <<t, k>>[2] = k
    OBVIOUS
  <2> QED BY <2>1, <2>2 DEF InboundKeys
<1> HIDE DEF planned, inbound, temps, D, R, its, rank
<1>7. OwnItems(its) = planned
  BY <1>1, <1>2, <1>3, <1>5 DEF OwnItems
<1>8. \A i \in its : ~i.temporary => i.phase = Phase(i.stmt)
  BY <1>1, <1>2, <1>3, <1>5
<1>9. \A t \in DOMAIN s : \A k \in DOMAIN s[t].dst.fks :
        Affects(s, s[t].dst.fks[k].parent, s[t].dst.fks[k].refs) =>
          \/ <<t, k>> \in PlannedKeys(OwnItems(its))
          \/ \E i \in its : i.phase = 0 /\ i.stmt = Alter(t, <<DropForeign(k)>>)
  BY <1>1, <1>3, <1>4, <1>6, <1>7
<1> QED BY <1>8, <1>9 DEF its

-----------------------------------------------------------------------------
(* What is read of the destination while nobody else changes it: whatever  *)
(* the scope, each table that exists is found and read as it is.           *)

LEMMA NextCallSkips ==
  ASSUME NEW t, NEW r, NEW n \in 0..6
  PROVE  /\ NextCall(t, r, n) \in (n + 1)..7
         /\ \A x \in (n + 1)..6 : Needed(t, r, x) => NextCall(t, r, n) <= x
<1> DEFINE S == {m \in (n + 1)..Len(Calls) : Needed(t, r, m)} \cup {Len(Calls) + 1}
           next == NextCall(t, r, n)
<1>1. Len(Calls) = 6
  BY DEF Calls
<1>2. S \in SUBSET Nat /\ S # {} /\ \A m \in S : m \in (n + 1)..7
  BY <1>1
<1>3. \A x \in (n + 1)..6 : Needed(t, r, x) => x \in S
  BY <1>1
<1>4. next = Min(S)
  BY DEF NextCall
<1> HIDE DEF S, next
<1>5. next \in S /\ \A x \in S : next <= x
  BY <1>2, <1>4, LeastMember
<1> QED BY <1>2, <1>3, <1>5 DEF next

\* What a reading says of a table d of the destination when query n comes next.
Seen(d, n, r) ==
  /\ n > 2 => (r.hasD <=> Exists(d))
  /\ n > 4 /\ Exists(d) => r.dst = d

LEMMA SeenNext ==
  ASSUME NEW t, NEW r, NEW n \in 1..6, Seen(dst[t], n, r),
         DOMAIN r = {"hasS", "hasD", "src", "dst", "sf", "df"}
  PROVE  /\ NextCall(t, Answer(t, r, n), n) \in 1..7
         /\ Seen(dst[t], NextCall(t, Answer(t, r, n), n), Answer(t, r, n))
<1> DEFINE u == Answer(t, r, n)
           d == dst[t]
           there == Exists(d)
           found == Exists(src[t])
           next == NextCall(t, u, n)
<1>1. /\ n = 1 => u = [r EXCEPT !.hasS = found]
      /\ n = 2 => u = [r EXCEPT !.hasD = there]
      /\ n = 3 => u = [r EXCEPT !.src = src[t]]
      /\ n = 4 => u = [r EXCEPT !.dst = d]
      /\ n = 5 => u = [r EXCEPT !.sf = FieldInfos(src[t])]
      /\ n = 6 => u = [r EXCEPT !.df = FieldInfos(d)]
  BY DEF Answer
<1>2. n \in 0..6
  OBVIOUS
<1> HIDE DEF u, found
<1>3. next \in (n + 1)..7 /\ \A x \in (n + 1)..6 : Needed(t, u, x) => next <= x
  BY <1>2, NextCallSkips
<1>4. Needed(t, u, 2) /\ (u.hasD => Needed(t, u, 4))
  BY DEF Needed
<1> HIDE DEF next
<1>5. /\ n > 2 => (r.hasD <=> there)
      /\ n > 4 /\ there => r.dst = d
  BY DEF Seen
<1> HIDE DEF there, d
<1>6. n = 1 => next = 2
  BY <1>3, <1>4
<1>7. n > 1 => (u.hasD <=> there)
  <2>1. n = 2 => u.hasD = there
    BY <1>1
  <2>2. n > 2 => u.hasD = r.hasD
    BY <1>1
  <2> QED BY <1>5, <2>1, <2>2
<1>8. n > 3 /\ there => u.dst = d
  <2>1. n = 4 => u.dst = d
    BY <1>1
  <2>2. n > 4 => u.dst = r.dst
    BY <1>1
  <2> QED BY <1>5, <2>1, <2>2
<1>9. n \in {2, 3} /\ there => next <= 4
  BY <1>3, <1>4, <1>7
<1>10. /\ next > 2 => (u.hasD <=> there)
       /\ next > 4 /\ there => u.dst = d
  BY <1>3, <1>6, <1>7, <1>8, <1>9
<1>11. next \in 1..7
  BY <1>3
<1> QED BY <1>10, <1>11 DEF Seen, u, next, there, d

SeenExactly ==
  pc \in {"inspect", "recheck"} /\ queue # <<>> =>
    call \in 1..6 /\ Seen(dst[Head(queue)], call, rd)

LEMMA QueueSeen ==
  ASSUME NEW q, StartQueue(q)
  PROVE  SeenExactly'
<1> SUFFICES ASSUME queue' # <<>> PROVE call' \in 1..6 /\ Seen(dst[Head(queue)], call, rd)'
  BY DEF SeenExactly
<1> DEFINE t == Head(queue')
<1>1. queue' = q /\ rd' = NothingRead /\ call' = NextCall(t, NothingRead, 0)
  BY DEF StartQueue
<1> HIDE DEF t
<1>2. /\ call' \in (0 + 1)..7
      /\ \A x \in (0 + 1)..6 : Needed(t, NothingRead, x) => call' <= x
  BY <1>1, NextCallSkips
<1>3. Needed(t, NothingRead, 2)
  BY DEF Needed
<1>4. call' \in {1, 2}
  BY <1>2, <1>3
<1> QED BY <1>1, <1>4 DEF Seen, t

\* Where a query has been answered, what it says is so.
LEMMA AllSeen ==
  ASSUME Orderly, SeenExactly, pc \in {"inspect", "recheck"}, queue # <<>>
  PROVE  LET t == Head(queue)
             r == Answer(t, rd, call)
             next == NextCall(t, r, call)
         IN  /\ GoodReading(cfg, t, r)
             /\ next \in 1..7 /\ Seen(dst[t], next, r)
             /\ next \in DOMAIN Calls <=> next # 7
<1> DEFINE t == Head(queue)
           r == Answer(t, rd, call)
           next == NextCall(t, r, call)
<1>1. call \in 1..6 /\ Seen(dst[t], call, rd)
  BY DEF SeenExactly
<1>2. t \in Tables
  BY DEF Orderly, Shapes
<1>3. /\ GoodReading(cfg, t, rd)
      /\ call = 1 => InScope(cfg, t)
      /\ call = 3 => rd.hasS
  BY DEF Orderly, Informed, Reading
<1>4. GoodReading(cfg, t, r)
  BY <1>2, <1>3, AnswerGood DEF Orderly, Informed
<1>6. DOMAIN rd = {"hasS", "hasD", "src", "dst", "sf", "df"}
  BY <1>3 DEF GoodReading
<1> HIDE DEF t
<1>7. next \in 1..7 /\ Seen(dst[t], next, r)
  BY <1>1, <1>6, SeenNext
<1>8. DOMAIN Calls = 1..6
  BY DEF Calls
<1> HIDE DEF next, r
<1>9. next \in DOMAIN Calls <=> next # 7
  BY <1>7, <1>8
<1> QED BY <1>4, <1>7, <1>9 DEF t, r, next

LEMMA SeenInductive ==
  Orderly /\ SeenExactly /\ [Next]_vars /\ drift' = "none" => SeenExactly'
<1> SUFFICES ASSUME Orderly, SeenExactly, [Next]_vars, drift' = "none" PROVE SeenExactly'
  OBVIOUS
<1> USE DEF databases, reading, plan, progress, world
<1>0. ~OutsideChange
  BY Undisturbed DEF Orderly
<1>1. CASE ListTables \/ QueryFails \/ EndExecution
  <2>1. \E q : StartQueue(q)
    BY <1>1 DEF ListTables, QueryFails, EndExecution
  <2> QED BY <2>1, QueueSeen
<1>2. CASE QueryTable
  <2> DEFINE t == Head(queue)
             r == Answer(t, rd, call)
             next == NextCall(t, r, call)
  <2>1. /\ pc \in {"inspect", "recheck"} /\ queue # <<>>
        /\ UNCHANGED dst
        /\ \/ next \in DOMAIN Calls /\ call' = next /\ rd' = r /\ UNCHANGED queue
           \/ StartQueue(Tail(queue))
    BY <1>2 DEF QueryTable
  <2>2. CASE StartQueue(Tail(queue))
    BY <2>2, QueueSeen
  <2>3. CASE next \in DOMAIN Calls /\ call' = next /\ rd' = r /\ UNCHANGED queue
    <3>1. next \in 1..7 /\ Seen(dst[t], next, r) /\ next # 7
      BY <2>1, <2>3, AllSeen
    <3> HIDE DEF r, next
    <3>2. call' \in 1..6 /\ Seen(dst'[t], call', rd')
      BY <2>1, <2>3, <3>1
    <3>3. Head(queue') = t
      BY <2>3
    <3> HIDE DEF t
    <3> QED BY <3>2, <3>3 DEF SeenExactly
  <2> QED BY <2>1, <2>2, <2>3
<1>3. CASE pc' \notin {"inspect", "recheck"}
  BY <1>3 DEF SeenExactly
<1>4. CASE ListFails \/ GiveUp \/ RefusePlan \/ MakePlan \/ VerifyTable \/ VerifyFails
           \/ StartExecution \/ EndRecheck \/ Crash \/ RunAgain
  BY <1>3, <1>4 DEF ListFails, GiveUp, RefusePlan, MakePlan, VerifyTable, VerifyFails,
              StartExecution, EndRecheck, Crash, RunAgain
<1>5. ASSUME NEW i \in todo, PreviewItem(i) \/ SkipItem(i) \/ ExecuteItem(i) \/ StatementFails(i)
      PROVE  SeenExactly'
  BY <1>3, <1>5 DEF PreviewItem, SkipItem, ExecuteItem, StatementFails, Sends
<1>6. CASE UNCHANGED vars
  BY <1>6 DEF vars, SeenExactly
<1> QED BY <1>0, <1>1, <1>2, <1>4, <1>5, <1>6 DEF Next, ToolStep, Stopped

DestKnown ==
  pc = "inspect" /\ errs = {} =>
    \A t \in Tables : Exists(dst[t]) =>
      t \in ToSet(queue) \/ (t \in DOMAIN snap /\ snap[t].dst = Parse(dst[t]))

LEMMA DestKnownInductive ==
  Orderly /\ SeenExactly /\ DestKnown /\ [Next]_vars /\ drift' = "none" => DestKnown'
<1> SUFFICES ASSUME Orderly, SeenExactly, DestKnown, [Next]_vars, drift' = "none" PROVE DestKnown'
  OBVIOUS
<1> USE DEF databases, reading, plan, progress, world
<1>0. UNCHANGED cfg /\ ~OutsideChange
  BY Undisturbed DEF Orderly
<1>1. CASE ListTables
  <2> DEFINE there == {t \in Tables : Exists(src[t]) \/ Exists(dst[t])}
  <2>1. there \in SUBSET Nat /\ IsFiniteSet(there)
    BY ConstantsAssumption, FS_Subset DEF ConstantsAssumption
  <2>2. queue' = InOrder(there) /\ dst' = dst
    BY <1>1 DEF ListTables, StartQueue
  <2>3. \A t \in Tables : Exists(dst[t]) => t \in there
    OBVIOUS
  <2> HIDE DEF there
  <2>4. ToSet(InOrder(there)) = there
    BY <2>1, InOrderMembers
  <2> QED BY <2>2, <2>3, <2>4 DEF DestKnown
<1>2. CASE QueryTable
  <2> DEFINE u == Head(queue)
             r == Answer(u, rd, call)
             next == NextCall(u, r, call)
             data == AlterData(cfg, u, r)
             rest == Tail(queue)
  <2>1. /\ pc \in {"inspect", "recheck"} /\ queue # <<>> /\ pc' = pc /\ dst' = dst
        /\ \/ UNCHANGED <<queue, snap, errs>>
           \/ /\ queue' = rest /\ next \notin DOMAIN Calls
              /\ snap' = IF pc = "inspect" /\ (InScope(cfg, u) \/ r.hasD)
                         THEN With(snap, u, data) ELSE snap
              /\ pc = "inspect" => errs' = errs
    BY <1>2 DEF QueryTable, StartQueue
  <2>2. CASE UNCHANGED <<queue, snap, errs>>
    BY <2>1, <2>2 DEF DestKnown
  <2>3. CASE pc = "inspect" /\ queue' = rest /\ errs' = errs /\ next \notin DOMAIN Calls
             /\ snap' = IF InScope(cfg, u) \/ r.hasD THEN With(snap, u, data) ELSE snap
    <3>1. ToSet(queue) = {u} \cup ToSet(rest)
      BY <2>1, ToSetHeadTail DEF Orderly, Shapes
    <3>2. GoodReading(cfg, u, r) /\ next = 7 /\ Seen(dst[u], next, r)
      BY <2>1, <2>3, AllSeen
    <3>3. (r.hasD <=> Exists(dst[u])) /\ (Exists(dst[u]) => r.dst = dst[u])
      BY <3>2 DEF Seen
    <3>4. data.dst = Parse(r.dst)
      BY <3>2, AlterDataSays DEF GoodReading
    <3> HIDE DEF r, rest, u, next, data
    <3>5. Exists(dst[u]) => u \in DOMAIN snap' /\ snap'[u].dst = Parse(dst[u])
      BY <2>3, <3>3, <3>4 DEF With
    <3>6. \A t \in DOMAIN snap : t # u => t \in DOMAIN snap' /\ snap'[t] = snap[t]
      BY <2>3 DEF With
    <3>7. ASSUME errs = {}, NEW t \in Tables, Exists(dst[t])
          PROVE  t \in ToSet(queue') \/ (t \in DOMAIN snap' /\ snap'[t].dst = Parse(dst[t]))
      <4>1. t \in ToSet(queue) \/ (t \in DOMAIN snap /\ snap[t].dst = Parse(dst[t]))
        BY <2>3, <3>7 DEF DestKnown
      <4> QED BY <2>3, <3>1, <3>5, <3>6, <3>7, <4>1
    <3> QED BY <2>1, <2>3, <3>7 DEF DestKnown
  <2>4. CASE pc = "recheck"
    BY <2>1, <2>4 DEF DestKnown
  <2> QED BY <2>1, <2>2, <2>3, <2>4
<1>3. CASE QueryFails
  <2>1. errs' # {}
    BY <1>3 DEF QueryFails
  <2> QED BY <2>1 DEF DestKnown
<1>4. CASE pc' # "inspect"
  BY <1>4 DEF DestKnown
<1>5. CASE ListFails \/ GiveUp \/ RefusePlan \/ MakePlan \/ VerifyTable \/ VerifyFails
           \/ StartExecution \/ EndExecution \/ EndRecheck \/ Crash \/ RunAgain
  BY <1>4, <1>5 DEF ListFails, GiveUp, RefusePlan, MakePlan, VerifyTable, VerifyFails,
              StartExecution, EndExecution, EndRecheck, Crash, RunAgain
<1>6. ASSUME NEW i \in todo, PreviewItem(i) \/ SkipItem(i) \/ ExecuteItem(i) \/ StatementFails(i)
      PROVE  DestKnown'
  BY <1>4, <1>6 DEF PreviewItem, SkipItem, ExecuteItem, StatementFails, Sends
<1>7. CASE UNCHANGED vars
  BY <1>7 DEF vars, DestKnown
<1> QED BY <1>0, <1>1, <1>2, <1>3, <1>5, <1>6, <1>7 DEF Next, ToolStep, Stopped

-----------------------------------------------------------------------------
(* What a statement of the first two phases does to constraints.           *)

LEMMA ItemPhase ==
  ASSUME Planned, NEW i \in items
  PROVE  /\ ~i.temporary => i.phase = Phase(i.stmt)
         /\ i.temporary => i.phase = IF i.restore THEN 2 ELSE 0
         /\ i.phase \in 0..2
<1>1. ~Plan(cfg, snap).refused /\ items = Plan(cfg, snap).items
  BY DEF Planned
<1>2. ~i.temporary => i.phase = Phase(i.stmt)
  BY <1>1, PlanPhases
<1>3. i.temporary => i.phase = IF i.restore THEN 2 ELSE 0
  <2>1. Paired(items)
    BY <1>1, PlanPaired
  <2> QED BY <2>1 DEF Paired, IsDetach
<1>4. Phase(i.stmt) \in 0..2
  BY DEF Phase
<1> QED BY <1>2, <1>3, <1>4

\* The phase of a statement of the plan for a table that exists.
LEMMA GroupPhase ==
  ASSUME NEW st, ProperStatement(st), NEW c \in ToSet(st.clauses)
  PROVE  /\ st.clauses # <<>>
         /\ OnlyDrops(ToSet(st.clauses)) => Phase(st) = 0
         /\ OnlyOthers(ToSet(st.clauses)) => Phase(st) = 1
         /\ (\A d \in ToSet(st.clauses) : d.op = "ADD CONSTRAINT") => Phase(st) = 2
<1>1. PICK n \in DOMAIN st.clauses : st.clauses[n] = c
  BY DEF ToSet
<1>2. 1 \in DOMAIN st.clauses
  BY <1>1 DEF ProperStatement
<1>3. st.clauses[1] \in ToSet(st.clauses)
  BY <1>2 DEF ToSet
<1>4. st.clauses # <<>>
  BY <1>2
<1> QED BY <1>3, <1>4 DEF Phase, OnlyDrops, OnlyOthers, IsForeignDropLine, IsForeignAddLine

LEMMA EarlyOnlyRemoves ==
  ASSUME Orderly, NoneMistaken, NEW i \in items, NEW t, LawfulItem(i, t), Executed(i), i.phase < 2
  PROVE  Loses(dst[t], dst'[t], ToSet(i.stmt.clauses))
<1> DEFINE st == i.stmt
           C == ToSet(st.clauses)
<1>1. /\ t \in Tables /\ st.table = t /\ ProperStatement(st)
      /\ OwnItem(i, t) \/ TemporaryItem(i, t)
  BY DEF LawfulItem
<1>2. t \in DOMAIN dst /\ WellFormed(dst[t])
  BY <1>1 DEF Orderly, TypeOK, Informed, Databases, IsSchema
<1>3. Accepts(dst, st) /\ dst' = After(dst, st)
  BY DEF Executed
<1>4. /\ ~i.temporary => i.phase = Phase(st)
      /\ i.temporary => i.phase = IF i.restore THEN 2 ELSE 0
  BY ItemPhase DEF Orderly, Informed
<1> HIDE DEF st
<1>5. ASSUME st.clauses # <<>>, OnlyDrops(C) \/ OnlyOthers(C)
      PROVE  Loses(dst[t], dst'[t], C)
  BY <1>1, <1>2, <1>3, <1>5, AlterLoses
<1>6. CASE TemporaryItem(i, t)
  <2>1. PICK k : Temporary(snap, i, t, k) /\ i.temporary
    BY <1>6 DEF TemporaryItem
  <2>2. ~i.restore
    BY <1>4, <2>1
  <2>3. st = Alter(t, <<DropForeign(k)>>)
    BY <2>1, <2>2 DEF Temporary, st
  <2>4. st.clauses = <<DropForeign(k)>>
    BY <2>3 DEF Alter
  <2>5. C = {DropForeign(k)} /\ st.clauses # <<>>
    BY <2>4, ToSetSingle
  <2>6. OnlyDrops(C)
    <3>1. DropForeign(k).op = "DROP FOREIGN KEY"
      BY DEF DropForeign
    <3> HIDE DEF C
    <3> QED BY <2>5, <3>1 DEF OnlyDrops, IsForeignDropLine
  <2> QED BY <1>5, <2>5, <2>6 DEF st
<1>7. CASE OwnItem(i, t)
  <2>1. /\ ~i.temporary /\ t \in Changes(snap)
        /\ \E j \in DOMAIN snap[t].sql : st = snap[t].sql[j]
    BY <1>7 DEF OwnItem, st
  <2>2. PICK j \in DOMAIN snap[t].sql : st = snap[t].sql[j]
    BY <2>1
  <2>3. t \in DOMAIN snap /\ snap[t].type \in {"create", "alter"}
    BY <2>1 DEF Changes
  <2>4. Phase(st) < 2
    BY <1>4, <2>1
  <2>5. CASE snap[t].type = "alter"
    <3>1. Grouped(t) /\ AltersOf(cfg, t, snap[t].sql[j])
      BY <2>2, <2>3, <2>5, SnapshotGrouped, SnapshotSays DEF Orderly, Informed
    <3>2. /\ Uniform(C) /\ st.clauses # <<>>
          /\ \A c \in C : c.op = "ADD" => c.col \in ToSet(snap[t].src.cols)
      BY <2>2, <3>1 DEF Grouped, AltersOf
    <3>3. CASE OnlyDrops(C) \/ OnlyOthers(C)
      BY <1>5, <3>2, <3>3 DEF st
    <3>4. CASE OnlyAdds(C) /\ ~OnlyDrops(C)
      <4>1. \A c \in C : c.op = "ADD CONSTRAINT"
        BY <2>3, <3>2, <3>4 DEF OnlyAdds, IsForeignAddLine, NoneMistaken
      <4>2. PICK c : c \in C
        BY <3>4 DEF OnlyDrops
      <4>3. Phase(st) = 2
        BY <1>1, <4>1, <4>2, GroupPhase
      <4> QED BY <2>4, <4>3
    <3> QED BY <3>2, <3>3, <3>4 DEF Uniform
  <2>6. CASE snap[t].type = "create"
    <3>1. Creating(t) /\ CreatesOf(t, snap[t].sql[j])
      BY <2>2, <2>3, <2>6, SnapshotGrouped, SnapshotSays DEF Orderly, Informed
    <3>2. /\ DOMAIN st.create.fks = {} /\ st.clauses \in Seq(C)
          /\ \A c \in C : c.op = "ADD CONSTRAINT"
      BY <2>2, <3>1 DEF Creating, CreatesOf
    <3>3. C = {}
      <4> SUFFICES ASSUME NEW c \in C PROVE FALSE
        OBVIOUS
      <4>1. Phase(st) = 2
        BY <1>1, <3>2, GroupPhase
      <4> QED BY <2>4, <4>1
    <3>4. st.clauses = <<>>
      BY <3>2, <3>3
    <3>5. After(dst, st)[t] = st.create
      BY <1>1, <1>2, <1>3, <3>4, AcceptedStatement DEF ProperStatement
    <3>6. DOMAIN dst'[t].fks = {}
      BY <1>3, <3>2, <3>5
    <3> QED BY <3>6 DEF Loses
  <2> QED BY <2>3, <2>5, <2>6
<1> QED BY <1>1, <1>6, <1>7

-----------------------------------------------------------------------------
(* Until the last phase, what is in the destination was read, and no       *)
(* statement that has been sent dropped it.                                *)

\* No text of the destination was cut in the middle of a comment: what comes after
\* the cut, the foreign keys among it, is not read.
NoneCut == \A t \in DOMAIN snap : snap[t].dst.rest = {}

Standing(t, k) ==
  /\ t \in DOMAIN snap /\ k \in DOMAIN snap[t].dst.fks /\ InPlace(t, k)
  /\ \A j \in items \ todo : j.stmt.table = t => DropForeign(k) \notin ToSet(j.stmt.clauses)

Cleared ==
  /\ NoneMistaken /\ NoneCut
  /\ cfg.sync /\ pc \in {"verify", "execute"} /\ failed = {}
  /\ \E i \in todo : i.phase < 2
  => \A t \in Tables : \A k \in DOMAIN dst[t].fks : Standing(t, k)

LEMMA ClearedInductive ==
  Orderly /\ DestKnown /\ Cleared /\ [Next]_vars /\ drift' = "none" => Cleared'
<1> SUFFICES ASSUME Orderly, DestKnown, Cleared, [Next]_vars, drift' = "none" PROVE Cleared'
  OBVIOUS
<1> USE DEF databases, reading, plan, progress, world
<1>0. UNCHANGED cfg /\ ~OutsideChange
  BY Undisturbed DEF Orderly
<1>1. CASE MakePlan
  <2> SUFFICES ASSUME NoneCut', NEW t \in Tables, NEW k \in DOMAIN dst'[t].fks
               PROVE  Standing(t, k)'
    BY DEF Cleared
  <2>1. /\ pc = "inspect" /\ errs = {} /\ queue = <<>> /\ UNCHANGED <<snap, dst>>
        /\ todo' = items'
    BY <1>1 DEF MakePlan
  <2>2. IsSchema(dst[t])
    BY DEF Orderly, Informed, Databases
  <2>3. Exists(dst[t])
    BY <2>1, <2>2, NoSchemaWellFormed DEF IsSchema
  <2>4. t \in DOMAIN snap /\ snap[t].dst = Parse(dst[t])
    BY <2>1, <2>3, ToSetEmpty DEF DestKnown
  <2>5. Parse(dst[t]).rest = {}
    BY <2>1, <2>4 DEF NoneCut
  <2>6. Parse(dst[t]).fks = dst[t].fks
    BY <2>2, <2>5, ParseWhole DEF IsSchema
  <2>7. k \in DOMAIN snap[t].dst.fks /\ dst[t].fks[k] = snap[t].dst.fks[k]
    BY <2>1, <2>4, <2>6
  <2> QED BY <2>1, <2>4, <2>7 DEF Standing, InPlace
<1>2. ASSUME NEW i \in todo, ExecuteItem(i) PROVE Cleared'
  <2> SUFFICES ASSUME NoneMistaken', NoneCut', cfg'.sync, failed' = {}, NEW e \in todo', e.phase < 2,
                      NEW t \in Tables, NEW k \in DOMAIN dst'[t].fks
               PROVE  Standing(t, k)'
    BY DEF Cleared
  <2>1. /\ UNCHANGED <<snap, items, failed, pc>> /\ todo' = todo \ {i} /\ IsNext(i) /\ pc = "execute"
    BY <1>2 DEF ExecuteItem, Passed, Sends
  <2>2. Executed(i)
    BY <1>0, <1>2 DEF ExecuteItem, Executed
  <2>3. i \in items /\ e \in items /\ e \in todo \ {i}
    BY <2>1 DEF Orderly, TypeOK
  <2>4. NoneMistaken /\ NoneCut
    BY <2>1 DEF NoneMistaken, NoneCut
  <2>5. \A u \in Tables : \A x \in DOMAIN dst[u].fks : Standing(u, x)
    BY <1>0, <2>1, <2>3, <2>4 DEF Cleared
  <2>6. i.phase < 2
    <3>1. i.phase \in 0..2 /\ e.phase \in 0..2
      BY <2>3, ItemPhase DEF Orderly, Informed
    <3>2. Precedes(i, e)
      BY <2>1, <2>3 DEF IsNext
    <3> QED BY <3>1, <3>2 DEF Precedes
  <2>7. PICK p : LawfulItem(i, p)
    BY <2>3, ItemLawful DEF Orderly, Informed
  <2>8. i.stmt.table = p
    BY <2>7 DEF LawfulItem
  <2>9. CASE t = p
    <3>1. Loses(dst[t], dst'[t], ToSet(i.stmt.clauses))
      BY <2>2, <2>3, <2>4, <2>6, <2>7, <2>9, EarlyOnlyRemoves
    <3>2. /\ k \in DOMAIN dst[t].fks /\ dst'[t].fks[k] = dst[t].fks[k]
          /\ DropForeign(k) \notin ToSet(i.stmt.clauses)
      BY <3>1 DEF Loses
    <3>3. Standing(t, k)
      BY <2>5, <3>2
    <3> QED BY <2>1, <3>2, <3>3 DEF Standing, InPlace
  <2>10. CASE t # p
    <3>1. dst'[t] = dst[t]
      BY <2>2, <2>7, <2>10, ExecutedOutcome DEF Orderly, Informed
    <3>2. Standing(t, k)
      BY <2>5, <3>1
    <3> QED BY <2>1, <2>8, <2>10, <3>1, <3>2 DEF Standing, InPlace
  <2> QED BY <2>9, <2>10
<1>3. CASE failed' # {}
  BY <1>3 DEF Cleared
<1>4. ASSUME NEW i \in todo, StatementFails(i) \/ SkipItem(i) PROVE Cleared'
  BY <1>3, <1>4 DEF StatementFails, SkipItem
<1>5. CASE ~cfg.sync
  BY <1>0, <1>5 DEF Cleared
<1>6. ASSUME NEW i \in todo, PreviewItem(i) PROVE Cleared'
  BY <1>5, <1>6 DEF PreviewItem
<1>7. CASE pc' \notin {"verify", "execute"}
  BY <1>7 DEF Cleared
<1>8. CASE ListTables \/ ListFails \/ QueryTable \/ QueryFails \/ GiveUp \/ RefusePlan
           \/ VerifyFails \/ EndExecution \/ EndRecheck \/ Crash \/ RunAgain
  BY <1>7, <1>8 DEF ListTables, ListFails, QueryTable, QueryFails, GiveUp, RefusePlan,
              VerifyFails, EndExecution, EndRecheck, Crash, RunAgain
<1>9. CASE VerifyTable \/ StartExecution \/ UNCHANGED vars
  <2>1. UNCHANGED <<cfg, dst, snap, items, todo, failed>> /\ (pc = "verify" \/ pc' = pc)
    BY <1>0, <1>9 DEF VerifyTable, StartExecution, vars
  <2> QED BY <2>1 DEF Cleared, Standing, InPlace, NoneMistaken, NoneCut
<1> QED BY <1>0, <1>1, <1>2, <1>4, <1>6, <1>8, <1>9 DEF Next, ToolStep, Stopped

-----------------------------------------------------------------------------
(* What a statement disturbs was named by the plan, or is detached; either *)
(* way something of the first phase takes it away.                         *)

LEMMA RemovedFirst ==
  ASSUME Orderly, items # {}, NEW t \in DOMAIN snap, NEW k \in DOMAIN snap[t].dst.fks,
         Affects(snap, snap[t].dst.fks[k].parent, snap[t].dst.fks[k].refs)
  PROVE  \E j \in items : /\ j.phase = 0 /\ j.stmt.table = t
                          /\ DropForeign(k) \in ToSet(j.stmt.clauses)
<1>1. ~Plan(cfg, snap).refused /\ items = Plan(cfg, snap).items
  BY DEF Orderly, Informed, Planned
<1>2. \/ <<t, k>> \in PlannedKeys(OwnItems(items))
      \/ \E j \in items : j.phase = 0 /\ j.stmt = Alter(t, <<DropForeign(k)>>)
  BY <1>1, PlanPhases
<1>3. CASE \E j \in items : j.phase = 0 /\ j.stmt = Alter(t, <<DropForeign(k)>>)
  <2>1. PICK j \in items : j.phase = 0 /\ j.stmt = Alter(t, <<DropForeign(k)>>)
    BY <1>3
  <2>2. j.stmt.table = t /\ j.stmt.clauses = <<DropForeign(k)>>
    BY <2>1 DEF Alter
  <2>3. ToSet(<<DropForeign(k)>>) = {DropForeign(k)}
    BY ToSetSingle
  <2> QED BY <2>1, <2>2, <2>3
<1>4. CASE <<t, k>> \in PlannedKeys(OwnItems(items))
  <2>1. PICK q \in OwnItems(items) :
          \E c \in ToSet(q.stmt.clauses) :
            /\ c.op \in {"DROP FOREIGN KEY", "ADD CONSTRAINT"}
            /\ <<t, k>> = <<q.stmt.table, c.constraint>>
    BY <1>4 DEF PlannedKeys
  <2>2. PICK c \in ToSet(q.stmt.clauses) :
            /\ AboutForeign(c) /\ c.constraint = k /\ q.stmt.table = t
    BY <2>1 DEF AboutForeign
  <2>3. q \in items /\ ~q.temporary
    BY DEF OwnItems
  <2>4. PICK p : LawfulItem(q, p)
    BY <2>3, ItemLawful DEF Orderly, Informed
  <2>5. OwnItem(q, t)
    BY <2>2, <2>3, <2>4 DEF LawfulItem, TemporaryItem
  <2>6. t \in Changes(snap) /\ \E n \in DOMAIN snap[t].sql : q.stmt = snap[t].sql[n]
    BY <2>5 DEF OwnItem
  <2>7. snap[t].type \in {"create", "alter"}
    BY <2>6 DEF Changes
  <2>8. snap[t].type # "create"
    BY SnapshotGrouped DEF Orderly, Informed, Creating
  <2>9. /\ Grouped(t)
        /\ \A n \in DOMAIN snap[t].sql : AltersOf(cfg, t, snap[t].sql[n])
    BY <2>7, <2>8, SnapshotGrouped, SnapshotSays DEF Orderly, Informed
  <2>10. PICK m \in DOMAIN snap[t].sql : DropForeign(k) \in ToSet(snap[t].sql[m].clauses)
    BY <2>2, <2>6, <2>9 DEF Grouped
  <2>11. t \in ToSet(OrderTableAlters(snap))
    BY <2>6, ChangesTables DEF Orderly, Shapes
  <2>12. PICK j \in items : ~j.temporary /\ j.stmt = snap[t].sql[m]
    BY <1>1, <2>11, PlanSays
  <2>13. /\ Uniform(ToSet(j.stmt.clauses)) /\ DropForeign(k) \in ToSet(j.stmt.clauses)
         /\ j.stmt.table = t /\ ProperStatement(j.stmt)
    BY <2>9, <2>10, <2>12 DEF Grouped, AltersOf
  <2>14. OnlyDrops(ToSet(j.stmt.clauses))
    <3>1. DropForeign(k).op = "DROP FOREIGN KEY"
      BY DEF DropForeign
    <3> QED BY <2>13, <3>1 DEF Uniform, OnlyOthers, OnlyAdds, IsForeignDropLine, IsForeignAddLine
  <2>15. j.phase = 0
    BY <2>12, <2>13, <2>14, GroupPhase, ItemPhase DEF Orderly, Informed
  <2> QED BY <2>13, <2>15
<1> QED BY <1>2, <1>3, <1>4

\* A statement that disturbs a constraint alters its table, in the middle phase.
LEMMA DisturbingItem ==
  ASSUME Orderly, NEW i \in items, NEW c \in ToSet(i.stmt.clauses), NEW fk,
         fk.parent = i.stmt.table, Disturbs(c, ToSet(fk.refs))
  PROVE  i.phase = 1 /\ Affects(snap, fk.parent, fk.refs)
<1> DEFINE p == i.stmt.table
<1>1. LawfulItem(i, p)
  BY ItemLawful DEF Orderly, Informed, LawfulItem
<1>2. c.op \in {"CHANGE", "MODIFY", "DROP COLUMN", "DROP INDEX", "REPLACE INDEX"}
  BY DEF Disturbs
<1> HIDE DEF p
<1>3. ASSUME TemporaryItem(i, p) PROVE FALSE
  <2>1. PICK k : Temporary(snap, i, p, k)
    BY <1>3 DEF TemporaryItem
  <2> DEFINE d1 == DropForeign(k)
             d2 == AddForeign(k, snap[p].src.fks[k])
  <2>2. d1.op = "DROP FOREIGN KEY" /\ d2.op = "ADD CONSTRAINT"
    BY DEF DropForeign, AddForeign
  <2>3. i.stmt = Alter(p, <<d1>>) \/ i.stmt = Alter(p, <<d2>>)
    BY <2>1 DEF Temporary
  <2> HIDE DEF d1, d2
  <2>4. i.stmt.clauses = <<d1>> \/ i.stmt.clauses = <<d2>>
    BY <2>3 DEF Alter
  <2>5. ToSet(<<d1>>) = {d1} /\ ToSet(<<d2>>) = {d2}
    BY ToSetSingle
  <2> QED BY <1>2, <2>2, <2>4, <2>5
<1>4. PICK j \in DOMAIN snap[p].sql : i.stmt = snap[p].sql[j]
  BY <1>1, <1>3 DEF LawfulItem, OwnItem
<1>5. ~i.temporary /\ p \in DOMAIN snap /\ snap[p].type \in {"create", "alter"} /\ ProperStatement(i.stmt)
  BY <1>1, <1>3 DEF LawfulItem, OwnItem, Changes
<1>6. snap[p].type = "alter"
  <2> SUFFICES ASSUME snap[p].type = "create" PROVE FALSE
    BY <1>5
  <2>1. CreatesOf(p, i.stmt)
    BY <1>4, <1>5, SnapshotSays DEF Orderly, Informed
  <2> QED BY <1>2, <2>1 DEF CreatesOf
<1>7. Uniform(ToSet(i.stmt.clauses))
  BY <1>4, <1>5, <1>6, SnapshotGrouped DEF Orderly, Informed, Grouped
<1>8. OnlyOthers(ToSet(i.stmt.clauses))
  BY <1>2, <1>7 DEF Uniform, OnlyDrops, OnlyAdds, IsForeignDropLine, IsForeignAddLine
<1>9. i.phase = 1
  BY <1>5, <1>8, GroupPhase, ItemPhase DEF Orderly, Informed
<1>10. c \in AlterClauses(snap[p])
  BY <1>4 DEF AlterClauses
<1>11. ImpactAll(c) \/ ImpactColumns(c) \cap ToSet(fk.refs) # {}
  BY DEF Disturbs, ImpactAll, ImpactColumns
<1>12. fk.parent = p
  BY DEF p
<1> QED BY <1>5, <1>6, <1>9, <1>10, <1>11, <1>12 DEF Affects

LEMMA WayClear ==
  ASSUME Orderly, drift = "none" => Cleared
  PROVE  NoneMistaken /\ NoneCut => NothingInTheWay
<1> SUFFICES ASSUME NoneMistaken, NoneCut, pc = "execute", cfg.sync, failed = {}, drift = "none",
                    NEW i \in todo, IsNext(i), NEW x \in Constraints(dst),
                    dst[x[1]].fks[x[2]].parent = i.stmt.table, NEW c \in ToSet(i.stmt.clauses),
                    Disturbs(c, ToSet(dst[x[1]].fks[x[2]].refs))
             PROVE  FALSE
  BY DEF NothingInTheWay
<1>1. PICK t \in DOMAIN dst : \E k \in DOMAIN dst[t].fks : x = <<t, k>>
  BY DEF Constraints
<1>2. PICK k \in DOMAIN dst[t].fks : x = <<t, k>>
  BY <1>1
<1> DEFINE fk == dst[t].fks[k]
<1>3. x[1] = t /\ x[2] = k
  BY <1>2
<1>4. fk.parent = i.stmt.table /\ Disturbs(c, ToSet(fk.refs))
  BY <1>3
<1>5. i \in items /\ t \in Tables
  BY DEF Orderly, TypeOK
<1> HIDE DEF fk
<1>6. i.phase = 1 /\ Affects(snap, fk.parent, fk.refs)
  BY <1>4, <1>5, DisturbingItem
<1>7. Standing(t, k)
  BY <1>5, <1>6 DEF Cleared
<1>8. t \in DOMAIN snap /\ k \in DOMAIN snap[t].dst.fks /\ snap[t].dst.fks[k] = fk
  BY <1>7 DEF Standing, InPlace, fk
<1>9. PICK j \in items : /\ j.phase = 0 /\ j.stmt.table = t
                         /\ DropForeign(k) \in ToSet(j.stmt.clauses)
  BY <1>5, <1>6, <1>8, RemovedFirst
<1>10. j \notin todo
  <2>1. i.phase = 1
    BY <1>6
  <2>2. j.phase = 0
    BY <1>9
  <2>3. j # i /\ ~Precedes(i, j)
    BY <2>1, <2>2 DEF Precedes
  <2>4. \A other \in todo \ {i} : Precedes(i, other)
    BY DEF IsNext
  <2> QED BY <2>3, <2>4
<1> QED BY <1>7, <1>9, <1>10 DEF Standing

LEMMA ClearedAlways == Spec => [](Orderly /\ (drift = "none" => SeenExactly /\ DestKnown /\ Cleared))
<1> DEFINE Inv == drift = "none" => SeenExactly /\ DestKnown /\ Cleared
<1>1. Init => Inv
  BY DEF Init, SeenExactly, DestKnown, Cleared
<1>2. Orderly /\ Inv /\ [Next]_vars => Inv'
  <2> SUFFICES ASSUME Orderly, Inv, [Next]_vars, drift' = "none"
               PROVE  SeenExactly' /\ DestKnown' /\ Cleared'
    OBVIOUS
  <2>1. drift = "none"
    BY Undisturbed DEF Orderly
  <2> QED BY <2>1, SeenInductive, DestKnownInductive, ClearedInductive
<1> HIDE DEF Inv
<1>3. Spec => []Inv
  BY <1>1, <1>2, OrderlyAlways, PTL DEF Spec
<1> QED BY <1>3, OrderlyAlways, PTL DEF Inv

\* When a statement is sent, no constraint is in place that it would disturb, in
\* whatever table and whatever the configuration leaves out: as long as no comment
\* makes the tool misread a text or misplace a clause (parentInboundImpact,
\* addInboundForeignKeyItems, ddlExecutionPhase).
THEOREM WayIsClear == Spec => [](NoneMistaken /\ NoneCut => NothingInTheWay)
<1>1. Orderly /\ (drift = "none" => SeenExactly /\ DestKnown /\ Cleared) =>
        (NoneMistaken /\ NoneCut => NothingInTheWay)
  BY WayClear
<1> QED BY <1>1, ClearedAlways, PTL

-----------------------------------------------------------------------------
(* What a plan is made from.  The source half of what DestKnown says of the *)
(* destination: each of its tables in scope is still to be read, or known.  *)

SourceKnown ==
  pc = "inspect" /\ errs = {} =>
    \A t \in Tables : Relevant(t) =>
      t \in ToSet(queue) \/ (t \in DOMAIN snap /\ snap[t].src = Parse(src[t]))

LEMMA SourceKnownInductive ==
  Orderly /\ ReadExactly /\ SourceKnown /\ [Next]_vars /\ drift' = "none" => SourceKnown'
<1> SUFFICES ASSUME Orderly, ReadExactly, SourceKnown, [Next]_vars, drift' = "none"
             PROVE  SourceKnown'
  OBVIOUS
<1> USE DEF databases, reading, plan, progress, world
<1>0. UNCHANGED <<cfg, src>> /\ ~OutsideChange
  BY Undisturbed DEF Orderly
<1>1. CASE ListTables
  <2> DEFINE there == {t \in Tables : Exists(src[t]) \/ Exists(dst[t])}
  <2>1. there \in SUBSET Nat /\ IsFiniteSet(there)
    BY ConstantsAssumption, FS_Subset DEF ConstantsAssumption
  <2>2. queue' = InOrder(there)
    BY <1>1 DEF ListTables, StartQueue
  <2>3. \A t \in Tables : Relevant(t)' => t \in there
    BY <1>0 DEF Relevant
  <2> HIDE DEF there
  <2>4. ToSet(InOrder(there)) = there
    BY <2>1, InOrderMembers
  <2> QED BY <2>2, <2>3, <2>4 DEF SourceKnown
<1>2. CASE QueryTable
  <2> DEFINE u == Head(queue)
             r == Answer(u, rd, call)
             next == NextCall(u, r, call)
             data == AlterData(cfg, u, r)
             rest == Tail(queue)
  <2>1. /\ pc \in {"inspect", "recheck"} /\ queue # <<>> /\ pc' = pc
        /\ \/ UNCHANGED <<queue, snap, errs>>
           \/ /\ queue' = rest /\ next \notin DOMAIN Calls
              /\ snap' = IF pc = "inspect" /\ (InScope(cfg, u) \/ r.hasD)
                         THEN With(snap, u, data) ELSE snap
              /\ pc = "inspect" => errs' = errs
    BY <1>2 DEF QueryTable, StartQueue
  <2>2. CASE UNCHANGED <<queue, snap, errs>>
    BY <1>0, <2>1, <2>2 DEF SourceKnown, Relevant
  <2>3. CASE pc = "inspect" /\ queue' = rest /\ errs' = errs /\ next \notin DOMAIN Calls
             /\ snap' = IF InScope(cfg, u) \/ r.hasD THEN With(snap, u, data) ELSE snap
    <3>1. ToSet(queue) = {u} \cup ToSet(rest)
      BY <2>1, ToSetHeadTail DEF Orderly, Shapes
    <3>2. Relevant(u) => GoodReading(cfg, u, r) /\ next = 7 /\ Told(src[u], dst[u], next, r)
      BY <2>1, <2>3, AllTold
    <3>3. Relevant(u) => r.src = src[u]
      BY <3>2 DEF Told
    <3>4. Relevant(u) => data.src = Parse(r.src)
      BY <3>2, AlterDataSays DEF GoodReading
    <3> HIDE DEF r, rest, u, next, data
    <3>5. Relevant(u) => u \in DOMAIN snap' /\ snap'[u].src = Parse(src[u])
      BY <2>3, <3>3, <3>4 DEF With, Relevant
    <3>6. \A t \in DOMAIN snap : t # u => t \in DOMAIN snap' /\ snap'[t] = snap[t]
      BY <2>3 DEF With
    <3>7. ASSUME errs = {}, NEW t \in Tables, Relevant(t)
          PROVE  t \in ToSet(queue') \/ (t \in DOMAIN snap' /\ snap'[t].src = Parse(src[t]))
      <4>1. t \in ToSet(queue) \/ (t \in DOMAIN snap /\ snap[t].src = Parse(src[t]))
        BY <2>3, <3>7 DEF SourceKnown
      <4> QED BY <2>3, <3>1, <3>5, <3>6, <3>7, <4>1
    <3>8. \A t : Relevant(t)' <=> Relevant(t)
      BY <1>0 DEF Relevant
    <3> QED BY <1>0, <2>1, <2>3, <3>7, <3>8 DEF SourceKnown
  <2>4. CASE pc = "recheck"
    BY <2>1, <2>4 DEF SourceKnown
  <2> QED BY <2>1, <2>2, <2>3, <2>4
<1>3. CASE QueryFails
  <2>1. errs' # {}
    BY <1>3 DEF QueryFails
  <2> QED BY <2>1 DEF SourceKnown
<1>4. CASE pc' # "inspect"
  BY <1>4 DEF SourceKnown
<1>5. CASE ListFails \/ GiveUp \/ RefusePlan \/ MakePlan \/ VerifyTable \/ VerifyFails
           \/ StartExecution \/ EndExecution \/ EndRecheck \/ Crash \/ RunAgain
  BY <1>4, <1>5 DEF ListFails, GiveUp, RefusePlan, MakePlan, VerifyTable, VerifyFails,
              StartExecution, EndExecution, EndRecheck, Crash, RunAgain
<1>6. ASSUME NEW i \in todo, PreviewItem(i) \/ SkipItem(i) \/ ExecuteItem(i) \/ StatementFails(i)
      PROVE  SourceKnown'
  BY <1>4, <1>6 DEF PreviewItem, SkipItem, ExecuteItem, StatementFails, Sends
<1>7. CASE UNCHANGED vars
  BY <1>7 DEF vars, SourceKnown, Relevant
<1> QED BY <1>0, <1>1, <1>2, <1>3, <1>5, <1>6, <1>7 DEF Next, ToolStep, Stopped

\* Planning finds nothing left to read; from then on, the first statement makes
\* the claim void, and nothing before it changes what it speaks of.
LEMMA PlanKnowsInductive ==
  Orderly /\ DestKnown /\ SourceKnown /\ PlanFromAllTables /\ [Next]_vars /\ drift' = "none" =>
    PlanFromAllTables'
<1> SUFFICES ASSUME Orderly, DestKnown, SourceKnown, PlanFromAllTables, [Next]_vars, drift' = "none"
             PROVE  PlanFromAllTables'
  OBVIOUS
<1> USE DEF databases, reading, plan, progress, world
<1>0. UNCHANGED cfg /\ ~OutsideChange /\ drift = "none"
  BY Undisturbed DEF Orderly
<1>1. CASE MakePlan
  <2>1. pc = "inspect" /\ queue = <<>> /\ errs = {} /\ UNCHANGED <<src, dst, snap>>
    BY <1>1 DEF MakePlan
  <2>2. ToSet(queue) = {}
    BY <2>1, ToSetEmpty
  <2>3. \A t \in Tables : Exists(dst[t]) => t \in DOMAIN snap /\ snap[t].dst = Parse(dst[t])
    BY <2>1, <2>2 DEF DestKnown
  <2>4. \A t \in Tables : Exists(src[t]) /\ InScope(cfg, t) =>
          t \in DOMAIN snap /\ snap[t].src = Parse(src[t])
    BY <2>1, <2>2 DEF SourceKnown, Relevant
  <2> QED BY <1>0, <2>1, <2>3, <2>4 DEF PlanFromAllTables
<1>2. CASE VerifyTable \/ StartExecution \/ UNCHANGED vars
  <2>1. /\ UNCHANGED <<src, dst, snap, items, todo, drift>>
        /\ pc' \in {"verify", "execute"} => pc \in {"verify", "execute"}
    BY <1>2 DEF VerifyTable, StartExecution, vars
  <2> QED BY <1>0, <2>1 DEF PlanFromAllTables
<1>3. ASSUME NEW i \in todo, PreviewItem(i) \/ SkipItem(i) \/ ExecuteItem(i) \/ StatementFails(i)
      PROVE  PlanFromAllTables'
  <2>1. items' = items /\ todo' = todo \ {i}
    BY <1>3 DEF PreviewItem, SkipItem, ExecuteItem, StatementFails, Passed
  <2>2. i \in items
    BY DEF Orderly, TypeOK
  <2>3. todo' # items'
    BY <2>1, <2>2
  <2> QED BY <2>3 DEF PlanFromAllTables
<1>4. CASE pc' \notin {"verify", "execute"}
  BY <1>4 DEF PlanFromAllTables
<1>5. CASE ListTables \/ ListFails \/ QueryTable \/ QueryFails \/ GiveUp \/ RefusePlan
           \/ VerifyFails \/ EndExecution \/ EndRecheck \/ Crash \/ RunAgain
  BY <1>4, <1>5 DEF ListTables, ListFails, QueryTable, QueryFails, GiveUp, RefusePlan,
              VerifyFails, EndExecution, EndRecheck, Crash, RunAgain
<1> QED BY <1>0, <1>1, <1>2, <1>3, <1>5 DEF Next, ToolStep, Stopped

\* A plan is never made from an incomplete snapshot: whichever queries failed, a plan
\* that is verified or executed knows every table of the destination and every table of
\* the source in scope, as they are (Execute's inspection loop and its early return).
THEOREM PlansKnowAll == Spec => []PlanFromAllTables
<1> DEFINE Inv == drift = "none" => SourceKnown /\ PlanFromAllTables
           Reads == drift = "none" => ReadExactly /\ DestKnown
<1>1. Init => Inv
  BY DEF Init, SourceKnown, PlanFromAllTables
<1>2. Orderly /\ Reads /\ Inv /\ [Next]_vars => Inv'
  <2> SUFFICES ASSUME Orderly, Reads, Inv, [Next]_vars, drift' = "none"
               PROVE  SourceKnown' /\ PlanFromAllTables'
    OBVIOUS
  <2>1. drift = "none"
    BY Undisturbed DEF Orderly
  <2> QED BY <2>1, SourceKnownInductive, PlanKnowsInductive
<1>3. Converging /\ (drift = "none" => SeenExactly /\ DestKnown /\ Cleared) => Reads
  BY DEF Converging
<1>4. Inv => PlanFromAllTables
  BY DEF PlanFromAllTables
<1> HIDE DEF Inv, Reads
<1>5. Spec => [](Orderly /\ Reads)
  BY <1>3, ConvergingAlways, ClearedAlways, PTL
<1> QED BY <1>1, <1>2, <1>4, <1>5, PTL DEF Spec
=============================================================================
