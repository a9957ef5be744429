----------------------------- MODULE DiffProofs -----------------------------
(***************************************************************************)
(* Proofs about the operators of SchemaDiff, DestServer and ExecutionPlan: *)
(* what one clause, one statement does to a table and what it leaves       *)
(* alone, which clauses a comparison yields, which statements a plan has.  *)
(***************************************************************************)
EXTENDS ExecutionPlan, DestServer, SequenceFacts, TLAPS

-----------------------------------------------------------------------------
(* The columns, index names and constraints of a table, and which of them  *)
(* a clause names.                                                         *)

Called(s, n) == {c \in ToSet(s.cols) : c.name = n}

TouchedColumns(c) ==
  IF c.op \in {"ADD", "CHANGE", "MODIFY"} THEN {c.col.name}
  ELSE IF c.op = "DROP COLUMN" THEN {c.name} ELSE {}

TouchedForeign(c) ==
  IF c.op \in {"DROP FOREIGN KEY", "ADD CONSTRAINT"} THEN {c.constraint} ELSE {}

AboutColumns(c) == c.op \in {"ADD", "CHANGE", "MODIFY"}
AboutIndexes(c) == c.op \in {"DROP INDEX", "REPLACE INDEX", "ADD INDEX"}
AboutForeign(c) == c.op \in {"DROP FOREIGN KEY", "ADD CONSTRAINT"}
DropsColumn(c) == c.op = "DROP COLUMN"

ProperClause(c) ==
  /\ c.op \in {"ADD", "CHANGE", "MODIFY"} => DOMAIN c.col = ColumnFields

LEMMA DropColMembers ==
  ASSUME NEW S, NEW cols \in Seq(S), NEW n
  PROVE  /\ DropCol(cols, n) \in Seq(S)
         /\ \A d : d \in ToSet(DropCol(cols, n)) <=> d \in ToSet(cols) /\ d.name # n
<1> DEFINE P == {c \in S : c.name # n}
<1>1. DropCol(cols, n) = Selected(cols, P)
  BY DEF DropCol, Only, Selected
<1>2. ToSet(cols) \subseteq S
  BY ToSetSeq
<1>3. \A d : d \in ToSet(cols) \cap P <=> d \in ToSet(cols) /\ d.name # n
  BY <1>2
<1> HIDE DEF P
<1>4. DropCol(cols, n) \in Seq(S) /\ ToSet(DropCol(cols, n)) = ToSet(cols) \cap P
  BY <1>1, SelectedMembers
<1> QED BY <1>3, <1>4

LEMMA PutAfterMembers ==
  ASSUME NEW S, NEW cols \in Seq(S), NEW c \in S, NEW after,
         after = AtFront \/ \E d \in ToSet(cols) : d.name = after
  PROVE  /\ PutAfter(cols, after, c) \in Seq(S)
         /\ ToSet(PutAfter(cols, after, c)) = ToSet(cols) \cup {c}
<1> DEFINE at == IF after = AtFront THEN 0 ELSE CHOOSE i \in DOMAIN cols : cols[i].name = after
<1>1. at \in 0..Len(cols)
  <2>1. DOMAIN cols = 1..Len(cols) /\ Len(cols) \in Nat
    OBVIOUS
  <2>2. CASE after = AtFront
    BY <2>1, <2>2
  <2>3. CASE after # AtFront
    <3>1. \E i \in DOMAIN cols : cols[i].name = after
      BY <2>3 DEF ToSet
    <3> QED BY <2>1, <2>3, <3>1
  <2> QED BY <2>2, <2>3
<1>2. PutAfter(cols, after, c) = InsertAt(cols, at + 1, c)
  BY DEF PutAfter
<1> HIDE DEF at
<1>3. at + 1 \in 1..(Len(cols) + 1)
  BY <1>1
<1> QED BY <1>2, <1>3, InsertAtMembers

LEMMA ReplacedMembers ==
  ASSUME NEW S, NEW cols \in Seq(S), NEW p \in DOMAIN cols, NEW c \in S
  PROVE  /\ [cols EXCEPT ![p] = c] \in Seq(S)
         /\ ToSet([cols EXCEPT ![p] = c]) \subseteq ToSet(cols) \cup {c}
         /\ c \in ToSet([cols EXCEPT ![p] = c])
         /\ \A d \in ToSet(cols) \ {cols[p]} : d \in ToSet([cols EXCEPT ![p] = c])
<1> DEFINE u == [cols EXCEPT ![p] = c]
<1>1. u \in Seq(S) /\ DOMAIN u = DOMAIN cols
  OBVIOUS
<1>2. u[p] = c /\ \A i \in DOMAIN cols \ {p} : u[i] = cols[i]
  OBVIOUS
<1> HIDE DEF u
<1> QED BY <1>1, <1>2 DEF ToSet, u

LEMMA ColumnNames ==
  ASSUME NEW s
  PROVE  ColNames(s) = {c.name : c \in ToSet(s.cols)}
BY DEF ColNames, ToSet

-----------------------------------------------------------------------------
(* One clause.                                                             *)

\* What a table s and the table u that clause c makes of it have in common.
Keeps(s, u, c) ==
  /\ WellFormed(u)
  /\ \A n : n \notin TouchedColumns(c) => Called(u, n) = Called(s, n)
  /\ c.op # "DROP COLUMN" => ColNames(s) \subseteq ColNames(u)
  /\ c.op \notin {"DROP COLUMN", "DROP INDEX"} => IndexNames(s) \subseteq IndexNames(u)
  /\ \A k : k \notin TouchedForeign(c) =>
       (k \in DOMAIN s.fks <=> k \in DOMAIN u.fks) /\ (k \in DOMAIN s.fks => u.fks[k] = s.fks[k])

LEMMA WithFinite ==
  ASSUME NEW f, NEW n, NEW v, IsFiniteSet(DOMAIN f)
  PROVE  IsFiniteSet(DOMAIN With(f, n, v)) /\ DOMAIN With(f, n, v) = DOMAIN f \cup {n}
<1>1. DOMAIN With(f, n, v) = DOMAIN f \cup {n}
  BY DEF With
<1>2. IsFiniteSet(DOMAIN f \cup {n})
  BY FS_AddElement
<1> QED BY <1>1, <1>2

LEMMA WithoutFinite ==
  ASSUME NEW f, NEW n, IsFiniteSet(DOMAIN f)
  PROVE  IsFiniteSet(DOMAIN Without(f, n)) /\ DOMAIN Without(f, n) = DOMAIN f \ {n}
<1>1. DOMAIN Without(f, n) = DOMAIN f \ {n}
  BY DEF Without
<1>2. IsFiniteSet(DOMAIN f \ {n})
  BY FS_RemoveElement
<1> QED BY <1>1, <1>2

LEMMA StoredColumn ==
  ASSUME NEW s, NEW c, DOMAIN c = ColumnFields
  PROVE  DOMAIN Stored(s, c) = ColumnFields /\ Stored(s, c).name = c.name
BY DEF Stored, ColumnFields

\* A clause about columns: what it leaves of the other parts.
LEMMA ColumnClauseKeeps ==
  ASSUME NEW db, NEW t, NEW s, NEW c, WellFormed(s), ProperClause(c), Applicable(db, t, s, c),
         AboutColumns(c)
  PROVE  Keeps(s, Changed(s, c), c)
<1> USE DEF AboutColumns
<1> DEFINE new == Stored(s, c.col)
           S == ToSet(s.cols) \cup {new}
           u == Changed(s, c)
           n == c.col.name
           p == Position(s, n)
<1>1. DOMAIN new = ColumnFields /\ new.name = n
  BY StoredColumn DEF ProperClause
<1>2. s.cols \in Seq(S) /\ new \in S
  <2>1. s.cols \in Seq(ToSet(s.cols))
    BY DEF WellFormed
  <2> HIDE DEF new
  <2> QED BY <2>1, SeqMonotonic
<1>3. \E cols : /\ u = [s EXCEPT !.cols = cols]
                /\ cols \in Seq(S)
                /\ new \in ToSet(cols)
                /\ \A d \in ToSet(s.cols) : d.name # n => d \in ToSet(cols)
  <2>1. CASE c.op = "ADD"
    <3> DEFINE cols == PutAfter(s.cols, c.after, new)
    <3>1. u = [s EXCEPT !.cols = cols]
      BY <2>1 DEF Changed
    <3>2. c.after = AtFront \/ \E d \in ToSet(s.cols) : d.name = c.after
      BY <2>1 DEF Applicable, Anchored, ColNames, ToSet
    <3> HIDE DEF new, S, u
    <3>3. cols \in Seq(S) /\ ToSet(cols) = ToSet(s.cols) \cup {new}
      BY <1>2, <3>2, PutAfterMembers
    <3> QED BY <3>1, <3>3
  <2>2. CASE c.op = "CHANGE"
    <3> DEFINE cols == [s.cols EXCEPT ![p] = new]
    <3>1. u = [s EXCEPT !.cols = cols]
      BY <2>2 DEF Changed, WellFormed
    <3>2. p \in DOMAIN s.cols /\ s.cols[p].name = n
      <4>1. n \in ColNames(s)
        BY <2>2 DEF Applicable
      <4>2. \E i \in DOMAIN s.cols : s.cols[i].name = n
        BY <4>1 DEF ColNames
      <4> QED BY <4>2 DEF Position
    <3> HIDE DEF new, S, u, p
    <3>3. /\ cols \in Seq(S) /\ new \in ToSet(cols)
          /\ \A d \in ToSet(s.cols) \ {s.cols[p]} : d \in ToSet(cols)
      BY <1>2, <3>2, ReplacedMembers
    <3> HIDE DEF cols
    <3> QED BY <3>1, <3>2, <3>3
  <2>3. CASE c.op = "MODIFY"
    <3> DEFINE others == DropCol(s.cols, n)
               cols == PutAfter(others, c.after, new)
    <3>1. u = [s EXCEPT !.cols = cols]
      BY <2>3 DEF Changed
    <3>2. others \in Seq(S) /\ \A d : d \in ToSet(others) <=> d \in ToSet(s.cols) /\ d.name # n
      <4> HIDE DEF S
      <4> QED BY <1>2, DropColMembers
    <3>3. c.after = AtFront \/ \E d \in ToSet(others) : d.name = c.after
      <4>1. c.after = AtFront \/ (c.after \in ColNames(s) /\ c.after # n)
        BY <2>3 DEF Applicable, Anchored
      <4>2. c.after \in ColNames(s) => \E d \in ToSet(s.cols) : d.name = c.after
        BY DEF ColNames, ToSet
      <4> QED BY <4>1, <4>2, <3>2
    <3> HIDE DEF new, S, u, others
    <3>4. cols \in Seq(S) /\ ToSet(cols) = ToSet(others) \cup {new}
      BY <1>2, <3>2, <3>3, PutAfterMembers
    <3> QED BY <3>1, <3>2, <3>4
  <2> QED BY <2>1, <2>2, <2>3
<1>4. PICK cols : /\ u = [s EXCEPT !.cols = cols]
                  /\ cols \in Seq(S)
                  /\ new \in ToSet(cols)
                  /\ \A d \in ToSet(s.cols) : d.name # n => d \in ToSet(cols)
  BY <1>3
<1> HIDE DEF new, u, p
<1>5. /\ u.cols = cols /\ u.idx = s.idx /\ u.checks = s.checks /\ u.fks = s.fks
      /\ DOMAIN u = DOMAIN s
  BY <1>4 DEF WellFormed
<1>6. ToSet(cols) \subseteq ToSet(s.cols) \cup {new}
  BY <1>4, ToSetSeq
<1>7. cols \in Seq(ToSet(cols))
  BY <1>4, SeqOwn
<1>8. WellFormed(u)
  <2>1. \A d \in ToSet(cols) : DOMAIN d = ColumnFields
    BY <1>1, <1>6 DEF WellFormed
  <2>2. \A f \in {"idx", "checks", "fks"} : u[f] = s[f]
    BY <1>5
  <2> QED BY <1>5, <1>7, <2>1, <2>2 DEF WellFormed
<1>9. \A m : m \notin TouchedColumns(c) => Called(u, m) = Called(s, m)
  <2>1. TouchedColumns(c) = {n}
    BY DEF TouchedColumns
  <2> QED BY <2>1, <1>1, <1>4, <1>5, <1>6 DEF Called
<1>10. ColNames(s) \subseteq ColNames(u)
  <2>1. \A d \in ToSet(s.cols) : \E e \in ToSet(cols) : e.name = d.name
    BY <1>1, <1>4
  <2> QED BY <2>1, <1>5, ColumnNames
<1>11. IndexNames(s) = IndexNames(u)
  BY <1>5 DEF IndexNames
<1> QED BY <1>5, <1>8, <1>9, <1>10, <1>11 DEF Keeps, u

LEMMA DropFromFinite ==
  ASSUME NEW f, NEW n, IsFiniteSet(DOMAIN f)
  PROVE  IsFiniteSet(DOMAIN DropFromIndexes(f, n)) /\ IsFiniteSet(DOMAIN DropFromChecks(f, n))
<1>1. DOMAIN DropFromIndexes(f, n) \subseteq DOMAIN f
  BY DEF DropFromIndexes
<1>2. DOMAIN DropFromChecks(f, n) \subseteq DOMAIN f
  BY DEF DropFromChecks
<1> QED BY <1>1, <1>2, FS_Subset

\* A clause about indexes or CHECKs.
LEMMA IndexClauseKeeps ==
  ASSUME NEW s, NEW c, WellFormed(s), AboutIndexes(c)
  PROVE  Keeps(s, Changed(s, c), c)
<1> USE DEF AboutIndexes
<1> DEFINE u == Changed(s, c)
           old == Namespace(c.kind)
           new == Namespace(c.index.kind)
<1>1. old \in {"idx", "checks"} /\ new \in {"idx", "checks"}
  BY DEF Namespace
<1>2. DOMAIN s = {"cols", "charset", "idx", "checks", "fks"}
  BY DEF WellFormed
<1>f. IsFiniteSet(DOMAIN s.idx) /\ IsFiniteSet(DOMAIN s.checks) /\ IsFiniteSet(DOMAIN s.fks)
  BY DEF WellFormed
<1>3. CASE c.op = "DROP INDEX"
  <2>1. u = [s EXCEPT ![old] = Without(s[old], c.name)]
    BY <1>3 DEF Changed
  <2>2. u.cols = s.cols /\ u.fks = s.fks /\ DOMAIN u = DOMAIN s
    BY <1>1, <1>2, <2>1
  <2>3. /\ u.idx = s.idx \/ u.idx = Without(s.idx, c.name)
        /\ u.checks = s.checks \/ u.checks = Without(s.checks, c.name)
    BY <1>1, <1>2, <2>1
  <2> HIDE DEF u
  <2>4. IsFiniteSet(DOMAIN u.idx) /\ IsFiniteSet(DOMAIN u.checks)
    BY <1>f, <2>3, WithoutFinite
  <2>5. WellFormed(u)
    BY <1>f, <2>2, <2>4 DEF WellFormed
  <2>6. Keeps(s, u, c)
    BY <1>3, <2>2, <2>5 DEF Keeps, Called, ColNames, TouchedForeign
  <2> QED BY <2>6 DEF u
<1>4. CASE c.op = "REPLACE INDEX"
  <2> DEFINE v == [s EXCEPT ![old] = Without(s[old], c.name)]
  <2>1. u = [v EXCEPT ![new] = With(v[new], c.name, c.index)]
    BY <1>4 DEF Changed
  <2>2. v.cols = s.cols /\ v.fks = s.fks /\ DOMAIN v = DOMAIN s
    BY <1>1, <1>2
  <2>3. /\ v.idx = s.idx \/ v.idx = Without(s.idx, c.name)
        /\ v.checks = s.checks \/ v.checks = Without(s.checks, c.name)
    BY <1>1, <1>2
  <2>4. IsFiniteSet(DOMAIN v.idx) /\ IsFiniteSet(DOMAIN v.checks)
    <3> HIDE DEF v
    <3> QED BY <1>f, <2>3, WithoutFinite
  <2>5. IndexNames(s) \ {c.name} \subseteq IndexNames(v)
    <3> HIDE DEF v
    <3>1. DOMAIN Without(s.idx, c.name) = DOMAIN s.idx \ {c.name}
      BY <1>f, WithoutFinite
    <3>2. DOMAIN Without(s.checks, c.name) = DOMAIN s.checks \ {c.name}
      BY <1>f, WithoutFinite
    <3> QED BY <2>3, <3>1, <3>2 DEF IndexNames
  <2> HIDE DEF v
  <2>6. u.cols = v.cols /\ u.fks = v.fks /\ DOMAIN u = DOMAIN v
    BY <1>1, <1>2, <2>1, <2>2
  <2>7. \/ u.idx = With(v.idx, c.name, c.index) /\ u.checks = v.checks
        \/ u.checks = With(v.checks, c.name, c.index) /\ u.idx = v.idx
    BY <1>1, <1>2, <2>1, <2>2
  <2> HIDE DEF u
  <2>8. /\ IsFiniteSet(DOMAIN u.idx) /\ IsFiniteSet(DOMAIN u.checks)
        /\ IndexNames(u) = IndexNames(v) \cup {c.name}
    <3>1. /\ IsFiniteSet(DOMAIN With(v.idx, c.name, c.index))
          /\ DOMAIN With(v.idx, c.name, c.index) = DOMAIN v.idx \cup {c.name}
      BY <2>4, WithFinite
    <3>2. /\ IsFiniteSet(DOMAIN With(v.checks, c.name, c.index))
          /\ DOMAIN With(v.checks, c.name, c.index) = DOMAIN v.checks \cup {c.name}
      BY <2>4, WithFinite
    <3> QED BY <2>4, <2>7, <3>1, <3>2 DEF IndexNames
  <2>9. WellFormed(u)
    BY <1>f, <2>2, <2>6, <2>8 DEF WellFormed
  <2>10. Keeps(s, u, c)
    BY <1>4, <2>2, <2>5, <2>6, <2>8, <2>9 DEF Keeps, Called, ColNames, TouchedForeign
  <2> QED BY <2>10 DEF u
<1>5. CASE c.op = "ADD INDEX"
  <2>1. u = [s EXCEPT ![new] = With(s[new], c.name, c.index)]
    BY <1>5 DEF Changed
  <2>2. u.cols = s.cols /\ u.fks = s.fks /\ DOMAIN u = DOMAIN s
    BY <1>1, <1>2, <2>1
  <2>3. \/ u.idx = With(s.idx, c.name, c.index) /\ u.checks = s.checks
        \/ u.checks = With(s.checks, c.name, c.index) /\ u.idx = s.idx
    BY <1>1, <1>2, <2>1
  <2> HIDE DEF u
  <2>4. /\ IsFiniteSet(DOMAIN u.idx) /\ IsFiniteSet(DOMAIN u.checks)
        /\ IndexNames(s) \subseteq IndexNames(u)
    <3>1. /\ IsFiniteSet(DOMAIN With(s.idx, c.name, c.index))
          /\ DOMAIN With(s.idx, c.name, c.index) = DOMAIN s.idx \cup {c.name}
      BY <1>f, WithFinite
    <3>2. /\ IsFiniteSet(DOMAIN With(s.checks, c.name, c.index))
          /\ DOMAIN With(s.checks, c.name, c.index) = DOMAIN s.checks \cup {c.name}
      BY <1>f, WithFinite
    <3> QED BY <1>f, <2>3, <3>1, <3>2 DEF IndexNames
  <2>5. WellFormed(u)
    BY <1>f, <2>2, <2>4 DEF WellFormed
  <2>6. Keeps(s, u, c)
    BY <1>5, <2>2, <2>4, <2>5 DEF Keeps, Called, ColNames, TouchedForeign
  <2> QED BY <2>6 DEF u
<1> QED BY <1>3, <1>4, <1>5

\* A clause that drops a column.
LEMMA DropColumnKeeps ==
  ASSUME NEW s, NEW c, WellFormed(s), DropsColumn(c)
  PROVE  Keeps(s, Changed(s, c), c)
<1> USE DEF DropsColumn
<1> DEFINE u == Changed(s, c)
           cols == DropCol(s.cols, c.name)
           S == ToSet(s.cols)
<1>1. u = [s EXCEPT !.cols = cols, !.idx = DropFromIndexes(s.idx, c.name),
                    !.checks = DropFromChecks(s.checks, c.name)]
  BY DEF Changed, WellFormed
<1>2. s.cols \in Seq(S)
  BY DEF WellFormed
<1> HIDE DEF S
<1>3. cols \in Seq(S) /\ \A d : d \in ToSet(cols) <=> d \in ToSet(s.cols) /\ d.name # c.name
  BY <1>2, DropColMembers
<1>4. /\ u.cols = cols /\ u.fks = s.fks /\ DOMAIN u = DOMAIN s
      /\ u.idx = DropFromIndexes(s.idx, c.name) /\ u.checks = DropFromChecks(s.checks, c.name)
  BY <1>1 DEF WellFormed
<1> HIDE DEF u, cols
<1>5. cols \in Seq(ToSet(cols))
  BY <1>3, SeqOwn
<1>6. IsFiniteSet(DOMAIN u.idx) /\ IsFiniteSet(DOMAIN u.checks)
  BY <1>4, DropFromFinite DEF WellFormed
<1>7. WellFormed(u)
  BY <1>3, <1>4, <1>5, <1>6 DEF WellFormed
<1>8. \A m : m \notin TouchedColumns(c) => Called(u, m) = Called(s, m)
  BY <1>3, <1>4 DEF TouchedColumns, Called
<1>9. Keeps(s, u, c)
  BY <1>4, <1>7, <1>8 DEF Keeps
<1> QED BY <1>9 DEF u

\* A clause about a foreign key.
LEMMA ForeignClauseKeeps ==
  ASSUME NEW s, NEW c, WellFormed(s), AboutForeign(c)
  PROVE  Keeps(s, Changed(s, c), c)
<1> USE DEF AboutForeign
<1> DEFINE u == Changed(s, c)
           k == c.constraint
           idx == ForeignIndexed(s, k, c.fk)
<1>f. IsFiniteSet(DOMAIN s.idx) /\ IsFiniteSet(DOMAIN s.checks) /\ IsFiniteSet(DOMAIN s.fks)
  BY DEF WellFormed
<1>1. CASE c.op = "DROP FOREIGN KEY"
  <2>1. u = [s EXCEPT !.fks = Without(s.fks, k)]
    BY <1>1 DEF Changed, WellFormed
  <2>2. /\ u.cols = s.cols /\ u.idx = s.idx /\ u.checks = s.checks /\ DOMAIN u = DOMAIN s
        /\ u.fks = Without(s.fks, k)
    BY <2>1 DEF WellFormed
  <2> HIDE DEF u
  <2>3. IsFiniteSet(DOMAIN u.fks)
    BY <1>f, <2>2, WithoutFinite
  <2>4. WellFormed(u)
    BY <1>f, <2>2, <2>3 DEF WellFormed
  <2>5. \A x : x # k => (x \in DOMAIN s.fks <=> x \in DOMAIN u.fks)
                      /\ (x \in DOMAIN s.fks => u.fks[x] = s.fks[x])
    BY <2>2 DEF Without
  <2>6. Keeps(s, u, c)
    BY <1>1, <2>2, <2>4, <2>5 DEF Keeps, Called, ColNames, TouchedForeign, IndexNames
  <2> QED BY <2>6 DEF u
<1>2. CASE c.op = "ADD CONSTRAINT"
  <2>1. u = [s EXCEPT !.fks = With(s.fks, k, c.fk), !.idx = idx]
    BY <1>2 DEF Changed, WellFormed
  <2>2. /\ u.cols = s.cols /\ u.idx = idx /\ u.checks = s.checks /\ DOMAIN u = DOMAIN s
        /\ u.fks = With(s.fks, k, c.fk)
    <3> HIDE DEF idx
    <3> QED BY <2>1 DEF WellFormed
  <2> HIDE DEF u
  <2>3. IsFiniteSet(DOMAIN idx) /\ DOMAIN s.idx \subseteq DOMAIN idx
    <3>1. \E n, v : idx = s.idx \/ idx = With(s.idx, n, v)
      BY DEF ForeignIndexed
    <3> HIDE DEF idx
    <3>2. PICK n, v : idx = s.idx \/ idx = With(s.idx, n, v)
      BY <3>1
    <3>3. IsFiniteSet(DOMAIN With(s.idx, n, v)) /\ DOMAIN With(s.idx, n, v) = DOMAIN s.idx \cup {n}
      BY <1>f, WithFinite
    <3> QED BY <1>f, <3>2, <3>3
  <2> HIDE DEF idx
  <2>4. IsFiniteSet(DOMAIN u.fks)
    <3>1. IsFiniteSet(DOMAIN With(s.fks, k, c.fk))
      BY <1>f, WithFinite
    <3> QED BY <2>2, <3>1
  <2>5. WellFormed(u)
    BY <1>f, <2>2, <2>3, <2>4 DEF WellFormed
  <2>6. \A x : x # k => (x \in DOMAIN s.fks <=> x \in DOMAIN u.fks)
                      /\ (x \in DOMAIN s.fks => u.fks[x] = s.fks[x])
    BY <2>2 DEF With
  <2>7. Keeps(s, u, c)
    BY <1>2, <2>2, <2>3, <2>5, <2>6 DEF Keeps, Called, ColNames, TouchedForeign, IndexNames
  <2> QED BY <2>7 DEF u
<1> QED BY <1>1, <1>2

\* What one clause the server applies leaves of a table.
LEMMA ChangedKeeps ==
  ASSUME NEW db, NEW t, NEW s, NEW c, WellFormed(s), ProperClause(c), Applicable(db, t, s, c)
  PROVE  Keeps(s, Changed(s, c), c)
<1>1. AboutColumns(c) \/ AboutIndexes(c) \/ DropsColumn(c) \/ AboutForeign(c)
  BY DEF Applicable, AboutColumns, AboutIndexes, DropsColumn, AboutForeign
<1> QED BY <1>1, ColumnClauseKeeps, IndexClauseKeeps, DropColumnKeeps, ForeignClauseKeeps

-----------------------------------------------------------------------------
(* One statement: its clauses one after the other.                         *)

\* What clauses, the members of C, that made u of table s leave of it.
Leaves(s, u, C) ==
  /\ WellFormed(u)
  /\ \A n : (\A c \in C : n \notin TouchedColumns(c)) => Called(u, n) = Called(s, n)
  /\ (\A c \in C : c.op # "DROP COLUMN") => ColNames(s) \subseteq ColNames(u)
  /\ (\A c \in C : c.op \notin {"DROP COLUMN", "DROP INDEX"}) => IndexNames(s) \subseteq IndexNames(u)
  /\ \A k : (\A c \in C : k \notin TouchedForeign(c)) =>
       (k \in DOMAIN s.fks <=> k \in DOMAIN u.fks) /\ (k \in DOMAIN s.fks => u.fks[k] = s.fks[k])

LEMMA LeavesOneMore ==
  ASSUME NEW s, NEW u, NEW v, NEW C, NEW c \in C, Leaves(s, u, C), Keeps(u, v, c)
  PROVE  Leaves(s, v, C)
<1>1. WellFormed(v)
  BY DEF Keeps
<1>2. ASSUME NEW n, \A d \in C : n \notin TouchedColumns(d) PROVE Called(v, n) = Called(s, n)
  BY <1>2 DEF Keeps, Leaves
<1>3. ASSUME \A d \in C : d.op # "DROP COLUMN" PROVE ColNames(s) \subseteq ColNames(v)
  BY <1>3 DEF Keeps, Leaves
<1>4. ASSUME \A d \in C : d.op \notin {"DROP COLUMN", "DROP INDEX"}
      PROVE  IndexNames(s) \subseteq IndexNames(v)
  BY <1>4 DEF Keeps, Leaves
<1>5. ASSUME NEW k, \A d \in C : k \notin TouchedForeign(d)
      PROVE  (k \in DOMAIN s.fks <=> k \in DOMAIN v.fks) /\ (k \in DOMAIN s.fks => v.fks[k] = s.fks[k])
  <2>1. (k \in DOMAIN s.fks <=> k \in DOMAIN u.fks) /\ (k \in DOMAIN s.fks => u.fks[k] = s.fks[k])
    BY <1>5 DEF Leaves
  <2>2. (k \in DOMAIN u.fks <=> k \in DOMAIN v.fks) /\ (k \in DOMAIN u.fks => v.fks[k] = u.fks[k])
    BY <1>5 DEF Keeps
  <2> QED BY <2>1, <2>2
<1> QED BY <1>1, <1>2, <1>3, <1>4, <1>5 DEF Leaves

\* The table after the first n clauses, and what is true of it.
ClauseDomain(e) == 0..Len(e.st.clauses)
ClauseRank(e, n) == n
ClauseDef(e, f, n) ==
  IF n = 0 THEN [ok |-> TRUE, s |-> e.db[e.st.table]]
  ELSE Extended(e.db, e.st.table, f[n - 1], e.st.clauses[n])

ClauseRec == INSTANCE Recursion WITH S <- ClauseDomain, Rank <- ClauseRank, Def <- ClauseDef

Prefix(e) == CHOOSE f : f = [n \in ClauseDomain(e) |-> ClauseDef(e, f, n)]

\* The tables after each clause are as the statement's execution computes them.
LEMMA PrefixIs ==
  ASSUME NEW db, NEW st, Len(st.clauses) \in Nat
  PROVE  LET e == [db |-> db, st |-> st]
             F == Prefix(e)
         IN  /\ e.db = db /\ e.st = st
             /\ Altered(db, st) = F[Len(st.clauses)]
             /\ F = [n \in 0..Len(st.clauses) |-> ClauseDef(e, F, n)]
<1> DEFINE e == [db |-> db, st |-> st]
           F == Prefix(e)
           N == Len(st.clauses)
<1>e. e.db = db /\ e.st = st
  OBVIOUS
<1>1. Altered(db, st) = F[N]
  BY <1>e DEF Altered, Prefix, ClauseDomain, ClauseDef
<1> HIDE DEF e
<1>2. F = [n \in 0..N |-> ClauseDef(e, F, n)]
  <2>1. \A n \in 0..N : n \in Nat /\ (n # 0 => n - 1 \in 0..N /\ n - 1 < n)
    OBVIOUS
  <2>2. \A n \in 0..N : \A f, g : (n = 0 \/ f[n - 1] = g[n - 1]) => ClauseDef(e, f, n) = ClauseDef(e, g, n)
    BY DEF ClauseDef
  <2>3. ClauseRec!WellDefined(e)
    BY <1>e, <2>1, <2>2 DEF ClauseRec!WellDefined, ClauseDomain, ClauseRank
  <2>4. \E f : f = [n \in ClauseDomain(e) |-> ClauseDef(e, f, n)]
    BY <2>3, ClauseRec!Recurse, Induct DEF ClauseRec!Inductive
  <2> QED BY <1>e, <2>4 DEF Prefix, ClauseDomain
<1> HIDE DEF F
<1> QED BY <1>e, <1>1, <1>2 DEF e, F, N

PrefixLeaves(e, n) ==
  n \in ClauseDomain(e) /\ Prefix(e)[n].ok =>
    Leaves(e.db[e.st.table], Prefix(e)[n].s, ToSet(e.st.clauses))

LEMMA AlteredLeaves ==
  ASSUME NEW db, NEW st, Len(st.clauses) \in Nat, DOMAIN st.clauses = 1..Len(st.clauses),
         \A c \in ToSet(st.clauses) : ProperClause(c),
         WellFormed(db[st.table]), Altered(db, st).ok
  PROVE  Leaves(db[st.table], Altered(db, st).s, ToSet(st.clauses))
<1> DEFINE e == [db |-> db, st |-> st]
           F == Prefix(e)
           N == Len(st.clauses)
           C == ToSet(st.clauses)
           old == db[st.table]
<1>1. e.db = db /\ e.st = st /\ Altered(db, st) = F[N] /\ F = [n \in 0..N |-> ClauseDef(e, F, n)]
  BY PrefixIs
<1> HIDE DEF e
<1>e. e.db = db /\ e.st = st
  BY <1>1
<1>2. F = [n \in 0..N |-> ClauseDef(e, F, n)]
  BY <1>1
<1> HIDE DEF F, N, C, old
<1>3. PrefixLeaves(e, 0)
  <2>1. F[0].s = old
    BY <1>2, <1>e DEF ClauseDef, old, N
  <2>2. Leaves(old, old, C)
    BY DEF Leaves, old
  <2> QED BY <2>1, <2>2, <1>e DEF PrefixLeaves, F, C, old
<1>4. ASSUME NEW n \in Nat, PrefixLeaves(e, n) PROVE PrefixLeaves(e, n + 1)
  <2> DEFINE m == n + 1
             s == F[n].s
             c == st.clauses[m]
  <2> SUFFICES ASSUME m \in 0..N, F[m].ok PROVE Leaves(old, F[m].s, C)
    BY <1>e DEF PrefixLeaves, ClauseDomain, F, N, C, old
  <2>1. n \in 0..N /\ m \in 1..N /\ m # 0 /\ m - 1 = n
    BY DEF N
  <2>2. F[m] = Extended(db, st.table, F[n], c)
    <3> HIDE DEF c
    <3>1. F[m] = ClauseDef(e, F, m)
      BY <1>2
    <3> QED BY <2>1, <3>1, <1>e DEF ClauseDef, c
  <2>3. c \in C
    <3>1. m \in DOMAIN st.clauses
      BY <2>1 DEF N
    <3> QED BY <3>1 DEF C, ToSet
  <2> HIDE DEF m, c
  <2>4. F[n].ok /\ Applicable(db, st.table, s, c) /\ F[m].s = Changed(s, c)
    BY <2>2 DEF Extended
  <2>5. Leaves(old, s, C)
    BY <1>4, <2>1, <2>4, <1>e DEF PrefixLeaves, ClauseDomain, F, N, C, old
  <2> HIDE DEF s
  <2>6. WellFormed(s) /\ ProperClause(c)
    BY <2>3, <2>5 DEF Leaves, C
  <2>7. Keeps(s, F[m].s, c)
    <3>1. Keeps(s, Changed(s, c), c)
      BY <2>4, <2>6, ChangedKeeps
    <3> QED BY <3>1, <2>4
  <2> QED BY <2>3, <2>5, <2>7, LeavesOneMore
<1>5. \A n \in Nat : PrefixLeaves(e, n)
  <2> DEFINE W == {n \in Nat : PrefixLeaves(e, n)}
  <2>1. 0 \in W /\ \A n \in Nat : n \in W => n + 1 \in W
    BY <1>3, <1>4
  <2> HIDE DEF W
  <2>2. Nat \subseteq W
    BY <2>1, Induct
  <2> QED BY <2>2 DEF W
<1>6. N \in 0..N /\ N \in Nat
  BY DEF N
<1>7. Leaves(old, F[N].s, C)
  BY <1>1, <1>5, <1>6, <1>e DEF PrefixLeaves, ClauseDomain, F, C, old, N
<1> QED BY <1>1, <1>7 DEF C, old

\* What an accepted statement makes of the database: an ALTER of a table there
\* is leaves what its clauses do not name, a CREATE makes a table there was not.
LEMMA AcceptedStatement ==
  ASSUME NEW db, NEW st, st.table \in DOMAIN db, Accepts(db, st),
         Len(st.clauses) \in Nat, DOMAIN st.clauses = 1..Len(st.clauses),
         \A c \in ToSet(st.clauses) : ProperClause(c),
         WellFormed(db[st.table]), WellFormed(st.create)
  PROVE  /\ \A u \in DOMAIN db \ {st.table} : After(db, st)[u] = db[u]
         /\ WellFormed(After(db, st)[st.table]) /\ Exists(After(db, st)[st.table])
         /\ \/ /\ st.clauses # <<>> /\ Exists(db[st.table])
               /\ Leaves(db[st.table], After(db, st)[st.table], ToSet(st.clauses))
            \/ /\ st.clauses = <<>> /\ ~Exists(db[st.table])
               /\ After(db, st)[st.table] = st.create
<1> DEFINE new == After(db, st)[st.table]
<1>1. \A u \in DOMAIN db \ {st.table} : After(db, st)[u] = db[u]
  BY DEF After
<1>2. new = Outcome(db, st).s /\ Outcome(db, st).ok /\ Exists(new)
  BY DEF After, Accepts
<1>3. CASE st.clauses = <<>>
  <2> DEFINE free == ~Exists(db[st.table])
  <2>1. Outcome(db, st) = [ok |-> free, s |-> st.create]
    BY <1>3 DEF Outcome
  <2> HIDE DEF free
  <2>a. Outcome(db, st).s = st.create /\ Outcome(db, st).ok = free
    BY <2>1
  <2>b. free
    BY <1>2, <2>a
  <2>c. ~Exists(db[st.table])
    BY <2>b DEF free
  <2>2. new = st.create /\ ~Exists(db[st.table])
    BY <1>2, <2>a, <2>c
  <2> HIDE DEF new
  <2>3. WellFormed(new)
    BY <2>2
  <2> QED BY <1>1, <1>2, <1>3, <2>2, <2>3 DEF new
<1>4. CASE st.clauses # <<>>
  <2>1. Outcome(db, st).ok => Exists(db[st.table]) /\ Outcome(db, st) = Altered(db, st)
    BY <1>4 DEF Outcome
  <2>2. Exists(db[st.table]) /\ new = Altered(db, st).s /\ Altered(db, st).ok
    BY <1>2, <2>1
  <2>3. Leaves(db[st.table], Altered(db, st).s, ToSet(st.clauses))
    BY <2>2, AlteredLeaves
  <2> HIDE DEF new
  <2>4. Leaves(db[st.table], new, ToSet(st.clauses)) /\ WellFormed(new)
    BY <2>2, <2>3 DEF Leaves
  <2> QED BY <1>1, <1>2, <1>4, <2>2, <2>4 DEF new
<1> QED BY <1>3, <1>4

-----------------------------------------------------------------------------
(* The order of the tables that change: each of them has its place in it.  *)

TopoDomain(s) == 0..Cardinality(Changes(s))
TopoRank(s, n) == n
TopoReady(s, placed) ==
  {t \in Changes(s) \ placed : (RelationTables(s[t]) \cap Changes(s)) \ {t} \subseteq placed}
TopoDef(s, f, n) ==
  IF n = 0 THEN <<>>
  ELSE IF Len(f[n - 1]) < n - 1 \/ TopoReady(s, ToSet(f[n - 1])) = {} THEN f[n - 1]
  ELSE Append(f[n - 1], Min(TopoReady(s, ToSet(f[n - 1]))))

TopoRec == INSTANCE Recursion WITH S <- TopoDomain, Rank <- TopoRank, Def <- TopoDef

Topo(s) == CHOOSE f : f = [n \in TopoDomain(s) |-> TopoDef(s, f, n)]

TopoHolds(s, n) == n <= Cardinality(Changes(s)) => Topo(s)[n] \in Seq(Changes(s))

LEMMA AltersMembers ==
  ASSUME NEW s, Changes(s) \in SUBSET Nat, IsFiniteSet(Changes(s))
  PROVE  /\ OrderTableAlters(s) \in Seq(Changes(s))
         /\ ToSet(OrderTableAlters(s)) = Changes(s)
<1> DEFINE C == Changes(s)
           N == Cardinality(C)
           F == Topo(s)
<1>1. N \in Nat
  BY FS_CardinalityType
<1>2. OrderTableAlters(s) = F[N] \o InOrder(C \ ToSet(F[N]))
  BY DEF OrderTableAlters, Topo, TopoDomain, TopoDef, TopoReady
<1>3. F = [n \in 0..N |-> TopoDef(s, F, n)]
  <2>1. TopoRec!WellDefined(s)
    BY <1>1 DEF TopoRec!WellDefined, TopoDomain, TopoRank, TopoDef
  <2>2. \E f : f = [n \in TopoDomain(s) |-> TopoDef(s, f, n)]
    BY <2>1, TopoRec!Recurse, Induct DEF TopoRec!Inductive
  <2> QED BY <2>2 DEF Topo, TopoDomain
<1> HIDE DEF C, N, F
<1>4. TopoHolds(s, 0)
  <2>1. F[0] = <<>>
    BY <1>1, <1>3 DEF TopoDef
  <2>2. F[0] \in Seq(C)
    BY <2>1
  <2> QED BY <2>2 DEF TopoHolds, F, C
<1>5. ASSUME NEW n \in Nat, TopoHolds(s, n) PROVE TopoHolds(s, n + 1)
  <2> SUFFICES ASSUME n + 1 <= N PROVE F[n + 1] \in Seq(C)
    BY DEF TopoHolds, F, C, N
  <2> DEFINE next == TopoReady(s, ToSet(F[n]))
  <2>1. F[n] \in Seq(C)
    BY <1>1, <1>5 DEF TopoHolds, F, C, N
  <2>2. F[n + 1] = TopoDef(s, F, n + 1)
    <3>1. n + 1 \in 0..N
      BY <1>1
    <3> QED BY <1>3, <3>1
  <2>3. F[n + 1] = F[n] \/ (next # {} /\ F[n + 1] = Append(F[n], Min(next)))
    <3>1. n + 1 # 0 /\ (n + 1) - 1 = n
      OBVIOUS
    <3> QED BY <2>2, <3>1 DEF TopoDef
  <2>4. next \subseteq C /\ C \in SUBSET Nat
    BY DEF TopoReady, C
  <2>5. next # {} => Min(next) \in C
    BY <2>4, LeastMember
  <2> HIDE DEF next
  <2>6. next # {} => Append(F[n], Min(next)) \in Seq(C)
    BY <2>1, <2>5
  <2> QED BY <2>1, <2>3, <2>6
<1>6. \A n \in Nat : TopoHolds(s, n)
  <2> DEFINE W == {n \in Nat : TopoHolds(s, n)}
  <2>1. 0 \in W /\ \A n \in Nat : n \in W => n + 1 \in W
    BY <1>4, <1>5
  <2> HIDE DEF W
  <2>2. Nat \subseteq W
    BY <2>1, Induct
  <2> QED BY <2>2 DEF W
<1>7. F[N] \in Seq(C)
  BY <1>1, <1>6 DEF TopoHolds, F, C, N
<1> DEFINE rest == C \ ToSet(F[N])
<1>8. ToSet(F[N]) \subseteq C
  BY <1>7, ToSetSeq
<1>9. rest \in SUBSET Nat /\ IsFiniteSet(rest) /\ rest \subseteq C
  BY FS_Subset DEF C
<1> HIDE DEF rest
<1>10. InOrder(rest) \in Seq(rest) /\ ToSet(InOrder(rest)) = rest
  BY <1>9, InOrderMembers
<1>11. InOrder(rest) \in Seq(C)
  BY <1>9, <1>10, SeqMonotonic
<1>12. /\ F[N] \o InOrder(rest) \in Seq(C)
       /\ ToSet(F[N] \o InOrder(rest)) = ToSet(F[N]) \cup rest
  BY <1>7, <1>10, <1>11, ToSetConcat
<1> QED BY <1>2, <1>8, <1>12 DEF rest, C

-----------------------------------------------------------------------------
(* The parsed texts.                                                       *)

Parsed(p) ==
  /\ p.cols \in Seq(ToSet(p.cols)) /\ \A c \in ToSet(p.cols) : DOMAIN c = ColumnFields
  /\ IsFiniteSet(DOMAIN p.idx) /\ IsFiniteSet(DOMAIN p.fks)

LEMMA NoSchemaWellFormed == WellFormed(NoSchema) /\ DOMAIN NoSchema.fks = {} /\ ColNames(NoSchema) = {}
<1>1. /\ DOMAIN NoSchema = {"cols", "charset", "idx", "checks", "fks"}
      /\ NoSchema.cols = <<>> /\ NoSchema.idx = <<>> /\ NoSchema.checks = <<>> /\ NoSchema.fks = <<>>
  BY DEF NoSchema
<1>2. DOMAIN <<>> = {} /\ IsFiniteSet(DOMAIN <<>>)
  BY FS_EmptySet
<1>3. ToSet(NoSchema.cols) = {} /\ NoSchema.cols \in Seq({})
  BY <1>1, ToSetEmpty
<1>4. \A f \in {"idx", "checks", "fks"} : NoSchema[f] = <<>>
  BY <1>1
<1>5. ColNames(NoSchema) = {}
  BY <1>1, <1>2 DEF ColNames
<1> HIDE DEF NoSchema
<1>6. WellFormed(NoSchema)
  BY <1>1, <1>2, <1>3, <1>4 DEF WellFormed
<1> QED BY <1>1, <1>2, <1>5, <1>6

LEMMA ParseProper ==
  ASSUME NEW s, WellFormed(s)
  PROVE  /\ Parsed(Parse(s))
         /\ DOMAIN Parse(s).fks \subseteq DOMAIN s.fks
         /\ \A k \in DOMAIN Parse(s).fks : Parse(s).fks[k] = s.fks[k]
<1> DEFINE lines == [i \in DOMAIN s.cols |-> Line(s, s.cols[i])]
           said == {i \in DOMAIN s.cols : s.cols[i].comment = SaysEngine}
           ends == said \cup {Len(lines) + 1}
           parsed == Min(ends) - 1
           whole(f) == IF said = {} THEN f ELSE <<>>
           both == Merged(s.checks, s.idx)
           L == {Line(s, c) : c \in ToSet(s.cols)}
           p == Parse(s)
           cols == SubSeq(lines, 1, parsed)
<1>1. s.cols \in Seq(ToSet(s.cols)) /\ \A c \in ToSet(s.cols) : DOMAIN c = ColumnFields
  BY DEF WellFormed
<1>2. p.cols = cols /\ p.idx = whole(both) /\ p.fks = whole(s.fks)
  BY DEF Parse
<1>3. lines \in Seq(L) /\ Len(lines) \in Nat /\ DOMAIN s.cols = 1..Len(lines)
  <2>1. DOMAIN s.cols = 1..Len(s.cols) /\ Len(s.cols) \in Nat
    BY <1>1
  <2>2. \A i \in 1..Len(s.cols) : Line(s, s.cols[i]) \in L
    BY <2>1 DEF ToSet
  <2>3. lines = [i \in 1..Len(s.cols) |-> Line(s, s.cols[i])]
    BY <2>1
  <2> HIDE DEF L
  <2> QED BY <2>1, <2>2, <2>3
<1>4. parsed \in 0..Len(lines)
  <2> DEFINE n == Len(lines)
  <2>1. said \subseteq 1..n /\ n \in Nat
    BY <1>3
  <2> HIDE DEF n, said
  <2>3. ends = said \cup {n + 1}
    BY DEF n
  <2> HIDE DEF ends
  <2>4. ends \in SUBSET Nat /\ ends # {} /\ \A i \in ends : i \in 1..(n + 1)
    BY <2>1, <2>3
  <2>2. Min(ends) \in ends
    BY <2>4, LeastMember
  <2> DEFINE m == Min(ends)
  <2>5. m \in 1..(n + 1)
    BY <2>2, <2>4
  <2> HIDE DEF m
  <2>6. m - 1 \in 0..n
    BY <2>1, <2>5
  <2> QED BY <2>6 DEF n, m
<1>5. \A c \in L : DOMAIN c = ColumnFields
  BY <1>1 DEF Line
<1> HIDE DEF parsed, lines, L, ends
<1>6. cols \in Seq(L)
  BY <1>3, <1>4, ToSetSubSeq
<1> HIDE DEF cols
<1>7. cols \in Seq(ToSet(cols)) /\ ToSet(cols) \subseteq L
  BY <1>6, SeqOwn, ToSetSeq
<1>8. IsFiniteSet(DOMAIN both)
  <2>1. DOMAIN both = DOMAIN s.checks \cup DOMAIN s.idx
    BY DEF Merged
  <2>2. IsFiniteSet(DOMAIN s.checks) /\ IsFiniteSet(DOMAIN s.idx)
    BY DEF WellFormed
  <2> QED BY <2>1, <2>2, FS_Union
<1> HIDE DEF both
<1>9. DOMAIN <<>> = {} /\ IsFiniteSet(DOMAIN <<>>) /\ IsFiniteSet(DOMAIN s.fks)
  BY FS_EmptySet DEF WellFormed
<1>10. /\ IsFiniteSet(DOMAIN whole(both)) /\ IsFiniteSet(DOMAIN whole(s.fks))
       /\ DOMAIN whole(s.fks) \subseteq DOMAIN s.fks
       /\ \A k \in DOMAIN whole(s.fks) : whole(s.fks)[k] = s.fks[k]
  <2>1. CASE said = {}
    BY <2>1, <1>8, <1>9
  <2>2. CASE said # {}
    BY <2>2, <1>9
  <2> QED BY <2>1, <2>2
<1> HIDE DEF whole, p
<1>11. Parsed(p)
  BY <1>2, <1>5, <1>7, <1>10 DEF Parsed
<1>12. DOMAIN p.fks \subseteq DOMAIN s.fks /\ \A k \in DOMAIN p.fks : p.fks[k] = s.fks[k]
  BY <1>2, <1>10
<1> QED BY <1>11, <1>12 DEF p

-----------------------------------------------------------------------------
(* The clauses of a comparison.                                            *)

\* The values of f on the finite set S, as Clauses lists them.
Mapped(S, f) == LET q == SetToSeq(S) IN [k \in DOMAIN q |-> f[q[k]]]

LEMMA MappedMembers ==
  ASSUME NEW S, IsFiniteSet(S), NEW f
  PROVE  /\ Mapped(S, f) \in Seq(ToSet(Mapped(S, f)))
         /\ \A c : c \in ToSet(Mapped(S, f)) <=> \E x \in S : c = f[x]
<1> DEFINE q == SetToSeq(S)
           m == [k \in DOMAIN q |-> f[q[k]]]
<1>1. q \in Seq(S) /\ ToSet(q) = S
  BY SetToSeqMembers
<1> HIDE DEF q
<1>2. DOMAIN q = 1..Len(q) /\ Len(q) \in Nat
  BY <1>1
<1>3. \A c : c \in ToSet(m) <=> \E x \in S : c = f[x]
  BY <1>1 DEF ToSet
<1>4. \A k \in 1..Len(q) : f[q[k]] \in ToSet(m)
  BY <1>2 DEF ToSet
<1>5. m = [k \in 1..Len(q) |-> f[q[k]]]
  BY <1>2
<1>6. m \in Seq(ToSet(m))
  <2> DEFINE T == ToSet(m)
  <2> HIDE DEF T
  <2>1. [k \in 1..Len(q) |-> f[q[k]]] \in Seq(T)
    BY <1>2, <1>4 DEF T
  <2> QED BY <2>1, <1>5 DEF T
<1> QED BY <1>3, <1>6 DEF Mapped, q

\* What a comparison of table t may ask for: nothing that is ignored, nothing
\* dropped without -drop, and whole columns.
Permitted(cfg, t, c) ==
  /\ ProperClause(c)
  /\ \A n \in TouchedColumns(c) : <<t, n>> \notin cfg.ignoreCols
  /\ \A k \in TouchedForeign(c) : <<t, k>> \notin cfg.ignoreFks
  /\ c.op \in {"DROP COLUMN", "DROP INDEX"} => cfg.drop

AllPermitted(cfg, t, s) == s \in Seq(ToSet(s)) /\ \A c \in ToSet(s) : Permitted(cfg, t, c)

LEMMA PermittedConcat ==
  ASSUME NEW cfg, NEW t, NEW p, NEW q, AllPermitted(cfg, t, p), AllPermitted(cfg, t, q)
  PROVE  AllPermitted(cfg, t, p \o q)
<1> DEFINE S == ToSet(p) \cup ToSet(q)
           pq == p \o q
<1>1. p \in Seq(S) /\ q \in Seq(S)
  BY SeqMonotonic DEF AllPermitted
<1>2. pq \in Seq(S) /\ ToSet(pq) = ToSet(p) \cup ToSet(q)
  <2> HIDE DEF S
  <2> QED BY <1>1, ToSetConcat
<1> HIDE DEF S, pq
<1>3. AllPermitted(cfg, t, pq)
  BY <1>2, SeqOwn DEF AllPermitted
<1> QED BY <1>2, <1>3 DEF pq

LEMMA MappedPermitted ==
  ASSUME NEW cfg, NEW t, NEW S, IsFiniteSet(S), NEW f, \A x \in S : Permitted(cfg, t, f[x])
  PROVE  AllPermitted(cfg, t, Mapped(S, f))
BY MappedMembers DEF AllPermitted

\* A clause that names no column to come after, and drops no column of the source.
Steady(a, c) ==
  c.op \notin {"ADD", "MODIFY"} /\ (c.op = "DROP COLUMN" => c.name \notin ColNames(a.src))

AllSteady(a, q) == \A c \in ToSet(q) : Steady(a, c)

LEMMA MappedSteady ==
  ASSUME NEW a, NEW S, IsFiniteSet(S), NEW f, \A x \in S : Steady(a, f[x])
  PROVE  AllSteady(a, Mapped(S, f))
BY MappedMembers DEF AllSteady

LEMMA ColNamesFinite ==
  ASSUME NEW p, p.cols \in Seq(ToSet(p.cols))
  PROVE  IsFiniteSet(ColNames(p))
<1> DEFINE S == DOMAIN p.cols
           f == [i \in S |-> p.cols[i].name]
<1>1. S = 1..Len(p.cols) /\ Len(p.cols) \in Nat
  OBVIOUS
<1>2. IsFiniteSet(S)
  BY <1>1, FS_Interval
<1>3. f \in Surjection(S, ColNames(p))
  BY DEF Surjection, ColNames
<1> HIDE DEF f, S
<1> QED BY <1>2, <1>3, FS_Surjection

LEMMA DroppedForeignPermitted ==
  ASSUME NEW cfg, NEW t, NEW a, Parsed(a.src), Parsed(a.dst)
  PROVE  AllPermitted(cfg, t, DroppedForeign(cfg, t, a)) /\ AllSteady(a, DroppedForeign(cfg, t, a))
<1> DEFINE S == (WantedForeign(cfg, t, a) \cap DOMAIN a.dst.fks)
                  \cup {k \in DOMAIN a.dst.fks \ DOMAIN a.src.fks :
                          cfg.drop /\ <<t, k>> \notin cfg.ignoreFks}
           f == [k \in S |-> DropForeign(k)]
<1>1. S \subseteq DOMAIN a.dst.fks
  OBVIOUS
<1>2. IsFiniteSet(S)
  BY <1>1, FS_Subset DEF Parsed
<1>3. DroppedForeign(cfg, t, a) = Mapped(S, f)
  <2> DEFINE q == SetToSeq(S)
  <2>1. DroppedForeign(cfg, t, a) = [k \in DOMAIN q |-> DropForeign(q[k])]
    BY DEF DroppedForeign, Clauses
  <2>2. q \in Seq(S)
    BY <1>2, SetToSeqMembers
  <2>3. Mapped(S, f) = [k \in DOMAIN q |-> f[q[k]]]
    BY DEF Mapped
  <2> HIDE DEF S, q
  <2>4. \A k \in DOMAIN q : q[k] \in S
    BY <2>2
  <2> QED BY <2>1, <2>3, <2>4
<1>4. \A k \in S : <<t, k>> \notin cfg.ignoreFks
  BY DEF WantedForeign
<1>5. \A k \in S : Permitted(cfg, t, f[k]) /\ Steady(a, f[k])
  BY <1>4 DEF Steady, Permitted, DropForeign, ProperClause, TouchedColumns, TouchedForeign
<1> HIDE DEF S, f
<1> QED BY <1>2, <1>3, <1>5, MappedPermitted, MappedSteady

LEMMA DroppedIndexesPermitted ==
  ASSUME NEW cfg, NEW t, NEW a, Parsed(a.src), Parsed(a.dst)
  PROVE  AllPermitted(cfg, t, DroppedIndexes(cfg, t, a)) /\ AllSteady(a, DroppedIndexes(cfg, t, a))
<1> DEFINE S == {n \in DOMAIN a.dst.idx \ DOMAIN a.src.idx : cfg.drop /\ <<t, n>> \notin cfg.ignoreIdx}
           F(n) == [op |-> "DROP INDEX", name |-> n, kind |-> a.dst.idx[n].kind]
           f == [n \in S |-> F(n)]
           q == SetToSeq(S)
<1>1. IsFiniteSet(S)
  <2>1. S \subseteq DOMAIN a.dst.idx
    BY DEF Compared, WantedForeign
  <2>2. IsFiniteSet(DOMAIN a.dst.idx)
    BY ColNamesFinite DEF Parsed
  <2> HIDE DEF S
  <2> QED BY <2>1, <2>2, FS_Subset
<1>2. DroppedIndexes(cfg, t, a) = Mapped(S, f)
  <2>1. DroppedIndexes(cfg, t, a) = [k \in DOMAIN q |-> F(q[k])]
    BY DEF DroppedIndexes, Clauses
  <2>2. Mapped(S, f) = [k \in DOMAIN q |-> f[q[k]]]
    BY DEF Mapped
  <2> HIDE DEF S, F, q
  <2>3. \A k \in DOMAIN q : q[k] \in S
    BY <1>1, SetToSeqMembers DEF q
  <2> QED BY <2>1, <2>2, <2>3
<1>3. \A n \in S : Permitted(cfg, t, F(n)) /\ Steady(a, F(n))
  BY DEF Steady, Permitted, ProperClause, TouchedColumns, TouchedForeign, Compared, WantedForeign, DropForeign, AddForeign
<1>4. \A n \in S : f[n] = F(n)
  OBVIOUS
<1> HIDE DEF S, F, f
<1>5. \A n \in S : Permitted(cfg, t, f[n]) /\ Steady(a, f[n])
  BY <1>3, <1>4
<1>6. AllPermitted(cfg, t, Mapped(S, f)) /\ AllSteady(a, Mapped(S, f))
  BY <1>1, <1>5, MappedPermitted, MappedSteady
<1> QED BY <1>2, <1>6

LEMMA DroppedColumnsPermitted ==
  ASSUME NEW cfg, NEW t, NEW a, Parsed(a.src), Parsed(a.dst)
  PROVE  AllPermitted(cfg, t, DroppedColumns(cfg, t, a)) /\ AllSteady(a, DroppedColumns(cfg, t, a))
<1> DEFINE S == {n \in ColNames(a.dst) \ ColNames(a.src) : cfg.drop /\ <<t, n>> \notin cfg.ignoreCols}
           F(n) == [op |-> "DROP COLUMN", name |-> n]
           f == [n \in S |-> F(n)]
           q == SetToSeq(S)
<1>1. IsFiniteSet(S)
  <2>1. S \subseteq ColNames(a.dst)
    BY DEF Compared, WantedForeign
  <2>2. IsFiniteSet(ColNames(a.dst))
    BY ColNamesFinite DEF Parsed
  <2> HIDE DEF S
  <2> QED BY <2>1, <2>2, FS_Subset
<1>2. DroppedColumns(cfg, t, a) = Mapped(S, f)
  <2>1. DroppedColumns(cfg, t, a) = [k \in DOMAIN q |-> F(q[k])]
    BY DEF DroppedColumns, Clauses
  <2>2. Mapped(S, f) = [k \in DOMAIN q |-> f[q[k]]]
    BY DEF Mapped
  <2> HIDE DEF S, F, q
  <2>3. \A k \in DOMAIN q : q[k] \in S
    BY <1>1, SetToSeqMembers DEF q
  <2> QED BY <2>1, <2>2, <2>3
<1>3. \A n \in S : Permitted(cfg, t, F(n)) /\ Steady(a, F(n))
  BY DEF Steady, Permitted, ProperClause, TouchedColumns, TouchedForeign, Compared, WantedForeign, DropForeign, AddForeign
<1>4. \A n \in S : f[n] = F(n)
  OBVIOUS
<1> HIDE DEF S, F, f
<1>5. \A n \in S : Permitted(cfg, t, f[n]) /\ Steady(a, f[n])
  BY <1>3, <1>4
<1>6. AllPermitted(cfg, t, Mapped(S, f)) /\ AllSteady(a, Mapped(S, f))
  BY <1>1, <1>5, MappedPermitted, MappedSteady
<1> QED BY <1>2, <1>6

LEMMA ReplacedIndexesPermitted ==
  ASSUME NEW cfg, NEW t, NEW a, Parsed(a.src), Parsed(a.dst)
  PROVE  AllPermitted(cfg, t, ReplacedIndexes(cfg, t, a)) /\ AllSteady(a, ReplacedIndexes(cfg, t, a))
<1> DEFINE S == {n \in Compared(cfg, t, a) \cap DOMAIN a.dst.idx : a.src.idx[n] # a.dst.idx[n]}
           F(n) == [op |-> "REPLACE INDEX", name |-> n,
                    kind |-> a.dst.idx[n].kind, index |-> a.src.idx[n]]
           f == [n \in S |-> F(n)]
           q == SetToSeq(S)
<1>1. IsFiniteSet(S)
  <2>1. S \subseteq DOMAIN a.dst.idx
    BY DEF Compared, WantedForeign
  <2>2. IsFiniteSet(DOMAIN a.dst.idx)
    BY ColNamesFinite DEF Parsed
  <2> HIDE DEF S
  <2> QED BY <2>1, <2>2, FS_Subset
<1>2. ReplacedIndexes(cfg, t, a) = Mapped(S, f)
  <2>1. ReplacedIndexes(cfg, t, a) = [k \in DOMAIN q |-> F(q[k])]
    BY DEF ReplacedIndexes, Clauses
  <2>2. Mapped(S, f) = [k \in DOMAIN q |-> f[q[k]]]
    BY DEF Mapped
  <2> HIDE DEF S, F, q
  <2>3. \A k \in DOMAIN q : q[k] \in S
    BY <1>1, SetToSeqMembers DEF q
  <2> QED BY <2>1, <2>2, <2>3
<1>3. \A n \in S : Permitted(cfg, t, F(n)) /\ Steady(a, F(n))
  BY DEF Steady, Permitted, ProperClause, TouchedColumns, TouchedForeign, Compared, WantedForeign, DropForeign, AddForeign
<1>4. \A n \in S : f[n] = F(n)
  OBVIOUS
<1> HIDE DEF S, F, f
<1>5. \A n \in S : Permitted(cfg, t, f[n]) /\ Steady(a, f[n])
  BY <1>3, <1>4
<1>6. AllPermitted(cfg, t, Mapped(S, f)) /\ AllSteady(a, Mapped(S, f))
  BY <1>1, <1>5, MappedPermitted, MappedSteady
<1> QED BY <1>2, <1>6

LEMMA AddedIndexesPermitted ==
  ASSUME NEW cfg, NEW t, NEW a, Parsed(a.src), Parsed(a.dst)
  PROVE  AllPermitted(cfg, t, AddedIndexes(cfg, t, a)) /\ AllSteady(a, AddedIndexes(cfg, t, a))
<1> DEFINE S == Compared(cfg, t, a) \ DOMAIN a.dst.idx
           F(n) == [op |-> "ADD INDEX", name |-> n, index |-> a.src.idx[n]]
           f == [n \in S |-> F(n)]
           q == SetToSeq(S)
<1>1. IsFiniteSet(S)
  <2>1. S \subseteq DOMAIN a.src.idx
    BY DEF Compared, WantedForeign
  <2>2. IsFiniteSet(DOMAIN a.src.idx)
    BY ColNamesFinite DEF Parsed
  <2> HIDE DEF S
  <2> QED BY <2>1, <2>2, FS_Subset
<1>2. AddedIndexes(cfg, t, a) = Mapped(S, f)
  <2>1. AddedIndexes(cfg, t, a) = [k \in DOMAIN q |-> F(q[k])]
    BY DEF AddedIndexes, Clauses
  <2>2. Mapped(S, f) = [k \in DOMAIN q |-> f[q[k]]]
    BY DEF Mapped
  <2> HIDE DEF S, F, q
  <2>3. \A k \in DOMAIN q : q[k] \in S
    BY <1>1, SetToSeqMembers DEF q
  <2> QED BY <2>1, <2>2, <2>3
<1>3. \A n \in S : Permitted(cfg, t, F(n)) /\ Steady(a, F(n))
  BY DEF Steady, Permitted, ProperClause, TouchedColumns, TouchedForeign, Compared, WantedForeign, DropForeign, AddForeign
<1>4. \A n \in S : f[n] = F(n)
  OBVIOUS
<1> HIDE DEF S, F, f
<1>5. \A n \in S : Permitted(cfg, t, f[n]) /\ Steady(a, f[n])
  BY <1>3, <1>4
<1>6. AllPermitted(cfg, t, Mapped(S, f)) /\ AllSteady(a, Mapped(S, f))
  BY <1>1, <1>5, MappedPermitted, MappedSteady
<1> QED BY <1>2, <1>6

LEMMA AddedForeignPermitted ==
  ASSUME NEW cfg, NEW t, NEW a, Parsed(a.src), Parsed(a.dst)
  PROVE  /\ AllPermitted(cfg, t, AddedForeign(cfg, t, a))
         /\ AllSteady(a, AddedForeign(cfg, t, a))
         /\ \A k \in WantedForeign(cfg, t, a) :
              AddForeign(k, a.src.fks[k]) \in ToSet(AddedForeign(cfg, t, a))
<1> DEFINE S == WantedForeign(cfg, t, a)
           F(n) == AddForeign(n, a.src.fks[n])
           f == [n \in S |-> F(n)]
           q == SetToSeq(S)
<1>1. IsFiniteSet(S)
  <2>1. S \subseteq DOMAIN a.src.fks
    BY DEF Compared, WantedForeign
  <2>2. IsFiniteSet(DOMAIN a.src.fks)
    BY ColNamesFinite DEF Parsed
  <2> HIDE DEF S
  <2> QED BY <2>1, <2>2, FS_Subset
<1>2. AddedForeign(cfg, t, a) = Mapped(S, f)
  <2>1. AddedForeign(cfg, t, a) = [k \in DOMAIN q |-> F(q[k])]
    BY DEF AddedForeign, Clauses
  <2>2. Mapped(S, f) = [k \in DOMAIN q |-> f[q[k]]]
    BY DEF Mapped
  <2> HIDE DEF S, F, q
  <2>3. \A k \in DOMAIN q : q[k] \in S
    BY <1>1, SetToSeqMembers DEF q
  <2> QED BY <2>1, <2>2, <2>3
<1>3. \A n \in S : Permitted(cfg, t, F(n)) /\ Steady(a, F(n))
  BY DEF Steady, Permitted, ProperClause, TouchedColumns, TouchedForeign, Compared, WantedForeign, DropForeign, AddForeign
<1>4. \A n \in S : f[n] = F(n)
  OBVIOUS
<1> HIDE DEF S, F, f
<1>5. \A n \in S : Permitted(cfg, t, f[n]) /\ Steady(a, f[n])
  BY <1>3, <1>4
<1>6. AllPermitted(cfg, t, Mapped(S, f)) /\ AllSteady(a, Mapped(S, f))
  BY <1>1, <1>5, MappedPermitted, MappedSteady
<1>8. \A c : c \in ToSet(Mapped(S, f)) <=> \E n \in S : c = f[n]
  BY <1>1, MappedMembers
<1>7. \A k \in WantedForeign(cfg, t, a) : k \in S /\ F(k) = AddForeign(k, a.src.fks[k])
  BY DEF S, F
<1> QED BY <1>2, <1>4, <1>6, <1>7, <1>8

LEMMA ColumnClauseShape ==
  ASSUME NEW cfg, NEW t, NEW a, NEW i
  PROVE  \/ ColumnClause(cfg, t, a, i) = <<>>
         \/ \E x : /\ ColumnClause(cfg, t, a, i) = <<x>>
                   /\ x.op \in {"ADD", "CHANGE", "MODIFY"} /\ x.col = a.src.cols[i]
                   /\ <<t, a.src.cols[i].name>> \notin cfg.ignoreCols
<1> DEFINE c == a.src.cols[i]
           n == c.name
           known == n \in DOMAIN a.sf /\ n \in DOMAIN a.df
           moved == cfg.fieldOrder /\ known /\ a.sf[n].pos # a.df[n].pos
           alike == c = Column(a.dst, n) \/ (known /\ SameField(a.sf[n].column, a.df[n].column))
           kept  == cfg.skipTs /\ known /\ TimestampDatetime(a.sf[n].column, a.df[n].column)
           add == [op |-> "ADD", col |-> c, after |-> Anchor(cfg, t, a, i)]
           modify == [op |-> "MODIFY", col |-> c, after |-> Anchor(cfg, t, a, i)]
           change == [op |-> "CHANGE", col |-> c]
<1>1. ColumnClause(cfg, t, a, i) =
        IF <<t, n>> \in cfg.ignoreCols THEN <<>>
        ELSE IF n \notin ColNames(a.dst) THEN <<add>>
        ELSE IF alike THEN IF moved THEN <<modify>> ELSE <<>>
        ELSE IF kept THEN <<>> ELSE <<change>>
  BY DEF ColumnClause
<1>2. /\ add.op = "ADD" /\ add.col = c /\ modify.op = "MODIFY" /\ modify.col = c
      /\ change.op = "CHANGE" /\ change.col = c
  OBVIOUS
<1> HIDE DEF known, moved, alike, kept, add, modify, change
<1> QED BY <1>1, <1>2

LEMMA ColumnClausesPermitted ==
  ASSUME NEW cfg, NEW t, NEW a, Parsed(a.src)
  PROVE  AllPermitted(cfg, t, ColumnClauses(cfg, t, a))
<1> DEFINE D == DOMAIN a.src.cols
           K(i) == ColumnClause(cfg, t, a, i)
           ss == [i \in D |-> K(i)]
           S == UNION {ToSet(K(i)) : i \in D}
<1>1. D = 1..Len(a.src.cols) /\ Len(a.src.cols) \in Nat
  BY DEF Parsed
<1>2. ASSUME NEW i \in D
      PROVE  K(i) \in Seq(S) /\ \A c \in ToSet(K(i)) : Permitted(cfg, t, c)
  <2>1. CASE K(i) = <<>>
    BY <2>1, ToSetEmpty
  <2>2. CASE K(i) # <<>>
    <3>1. PICK x : /\ K(i) = <<x>>
                   /\ x.op \in {"ADD", "CHANGE", "MODIFY"} /\ x.col = a.src.cols[i]
                   /\ <<t, a.src.cols[i].name>> \notin cfg.ignoreCols
      BY <2>2, ColumnClauseShape
    <3>2. ToSet(K(i)) = {x}
      BY <3>1, ToSetSingle
    <3>3. DOMAIN x.col = ColumnFields
      BY <3>1 DEF Parsed, ToSet
    <3>4. Permitted(cfg, t, x)
      BY <3>1, <3>3 DEF Permitted, ProperClause, TouchedColumns, TouchedForeign
    <3>5. x \in S
      BY <3>2
    <3> HIDE DEF S, K
    <3> QED BY <3>1, <3>2, <3>4, <3>5
  <2> QED BY <2>1, <2>2
<1>3. ColumnClauses(cfg, t, a) = FlattenSeq(ss)
  BY DEF ColumnClauses
<1>4. \A c \in S : Permitted(cfg, t, c)
  BY <1>2
<1> HIDE DEF S, K
<1>5. ss \in Seq(Seq(S)) /\ DOMAIN ss = D /\ \A i \in D : ss[i] = K(i)
  BY <1>1, <1>2
<1> HIDE DEF ss, D
<1>6. FlattenSeq(ss) \in Seq(S)
  BY <1>5, FlattenMembers
<1> QED BY <1>3, <1>4, <1>6, SeqOwn, ToSetSeq DEF AllPermitted

\* All clauses of a comparison are permitted, and the foreign keys that are
\* wanted are among those they install.
LEMMA LinesPermitted ==
  ASSUME NEW cfg, NEW t, NEW a, Parsed(a.src), Parsed(a.dst)
  PROVE  /\ AllPermitted(cfg, t, SchemaDiffLines(cfg, t, a))
         /\ \A k \in WantedForeign(cfg, t, a) :
              AddForeign(k, a.src.fks[k]) \in ToSet(SchemaDiffLines(cfg, t, a))
<1> DEFINE p1 == DroppedForeign(cfg, t, a)
           p2 == p1 \o DroppedIndexes(cfg, t, a)
           p3 == p2 \o DroppedColumns(cfg, t, a)
           p4 == p3 \o ColumnClauses(cfg, t, a)
           p5 == p4 \o ReplacedIndexes(cfg, t, a)
           p6 == p5 \o AddedIndexes(cfg, t, a)
           p7 == p6 \o AddedForeign(cfg, t, a)
<1>0. SchemaDiffLines(cfg, t, a) = p7
  BY DEF SchemaDiffLines
<1>1. AllPermitted(cfg, t, p1)
  BY DroppedForeignPermitted
<1> HIDE DEF p1
<1>2. AllPermitted(cfg, t, p2)
  BY <1>1, DroppedIndexesPermitted, PermittedConcat
<1> HIDE DEF p2
<1>3. AllPermitted(cfg, t, p3)
  BY <1>2, DroppedColumnsPermitted, PermittedConcat
<1> HIDE DEF p3
<1>4. AllPermitted(cfg, t, p4)
  BY <1>3, ColumnClausesPermitted, PermittedConcat
<1> HIDE DEF p4
<1>5. AllPermitted(cfg, t, p5)
  BY <1>4, ReplacedIndexesPermitted, PermittedConcat
<1> HIDE DEF p5
<1>6. AllPermitted(cfg, t, p6)
  BY <1>5, AddedIndexesPermitted, PermittedConcat
<1> HIDE DEF p6
<1>7. /\ AllPermitted(cfg, t, p7)
      /\ ToSet(p7) = ToSet(p6) \cup ToSet(AddedForeign(cfg, t, a))
  <2> DEFINE added == AddedForeign(cfg, t, a)
  <2>1. AllPermitted(cfg, t, added)
    BY AddedForeignPermitted
  <2> HIDE DEF added
  <2>2. AllPermitted(cfg, t, p6 \o added)
    BY <1>6, <2>1, PermittedConcat
  <2>3. ToSet(p6 \o added) = ToSet(p6) \cup ToSet(added)
    <3> DEFINE S == ToSet(p6) \cup ToSet(added)
    <3>1. p6 \in Seq(S) /\ added \in Seq(S)
      BY <1>6, <2>1, SeqMonotonic DEF AllPermitted
    <3> HIDE DEF S
    <3> QED BY <3>1, ToSetConcat
  <2> QED BY <2>2, <2>3 DEF added
<1> HIDE DEF p7
<1> QED BY <1>0, <1>7, AddedForeignPermitted

-----------------------------------------------------------------------------
(* The statements of a comparison.                                         *)

ProperStatement(st) ==
  /\ Len(st.clauses) \in Nat /\ DOMAIN st.clauses = 1..Len(st.clauses)
  /\ \A c \in ToSet(st.clauses) : ProperClause(c)
  /\ WellFormed(st.create)

\* A statement that alters t, and one that creates t or installs its constraints.
AltersOf(cfg, t, st) ==
  /\ st.table = t /\ ProperStatement(st)
  /\ st.clauses # <<>> /\ \A c \in ToSet(st.clauses) : Permitted(cfg, t, c)

CreatesOf(t, st) ==
  /\ st.table = t /\ ProperStatement(st) /\ st.clauses \in Seq(ToSet(st.clauses))
  /\ \A c \in ToSet(st.clauses) : c.op = "ADD CONSTRAINT"

LEMMA AlterProper ==
  ASSUME NEW t, NEW clauses, NEW S, clauses \in Seq(S), \A c \in S : ProperClause(c)
  PROVE  /\ ProperStatement(Alter(t, clauses))
         /\ Alter(t, clauses).table = t /\ Alter(t, clauses).clauses = clauses
<1>1. /\ Alter(t, clauses).clauses = clauses /\ Alter(t, clauses).create = NoSchema
      /\ Alter(t, clauses).table = t
  BY DEF Alter
<1>2. Len(clauses) \in Nat /\ DOMAIN clauses = 1..Len(clauses)
  OBVIOUS
<1>3. ToSet(clauses) \subseteq S
  BY ToSetSeq
<1> QED BY <1>1, <1>2, <1>3, NoSchemaWellFormed DEF ProperStatement

LEMMA OnlyMembers ==
  ASSUME NEW lines, lines \in Seq(ToSet(lines))
  PROVE  /\ Groups(lines) \in Seq(Seq(ToSet(lines))) /\ DOMAIN Groups(lines) = 1..3
         /\ \A c \in ToSet(lines) : \E i \in 1..3 : c \in ToSet(Groups(lines)[i])
<1> DEFINE L == ToSet(lines)
           P1 == {c \in L : IsForeignDropLine(c)}
           P2 == {c \in L : ~IsForeignDropLine(c) /\ ~IsForeignAddLine(c)}
           P3 == {c \in L : IsForeignAddLine(c)}
           g1 == Selected(lines, P1)
           g2 == Selected(lines, P2)
           g3 == Selected(lines, P3)
<1>1. \A i \in DOMAIN lines : lines[i] \in L
  BY DEF ToSet
<1>2. Groups(lines) = <<g1, g2, g3>>
  <2> HIDE DEF L
  <2>1. Only(lines, IsForeignDropLine) = g1
    BY <1>1 DEF Only, Selected
  <2>2. Only(lines, LAMBDA c : ~IsForeignDropLine(c) /\ ~IsForeignAddLine(c)) = g2
    BY <1>1 DEF Only, Selected
  <2>3. Only(lines, IsForeignAddLine) = g3
    BY <1>1 DEF Only, Selected
  <2> HIDE DEF g1, g2, g3
  <2> QED BY <2>1, <2>2, <2>3 DEF Groups
<1>3. \A c \in L : c \in P1 \/ c \in P2 \/ c \in P3
  OBVIOUS
<1> HIDE DEF P1, P2, P3, L
<1>4. lines \in Seq(L) /\ ToSet(lines) = L
  BY DEF L
<1>5. /\ g1 \in Seq(L) /\ ToSet(g1) = L \cap P1
      /\ g2 \in Seq(L) /\ ToSet(g2) = L \cap P2
      /\ g3 \in Seq(L) /\ ToSet(g3) = L \cap P3
  BY <1>4, SelectedMembers
<1> HIDE DEF g1, g2, g3
<1> DEFINE g == <<g1, g2, g3>>
<1>6. g \in Seq(Seq(L)) /\ DOMAIN g = 1..3 /\ g[1] = g1 /\ g[2] = g2 /\ g[3] = g3
  BY <1>5
<1> HIDE DEF g
<1>7. \A c \in L : \E i \in 1..3 : c \in ToSet(g[i])
  BY <1>3, <1>5, <1>6
<1> QED BY <1>2, <1>6, <1>7 DEF g, L

LEMMA AlterStatementsMembers ==
  ASSUME NEW cfg, NEW t, NEW lines, AllPermitted(cfg, t, lines)
  PROVE  /\ \A j \in DOMAIN AlterStatements(cfg, t, lines) :
              AltersOf(cfg, t, AlterStatements(cfg, t, lines)[j])
         /\ \A c \in ToSet(lines) : \E j \in DOMAIN AlterStatements(cfg, t, lines) :
              c \in ToSet(AlterStatements(cfg, t, lines)[j].clauses)
<1> DEFINE L == ToSet(lines)
           G == Groups(lines)
           sql == AlterStatements(cfg, t, lines)
<1>1. lines \in Seq(L) /\ \A c \in L : Permitted(cfg, t, c) /\ ProperClause(c)
  BY DEF AllPermitted, Permitted
<1>2. G \in Seq(Seq(L)) /\ DOMAIN G = 1..3 /\ \A c \in L : \E i \in 1..3 : c \in ToSet(G[i])
  BY <1>1, OnlyMembers
<1> HIDE DEF G, L
<1>3. \A s \in Seq(L) : s # <<>> => AltersOf(cfg, t, Alter(t, s)) /\ Alter(t, s).clauses = s
  BY <1>1, AlterProper, ToSetSeq DEF AltersOf
<1>4. CASE cfg.single
  <2> DEFINE each == FlattenSeq(G)
  <2>1. each \in Seq(L) /\ ToSet(each) = UNION {ToSet(G[i]) : i \in DOMAIN G}
    BY <1>2, FlattenMembers
  <2>2. sql = [i \in DOMAIN each |-> Alter(t, <<each[i]>>)]
    BY <1>4 DEF AlterStatements, G
  <2> HIDE DEF each, sql
  <2>3. \A i \in DOMAIN each : each[i] \in L
    BY <2>1
  <2>4. \A x \in L : <<x>> \in Seq(L) /\ <<x>> # <<>> /\ x \in ToSet(<<x>>)
    BY ToSetSingle
  <2>5. \A i \in DOMAIN sql : /\ i \in DOMAIN each /\ AltersOf(cfg, t, sql[i])
                              /\ each[i] \in ToSet(sql[i].clauses)
    BY <2>2, <2>3, <2>4, <1>3
  <2>6. \A c \in L : c \in ToSet(each)
    BY <1>2, <2>1
  <2>7. \A c \in L : \E j \in DOMAIN sql : c \in ToSet(sql[j].clauses)
    <3> SUFFICES ASSUME NEW c \in L PROVE \E j \in DOMAIN sql : c \in ToSet(sql[j].clauses)
      OBVIOUS
    <3>1. PICK j \in DOMAIN each : each[j] = c
      BY <2>6 DEF ToSet
    <3>2. j \in DOMAIN sql
      BY <2>2
    <3> QED BY <3>1, <3>2, <2>5
  <2> QED BY <2>5, <2>7 DEF sql, L
<1>5. CASE ~cfg.single
  <2> DEFINE P == {g \in ToSet(G) : g # <<>>}
             some == Selected(G, P)
  <2>1. sql = [i \in DOMAIN some |-> Alter(t, some[i])]
    <3>1. Only(G, LAMBDA g : g # <<>>) = some
      <4>1. \A i \in DOMAIN G : G[i] \in ToSet(G)
        BY DEF ToSet
      <4> QED BY <4>1 DEF Only, Selected
    <3> HIDE DEF some
    <3> QED BY <1>5, <3>1 DEF AlterStatements, G
  <2> HIDE DEF P
  <2>2. some \in Seq(Seq(L)) /\ ToSet(some) = ToSet(G) \cap P
    BY <1>2, SelectedMembers
  <2> HIDE DEF some, sql
  <2>3. \A i \in DOMAIN some : some[i] \in Seq(L) /\ some[i] # <<>>
    <3>1. \A g \in ToSet(some) : g \in Seq(L) /\ g # <<>>
      BY <2>2, ToSetSeq DEF P
    <3>2. \A i \in DOMAIN some : some[i] \in ToSet(some)
      BY DEF ToSet
    <3> QED BY <3>1, <3>2
  <2>4. \A i \in DOMAIN sql : /\ i \in DOMAIN some /\ AltersOf(cfg, t, sql[i])
                              /\ sql[i].clauses = some[i]
    BY <2>1, <2>3, <1>3
  <2>5. ASSUME NEW c \in L PROVE \E j \in DOMAIN sql : c \in ToSet(sql[j].clauses)
    <3>1. PICK i \in 1..3 : c \in ToSet(G[i])
      BY <1>2
    <3>2. G[i] \in ToSet(G)
      BY <1>2 DEF ToSet
    <3>3. G[i] # <<>>
      BY <3>1, ToSetEmpty
    <3>4. G[i] \in ToSet(some)
      BY <2>2, <3>2, <3>3 DEF P
    <3>5. PICK j \in DOMAIN some : some[j] = G[i]
      BY <3>4 DEF ToSet
    <3> QED BY <3>1, <3>5, <2>1, <2>4
  <2> QED BY <2>4, <2>5 DEF sql, L
<1> QED BY <1>4, <1>5

LEMMA CreateStatementsMembers ==
  ASSUME NEW t, NEW s, WellFormed(s)
  PROVE  /\ CreateStatements(t, s) \in Seq(ToSet(CreateStatements(t, s)))
         /\ \A j \in DOMAIN CreateStatements(t, s) : CreatesOf(t, CreateStatements(t, s)[j])
<1> DEFINE K == DOMAIN s.fks
           F(k) == Alter(t, <<AddForeign(k, s.fks[k])>>)
           f == [k \in K |-> F(k)]
           q == SetToSeq(K)
           first == Create(t, s)
           adds == Mapped(K, f)
           S == {first} \cup ToSet(adds)
           all == <<first>> \o adds
<1>1. IsFiniteSet(K)
  BY DEF WellFormed
<1>2. CreateStatements(t, s) = all
  <2>1. Clauses(K, LAMBDA k : Alter(t, <<AddForeign(k, s.fks[k])>>)) = [i \in DOMAIN q |-> F(q[i])]
    BY DEF Clauses
  <2>2. adds = [i \in DOMAIN q |-> f[q[i]]]
    BY DEF Mapped
  <2> HIDE DEF F, q, adds, first
  <2>3. \A i \in DOMAIN q : q[i] \in K
    BY <1>1, SetToSeqMembers DEF q
  <2> HIDE DEF K
  <2>4. adds = [i \in DOMAIN q |-> F(q[i])]
    BY <2>2, <2>3
  <2> QED BY <2>1, <2>4 DEF CreateStatements, first, K
<1>3. CreatesOf(t, first)
  <2>1. /\ first.table = t /\ first.clauses = <<>>
        /\ first.create = [s EXCEPT !.fks = <<>>]
    BY DEF Create
  <2>2. WellFormed([s EXCEPT !.fks = <<>>])
    <3> DEFINE u == [s EXCEPT !.fks = <<>>]
    <3>1. DOMAIN u = DOMAIN s /\ u.cols = s.cols /\ u.idx = s.idx /\ u.checks = s.checks /\ u.fks = <<>>
      BY DEF WellFormed
    <3> HIDE DEF u
    <3>2. IsFiniteSet(DOMAIN u.fks)
      BY <3>1, FS_EmptySet
    <3> QED BY <3>1, <3>2 DEF WellFormed, u
  <2>3. Len(<<>>) \in Nat /\ DOMAIN <<>> = 1..Len(<<>>) /\ ToSet(<<>>) = {} /\ <<>> \in Seq({})
    BY ToSetEmpty
  <2> HIDE DEF first
  <2> QED BY <2>1, <2>2, <2>3 DEF CreatesOf, ProperStatement
<1>4. \A k : CreatesOf(t, F(k))
  <2> SUFFICES ASSUME NEW k PROVE CreatesOf(t, F(k))
    OBVIOUS
  <2> DEFINE c == AddForeign(k, s.fks[k])
             cs == <<c>>
  <2>1. c.op = "ADD CONSTRAINT" /\ ProperClause(c)
    BY DEF AddForeign, ProperClause
  <2> HIDE DEF c
  <2>2. cs \in Seq({c}) /\ ToSet(cs) = {c}
    BY ToSetSingle
  <2>3. F(k) = Alter(t, cs)
    BY DEF c
  <2> HIDE DEF cs, F
  <2> DEFINE C == {c}
  <2>a. cs \in Seq(C) /\ \A x \in C : ProperClause(x)
    BY <2>1, <2>2
  <2> HIDE DEF C
  <2>4. ProperStatement(Alter(t, cs)) /\ Alter(t, cs).table = t /\ Alter(t, cs).clauses = cs
    BY <2>a, AlterProper
  <2> QED BY <2>1, <2>2, <2>3, <2>4 DEF CreatesOf
<1>5. \A k \in K : f[k] = F(k)
  OBVIOUS
<1> HIDE DEF K, F, f, first
<1>6. adds \in Seq(ToSet(adds)) /\ \A x : x \in ToSet(adds) <=> \E k \in K : x = f[k]
  BY <1>1, MappedMembers
<1> HIDE DEF adds
<1>7. all \in Seq(S)
  BY <1>6
<1>8. \A x \in S : CreatesOf(t, x)
  BY <1>3, <1>4, <1>5, <1>6
<1> HIDE DEF S, all
<1>9. \A j \in DOMAIN all : all[j] \in S
  BY <1>7
<1> QED BY <1>2, <1>7, <1>8, <1>9, SeqOwn

\* What the comparison of two texts says.  A constraint that both have, is not
\* ignored and is not installed again is the same in both.
LEMMA AlterDataSays ==
  ASSUME NEW cfg, NEW t, NEW a, {"src", "dst"} \subseteq DOMAIN a,
         IsSchema(a.src), IsSchema(a.dst)
  PROVE  /\ AlterData(cfg, t, a).src = Parse(a.src) /\ AlterData(cfg, t, a).dst = Parse(a.dst)
         /\ AlterData(cfg, t, a).type \in {"create", "alter"} => Exists(a.src)
         /\ AlterData(cfg, t, a).type = "create" =>
              \A j \in DOMAIN AlterData(cfg, t, a).sql : CreatesOf(t, AlterData(cfg, t, a).sql[j])
         /\ AlterData(cfg, t, a).type = "alter" =>
              \A j \in DOMAIN AlterData(cfg, t, a).sql : AltersOf(cfg, t, AlterData(cfg, t, a).sql[j])
         /\ \A k \in DOMAIN Parse(a.dst).fks \cap DOMAIN Parse(a.src).fks :
              \/ <<t, k>> \in cfg.ignoreFks
              \/ Parse(a.src).fks[k] = Parse(a.dst).fks[k]
              \/ /\ AlterData(cfg, t, a).type = "alter"
                 /\ \E j \in DOMAIN AlterData(cfg, t, a).sql :
                      AddForeign(k, Parse(a.src).fks[k]) \in ToSet(AlterData(cfg, t, a).sql[j].clauses)
<1> DEFINE p == [a EXCEPT !.src = Parse(a.src), !.dst = Parse(a.dst)]
           lines == SchemaDiffLines(cfg, t, p)
           d == AlterData(cfg, t, a)
           create == CreateStatements(t, a.src)
           alter == AlterStatements(cfg, t, lines)
<1>1. p.src = Parse(a.src) /\ p.dst = Parse(a.dst)
  OBVIOUS
<1>2. WellFormed(a.src) /\ WellFormed(a.dst)
  BY DEF IsSchema
<1>3. Parsed(p.src) /\ Parsed(p.dst)
  BY <1>1, <1>2, ParseProper
<1>4. \/ a.src = a.dst /\ d = [type |-> "no", src |-> p.src, dst |-> p.dst, sql |-> <<>>]
      \/ ~Exists(a.src) /\ d = [type |-> "drop", src |-> p.src, dst |-> p.dst, sql |-> <<>>]
      \/ /\ Exists(a.src) /\ ~Exists(a.dst)
         /\ d = [type |-> "create", src |-> p.src, dst |-> p.dst, sql |-> create]
      \/ lines = <<>> /\ d = [type |-> "no", src |-> p.src, dst |-> p.dst, sql |-> <<>>]
      \/ Exists(a.src) /\ d = [type |-> "alter", src |-> p.src, dst |-> p.dst, sql |-> alter]
  BY DEF AlterData
<1> HIDE DEF p
<1>5. /\ AllPermitted(cfg, t, lines)
      /\ \A k \in WantedForeign(cfg, t, p) : AddForeign(k, p.src.fks[k]) \in ToSet(lines)
  BY <1>3, LinesPermitted
<1>6. \A k \in DOMAIN p.src.fks \cap DOMAIN p.dst.fks :
        <<t, k>> \in cfg.ignoreFks \/ p.src.fks[k] = p.dst.fks[k] \/ k \in WantedForeign(cfg, t, p)
  BY DEF WantedForeign
<1>7. ~Exists(a.src) => DOMAIN p.src.fks = {}
  BY <1>1, <1>2, ParseProper, NoSchemaWellFormed DEF IsSchema
<1>8. ~Exists(a.dst) => DOMAIN p.dst.fks = {}
  BY <1>1, <1>2, ParseProper, NoSchemaWellFormed DEF IsSchema
<1> HIDE DEF lines, d, create, alter
<1>9. CASE /\ Exists(a.src)
           /\ d = [type |-> "alter", src |-> p.src, dst |-> p.dst, sql |-> alter]
  <2>1. d.type = "alter" /\ d.src = p.src /\ d.dst = p.dst /\ d.sql = alter
    BY <1>9
  <2>2. /\ \A j \in DOMAIN alter : AltersOf(cfg, t, alter[j])
        /\ \A c \in ToSet(lines) : \E j \in DOMAIN alter : c \in ToSet(alter[j].clauses)
    BY <1>5, AlterStatementsMembers DEF alter
  <2>3. \A k \in WantedForeign(cfg, t, p) :
          \E j \in DOMAIN alter : AddForeign(k, p.src.fks[k]) \in ToSet(alter[j].clauses)
    BY <1>5, <2>2
  <2> QED BY <1>1, <1>6, <1>9, <2>1, <2>2, <2>3 DEF d
<1>10. CASE /\ Exists(a.src) /\ ~Exists(a.dst)
            /\ d = [type |-> "create", src |-> p.src, dst |-> p.dst, sql |-> create]
  <2>1. d.type = "create" /\ d.src = p.src /\ d.dst = p.dst /\ d.sql = create
    BY <1>10
  <2>2. \A j \in DOMAIN create : CreatesOf(t, create[j])
    BY <1>2, CreateStatementsMembers DEF create
  <2> QED BY <1>1, <1>8, <1>10, <2>1, <2>2 DEF d
<1>11. CASE /\ ~Exists(a.src)
            /\ d = [type |-> "drop", src |-> p.src, dst |-> p.dst, sql |-> <<>>]
  <2>1. d.type = "drop" /\ d.src = p.src /\ d.dst = p.dst
    BY <1>11
  <2> QED BY <1>1, <1>7, <1>11, <2>1 DEF d
<1>12. CASE /\ a.src = a.dst \/ lines = <<>>
            /\ d = [type |-> "no", src |-> p.src, dst |-> p.dst, sql |-> <<>>]
  <2>1. d.type = "no" /\ d.src = p.src /\ d.dst = p.dst
    BY <1>12
  <2>2. \A k \in DOMAIN p.src.fks \cap DOMAIN p.dst.fks :
          <<t, k>> \in cfg.ignoreFks \/ p.src.fks[k] = p.dst.fks[k]
    <3>1. CASE a.src = a.dst
      BY <1>1, <3>1
    <3>2. CASE lines = <<>>
      <4>1. WantedForeign(cfg, t, p) = {}
        BY <1>5, <3>2, ToSetEmpty
      <4> QED BY <1>6, <4>1
    <3> QED BY <1>12, <3>1, <3>2
  <2> QED BY <1>1, <2>1, <2>2 DEF d
<1> QED BY <1>4, <1>9, <1>10, <1>11, <1>12

-----------------------------------------------------------------------------
(* The items of a plan.                                                    *)

OwnItems(its) == {x \in its : ~x.temporary}

\* The statement by which an item takes the constraint k of t away or puts it back.
Temporary(s, i, t, k) ==
  /\ i.key = <<t, k>>
  /\ i.restore => i.stmt = Alter(t, <<AddForeign(k, s[t].src.fks[k])>>)
  /\ ~i.restore => i.stmt = Alter(t, <<DropForeign(k)>>)

LEMMA PlanSays ==
  ASSUME NEW cfg, NEW s, ~Plan(cfg, s).refused
  PROVE  /\ \A i \in Plan(cfg, s).items :
              \/ /\ ~i.temporary /\ ~i.restore
                 /\ \E t \in ToSet(OrderTableAlters(s)) : \E j \in DOMAIN s[t].sql : i.stmt = s[t].sql[j]
              \/ /\ i.temporary
                 /\ \E t \in DOMAIN s : \E k \in DOMAIN s[t].dst.fks \cap DOMAIN s[t].src.fks :
                      /\ Temporary(s, i, t, k)
                      /\ InScope(cfg, t) /\ <<t, k>> \notin cfg.ignoreFks
                      /\ <<t, k>> \notin PlannedKeys(OwnItems(Plan(cfg, s).items))
         /\ \A t \in ToSet(OrderTableAlters(s)) : \A j \in DOMAIN s[t].sql :
              \E i \in Plan(cfg, s).items : ~i.temporary /\ i.stmt = s[t].sql[j]
<1> DEFINE ordered == OrderTableAlters(s)
           planned == PlannedItems(s, ordered)
           inbound == InboundKeys(s, planned)
           temps == TemporaryItems(s, Len(ordered), inbound)
           refused == \E key \in inbound : Untouchable(cfg, s, key)
           its == Plan(cfg, s).items
<1>1. ~refused /\ its = planned \cup temps
  <2>1. Plan(cfg, s) = [refused |-> refused, items |-> IF refused THEN {} ELSE planned \cup temps]
    BY DEF Plan
  <2> HIDE DEF refused, planned, temps
  <2>2. Plan(cfg, s).refused = refused /\ Plan(cfg, s).items = IF refused THEN {} ELSE planned \cup temps
    BY <2>1
  <2> QED BY <2>2
<1>2. \A i \in planned :
        /\ i.temporary = FALSE /\ i.restore = FALSE
        /\ \E t \in ToSet(ordered) : \E j \in DOMAIN s[t].sql : i.stmt = s[t].sql[j]
  <2> HIDE DEF ordered
  <2> QED BY DEF PlannedItems, PlannedItem, ToSet
<1>3. \A t \in ToSet(ordered) : \A j \in DOMAIN s[t].sql : \E i \in planned : i.stmt = s[t].sql[j]
  <2> SUFFICES ASSUME NEW t \in ToSet(ordered), NEW j \in DOMAIN s[t].sql
               PROVE  \E i \in planned : i.stmt = s[t].sql[j]
    OBVIOUS
  <2> HIDE DEF ordered
  <2>1. PICK n \in DOMAIN ordered : ordered[n] = t
    BY DEF ToSet
  <2>2. PlannedItem(n - 1, j, s[t].sql[j]) \in planned
    BY <2>1 DEF PlannedItems
  <2>3. PlannedItem(n - 1, j, s[t].sql[j]).stmt = s[t].sql[j]
    BY DEF PlannedItem
  <2> QED BY <2>2, <2>3
<1>4. \A key \in inbound :
        \E t \in DOMAIN s : \E k \in DOMAIN s[t].dst.fks \cap DOMAIN s[t].src.fks :
           /\ key = <<t, k>> /\ InScope(cfg, t) /\ <<t, k>> \notin cfg.ignoreFks
           /\ <<t, k>> \notin PlannedKeys(planned)
  <2> SUFFICES ASSUME NEW key \in inbound
               PROVE  \E t \in DOMAIN s : \E k \in DOMAIN s[t].dst.fks \cap DOMAIN s[t].src.fks :
                         /\ key = <<t, k>> /\ InScope(cfg, t) /\ <<t, k>> \notin cfg.ignoreFks
                         /\ <<t, k>> \notin PlannedKeys(planned)
    OBVIOUS
  <2> HIDE DEF planned
  <2>1. /\ key \in UNION {{<<t, k>> : k \in DOMAIN s[t].dst.fks} : t \in DOMAIN s}
        /\ key \notin PlannedKeys(planned)
    BY DEF InboundKeys
  <2>a. PICK t \in DOMAIN s : key \in {<<t, k>> : k \in DOMAIN s[t].dst.fks}
    BY <2>1
  <2>2. PICK k \in DOMAIN s[t].dst.fks : key = <<t, k>>
    BY <2>a
  <2>3. ~Untouchable(cfg, s, key)
    BY <1>1
  <2>4. key[1] = t /\ key[2] = k
    BY <2>2
  <2> QED BY <2>1, <2>2, <2>3, <2>4 DEF Untouchable
<1>5. \A i \in temps : i.temporary = TRUE /\ i.key \in inbound /\ \A t, k : i.key = <<t, k>> => Temporary(s, i, t, k)
  <2> DEFINE rank(key) == Cardinality({k \in inbound : Before(k, key)})
             D(key) == DetachItem(key, rank(key) - 1 - Cardinality(DOMAIN s))
             R(key) == RestoreItem(s, key, Len(ordered) + rank(key))
  <2>1. temps = {D(key) : key \in inbound} \cup {R(key) : key \in inbound}
    BY DEF TemporaryItems
  <2>2. \A t, k : /\ D(<<t, k>>).temporary = TRUE /\ D(<<t, k>>).restore = FALSE
                  /\ D(<<t, k>>).key = <<t, k>> /\ D(<<t, k>>).stmt = Alter(t, <<DropForeign(k)>>)
    BY DEF DetachItem
  <2>3. \A t, k : /\ R(<<t, k>>).temporary = TRUE /\ R(<<t, k>>).restore = TRUE
                  /\ R(<<t, k>>).key = <<t, k>>
                  /\ R(<<t, k>>).stmt = Alter(t, <<AddForeign(k, s[t].src.fks[k])>>)
    BY DEF RestoreItem
  <2> HIDE DEF D, R, inbound
  <2>4. \A key \in inbound : \E t, k : key = <<t, k>>
    BY <1>4
  <2> SUFFICES ASSUME NEW i \in temps
               PROVE  /\ i.temporary = TRUE /\ i.key \in inbound
                      /\ \A t, k : i.key = <<t, k>> => Temporary(s, i, t, k)
    OBVIOUS
  <2>5. PICK key \in inbound : i = D(key) \/ i = R(key)
    BY <2>1
  <2>6. PICK t, k : key = <<t, k>>
    BY <2>4
  <2>7. i = D(<<t, k>>) \/ i = R(<<t, k>>)
    BY <2>5, <2>6
  <2>8. i.temporary = TRUE /\ i.key = <<t, k>> /\ <<t, k>> \in inbound
    BY <2>2, <2>3, <2>5, <2>6, <2>7
  <2>9. Temporary(s, i, t, k)
    <3>1. CASE i = D(<<t, k>>)
      <4>1. i.restore = FALSE /\ i.key = <<t, k>> /\ i.stmt = Alter(t, <<DropForeign(k)>>)
        BY <3>1, <2>2
      <4> QED BY <4>1 DEF Temporary
    <3>2. CASE i = R(<<t, k>>)
      <4>1. /\ i.restore = TRUE /\ i.key = <<t, k>>
            /\ i.stmt = Alter(t, <<AddForeign(k, s[t].src.fks[k])>>)
        BY <3>2, <2>3
      <4> QED BY <4>1 DEF Temporary
    <3> QED BY <2>7, <3>1, <3>2
  <2>10. \A u, m : i.key = <<u, m>> => u = t /\ m = k
    BY <2>8
  <2> QED BY <2>8, <2>9, <2>10
<1> HIDE DEF planned, temps, inbound, its
<1>6. OwnItems(its) = planned
  BY <1>1, <1>2, <1>5 DEF OwnItems
<1>7. ASSUME NEW i \in temps
      PROVE  \E t \in DOMAIN s : \E k \in DOMAIN s[t].dst.fks \cap DOMAIN s[t].src.fks :
                      /\ Temporary(s, i, t, k)
                      /\ InScope(cfg, t) /\ <<t, k>> \notin cfg.ignoreFks
                      /\ <<t, k>> \notin PlannedKeys(planned)
  <2>1. i.key \in inbound /\ \A t, k : i.key = <<t, k>> => Temporary(s, i, t, k)
    BY <1>5
  <2> QED BY <2>1, <1>4
<1> HIDE DEF ordered
<1>8. \A i \in its :
        \/ /\ ~i.temporary /\ ~i.restore
           /\ \E t \in ToSet(ordered) : \E j \in DOMAIN s[t].sql : i.stmt = s[t].sql[j]
        \/ /\ i.temporary
           /\ \E t \in DOMAIN s : \E k \in DOMAIN s[t].dst.fks \cap DOMAIN s[t].src.fks :
                      /\ Temporary(s, i, t, k)
                      /\ InScope(cfg, t) /\ <<t, k>> \notin cfg.ignoreFks
                      /\ <<t, k>> \notin PlannedKeys(OwnItems(its))
  BY <1>1, <1>2, <1>5, <1>6, <1>7
<1>9. \A t \in ToSet(ordered) : \A j \in DOMAIN s[t].sql :
              \E i \in its : ~i.temporary /\ i.stmt = s[t].sql[j]
  BY <1>1, <1>2, <1>3
<1> QED BY <1>8, <1>9 DEF its, ordered

-----------------------------------------------------------------------------
(* A single clause, a single column.                                       *)

LEMMA OneClause ==
  ASSUME NEW db, NEW t, NEW c, t \in DOMAIN db, Accepts(db, Alter(t, <<c>>))
  PROVE  Applicable(db, t, db[t], c) /\ After(db, Alter(t, <<c>>))[t] = Changed(db[t], c)
<1> DEFINE st == Alter(t, <<c>>)
           e == [db |-> db, st |-> st]
           F == Prefix(e)
<1>1. st.table = t /\ st.clauses = <<c>> /\ Len(st.clauses) = 1 /\ st.clauses[1] = c /\ st.clauses # <<>>
  BY DEF Alter
<1>2. /\ e.db = db /\ e.st = st /\ Altered(db, st) = F[Len(st.clauses)]
      /\ F = [n \in 0..Len(st.clauses) |-> ClauseDef(e, F, n)]
  BY <1>1, PrefixIs
<1>3. Altered(db, st) = F[1]
  BY <1>1, <1>2
<1>4. /\ Outcome(db, st).ok /\ After(db, st)[t] = Outcome(db, st).s
      /\ Outcome(db, st).ok => Outcome(db, st) = Altered(db, st)
  BY <1>1 DEF Accepts, After, Outcome
<1> HIDE DEF st, e
<1>5. F = [n \in 0..1 |-> ClauseDef(e, F, n)]
  BY <1>1, <1>2
<1> HIDE DEF F
<1>6. F[0] = ClauseDef(e, F, 0) /\ F[1] = ClauseDef(e, F, 1)
  BY <1>5
<1>7. F[0].s = db[t]
  BY <1>1, <1>2, <1>6 DEF ClauseDef
<1>8. F[1] = Extended(db, t, F[0], c)
  <2>1. F[1] = Extended(e.db, e.st.table, F[1 - 1], e.st.clauses[1])
    BY <1>6 DEF ClauseDef
  <2>2. F[1 - 1] = F[0]
    OBVIOUS
  <2>3. e.db = db /\ e.st.table = t /\ e.st.clauses[1] = c
    BY <1>1, <1>2
  <2> QED BY <2>1, <2>2, <2>3
<1>9. F[1].ok => Applicable(db, t, db[t], c) /\ F[1].s = Changed(db[t], c)
  BY <1>7, <1>8 DEF Extended
<1>10. F[1].ok
  BY <1>3, <1>4
<1> QED BY <1>3, <1>4, <1>9, <1>10 DEF st

\* The constraint k is put into the table s, which becomes u: the columns, the
\* indexes and the other constraints stay.
Reinstalled(s, u, k, fk) ==
  /\ k \notin DOMAIN s.fks
  /\ u.cols = s.cols /\ u.fks = With(s.fks, k, fk)
  /\ u.idx = ForeignIndexed(s, k, fk) /\ u.charset = s.charset /\ u.checks = s.checks
  /\ Serves(s, fk.cols) \/ ToString(k) \notin DOMAIN s.idx

LEMMA ForeignInstalled ==
  ASSUME NEW db, NEW t, NEW k, NEW fk, t \in DOMAIN db, WellFormed(db[t]),
         Accepts(db, Alter(t, <<AddForeign(k, fk)>>))
  PROVE  Reinstalled(db[t], After(db, Alter(t, <<AddForeign(k, fk)>>))[t], k, fk)
<1> DEFINE c == AddForeign(k, fk)
           u == After(db, Alter(t, <<c>>))[t]
           idx == ForeignIndexed(db[t], k, fk)
<1>1. Applicable(db, t, db[t], c) /\ u = Changed(db[t], c)
  <2>1. Accepts(db, Alter(t, <<c>>))
    OBVIOUS
  <2> HIDE DEF c
  <2> QED BY <2>1, OneClause
<1>2. c.op = "ADD CONSTRAINT" /\ c.constraint = k /\ c.fk = fk
  BY DEF AddForeign
<1> HIDE DEF c
<1>3. Changed(db[t], c) = [db[t] EXCEPT !.fks = With(db[t].fks, k, fk), !.idx = idx]
  BY <1>2 DEF Changed, WellFormed
<1>4. /\ k \notin {x[2] : x \in Constraints(db)}
      /\ Serves(db[t], fk.cols) \/ ToString(k) \notin DOMAIN db[t].idx
  BY <1>1, <1>2 DEF Applicable
<1> HIDE DEF u, idx
<1>5. /\ u.cols = db[t].cols /\ u.fks = With(db[t].fks, k, fk)
      /\ u.idx = idx /\ u.charset = db[t].charset /\ u.checks = db[t].checks
  BY <1>1, <1>3 DEF WellFormed
<1>6. k \notin DOMAIN db[t].fks
  <2> SUFFICES ASSUME k \in DOMAIN db[t].fks PROVE FALSE
    OBVIOUS
  <2>1. <<t, k>> \in Constraints(db)
    BY DEF Constraints
  <2>2. <<t, k>>[2] = k
    OBVIOUS
  <2> QED BY <1>4, <2>1, <2>2
<1> QED BY <1>4, <1>5, <1>6 DEF u, c, idx, Reinstalled

\* A constraint taken away: nothing else changes.
LEMMA ForeignRemoved ==
  ASSUME NEW db, NEW t, NEW k, t \in DOMAIN db, WellFormed(db[t]),
         Accepts(db, Alter(t, <<DropForeign(k)>>))
  PROVE  LET u == After(db, Alter(t, <<DropForeign(k)>>))[t]
         IN  /\ u.cols = db[t].cols /\ u.idx = db[t].idx
             /\ u.charset = db[t].charset /\ u.checks = db[t].checks
             /\ u.fks = Without(db[t].fks, k)
<1> DEFINE c == DropForeign(k)
           u == After(db, Alter(t, <<c>>))[t]
<1>1. u = Changed(db[t], c)
  <2>1. Accepts(db, Alter(t, <<c>>))
    OBVIOUS
  <2> HIDE DEF c
  <2> QED BY <2>1, OneClause
<1>2. c.op = "DROP FOREIGN KEY" /\ c.constraint = k
  BY DEF DropForeign
<1> HIDE DEF c
<1>3. Changed(db[t], c) = [db[t] EXCEPT !.fks = Without(db[t].fks, k)]
  BY <1>2 DEF Changed, WellFormed
<1> HIDE DEF u
<1>4. /\ u.cols = db[t].cols /\ u.idx = db[t].idx
      /\ u.charset = db[t].charset /\ u.checks = db[t].checks
      /\ u.fks = Without(db[t].fks, k)
  BY <1>1, <1>3 DEF WellFormed
<1> QED BY <1>4 DEF u, c

LEMMA UniqueNames ==
  ASSUME NEW s, WellFormed(s), ValidTable(s)
  PROVE  \A i, j \in DOMAIN s.cols : s.cols[i].name = s.cols[j].name => i = j
<1> DEFINE D == DOMAIN s.cols
           N == ColNames(s)
           f == [i \in D |-> s.cols[i].name]
<1>1. D = 1..Len(s.cols) /\ Len(s.cols) \in Nat
  BY DEF WellFormed
<1>2. CASE ~Exists(s)
  BY <1>2 DEF Exists
<1>3. CASE Exists(s)
  <2>1. Cardinality(N) = Len(s.cols)
    BY <1>3 DEF ValidTable
  <2>2. IsFiniteSet(D) /\ Cardinality(D) = Len(s.cols)
    BY <1>1, FS_Interval
  <2>3. f \in Surjection(D, N) /\ \A i \in D : f[i] = s.cols[i].name
    BY DEF Surjection, ColNames
  <2> HIDE DEF D, N, f
  <2>4. f \in Injection(D, N)
    BY <2>1, <2>2, <2>3, FS_Surjection
  <2>5. \A i, j \in D : s.cols[i].name = s.cols[j].name => i = j
    BY <2>3, <2>4 DEF Injection, IsInjective
  <2> QED BY <2>5 DEF D
<1> QED BY <1>2, <1>3

LEMMA PositionIs ==
  ASSUME NEW s, NEW n \in ColNames(s)
  PROVE  Position(s, n) \in DOMAIN s.cols /\ s.cols[Position(s, n)].name = n
<1>1. \E i \in DOMAIN s.cols : s.cols[i].name = n
  BY DEF ColNames
<1> QED BY <1>1 DEF Position

LEMMA UniqueColumn ==
  ASSUME NEW s, WellFormed(s), ValidTable(s), NEW n \in ColNames(s)
  PROVE  Called(s, n) = {Column(s, n)} /\ Exists(s)
<1>1. \A i, j \in DOMAIN s.cols : s.cols[i].name = s.cols[j].name => i = j
  BY UniqueNames
<1>2. Position(s, n) \in DOMAIN s.cols /\ s.cols[Position(s, n)].name = n
  BY PositionIs
<1>3. Exists(s)
  BY <1>2 DEF Exists
<1> QED BY <1>1, <1>2, <1>3 DEF Called, Column, ToSet

\* A column with all its namesakes is the column.
LEMMA SameColumn ==
  ASSUME NEW s, NEW u, WellFormed(s), WellFormed(u), ValidTable(s), ValidTable(u),
         NEW n \in ColNames(s), Called(u, n) = Called(s, n)
  PROVE  n \in ColNames(u) /\ Column(u, n) = Column(s, n)
<1>1. Called(s, n) = {Column(s, n)}
  BY UniqueColumn
<1>2. n \in ColNames(u)
  BY <1>1, ColumnNames DEF Called
<1>3. Called(u, n) = {Column(u, n)}
  BY <1>2, UniqueColumn
<1> QED BY <1>1, <1>2, <1>3

-----------------------------------------------------------------------------
(* A comparison that finds nothing to do.  Of tables whose texts say what  *)
(* they mean, it is right.                                                 *)

LEMMA NothingListed ==
  ASSUME NEW S, IsFiniteSet(S), NEW c, DOMAIN c = DOMAIN SetToSeq(S), c = <<>>
  PROVE  S = {}
<1>1. ToSet(SetToSeq(S)) = S
  BY SetToSeqMembers
<1>2. DOMAIN SetToSeq(S) = {}
  OBVIOUS
<1> QED BY <1>1, <1>2 DEF ToSet

LEMMA EmptyConcat ==
  ASSUME NEW S, NEW p \in Seq(S), NEW q \in Seq(S), p \o q = <<>>
  PROVE  p = <<>> /\ q = <<>>
<1>1. Len(p) + Len(q) = 0 /\ Len(p) \in Nat /\ Len(q) \in Nat
  <2>1. Len(p \o q) = Len(p) + Len(q)
    BY ConcatElements
  <2> QED BY <2>1
<1>2. Len(p) = 0 /\ Len(q) = 0
  BY <1>1
<1> QED BY <1>2

LEMMA PermittedEmpty ==
  ASSUME NEW cfg, NEW t, NEW p, NEW q, AllPermitted(cfg, t, p), AllPermitted(cfg, t, q),
         p \o q = <<>>
  PROVE  p = <<>> /\ q = <<>>
<1> DEFINE S == ToSet(p) \cup ToSet(q)
<1>1. p \in Seq(S) /\ q \in Seq(S)
  BY SeqMonotonic DEF AllPermitted
<1> HIDE DEF S
<1> QED BY <1>1, EmptyConcat

LEMMA NoLines ==
  ASSUME NEW cfg, NEW t, NEW a, Parsed(a.src), Parsed(a.dst), SchemaDiffLines(cfg, t, a) = <<>>
  PROVE  /\ DroppedIndexes(cfg, t, a) = <<>> /\ DroppedColumns(cfg, t, a) = <<>>
         /\ ColumnClauses(cfg, t, a) = <<>> /\ ReplacedIndexes(cfg, t, a) = <<>>
         /\ AddedIndexes(cfg, t, a) = <<>> /\ AddedForeign(cfg, t, a) = <<>>
         /\ DroppedForeign(cfg, t, a) = <<>>
<1> DEFINE p1 == DroppedForeign(cfg, t, a)
           p2 == p1 \o DroppedIndexes(cfg, t, a)
           p3 == p2 \o DroppedColumns(cfg, t, a)
           p4 == p3 \o ColumnClauses(cfg, t, a)
           p5 == p4 \o ReplacedIndexes(cfg, t, a)
           p6 == p5 \o AddedIndexes(cfg, t, a)
           p7 == p6 \o AddedForeign(cfg, t, a)
<1>0. p7 = <<>>
  BY DEF SchemaDiffLines
<1>1. AllPermitted(cfg, t, p1)
  BY DroppedForeignPermitted
<1>a. p1 = DroppedForeign(cfg, t, a)
  OBVIOUS
<1> HIDE DEF p1
<1>2. AllPermitted(cfg, t, p2)
  BY <1>1, DroppedIndexesPermitted, PermittedConcat
<1>b. p2 = <<>> => p1 = <<>> /\ DroppedIndexes(cfg, t, a) = <<>>
  BY <1>1, DroppedIndexesPermitted, PermittedEmpty
<1> HIDE DEF p2
<1>3. AllPermitted(cfg, t, p3)
  BY <1>2, DroppedColumnsPermitted, PermittedConcat
<1>c. p3 = <<>> => p2 = <<>> /\ DroppedColumns(cfg, t, a) = <<>>
  BY <1>2, DroppedColumnsPermitted, PermittedEmpty
<1> HIDE DEF p3
<1>4. AllPermitted(cfg, t, p4)
  BY <1>3, ColumnClausesPermitted, PermittedConcat
<1>d. p4 = <<>> => p3 = <<>> /\ ColumnClauses(cfg, t, a) = <<>>
  BY <1>3, ColumnClausesPermitted, PermittedEmpty
<1> HIDE DEF p4
<1>5. AllPermitted(cfg, t, p5)
  BY <1>4, ReplacedIndexesPermitted, PermittedConcat
<1>e. p5 = <<>> => p4 = <<>> /\ ReplacedIndexes(cfg, t, a) = <<>>
  BY <1>4, ReplacedIndexesPermitted, PermittedEmpty
<1> HIDE DEF p5
<1>6. AllPermitted(cfg, t, p6)
  BY <1>5, AddedIndexesPermitted, PermittedConcat
<1>f. p6 = <<>> => p5 = <<>> /\ AddedIndexes(cfg, t, a) = <<>>
  BY <1>5, AddedIndexesPermitted, PermittedEmpty
<1> HIDE DEF p6
<1>g. p7 = <<>> => p6 = <<>> /\ AddedForeign(cfg, t, a) = <<>>
  BY <1>6, AddedForeignPermitted, PermittedEmpty
<1> HIDE DEF p7
<1> QED BY <1>0, <1>a, <1>b, <1>c, <1>d, <1>e, <1>f, <1>g

\* What no clause asks for.
LEMMA NothingAsked ==
  ASSUME NEW cfg, NEW t, NEW a, Parsed(a.src), Parsed(a.dst), SchemaDiffLines(cfg, t, a) = <<>>
  PROVE  /\ \A i \in DOMAIN a.src.cols : ColumnClause(cfg, t, a, i) = <<>>
         /\ cfg.drop => \A n \in ColNames(a.dst) \ ColNames(a.src) : <<t, n>> \in cfg.ignoreCols
         /\ \A n \in DOMAIN a.src.idx : <<t, n>> \notin cfg.ignoreIdx =>
              n \in DOMAIN a.dst.idx /\ a.dst.idx[n] = a.src.idx[n]
         /\ cfg.drop => \A n \in DOMAIN a.dst.idx \ DOMAIN a.src.idx : <<t, n>> \in cfg.ignoreIdx
         /\ \A k \in DOMAIN a.src.fks : <<t, k>> \notin cfg.ignoreFks =>
              k \in DOMAIN a.dst.fks /\ a.dst.fks[k] = a.src.fks[k]
         /\ cfg.drop => \A k \in DOMAIN a.dst.fks \ DOMAIN a.src.fks : <<t, k>> \in cfg.ignoreFks
<1> DEFINE dropF == (WantedForeign(cfg, t, a) \cap DOMAIN a.dst.fks)
                      \cup {k \in DOMAIN a.dst.fks \ DOMAIN a.src.fks :
                              cfg.drop /\ <<t, k>> \notin cfg.ignoreFks}
           dropI == {n \in DOMAIN a.dst.idx \ DOMAIN a.src.idx : cfg.drop /\ <<t, n>> \notin cfg.ignoreIdx}
           dropC == {n \in ColNames(a.dst) \ ColNames(a.src) : cfg.drop /\ <<t, n>> \notin cfg.ignoreCols}
           repl == {n \in Compared(cfg, t, a) \cap DOMAIN a.dst.idx : a.src.idx[n] # a.dst.idx[n]}
           addI == Compared(cfg, t, a) \ DOMAIN a.dst.idx
           addF == WantedForeign(cfg, t, a)
<1>f. /\ IsFiniteSet(DOMAIN a.dst.idx) /\ IsFiniteSet(DOMAIN a.src.idx)
      /\ IsFiniteSet(DOMAIN a.dst.fks) /\ IsFiniteSet(DOMAIN a.src.fks) /\ IsFiniteSet(ColNames(a.dst))
  BY ColNamesFinite DEF Parsed
<1>g. /\ dropF \subseteq DOMAIN a.dst.fks /\ dropI \subseteq DOMAIN a.dst.idx
      /\ dropC \subseteq ColNames(a.dst) /\ repl \subseteq DOMAIN a.dst.idx
      /\ addI \subseteq DOMAIN a.src.idx /\ addF \subseteq DOMAIN a.src.fks
  BY DEF Compared, WantedForeign
<1>h. /\ DOMAIN DroppedForeign(cfg, t, a) = DOMAIN SetToSeq(dropF)
      /\ DOMAIN DroppedIndexes(cfg, t, a) = DOMAIN SetToSeq(dropI)
      /\ DOMAIN DroppedColumns(cfg, t, a) = DOMAIN SetToSeq(dropC)
      /\ DOMAIN ReplacedIndexes(cfg, t, a) = DOMAIN SetToSeq(repl)
      /\ DOMAIN AddedIndexes(cfg, t, a) = DOMAIN SetToSeq(addI)
      /\ DOMAIN AddedForeign(cfg, t, a) = DOMAIN SetToSeq(addF)
  BY DEF DroppedForeign, DroppedIndexes, DroppedColumns, ReplacedIndexes, AddedIndexes, AddedForeign, Clauses
<1> HIDE DEF dropF, dropI, dropC, repl, addI, addF
<1>i. /\ IsFiniteSet(dropF) /\ IsFiniteSet(dropI) /\ IsFiniteSet(dropC)
      /\ IsFiniteSet(repl) /\ IsFiniteSet(addI) /\ IsFiniteSet(addF)
  BY <1>f, <1>g, FS_Subset
<1>1. dropF = {} BY <1>h, <1>i, NoLines, NothingListed
<1>2. dropI = {} BY <1>h, <1>i, NoLines, NothingListed
<1>3. dropC = {} BY <1>h, <1>i, NoLines, NothingListed
<1>4. repl = {} BY <1>h, <1>i, NoLines, NothingListed
<1>5. addI = {} BY <1>h, <1>i, NoLines, NothingListed
<1>6. addF = {} BY <1>h, <1>i, NoLines, NothingListed
<1>7. \A i \in DOMAIN a.src.cols : ColumnClause(cfg, t, a, i) = <<>>
  <2> DEFINE D == DOMAIN a.src.cols
             K(i) == ColumnClause(cfg, t, a, i)
             ss == [i \in D |-> K(i)]
             S == UNION {ToSet(K(i)) : i \in D}
  <2>1. D = 1..Len(a.src.cols) /\ Len(a.src.cols) \in Nat
    BY DEF Parsed
  <2>2. ASSUME NEW i \in D PROVE K(i) \in Seq(S) /\ (K(i) = <<>> \/ ToSet(K(i)) # {})
    <3>1. CASE K(i) = <<>>
      BY <3>1
    <3>2. CASE K(i) # <<>>
      <4>1. PICK x : /\ K(i) = <<x>>
                     /\ x.op \in {"ADD", "CHANGE", "MODIFY"} /\ x.col = a.src.cols[i]
                     /\ <<t, a.src.cols[i].name>> \notin cfg.ignoreCols
        BY <3>2, ColumnClauseShape
      <4>2. ToSet(K(i)) = {x}
        BY <4>1, ToSetSingle
      <4>3. x \in S
        BY <4>2
      <4> HIDE DEF S, K
      <4> QED BY <4>1, <4>2, <4>3
    <3> QED BY <3>1, <3>2
  <2>3. FlattenSeq(ss) = <<>>
    BY NoLines DEF ColumnClauses
  <2> HIDE DEF S, K
  <2>4. ss \in Seq(Seq(S)) /\ DOMAIN ss = D /\ \A i \in D : ss[i] = K(i)
    BY <2>1, <2>2
  <2> HIDE DEF ss, D
  <2>5. ToSet(FlattenSeq(ss)) = UNION {ToSet(ss[i]) : i \in DOMAIN ss}
    BY <2>4, FlattenMembers
  <2>6. \A i \in D : ToSet(K(i)) = {}
    BY <2>3, <2>4, <2>5, ToSetEmpty
  <2> QED BY <2>2, <2>6 DEF K, D
<1>8. cfg.drop => \A n \in ColNames(a.dst) \ ColNames(a.src) : <<t, n>> \in cfg.ignoreCols
  BY <1>3 DEF dropC
<1>9. \A n \in DOMAIN a.src.idx : <<t, n>> \notin cfg.ignoreIdx =>
        n \in DOMAIN a.dst.idx /\ a.dst.idx[n] = a.src.idx[n]
  BY <1>4, <1>5 DEF repl, addI, Compared
<1>10. cfg.drop => \A n \in DOMAIN a.dst.idx \ DOMAIN a.src.idx : <<t, n>> \in cfg.ignoreIdx
  BY <1>2 DEF dropI
<1>11. \A k \in DOMAIN a.src.fks : <<t, k>> \notin cfg.ignoreFks =>
         k \in DOMAIN a.dst.fks /\ a.dst.fks[k] = a.src.fks[k]
  BY <1>6 DEF addF, WantedForeign
<1>12. cfg.drop => \A k \in DOMAIN a.dst.fks \ DOMAIN a.src.fks : <<t, k>> \in cfg.ignoreFks
  BY <1>1 DEF dropF
<1> QED BY <1>7, <1>8, <1>9, <1>10, <1>11, <1>12

\* A table whose text says what it means: no comment ends it, the name of a character
\* set is not the mark of an omitted one, an index and a CHECK are told apart by their
\* kinds and have different names.
PlainTable(s) ==
  /\ \A c \in ToSet(s.cols) : c.comment # SaysEngine /\ c.charset # "inherited"
  /\ \A n \in DOMAIN s.idx : s.idx[n].kind # "CHECK"
  /\ \A n \in DOMAIN s.checks : s.checks[n].kind = "CHECK"
  /\ DOMAIN s.idx \cap DOMAIN s.checks = {}

\* Whether a column has a character set is a matter of its type, and points in time
\* have none.
PlainTypes(s, d) ==
  /\ \A c \in ToSet(s.cols), e \in ToSet(d.cols) :
       c.type = e.type => (c.charset = "none" <=> e.charset = "none")
  /\ \A c \in ToSet(s.cols) \cup ToSet(d.cols) :
       c.type \in {"timestamp", "datetime"} => c.charset = "none"

\* What Converged says of a table s of the source and a table d of the destination.
ColumnAgrees(cfg, s, d, n) ==
  /\ n \in ColNames(d)
  /\ \/ Column(d, n).type = Column(s, n).type
     \/ cfg.skipTs /\ TimestampDatetime(Column(s, n), Column(d, n))
  /\ Column(d, n).comment = Column(s, n).comment
  /\ s.charset = d.charset => Column(d, n).charset = Column(s, n).charset
  /\ cfg.fieldOrder => Position(d, n) = Position(s, n)

Agrees(cfg, t, s, d) ==
  /\ Exists(d)
  /\ \A n \in ColNames(s) : <<t, n>> \notin cfg.ignoreCols => ColumnAgrees(cfg, s, d, n)
  /\ \A f \in {"idx", "checks"} : \A n \in DOMAIN s[f] : <<t, n>> \notin cfg.ignoreIdx =>
       n \in DOMAIN d[f] /\ d[f][n] = s[f][n]
  /\ \A k \in DOMAIN s.fks : <<t, k>> \notin cfg.ignoreFks =>
       k \in DOMAIN d.fks /\ d.fks[k] = s.fks[k]
  /\ cfg.drop =>
       /\ \A n \in ColNames(d) \ ColNames(s) : <<t, n>> \in cfg.ignoreCols
       /\ \A f \in {"idx", "checks"} :
            \A n \in DOMAIN d[f] \ DOMAIN s[f] : <<t, n>> \in cfg.ignoreIdx
       /\ \A k \in DOMAIN d.fks \ DOMAIN s.fks : <<t, k>> \in cfg.ignoreFks

LEMMA ParsePlain ==
  ASSUME NEW s, WellFormed(s), PlainTable(s)
  PROVE  /\ DOMAIN Parse(s).cols = DOMAIN s.cols
         /\ \A i \in DOMAIN s.cols : Parse(s).cols[i] = Line(s, s.cols[i])
         /\ ColNames(Parse(s)) = ColNames(s)
         /\ Parse(s).idx = Merged(s.checks, s.idx)
         /\ Parse(s).fks = s.fks
<1> DEFINE lines == [i \in DOMAIN s.cols |-> Line(s, s.cols[i])]
           said == {i \in DOMAIN s.cols : s.cols[i].comment = SaysEngine}
           ends == said \cup {Len(lines) + 1}
           parsed == Min(ends) - 1
           whole(f) == IF said = {} THEN f ELSE <<>>
           L == {Line(s, c) : c \in ToSet(s.cols)}
           p == Parse(s)
           n == Len(s.cols)
<1>1. s.cols \in Seq(ToSet(s.cols)) /\ \A c \in ToSet(s.cols) : DOMAIN c = ColumnFields
  BY DEF WellFormed
<1>2. DOMAIN s.cols = 1..n /\ n \in Nat
  BY <1>1
<1>3. said = {}
  BY DEF PlainTable, ToSet
<1>4. p.cols = SubSeq(lines, 1, parsed) /\ p.idx = Merged(s.checks, s.idx) /\ p.fks = s.fks
  BY <1>3 DEF Parse
<1>5. lines \in Seq(L) /\ Len(lines) = n
  <2>1. \A i \in 1..n : Line(s, s.cols[i]) \in L
    BY <1>2 DEF ToSet
  <2> HIDE DEF L, n
  <2>2. lines = [i \in 1..n |-> Line(s, s.cols[i])]
    BY <1>2
  <2> QED BY <1>2, <2>1, <2>2
<1>6. parsed = n
  <2> DEFINE m == n + 1
  <2>1. ends = {m}
    BY <1>3, <1>5
  <2> HIDE DEF ends
  <2>2. ends \in SUBSET Nat /\ ends # {} /\ \A x \in ends : x = m
    BY <1>2, <2>1
  <2>3. Min(ends) = m
    BY <2>2, LeastMember
  <2> QED BY <1>2, <2>3
<1>7. \A i \in DOMAIN s.cols : lines[i] = Line(s, s.cols[i])
  OBVIOUS
<1> HIDE DEF parsed, lines, L, n
<1>8. DOMAIN p.cols = 1..n /\ \A i \in 1..n : p.cols[i] = lines[i]
  <2>1. SubSeq(lines, 1, n) \in Seq(L) /\ Len(SubSeq(lines, 1, n)) = n
        /\ \A i \in 1..n : SubSeq(lines, 1, n)[i] = lines[i]
    BY <1>2, <1>5
  <2> HIDE DEF p
  <2> QED BY <1>2, <1>4, <1>6, <2>1
<1> HIDE DEF p
<1>9. DOMAIN p.cols = DOMAIN s.cols /\ \A i \in DOMAIN s.cols : p.cols[i] = Line(s, s.cols[i])
  BY <1>2, <1>7, <1>8
<1>10. \A i \in DOMAIN s.cols : p.cols[i].name = s.cols[i].name
  <2>1. \A i \in DOMAIN s.cols : DOMAIN s.cols[i] = ColumnFields
    BY <1>1 DEF ToSet
  <2>2. \A c : DOMAIN c = ColumnFields => Line(s, c).name = c.name
    BY DEF Line, ColumnFields
  <2> QED BY <1>9, <2>1, <2>2
<1>11. ColNames(p) = ColNames(s)
  BY <1>9, <1>10 DEF ColNames
<1> QED BY <1>4, <1>9, <1>11 DEF p

\* The line of a column, by the name of the column.
LEMMA LineOf ==
  ASSUME NEW s, WellFormed(s), ValidTable(s), PlainTable(s), NEW n \in ColNames(s)
  PROVE  Column(Parse(s), n) = Line(s, Column(s, n))
<1> DEFINE p == Parse(s)
<1>1. /\ DOMAIN p.cols = DOMAIN s.cols /\ ColNames(p) = ColNames(s)
      /\ \A i \in DOMAIN s.cols : p.cols[i] = Line(s, s.cols[i])
  BY ParsePlain
<1>2. \A i \in DOMAIN s.cols : Line(s, s.cols[i]).name = s.cols[i].name
  <2>1. \A i \in DOMAIN s.cols : DOMAIN s.cols[i] = ColumnFields
    BY DEF WellFormed, ToSet
  <2>2. \A c : DOMAIN c = ColumnFields => Line(s, c).name = c.name
    BY DEF Line, ColumnFields
  <2> QED BY <2>1, <2>2
<1> HIDE DEF p
<1>3. Position(p, n) \in DOMAIN s.cols /\ p.cols[Position(p, n)].name = n
  BY <1>1, PositionIs
<1>4. Position(s, n) \in DOMAIN s.cols /\ s.cols[Position(s, n)].name = n
  BY PositionIs
<1>5. Position(p, n) = Position(s, n)
  BY <1>1, <1>2, <1>3, <1>4, UniqueNames
<1> QED BY <1>1, <1>4, <1>5 DEF Column, p

\* A column the comparison leaves as it is.
LEMMA NoColumnClause ==
  ASSUME NEW cfg, NEW t, NEW s, NEW d, NEW a,
         WellFormed(s), ValidTable(s), PlainTable(s), WellFormed(d), ValidTable(d), PlainTable(d),
         PlainTypes(s, d), ~(cfg.skipTs /\ cfg.fieldOrder),
         a.src = Parse(s), a.dst = Parse(d), a.sf = FieldInfos(s), a.df = FieldInfos(d),
         \A i \in DOMAIN a.src.cols : ColumnClause(cfg, t, a, i) = <<>>,
         NEW n \in ColNames(s), <<t, n>> \notin cfg.ignoreCols
  PROVE  ColumnAgrees(cfg, s, d, n)
<1> DEFINE i == Position(s, n)
           c == Column(s, n)
           e == Column(d, n)
           line == a.src.cols[i]
           known == n \in DOMAIN a.sf /\ n \in DOMAIN a.df
           moved == cfg.fieldOrder /\ known /\ a.sf[n].pos # a.df[n].pos
           same == SameField(a.sf[n].column, a.df[n].column)
           alike == line = Column(a.dst, n) \/ (known /\ same)
           kept  == cfg.skipTs /\ known /\ TimestampDatetime(a.sf[n].column, a.df[n].column)
           known2 == n \in DOMAIN a.sf /\ n \in DOMAIN a.df
           new == [op |-> "ADD", col |-> line, after |-> Anchor(cfg, t, a, i)]
           modify == [op |-> "MODIFY", col |-> line, after |-> Anchor(cfg, t, a, i)]
           change == [op |-> "CHANGE", col |-> line]
<1>1. i \in DOMAIN s.cols /\ s.cols[i].name = n /\ c = s.cols[i]
  BY PositionIs DEF Column
<1>2. i \in DOMAIN a.src.cols /\ line = Line(s, c) /\ ColNames(a.dst) = ColNames(d)
  BY <1>1, ParsePlain
<1>c. DOMAIN c = ColumnFields /\ c \in ToSet(s.cols)
  BY <1>1 DEF WellFormed, ToSet
<1>3. line.name = n
  BY <1>1, <1>2, <1>c DEF Line, ColumnFields
<1>4. ColumnClause(cfg, t, a, i) =
        IF <<t, n>> \in cfg.ignoreCols THEN <<>>
        ELSE IF n \notin ColNames(a.dst) THEN <<new>>
        ELSE IF alike THEN IF moved THEN <<modify>> ELSE <<>>
        ELSE IF kept THEN <<>> ELSE <<change>>
  BY <1>3 DEF ColumnClause
<1>5. n \in ColNames(d)
  <2> HIDE DEF new, modify, change, alike, moved, kept
  <2> QED BY <1>2, <1>4
<1>6. \/ alike /\ ~moved
      \/ kept
  <2> HIDE DEF new, modify, change, alike, moved, kept
  <2> QED BY <1>2, <1>4, <1>5
<1>7. /\ known
      /\ a.sf[n].column = c /\ a.sf[n].pos = Position(s, n)
      /\ a.df[n].column = e /\ a.df[n].pos = Position(d, n)
  BY <1>5 DEF FieldInfos
<1>8. DOMAIN e = ColumnFields /\ e \in ToSet(d.cols)
  BY <1>5, PositionIs DEF Column, WellFormed, ToSet
<1>9. Column(a.dst, n) = Line(d, e)
  BY <1>5, LineOf
<1> HIDE DEF i, c, e, line, known
<1>10. CASE SameField(c, e) /\ ~moved
  <2>1. c.type = e.type /\ c.comment = e.comment /\ SameCharset(c.charset, e.charset)
    BY <1>10 DEF SameField
  <2>2. c.charset = "none" <=> e.charset = "none"
    BY <1>c, <1>8, <2>1 DEF PlainTypes
  <2>3. c.charset = e.charset
    BY <2>1, <2>2 DEF SameCharset
  <2> QED BY <1>5, <1>7, <1>10, <2>1, <2>3 DEF ColumnAgrees, c, e
<1>11. CASE line = Column(a.dst, n) /\ ~moved
  <2>1. Line(s, c) = Line(d, e)
    BY <1>2, <1>9, <1>11
  <2>2. /\ Line(s, c).type = c.type /\ Line(s, c).comment = c.comment
        /\ Line(s, c).charset = IF c.charset = s.charset THEN "inherited" ELSE c.charset
    BY <1>c DEF Line, ColumnFields
  <2>3. /\ Line(d, e).type = e.type /\ Line(d, e).comment = e.comment
        /\ Line(d, e).charset = IF e.charset = d.charset THEN "inherited" ELSE e.charset
    BY <1>8 DEF Line, ColumnFields
  <2>4. c.charset # "inherited" /\ e.charset # "inherited"
    BY <1>c, <1>8 DEF PlainTable
  <2>5. s.charset = d.charset => e.charset = c.charset
    BY <2>1, <2>2, <2>3, <2>4
  <2> QED BY <1>5, <1>7, <1>11, <2>1, <2>2, <2>3, <2>5 DEF ColumnAgrees, c, e
<1>12. CASE kept
  <2>1. TimestampDatetime(c, e) /\ cfg.skipTs /\ ~cfg.fieldOrder
    BY <1>7, <1>12
  <2> DEFINE b == [e EXCEPT !.type = "timestamp"]
  <2>2. /\ c.type = "timestamp" /\ e.type = "datetime" /\ SameField(c, b)
    BY <2>1 DEF TimestampDatetime
  <2>3. b.comment = e.comment
    BY <1>8 DEF ColumnFields
  <2>4. c.comment = e.comment
    BY <2>2, <2>3 DEF SameField
  <2>5. c.charset = "none" /\ e.charset = "none"
    BY <1>c, <1>8, <2>2 DEF PlainTypes
  <2> QED BY <1>5, <2>1, <2>4, <2>5 DEF ColumnAgrees, c, e
<1> QED BY <1>6, <1>7, <1>10, <1>11, <1>12

\* An index or a CHECK the comparison leaves as it is.
LEMMA NoIndexClause ==
  ASSUME NEW cfg, NEW t, NEW s, NEW d, PlainTable(s), PlainTable(d),
         NEW p, NEW q, p = Merged(s.checks, s.idx), q = Merged(d.checks, d.idx),
         \A n \in DOMAIN p : <<t, n>> \notin cfg.ignoreIdx => n \in DOMAIN q /\ q[n] = p[n],
         cfg.drop => \A n \in DOMAIN q \ DOMAIN p : <<t, n>> \in cfg.ignoreIdx
  PROVE  /\ \A f \in {"idx", "checks"} : \A n \in DOMAIN s[f] : <<t, n>> \notin cfg.ignoreIdx =>
              n \in DOMAIN d[f] /\ d[f][n] = s[f][n]
         /\ cfg.drop => \A f \in {"idx", "checks"} :
              \A n \in DOMAIN d[f] \ DOMAIN s[f] : <<t, n>> \in cfg.ignoreIdx
<1>1. /\ DOMAIN p = DOMAIN s.idx \cup DOMAIN s.checks
      /\ \A n \in DOMAIN s.idx : n \notin DOMAIN s.checks /\ p[n] = s.idx[n] /\ p[n].kind # "CHECK"
      /\ \A n \in DOMAIN s.checks : n \notin DOMAIN s.idx /\ p[n] = s.checks[n] /\ p[n].kind = "CHECK"
  BY DEF Merged, PlainTable
<1>2. /\ DOMAIN q = DOMAIN d.idx \cup DOMAIN d.checks
      /\ \A n \in DOMAIN d.idx : n \notin DOMAIN d.checks /\ q[n] = d.idx[n] /\ q[n].kind # "CHECK"
      /\ \A n \in DOMAIN d.checks : n \notin DOMAIN d.idx /\ q[n] = d.checks[n] /\ q[n].kind = "CHECK"
  BY DEF Merged, PlainTable
<1>3. \A n \in DOMAIN s.idx : <<t, n>> \notin cfg.ignoreIdx => n \in DOMAIN d.idx /\ d.idx[n] = s.idx[n]
  BY <1>1, <1>2
<1>4. \A n \in DOMAIN s.checks : <<t, n>> \notin cfg.ignoreIdx =>
        n \in DOMAIN d.checks /\ d.checks[n] = s.checks[n]
  BY <1>1, <1>2
<1>5. ASSUME cfg.drop, NEW n \in DOMAIN d.idx \ DOMAIN s.idx PROVE <<t, n>> \in cfg.ignoreIdx
  BY <1>1, <1>2, <1>5
<1>6. ASSUME cfg.drop, NEW n \in DOMAIN d.checks \ DOMAIN s.checks PROVE <<t, n>> \in cfg.ignoreIdx
  BY <1>1, <1>2, <1>6
<1> QED BY <1>3, <1>4, <1>5, <1>6

\* A reading r of tables s and d that are what they say, which asks for no change:
\* the destination has what the source has.
LEMMA NoDifference ==
  ASSUME NEW cfg, NEW t, NEW s, NEW d, NEW r, WellFormed(s), WellFormed(d), Exists(s),
         ValidTable(s), ValidTable(d), PlainTable(s), PlainTable(d), PlainTypes(s, d),
         ~(cfg.skipTs /\ cfg.fieldOrder),
         DOMAIN r = {"hasS", "hasD", "src", "dst", "sf", "df"},
         r.src = s, r.dst = d,
         Exists(d) /\ s # d => r.sf = FieldInfos(s) /\ r.df = FieldInfos(d),
         AlterData(cfg, t, r).type \notin {"create", "alter"}
  PROVE  Agrees(cfg, t, s, d)
<1> DEFINE a == [r EXCEPT !.src = Parse(s), !.dst = Parse(d)]
           lines == SchemaDiffLines(cfg, t, a)
           result(type, sql) == [type |-> type, src |-> a.src, dst |-> a.dst, sql |-> sql]
           create == result("create", CreateStatements(t, s))
           alter == result("alter", AlterStatements(cfg, t, lines))
<1>1. a.src = Parse(s) /\ a.dst = Parse(d) /\ a.sf = r.sf /\ a.df = r.df
  OBVIOUS
<1>2. AlterData(cfg, t, r) =
        IF s = d THEN result("no", <<>>)
        ELSE IF ~Exists(s) THEN result("drop", <<>>)
        ELSE IF ~Exists(d) THEN create
        ELSE IF lines = <<>> THEN result("no", <<>>)
        ELSE alter
  BY DEF AlterData
<1>3. create.type = "create" /\ alter.type = "alter"
  OBVIOUS
<1> HIDE DEF a, lines, result, create, alter
<1>4. s = d \/ (s # d /\ Exists(d) /\ lines = <<>>)
  BY <1>2, <1>3
<1>5. CASE s = d
  BY <1>5 DEF Agrees, ColumnAgrees
<1>6. CASE s # d /\ Exists(d) /\ lines = <<>>
  <2>1. Parsed(a.src) /\ Parsed(a.dst)
    BY <1>1, ParseProper
  <2>2. SchemaDiffLines(cfg, t, a) = <<>>
    BY <1>6 DEF lines
  <2>3. /\ \A i \in DOMAIN a.src.cols : ColumnClause(cfg, t, a, i) = <<>>
        /\ cfg.drop => \A n \in ColNames(a.dst) \ ColNames(a.src) : <<t, n>> \in cfg.ignoreCols
        /\ \A n \in DOMAIN a.src.idx : <<t, n>> \notin cfg.ignoreIdx =>
             n \in DOMAIN a.dst.idx /\ a.dst.idx[n] = a.src.idx[n]
        /\ cfg.drop => \A n \in DOMAIN a.dst.idx \ DOMAIN a.src.idx : <<t, n>> \in cfg.ignoreIdx
        /\ \A k \in DOMAIN a.src.fks : <<t, k>> \notin cfg.ignoreFks =>
             k \in DOMAIN a.dst.fks /\ a.dst.fks[k] = a.src.fks[k]
        /\ cfg.drop => \A k \in DOMAIN a.dst.fks \ DOMAIN a.src.fks : <<t, k>> \in cfg.ignoreFks
    BY <2>1, <2>2, NothingAsked
  <2>4. /\ ColNames(a.src) = ColNames(s) /\ a.src.idx = Merged(s.checks, s.idx) /\ a.src.fks = s.fks
        /\ ColNames(a.dst) = ColNames(d) /\ a.dst.idx = Merged(d.checks, d.idx) /\ a.dst.fks = d.fks
    BY <1>1, ParsePlain
  <2>5. a.sf = FieldInfos(s) /\ a.df = FieldInfos(d)
    BY <1>1, <1>6
  <2>6. \A n \in ColNames(s) : <<t, n>> \notin cfg.ignoreCols => ColumnAgrees(cfg, s, d, n)
    <3>1. \A i \in DOMAIN a.src.cols : ColumnClause(cfg, t, a, i) = <<>>
      BY <2>3
    <3>2. a.src = Parse(s) /\ a.dst = Parse(d)
      BY <1>1
    <3> QED BY <2>5, <3>1, <3>2, NoColumnClause
  <2>7. /\ \A f \in {"idx", "checks"} : \A n \in DOMAIN s[f] : <<t, n>> \notin cfg.ignoreIdx =>
             n \in DOMAIN d[f] /\ d[f][n] = s[f][n]
        /\ cfg.drop => \A f \in {"idx", "checks"} :
             \A n \in DOMAIN d[f] \ DOMAIN s[f] : <<t, n>> \in cfg.ignoreIdx
    <3> DEFINE p == a.src.idx
               q == a.dst.idx
    <3>1. p = Merged(s.checks, s.idx) /\ q = Merged(d.checks, d.idx)
      BY <2>4
    <3>2. /\ \A n \in DOMAIN p : <<t, n>> \notin cfg.ignoreIdx => n \in DOMAIN q /\ q[n] = p[n]
          /\ cfg.drop => \A n \in DOMAIN q \ DOMAIN p : <<t, n>> \in cfg.ignoreIdx
      BY <2>3
    <3> HIDE DEF p, q
    <3> QED BY <3>1, <3>2, NoIndexClause
  <2>8. /\ \A k \in DOMAIN s.fks : <<t, k>> \notin cfg.ignoreFks =>
             k \in DOMAIN d.fks /\ d.fks[k] = s.fks[k]
        /\ cfg.drop => /\ \A n \in ColNames(d) \ ColNames(s) : <<t, n>> \in cfg.ignoreCols
                       /\ \A k \in DOMAIN d.fks \ DOMAIN s.fks : <<t, k>> \in cfg.ignoreFks
    BY <2>3, <2>4
  <2> QED BY <1>6, <2>6, <2>7, <2>8 DEF Agrees
<1> QED BY <1>4, <1>5, <1>6

\* Another table with the same columns, indexes, CHECKs and foreign keys agrees too.
LEMMA AgreesToo ==
  ASSUME NEW cfg, NEW t, NEW s, NEW d, NEW e, Agrees(cfg, t, s, d),
         e.cols = d.cols, e.charset = d.charset, e.idx = d.idx, e.checks = d.checks,
         DOMAIN e.fks = DOMAIN d.fks, \A k \in DOMAIN d.fks : e.fks[k] = d.fks[k]
  PROVE  Agrees(cfg, t, s, e)
<1>1. Exists(e) = Exists(d) /\ ColNames(e) = ColNames(d)
  BY DEF Exists, ColNames
<1>2. \A n : Position(e, n) = Position(d, n) /\ Column(e, n) = Column(d, n)
  BY DEF Position, Column
<1>3. \A n \in ColNames(s) : <<t, n>> \notin cfg.ignoreCols => ColumnAgrees(cfg, s, e, n)
  BY <1>1, <1>2 DEF Agrees, ColumnAgrees
<1>4. \A f \in {"idx", "checks"} : e[f] = d[f]
  OBVIOUS
<1>5. \A f \in {"idx", "checks"} : \A n \in DOMAIN s[f] : <<t, n>> \notin cfg.ignoreIdx =>
        n \in DOMAIN e[f] /\ e[f][n] = s[f][n]
  BY <1>4 DEF Agrees
<1>6. \A k \in DOMAIN s.fks : <<t, k>> \notin cfg.ignoreFks =>
        k \in DOMAIN e.fks /\ e.fks[k] = s.fks[k]
  BY DEF Agrees
<1>7. cfg.drop =>
       /\ \A n \in ColNames(e) \ ColNames(s) : <<t, n>> \in cfg.ignoreCols
       /\ \A f \in {"idx", "checks"} :
            \A n \in DOMAIN e[f] \ DOMAIN s[f] : <<t, n>> \in cfg.ignoreIdx
       /\ \A k \in DOMAIN e.fks \ DOMAIN s.fks : <<t, k>> \in cfg.ignoreFks
  BY <1>1, <1>4 DEF Agrees
<1> QED BY <1>1, <1>3, <1>5, <1>6, <1>7 DEF Agrees

-----------------------------------------------------------------------------
(* Columns to come after.                                                  *)

\* A clause that puts its column behind another one, and one that adds column n.
Anchoring(c) == c.op \in {"ADD", "MODIFY"} /\ c.after # AtFront
Adds(c, n) == c.op = "ADD" /\ c.col.name = n

\* Each anchor in q is in D, or a clause of P or an earlier one of q adds it.
LedAfter(D, P, q) ==
  \A n \in DOMAIN q : Anchoring(q[n]) =>
    \/ q[n].after \in D
    \/ \E c \in P : Adds(c, q[n].after)
    \/ \E m \in 1..(n - 1) : Adds(q[m], q[n].after)

Led(D, q) ==
  \A n \in DOMAIN q : Anchoring(q[n]) =>
    q[n].after \in D \/ \E m \in 1..(n - 1) : Adds(q[m], q[n].after)

LEMMA LedConcat ==
  ASSUME NEW S, NEW D, NEW p \in Seq(S), NEW q \in Seq(S), Led(D, p), LedAfter(D, ToSet(p), q)
  PROVE  Led(D, p \o q)
<1> DEFINE u == p \o q
<1>1. /\ u \in Seq(S) /\ Len(u) = Len(p) + Len(q)
      /\ \A i \in 1..Len(p) : u[i] = p[i]
      /\ \A i \in 1..Len(q) : u[Len(p) + i] = q[i]
  BY ConcatElements
<1> HIDE DEF u
<1>2. /\ DOMAIN u = 1..(Len(p) + Len(q)) /\ DOMAIN p = 1..Len(p) /\ DOMAIN q = 1..Len(q)
      /\ Len(p) \in Nat /\ Len(q) \in Nat
  BY <1>1
<1> SUFFICES ASSUME NEW n \in DOMAIN u, Anchoring(u[n]), u[n].after \notin D
             PROVE  \E m \in 1..(n - 1) : Adds(u[m], u[n].after)
  BY DEF Led, u
<1>3. CASE n <= Len(p)
  <2>1. n \in 1..Len(p) /\ u[n] = p[n]
    BY <1>1, <1>2, <1>3
  <2>2. PICK m \in 1..(n - 1) : Adds(p[m], p[n].after)
    BY <1>2, <2>1 DEF Led
  <2>3. m \in 1..Len(p)
    BY <1>2, <2>1
  <2> QED BY <1>1, <2>1, <2>2, <2>3
<1>4. CASE n > Len(p)
  <2> DEFINE k == n - Len(p)
  <2>1. k \in 1..Len(q) /\ n = Len(p) + k
    BY <1>2, <1>4
  <2> HIDE DEF k
  <2>2. u[n] = q[k]
    BY <1>1, <2>1
  <2>3. CASE \E c \in ToSet(p) : Adds(c, q[k].after)
    <3>1. PICK m \in 1..Len(p) : Adds(p[m], q[k].after)
      BY <2>3, <1>2 DEF ToSet
    <3>2. m \in 1..(n - 1)
      BY <1>2, <2>1
    <3> QED BY <1>1, <2>2, <3>1, <3>2
  <2>4. CASE \E m \in 1..(k - 1) : Adds(q[m], q[k].after)
    <3>1. PICK m \in 1..(k - 1) : Adds(q[m], q[k].after)
      BY <2>4
    <3>2. m \in 1..Len(q) /\ Len(p) + m \in 1..(n - 1)
      BY <1>2, <2>1
    <3>3. u[Len(p) + m] = q[m]
      BY <1>1, <3>2
    <3> QED BY <2>2, <3>1, <3>2, <3>3
  <2> QED BY <1>2, <2>1, <2>2, <2>3, <2>4 DEF LedAfter
<1> QED BY <1>2, <1>3, <1>4

\* Sequences whose anchors are added by earlier ones, one after the other.
Chain(D, ss) ==
  \A i \in DOMAIN ss : LedAfter(D, UNION {ToSet(ss[j]) : j \in 1..(i - 1)}, ss[i])

ChainHolds(e, n) ==
  n + 1 <= Len(e.ss) =>
    /\ FlatPrefix(e.ss)[n + 1] \in Seq(e.S)
    /\ ToSet(FlatPrefix(e.ss)[n + 1]) = UNION {ToSet(e.ss[i]) : i \in 1..(n + 1)}
    /\ Led(e.D, FlatPrefix(e.ss)[n + 1])

LEMMA FlattenLed ==
  ASSUME NEW S, NEW D, NEW ss \in Seq(Seq(S)), Chain(D, ss)
  PROVE  Led(D, FlattenSeq(ss))
<1> DEFINE e == [ss |-> ss, S |-> S, D |-> D]
           F == FlatPrefix(ss)
<1>1. Len(ss) \in Nat /\ DOMAIN ss = 1..Len(ss) /\ \A i \in 1..Len(ss) : ss[i] \in Seq(S)
  OBVIOUS
<1> HIDE DEF e, F
<1>2. \A i \in 1..Len(ss) : F[i] = IF i = 1 THEN ss[i] ELSE F[i - 1] \o ss[i]
  <2>1. F = [i \in 1..Len(ss) |-> IF i = 1 THEN ss[i] ELSE F[i - 1] \o ss[i]]
    BY <1>1, FlattenUnfold DEF F
  <2> QED BY <2>1
<1>e. e.ss = ss /\ e.S = S /\ e.D = D
  BY DEF e
<1>3. ChainHolds(e, 0)
  <2> SUFFICES ASSUME 1 <= Len(ss)
               PROVE  /\ F[1] \in Seq(S) /\ ToSet(F[1]) = UNION {ToSet(ss[i]) : i \in 1..1}
                      /\ Led(D, F[1])
    BY <1>e DEF ChainHolds, F
  <2>1. 1 \in 1..Len(ss) /\ 1..1 = {1} /\ 1..(1 - 1) = {}
    BY <1>1
  <2>2. F[1] = ss[1]
    BY <1>2, <2>1
  <2>3. ss[1] \in Seq(S)
    BY <1>1, <2>1
  <2>4. UNION {ToSet(ss[i]) : i \in {1}} = ToSet(ss[1])
    OBVIOUS
  <2>5. LedAfter(D, UNION {ToSet(ss[j]) : j \in 1..(1 - 1)}, ss[1])
    BY <1>1, <2>1 DEF Chain
  <2>6. UNION {ToSet(ss[j]) : j \in 1..(1 - 1)} = {}
    BY <2>1
  <2>7. Led(D, ss[1])
    BY <2>5, <2>6 DEF LedAfter, Led
  <2> QED BY <2>1, <2>2, <2>3, <2>4, <2>7
<1>4. ASSUME NEW n \in Nat, ChainHolds(e, n) PROVE ChainHolds(e, n + 1)
  <2> DEFINE m == n + 1
  <2>m. m \in Nat
    OBVIOUS
  <2> HIDE DEF m
  <2> SUFFICES ASSUME m + 1 <= Len(ss)
               PROVE  /\ F[m + 1] \in Seq(S)
                      /\ ToSet(F[m + 1]) = UNION {ToSet(ss[i]) : i \in 1..(m + 1)}
                      /\ Led(D, F[m + 1])
    BY <1>e DEF ChainHolds, F, m
  <2>1. /\ F[m] \in Seq(S) /\ ToSet(F[m]) = UNION {ToSet(ss[i]) : i \in 1..m}
        /\ Led(D, F[m])
    BY <1>1, <1>4, <1>e DEF ChainHolds, F, m
  <2>2. m + 1 \in 1..Len(ss) /\ m + 1 # 1 /\ (m + 1) - 1 = m
    BY <1>1, <2>m DEF m
  <2>3. F[m + 1] = F[m] \o ss[m + 1] /\ ss[m + 1] \in Seq(S)
    BY <1>1, <1>2, <2>2
  <2>4. ToSet(F[m + 1]) = ToSet(F[m]) \cup ToSet(ss[m + 1]) /\ F[m + 1] \in Seq(S)
    BY <2>1, <2>3, ToSetConcat
  <2>5. 1..(m + 1) = (1..m) \cup {m + 1}
    BY <2>m
  <2>6. LedAfter(D, UNION {ToSet(ss[j]) : j \in 1..((m + 1) - 1)}, ss[m + 1])
    BY <1>1, <2>2 DEF Chain
  <2>7. LedAfter(D, ToSet(F[m]), ss[m + 1])
    BY <2>1, <2>2, <2>6
  <2>8. Led(D, F[m + 1])
    BY <2>1, <2>3, <2>7, LedConcat
  <2> QED BY <2>1, <2>4, <2>5, <2>8
<1>5. \A n \in Nat : ChainHolds(e, n)
  <2> DEFINE W == {n \in Nat : ChainHolds(e, n)}
  <2>1. 0 \in W /\ \A n \in Nat : n \in W => n + 1 \in W
    BY <1>3, <1>4
  <2> HIDE DEF W
  <2>2. Nat \subseteq W
    BY <2>1, Induct
  <2> QED BY <2>2 DEF W
<1>6. CASE Len(ss) = 0
  <2>1. DOMAIN ss = {}
    BY <1>1, <1>6
  <2>2. FlattenSeq(ss) = ss
    BY <1>1, <1>6, FlattenUnfold
  <2> QED BY <2>1, <2>2 DEF Led
<1>7. CASE Len(ss) # 0
  <2>1. Len(ss) - 1 \in Nat /\ (Len(ss) - 1) + 1 = Len(ss)
    BY <1>1, <1>7
  <2>2. ChainHolds(e, Len(ss) - 1)
    BY <1>5, <2>1
  <2>3. Led(D, F[Len(ss)])
    BY <2>1, <2>2, <1>1, <1>e DEF ChainHolds, F
  <2>4. FlattenSeq(ss) = F[Len(ss)]
    BY <1>1, <1>7, FlattenUnfold DEF F
  <2> QED BY <2>3, <2>4
<1> QED BY <1>6, <1>7

\* The columns both sides of a comparison have.
Common(a) == ColNames(a.src) \cap ColNames(a.dst)

\* What a clause for column i says, if it has an anchor.
LEMMA ColumnClauseAnchor ==
  ASSUME NEW cfg, NEW t, NEW a, NEW i
  PROVE  \/ ColumnClause(cfg, t, a, i) = <<>>
         \/ \E x : /\ ColumnClause(cfg, t, a, i) = <<x>>
                   /\ x.op \in {"ADD", "CHANGE", "MODIFY"} /\ x.col = a.src.cols[i]
                   /\ Anchoring(x) => x.after = Anchor(cfg, t, a, i)
<1> DEFINE c == a.src.cols[i]
           n == c.name
           known == n \in DOMAIN a.sf /\ n \in DOMAIN a.df
           moved == cfg.fieldOrder /\ known /\ a.sf[n].pos # a.df[n].pos
           alike == c = Column(a.dst, n) \/ (known /\ SameField(a.sf[n].column, a.df[n].column))
           kept  == cfg.skipTs /\ known /\ TimestampDatetime(a.sf[n].column, a.df[n].column)
           add == [op |-> "ADD", col |-> c, after |-> Anchor(cfg, t, a, i)]
           modify == [op |-> "MODIFY", col |-> c, after |-> Anchor(cfg, t, a, i)]
           change == [op |-> "CHANGE", col |-> c]
           K == ColumnClause(cfg, t, a, i)
<1>1. K = IF <<t, n>> \in cfg.ignoreCols THEN <<>>
          ELSE IF n \notin ColNames(a.dst) THEN <<add>>
          ELSE IF alike THEN IF moved THEN <<modify>> ELSE <<>>
          ELSE IF kept THEN <<>> ELSE <<change>>
  BY DEF ColumnClause
<1>2. /\ add.op = "ADD" /\ add.col = c /\ modify.op = "MODIFY" /\ modify.col = c
      /\ change.op = "CHANGE" /\ change.col = c
      /\ add.after = Anchor(cfg, t, a, i) /\ modify.after = Anchor(cfg, t, a, i)
  OBVIOUS
<1> HIDE DEF known, moved, alike, kept, add, modify, change, K
<1>3. K = <<>> \/ K = <<add>> \/ K = <<modify>> \/ K = <<change>>
  BY <1>1
<1>4. K = <<>> \/ \E x \in {add, modify, change} : K = <<x>>
  BY <1>3
<1>5. \A x \in {add, modify, change} :
        x.op \in {"ADD", "CHANGE", "MODIFY"} /\ x.col = c /\ (Anchoring(x) => x.after = Anchor(cfg, t, a, i))
  BY <1>2 DEF Anchoring
<1> QED BY <1>4, <1>5 DEF K

LEMMA ColumnClauseAdds ==
  ASSUME NEW cfg, NEW t, NEW a, NEW i,
         <<t, a.src.cols[i].name>> \notin cfg.ignoreCols, a.src.cols[i].name \notin ColNames(a.dst)
  PROVE  \E x : ColumnClause(cfg, t, a, i) = <<x>> /\ Adds(x, a.src.cols[i].name)
<1> DEFINE add == [op |-> "ADD", col |-> a.src.cols[i], after |-> Anchor(cfg, t, a, i)]
<1>1. ColumnClause(cfg, t, a, i) = <<add>>
  BY DEF ColumnClause
<1>2. Adds(add, a.src.cols[i].name)
  BY DEF Adds
<1> QED BY <1>1, <1>2

\* A column is put behind one that both sides have, or that was added before.
LEMMA AnchorThere ==
  ASSUME NEW cfg, NEW t, NEW a, Parsed(a.src), NEW i \in DOMAIN a.src.cols,
         Anchor(cfg, t, a, i) # AtFront
  PROVE  \E j \in 1..(i - 1) :
           /\ j \in DOMAIN a.src.cols /\ Anchor(cfg, t, a, i) = a.src.cols[j].name
           /\ \/ a.src.cols[j].name \in Common(a)
              \/ <<t, a.src.cols[j].name>> \notin cfg.ignoreCols /\ a.src.cols[j].name \notin ColNames(a.dst)
<1> DEFINE placed == {j \in 1..(i - 1) :
                        \/ <<t, a.src.cols[j].name>> \notin cfg.ignoreCols
                        \/ a.src.cols[j].name \in ColNames(a.dst)}
           j == Max(placed)
<1>1. DOMAIN a.src.cols = 1..Len(a.src.cols) /\ Len(a.src.cols) \in Nat
  BY DEF Parsed
<1>2. Anchor(cfg, t, a, i) = IF placed = {} THEN AtFront ELSE a.src.cols[j].name
  BY DEF Anchor
<1>3. placed # {} /\ Anchor(cfg, t, a, i) = a.src.cols[j].name
  <2> HIDE DEF placed
  <2> QED BY <1>2
<1>4. i - 1 \in Nat /\ placed \in SUBSET (1..(i - 1))
  BY <1>1
<1>5. \A x \in placed : \/ <<t, a.src.cols[x].name>> \notin cfg.ignoreCols
                        \/ a.src.cols[x].name \in ColNames(a.dst)
  OBVIOUS
<1> HIDE DEF placed
<1>6. j \in placed
  BY <1>3, <1>4, GreatestMember
<1> HIDE DEF j
<1>7. j \in 1..(i - 1) /\ j \in DOMAIN a.src.cols
  BY <1>1, <1>4, <1>6
<1>8. a.src.cols[j].name \in ColNames(a.src)
  BY <1>7 DEF ColNames
<1> QED BY <1>3, <1>5, <1>6, <1>7, <1>8 DEF Common

LEMMA ColumnClausesLed ==
  ASSUME NEW cfg, NEW t, NEW a, Parsed(a.src)
  PROVE  /\ Led(Common(a), ColumnClauses(cfg, t, a))
         /\ \A c \in ToSet(ColumnClauses(cfg, t, a)) :
              c.op \in {"ADD", "CHANGE", "MODIFY"} /\ c.col \in ToSet(a.src.cols)
<1> DEFINE D == DOMAIN a.src.cols
           K(i) == ColumnClause(cfg, t, a, i)
           ss == [i \in D |-> K(i)]
           S == {c \in UNION {ToSet(K(i)) : i \in D} :
                   c.op \in {"ADD", "CHANGE", "MODIFY"} /\ c.col \in ToSet(a.src.cols)}
<1>1. D = 1..Len(a.src.cols) /\ Len(a.src.cols) \in Nat
  BY DEF Parsed
<1>2. \A i \in D : \/ K(i) = <<>>
                   \/ \E x : /\ K(i) = <<x>>
                             /\ x.op \in {"ADD", "CHANGE", "MODIFY"} /\ x.col = a.src.cols[i]
                             /\ Anchoring(x) => x.after = Anchor(cfg, t, a, i)
  <2> SUFFICES ASSUME NEW i \in D
               PROVE  \/ K(i) = <<>>
                      \/ \E x : /\ K(i) = <<x>>
                                /\ x.op \in {"ADD", "CHANGE", "MODIFY"} /\ x.col = a.src.cols[i]
                                /\ Anchoring(x) => x.after = Anchor(cfg, t, a, i)
    OBVIOUS
  <2> QED BY ColumnClauseAnchor
<1>3. ASSUME NEW i \in D PROVE K(i) \in Seq(S)
  <2>1. CASE K(i) = <<>>
    BY <2>1
  <2>2. CASE K(i) # <<>>
    <3>1. PICK x : /\ K(i) = <<x>>
                   /\ x.op \in {"ADD", "CHANGE", "MODIFY"} /\ x.col = a.src.cols[i]
      BY <1>2, <2>2
    <3> HIDE DEF K
    <3>2. x \in ToSet(K(i))
      BY <3>1, ToSetSingle
    <3>3. x \in S
      BY <3>1, <3>2 DEF ToSet
    <3> HIDE DEF S
    <3> QED BY <3>1, <3>3
  <2> QED BY <2>1, <2>2
<1>4. ColumnClauses(cfg, t, a) = FlattenSeq(ss)
  BY DEF ColumnClauses
<1>5. \A c \in S : c.op \in {"ADD", "CHANGE", "MODIFY"} /\ c.col \in ToSet(a.src.cols)
  OBVIOUS
<1>6. ASSUME NEW i \in D, NEW n \in DOMAIN K(i), Anchoring(K(i)[n])
      PROVE  \/ K(i)[n].after \in Common(a)
             \/ \E j \in 1..(i - 1) : j \in D /\ \E c \in ToSet(K(j)) : Adds(c, K(i)[n].after)
  <2>1. K(i) # <<>>
    OBVIOUS
  <2>2. PICK x : K(i) = <<x>> /\ (Anchoring(x) => x.after = Anchor(cfg, t, a, i))
    BY <1>2, <2>1
  <2>3. K(i)[n] = x /\ x.after = Anchor(cfg, t, a, i) /\ x.after # AtFront
    <3> HIDE DEF K
    <3>1. K(i)[n] = x
      BY <2>2
    <3> QED BY <3>1, <1>6, <2>2 DEF Anchoring
  <2>4. PICK j \in 1..(i - 1) :
          /\ j \in DOMAIN a.src.cols /\ Anchor(cfg, t, a, i) = a.src.cols[j].name
          /\ \/ a.src.cols[j].name \in Common(a)
             \/ <<t, a.src.cols[j].name>> \notin cfg.ignoreCols /\ a.src.cols[j].name \notin ColNames(a.dst)
    BY <2>3, AnchorThere
  <2>5. CASE <<t, a.src.cols[j].name>> \notin cfg.ignoreCols /\ a.src.cols[j].name \notin ColNames(a.dst)
    <3>1. PICK y : K(j) = <<y>> /\ Adds(y, a.src.cols[j].name)
      BY <2>5, ColumnClauseAdds
    <3>2. y \in ToSet(K(j))
      BY <3>1, ToSetSingle
    <3> HIDE DEF K
    <3> QED BY <2>2, <2>3, <2>4, <3>1, <3>2
  <2> HIDE DEF K
  <2> QED BY <2>3, <2>4, <2>5
<1> HIDE DEF S, K
<1>7. ss \in Seq(Seq(S)) /\ DOMAIN ss = D /\ \A i \in D : ss[i] = K(i)
  BY <1>1, <1>3
<1> HIDE DEF ss, D
<1>8. Chain(Common(a), ss)
  <2> SUFFICES ASSUME NEW i \in D
               PROVE  LedAfter(Common(a), UNION {ToSet(ss[j]) : j \in 1..(i - 1)}, ss[i])
    BY <1>7 DEF Chain
  <2> DEFINE P == UNION {ToSet(ss[j]) : j \in 1..(i - 1)}
  <2>1. \A j \in 1..(i - 1) : j \in D => ToSet(K(j)) \subseteq P
    BY <1>7
  <2> HIDE DEF P
  <2>2. \A n \in DOMAIN K(i) : Anchoring(K(i)[n]) =>
          K(i)[n].after \in Common(a) \/ \E c \in P : Adds(c, K(i)[n].after)
    BY <1>6, <2>1
  <2>3. LedAfter(Common(a), P, K(i))
    BY <2>2 DEF LedAfter
  <2> QED BY <1>7, <2>3 DEF P
<1>9. FlattenSeq(ss) \in Seq(S) /\ Led(Common(a), FlattenSeq(ss))
  BY <1>7, <1>8, FlattenMembers, FlattenLed
<1> QED BY <1>4, <1>5, <1>9, ToSetSeq

\* A sequence of steady clauses behind or in front of one that is led.
LEMMA SteadyAfter ==
  ASSUME NEW a, NEW D, NEW p, NEW q, p \in Seq(ToSet(p)), q \in Seq(ToSet(q)),
         Led(D, p), AllSteady(a, q)
  PROVE  Led(D, p \o q)
<1> DEFINE S == ToSet(p) \cup ToSet(q)
<1>1. p \in Seq(S) /\ q \in Seq(S)
  BY SeqMonotonic
<1>2. LedAfter(D, ToSet(p), q)
  BY DEF LedAfter, AllSteady, Steady, Anchoring, ToSet
<1> HIDE DEF S
<1> QED BY <1>1, <1>2, LedConcat

LEMMA SteadyLed ==
  ASSUME NEW a, NEW D, NEW q, AllSteady(a, q)
  PROVE  Led(D, q)
BY DEF Led, AllSteady, Steady, Anchoring, ToSet

LEMMA LedBehind ==
  ASSUME NEW D, NEW p, NEW q, p \in Seq(ToSet(p)), q \in Seq(ToSet(q)), Led(D, p), Led(D, q)
  PROVE  Led(D, p \o q)
<1> DEFINE S == ToSet(p) \cup ToSet(q)
<1>1. p \in Seq(S) /\ q \in Seq(S)
  BY SeqMonotonic
<1>2. LedAfter(D, ToSet(p), q)
  BY DEF LedAfter, Led
<1> HIDE DEF S
<1> QED BY <1>1, <1>2, LedConcat

LEMMA LinesLed ==
  ASSUME NEW cfg, NEW t, NEW a, Parsed(a.src), Parsed(a.dst)
  PROVE  /\ Led(Common(a), SchemaDiffLines(cfg, t, a))
         /\ \A c \in ToSet(SchemaDiffLines(cfg, t, a)) :
              /\ c.op = "DROP COLUMN" => c.name \notin ColNames(a.src)
              /\ c.op = "ADD" => c.col \in ToSet(a.src.cols)
<1> DEFINE D == Common(a)
           Own(q) == \A c \in ToSet(q) : /\ c.op = "DROP COLUMN" => c.name \notin ColNames(a.src)
                                         /\ c.op = "ADD" => c.col \in ToSet(a.src.cols)
           p1 == DroppedForeign(cfg, t, a)
           q2 == DroppedIndexes(cfg, t, a)
           q3 == DroppedColumns(cfg, t, a)
           q4 == ColumnClauses(cfg, t, a)
           q5 == ReplacedIndexes(cfg, t, a)
           q6 == AddedIndexes(cfg, t, a)
           q7 == AddedForeign(cfg, t, a)
           p2 == p1 \o q2
           p3 == p2 \o q3
           p4 == p3 \o q4
           p5 == p4 \o q5
           p6 == p5 \o q6
           p7 == p6 \o q7
<1>0. SchemaDiffLines(cfg, t, a) = p7
  BY DEF SchemaDiffLines
<1>1. /\ AllPermitted(cfg, t, p1) /\ AllSteady(a, p1) /\ AllPermitted(cfg, t, q2) /\ AllSteady(a, q2)
      /\ AllPermitted(cfg, t, q3) /\ AllSteady(a, q3)
  BY DroppedForeignPermitted, DroppedIndexesPermitted, DroppedColumnsPermitted
<1>2. /\ AllPermitted(cfg, t, q5) /\ AllSteady(a, q5) /\ AllPermitted(cfg, t, q6) /\ AllSteady(a, q6)
      /\ AllPermitted(cfg, t, q7) /\ AllSteady(a, q7)
  BY ReplacedIndexesPermitted, AddedIndexesPermitted, AddedForeignPermitted
<1>3. AllPermitted(cfg, t, q4)
  BY ColumnClausesPermitted
<1>4. Led(D, q4) /\ Own(q4)
  BY ColumnClausesLed
<1> HIDE DEF D, p1, q2, q3, q4, q5, q6, q7
<1>5. \A p, q : /\ p \in Seq(ToSet(p)) /\ q \in Seq(ToSet(q))
                => ToSet(p \o q) = ToSet(p) \cup ToSet(q) /\ p \o q \in Seq(ToSet(p \o q))
  <2> SUFFICES ASSUME NEW p, NEW q, p \in Seq(ToSet(p)), q \in Seq(ToSet(q))
               PROVE  ToSet(p \o q) = ToSet(p) \cup ToSet(q) /\ p \o q \in Seq(ToSet(p \o q))
    OBVIOUS
  <2> DEFINE S == ToSet(p) \cup ToSet(q)
  <2>1. p \in Seq(S) /\ q \in Seq(S)
    BY SeqMonotonic
  <2> HIDE DEF S
  <2>2. p \o q \in Seq(S) /\ ToSet(p \o q) = ToSet(p) \cup ToSet(q)
    BY <2>1, ToSetConcat
  <2> QED BY <2>2, SeqOwn
<1>6. \A q : AllSteady(a, q) => Own(q) /\ Led(D, q)
  BY SteadyLed DEF AllSteady, Steady
<1>7. \A p, q : /\ p \in Seq(ToSet(p)) /\ q \in Seq(ToSet(q)) /\ Own(p) /\ Own(q) /\ Led(D, p) /\ Led(D, q)
                => p \o q \in Seq(ToSet(p \o q)) /\ Own(p \o q) /\ Led(D, p \o q)
  BY <1>5, LedBehind
<1>8. \A q : AllPermitted(cfg, t, q) => q \in Seq(ToSet(q))
  BY DEF AllPermitted
<1> HIDE DEF Own
<1>9. p2 \in Seq(ToSet(p2)) /\ Own(p2) /\ Led(D, p2)
  BY <1>1, <1>6, <1>7, <1>8
<1> HIDE DEF p2
<1>10. p3 \in Seq(ToSet(p3)) /\ Own(p3) /\ Led(D, p3)
  BY <1>1, <1>6, <1>7, <1>8, <1>9
<1> HIDE DEF p3
<1>11. p4 \in Seq(ToSet(p4)) /\ Own(p4) /\ Led(D, p4)
  BY <1>3, <1>4, <1>7, <1>8, <1>10
<1> HIDE DEF p4
<1>12. p5 \in Seq(ToSet(p5)) /\ Own(p5) /\ Led(D, p5)
  BY <1>2, <1>6, <1>7, <1>8, <1>11
<1> HIDE DEF p5
<1>13. p6 \in Seq(ToSet(p6)) /\ Own(p6) /\ Led(D, p6)
  BY <1>2, <1>6, <1>7, <1>8, <1>12
<1> HIDE DEF p6
<1>14. Own(p7) /\ Led(D, p7)
  BY <1>2, <1>6, <1>7, <1>8, <1>13
<1> QED BY <1>0, <1>14 DEF Own, D

\* Selecting clauses loses no anchor if all that add a column are selected.
LEMMA SelectedLed ==
  ASSUME NEW S, NEW D, NEW s \in Seq(S), NEW P, Led(D, s),
         \A c \in S : c.op = "ADD" => c \in P
  PROVE  Led(D, Selected(s, P))
<1> DEFINE ss == [i \in DOMAIN s |-> IF s[i] \in P THEN <<s[i]>> ELSE <<>>]
<1>1. DOMAIN s = 1..Len(s) /\ Len(s) \in Nat /\ \A i \in DOMAIN s : s[i] \in S
  OBVIOUS
<1>2. DOMAIN ss = DOMAIN s
  OBVIOUS
<1>3. \A i \in DOMAIN s : ss[i] = IF s[i] \in P THEN <<s[i]>> ELSE <<>>
  OBVIOUS
<1>4. ss \in Seq(Seq(S))
  <2>1. \A i \in DOMAIN s : ss[i] \in Seq(S)
    <3> SUFFICES ASSUME NEW i \in DOMAIN s PROVE ss[i] \in Seq(S)
      OBVIOUS
    <3>1. <<s[i]>> \in Seq(S) /\ <<>> \in Seq(S)
      BY <1>1
    <3> HIDE DEF ss
    <3> QED BY <3>1, <1>3
  <2>2. ss = [i \in 1..Len(s) |-> ss[i]]
    BY <1>1, <1>2
  <2> HIDE DEF ss
  <2> QED BY <1>1, <2>1, <2>2
<1> HIDE DEF ss
<1>5. Chain(D, ss)
  <2> SUFFICES ASSUME NEW i \in DOMAIN s, NEW n \in DOMAIN ss[i], Anchoring(ss[i][n]),
                      ss[i][n].after \notin D
               PROVE  \E c \in UNION {ToSet(ss[j]) : j \in 1..(i - 1)} : Adds(c, ss[i][n].after)
    BY <1>2 DEF Chain, LedAfter
  <2>a. s[i] \in P
    <3>1. s[i] \notin P => ss[i] = <<>>
      BY <1>3
    <3> QED BY <3>1
  <2>b. s[i] \in P => ss[i][n] = s[i]
    <3>1. s[i] \in P => ss[i] = <<s[i]>>
      BY <1>3
    <3> QED BY <3>1
  <2>1. s[i] \in P /\ ss[i][n] = s[i]
    BY <2>a, <2>b
  <2>2. PICK m \in 1..(i - 1) : Adds(s[m], s[i].after)
    BY <2>1 DEF Led
  <2>3. m \in DOMAIN s /\ s[m] \in P
    BY <1>1, <2>2 DEF Adds
  <2>4. s[m] \in ToSet(ss[m])
    BY <1>3, <2>3, ToSetSingle
  <2> QED BY <2>1, <2>2, <2>4
<1>6. Led(D, FlattenSeq(ss))
  BY <1>4, <1>5, FlattenLed
<1> QED BY <1>6 DEF Selected, ss

\* The comment of an added column does not say FOREIGN KEY.
NotMistaken(c) == c.op = "ADD" => c.col.comment # SaysForeignKey

LEMMA GroupsLed ==
  ASSUME NEW D, NEW lines, lines \in Seq(ToSet(lines)), Led(D, lines),
         \A c \in ToSet(lines) : NotMistaken(c)
  PROVE  \A i \in 1..3 : Led(D, Groups(lines)[i])
<1> DEFINE L == ToSet(lines)
           P1 == {c \in L : IsForeignDropLine(c)}
           P2 == {c \in L : ~IsForeignDropLine(c) /\ ~IsForeignAddLine(c)}
           P3 == {c \in L : IsForeignAddLine(c)}
           g1 == Selected(lines, P1)
           g2 == Selected(lines, P2)
           g3 == Selected(lines, P3)
<1>1. \A i \in DOMAIN lines : lines[i] \in L
  BY DEF ToSet
<1>2. Groups(lines) = <<g1, g2, g3>>
  <2> HIDE DEF L
  <2>1. Only(lines, IsForeignDropLine) = g1
    BY <1>1 DEF Only, Selected
  <2>2. Only(lines, LAMBDA c : ~IsForeignDropLine(c) /\ ~IsForeignAddLine(c)) = g2
    BY <1>1 DEF Only, Selected
  <2>3. Only(lines, IsForeignAddLine) = g3
    BY <1>1 DEF Only, Selected
  <2> HIDE DEF g1, g2, g3
  <2> QED BY <2>1, <2>2, <2>3 DEF Groups
<1>3. \A c \in P1 : ~Anchoring(c)
  BY DEF IsForeignDropLine, Anchoring
<1>4. \A c \in P3 : ~Anchoring(c)
  BY DEF IsForeignAddLine, NotMistaken, Anchoring
<1>5. \A c \in L : c.op = "ADD" => c \in P2
  BY DEF IsForeignDropLine, IsForeignAddLine, NotMistaken
<1> HIDE DEF P1, P2, P3, L
<1>6. lines \in Seq(L) /\ ToSet(lines) = L
  BY DEF L
<1>7. ToSet(g1) \subseteq P1 /\ ToSet(g3) \subseteq P3
  BY <1>6, SelectedMembers
<1>8. Led(D, g2)
  BY <1>5, <1>6, SelectedLed
<1> HIDE DEF g1, g2, g3
<1>9. Led(D, g1) /\ Led(D, g3)
  BY <1>3, <1>4, <1>7 DEF Led, ToSet
<1> QED BY <1>2, <1>8, <1>9

\* All clauses of a sequence of statements, in their order.
ClausesOf(sql) == FlattenSeq([j \in DOMAIN sql |-> sql[j].clauses])

LEMMA AlterStatementsLed ==
  ASSUME NEW cfg, NEW t, NEW D, NEW lines, lines \in Seq(ToSet(lines)), Led(D, lines),
         \A c \in ToSet(lines) : NotMistaken(c)
  PROVE  /\ Led(D, ClausesOf(AlterStatements(cfg, t, lines)))
         /\ ClausesOf(AlterStatements(cfg, t, lines)) \in Seq(ToSet(lines))
<1> DEFINE L == ToSet(lines)
           G == Groups(lines)
           sql == AlterStatements(cfg, t, lines)
           cs == [j \in DOMAIN sql |-> sql[j].clauses]
<1>1. G \in Seq(Seq(L)) /\ DOMAIN G = 1..3
  BY OnlyMembers
<1>2. \A i \in 1..3 : Led(D, G[i])
  BY GroupsLed
<1> HIDE DEF L, G
<1>3. CASE cfg.single
  <2> DEFINE each == FlattenSeq(G)
  <2>1. Chain(D, G)
    BY <1>1, <1>2 DEF Chain, LedAfter, Led
  <2>2. each \in Seq(L) /\ Led(D, each)
    BY <1>1, <2>1, FlattenMembers, FlattenLed
  <2>3. sql = [i \in DOMAIN each |-> Alter(t, <<each[i]>>)]
    BY <1>3 DEF AlterStatements, G
  <2> HIDE DEF each, sql
  <2>4. \A i \in DOMAIN each : each[i] \in L
    BY <2>2
  <2>5. \A i \in DOMAIN each : sql[i].clauses = <<each[i]>>
    BY <2>3 DEF Alter
  <2>6. DOMAIN sql = DOMAIN each
    BY <2>3
  <2>7. cs = [i \in DOMAIN each |-> IF each[i] \in L THEN <<each[i]>> ELSE <<>>]
    BY <2>4, <2>5, <2>6
  <2>8. FlattenSeq(cs) = Selected(each, L)
    BY <2>7 DEF Selected
  <2>9. Led(D, Selected(each, L)) /\ Selected(each, L) \in Seq(L)
    BY <2>2, SelectedLed, SelectedMembers
  <2> QED BY <2>8, <2>9 DEF ClausesOf, L, sql
<1>4. CASE ~cfg.single
  <2> DEFINE P == {g \in ToSet(G) : g # <<>>}
             some == Selected(G, P)
  <2>1. sql = [i \in DOMAIN some |-> Alter(t, some[i])]
    <3>1. Only(G, LAMBDA g : g # <<>>) = some
      <4>1. \A i \in DOMAIN G : G[i] \in ToSet(G)
        BY DEF ToSet
      <4> QED BY <4>1 DEF Only, Selected
    <3> HIDE DEF some
    <3> QED BY <1>4, <3>1 DEF AlterStatements, G
  <2> HIDE DEF P
  <2>2. some \in Seq(Seq(L)) /\ ToSet(some) \subseteq ToSet(G)
    BY <1>1, SelectedMembers
  <2> HIDE DEF some, sql
  <2>3. \A i \in DOMAIN some : sql[i].clauses = some[i]
    BY <2>1 DEF Alter
  <2>4. DOMAIN sql = DOMAIN some /\ some = [i \in DOMAIN some |-> some[i]]
    BY <2>1, <2>2
  <2>5. cs = some
    BY <2>3, <2>4
  <2>6. \A i \in DOMAIN some : Led(D, some[i])
    BY <1>1, <1>2, <2>2 DEF ToSet
  <2>7. Chain(D, some)
    BY <2>6 DEF Chain, LedAfter, Led
  <2>8. Led(D, FlattenSeq(some)) /\ FlattenSeq(some) \in Seq(L)
    BY <2>2, <2>7, FlattenLed, FlattenMembers
  <2> QED BY <2>5, <2>8 DEF ClausesOf, L, sql
<1> QED BY <1>3, <1>4

\* What the comparison of two texts says about anchors: each is a column of the
\* destination that is not dropped, or is added before.
LEMMA AnchorsLed ==
  ASSUME NEW cfg, NEW t, NEW a, {"src", "dst"} \subseteq DOMAIN a,
         IsSchema(a.src), IsSchema(a.dst), AlterData(cfg, t, a).type = "alter",
         \A c \in ToSet(Parse(a.src).cols) : c.comment # SaysForeignKey
  PROVE  /\ ClausesOf(AlterData(cfg, t, a).sql) \in Seq(ToSet(ClausesOf(AlterData(cfg, t, a).sql)))
         /\ Led(ColNames(Parse(a.src)) \cap ColNames(Parse(a.dst)), ClausesOf(AlterData(cfg, t, a).sql))
         /\ \A c \in ToSet(ClausesOf(AlterData(cfg, t, a).sql)) :
              c.op = "DROP COLUMN" => c.name \notin ColNames(Parse(a.src))
<1> DEFINE p == [a EXCEPT !.src = Parse(a.src), !.dst = Parse(a.dst)]
           lines == SchemaDiffLines(cfg, t, p)
           d == AlterData(cfg, t, a)
           create == CreateStatements(t, a.src)
           alter == AlterStatements(cfg, t, lines)
<1>1. p.src = Parse(a.src) /\ p.dst = Parse(a.dst)
  OBVIOUS
<1>2. Parsed(p.src) /\ Parsed(p.dst)
  BY <1>1, ParseProper DEF IsSchema
<1>4. \/ d = [type |-> "no", src |-> p.src, dst |-> p.dst, sql |-> <<>>]
      \/ d = [type |-> "drop", src |-> p.src, dst |-> p.dst, sql |-> <<>>]
      \/ d = [type |-> "create", src |-> p.src, dst |-> p.dst, sql |-> create]
      \/ d = [type |-> "alter", src |-> p.src, dst |-> p.dst, sql |-> alter]
  BY DEF AlterData
<1> HIDE DEF p
<1>5. /\ Led(Common(p), lines)
      /\ \A c \in ToSet(lines) :
           /\ c.op = "DROP COLUMN" => c.name \notin ColNames(p.src)
           /\ c.op = "ADD" => c.col \in ToSet(p.src.cols)
  BY <1>2, LinesLed
<1>6. AllPermitted(cfg, t, lines)
  BY <1>2, LinesPermitted
<1>7. \A c \in ToSet(lines) : NotMistaken(c)
  BY <1>1, <1>5 DEF NotMistaken
<1> HIDE DEF lines, d, create, alter
<1>8. d.sql = alter
  BY <1>4 DEF d
<1>9. lines \in Seq(ToSet(lines))
  BY <1>6 DEF AllPermitted
<1>10. Led(Common(p), ClausesOf(alter)) /\ ClausesOf(alter) \in Seq(ToSet(lines))
  BY <1>5, <1>7, <1>9, AlterStatementsLed DEF alter
<1>11. Led(ColNames(p.src) \cap ColNames(p.dst), ClausesOf(d.sql))
  BY <1>8, <1>10 DEF Common
<1>12. \A c \in ToSet(ClausesOf(d.sql)) : c.op = "DROP COLUMN" => c.name \notin ColNames(p.src)
  <2> SUFFICES ASSUME NEW c \in ToSet(ClausesOf(d.sql)), c.op = "DROP COLUMN"
               PROVE  c.name \notin ColNames(p.src)
    OBVIOUS
  <2>1. c \in ToSet(lines)
    BY <1>8, <1>10, ToSetSeq
  <2> QED BY <1>5, <2>1
<1>13. ClausesOf(d.sql) \in Seq(ToSet(ClausesOf(d.sql)))
  BY <1>8, <1>10, SeqOwn
<1> QED BY <1>1, <1>11, <1>12, <1>13 DEF d

LEMMA CreatesUnled ==
  ASSUME NEW t, NEW sql, sql \in Seq(ToSet(sql)), \A j \in DOMAIN sql : CreatesOf(t, sql[j])
  PROVE  /\ ClausesOf(sql) \in Seq(ToSet(ClausesOf(sql)))
         /\ \A c \in ToSet(ClausesOf(sql)) : c.op = "ADD CONSTRAINT"
<1> DEFINE cs == [j \in DOMAIN sql |-> sql[j].clauses]
           S == {c \in UNION {ToSet(sql[j].clauses) : j \in DOMAIN sql} : c.op = "ADD CONSTRAINT"}
<1>1. DOMAIN sql = 1..Len(sql) /\ Len(sql) \in Nat
  OBVIOUS
<1>2. \A j \in DOMAIN sql : sql[j].clauses \in Seq(S)
  <2> SUFFICES ASSUME NEW j \in DOMAIN sql PROVE sql[j].clauses \in Seq(S)
    OBVIOUS
  <2>1. ToSet(sql[j].clauses) \subseteq S /\ sql[j].clauses \in Seq(ToSet(sql[j].clauses))
    BY DEF CreatesOf
  <2> HIDE DEF S
  <2> QED BY <2>1, SeqMonotonic
<1>3. \A c \in S : c.op = "ADD CONSTRAINT"
  OBVIOUS
<1> HIDE DEF S
<1>4. cs \in Seq(Seq(S))
  BY <1>1, <1>2
<1> HIDE DEF cs
<1>5. FlattenSeq(cs) \in Seq(S)
  BY <1>4, FlattenMembers
<1> QED BY <1>3, <1>5, ToSetSeq, SeqOwn DEF ClausesOf, cs

\* A table is created without anchors.
LEMMA CreatedLed ==
  ASSUME NEW cfg, NEW t, NEW a, {"src", "dst"} \subseteq DOMAIN a,
         IsSchema(a.src), AlterData(cfg, t, a).type = "create"
  PROVE  /\ ClausesOf(AlterData(cfg, t, a).sql) \in Seq(ToSet(ClausesOf(AlterData(cfg, t, a).sql)))
         /\ \A c \in ToSet(ClausesOf(AlterData(cfg, t, a).sql)) : c.op = "ADD CONSTRAINT"
<1> DEFINE p == [a EXCEPT !.src = Parse(a.src), !.dst = Parse(a.dst)]
           d == AlterData(cfg, t, a)
           create == CreateStatements(t, a.src)
           alter == AlterStatements(cfg, t, SchemaDiffLines(cfg, t, p))
<1>1. \/ d = [type |-> "no", src |-> p.src, dst |-> p.dst, sql |-> <<>>]
      \/ d = [type |-> "drop", src |-> p.src, dst |-> p.dst, sql |-> <<>>]
      \/ d = [type |-> "create", src |-> p.src, dst |-> p.dst, sql |-> create]
      \/ d = [type |-> "alter", src |-> p.src, dst |-> p.dst, sql |-> alter]
  BY DEF AlterData
<1> HIDE DEF p, d, create, alter
<1>2. d.sql = create
  BY <1>1 DEF d
<1>3. create \in Seq(ToSet(create)) /\ \A j \in DOMAIN create : CreatesOf(t, create[j])
  BY CreateStatementsMembers DEF create, IsSchema
<1>4. /\ ClausesOf(create) \in Seq(ToSet(ClausesOf(create)))
      /\ \A c \in ToSet(ClausesOf(create)) : c.op = "ADD CONSTRAINT"
  BY <1>3, CreatesUnled
<1> QED BY <1>2, <1>4 DEF d
=============================================================================
