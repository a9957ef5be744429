--------------------------- MODULE SequenceFacts ---------------------------
(***************************************************************************)
(* What the operators on sequences that the models are built from return:  *)
(* the elements of concatenations, of FlattenSeq, SetToSeq and InOrder.     *)
(***************************************************************************)
EXTENDS Selections, FiniteSetTheorems, SequenceTheorems, TLAPS

-----------------------------------------------------------------------------
(* Induction over the natural numbers, for a set.  The provers cannot apply *)
(* a theorem that has a predicate as a parameter.                           *)

\* What holds of 0, and of n + 1 if it holds of n, holds of every number.  For
\* among those it holds of below a counterexample the successor would be an
\* injection that misses 0.
THEOREM Induct ==
  \A W : 0 \in W /\ (\A n \in Nat : n \in W => n + 1 \in W) => Nat \subseteq W
<1> SUFFICES ASSUME NEW W, 0 \in W, \A n \in Nat : n \in W => n + 1 \in W,
                    NEW n \in Nat, n \notin W
             PROVE  FALSE
  OBVIOUS
<1> DEFINE T == {k \in 0..n : k \in W}
           f == [k \in T |-> k + 1]
<1>1. IsFiniteSet(T) /\ 0 \in T
  <2>1. IsFiniteSet(0..n)
    BY FS_Interval
  <2>2. T \in SUBSET (0..n)
    OBVIOUS
  <2> HIDE DEF T
  <2>3. IsFiniteSet(T)
    BY <2>1, <2>2, FS_Subset
  <2> QED BY <2>3 DEF T
<1>2. f \in [T -> T \ {0}]
  <2> SUFFICES ASSUME NEW k \in T PROVE k + 1 \in T \ {0}
    OBVIOUS
  <2>1. k # n
    OBVIOUS
  <2> QED BY <2>1
<1>3. \A x, y \in T : f[x] = f[y] => x = y
  OBVIOUS
<1> HIDE DEF T, f
<1>4. IsFiniteSet(T \ {0}) /\ Cardinality(T \ {0}) = Cardinality(T) - 1
  BY <1>1, FS_RemoveElement
<1>5. Cardinality(T) \in Nat
  BY <1>1, FS_CardinalityType
<1>6. Cardinality(T \ {0}) < Cardinality(T)
  BY <1>4, <1>5
<1> QED BY <1>1, <1>2, <1>3, <1>4, <1>6, FS_PigeonHole

-----------------------------------------------------------------------------
(* Concatenations.                                                         *)

Regroups(u, v, w) == (u \o v) \o w = u \o (v \o w)

LEMMA ConcatRegroups ==
  ASSUME NEW S, NEW u \in Seq(S), NEW v \in Seq(S), NEW w \in Seq(S)
  PROVE  Regroups(u, v, w)
BY DEF Regroups

LEMMA ConcatElements ==
  ASSUME NEW S, NEW s \in Seq(S), NEW t \in Seq(S)
  PROVE  /\ s \o t \in Seq(S) /\ Len(s \o t) = Len(s) + Len(t)
         /\ \A i \in 1..Len(s) : (s \o t)[i] = s[i]
         /\ \A i \in 1..Len(t) : (s \o t)[Len(s) + i] = t[i]
OBVIOUS

LEMMA ToSetConcat ==
  ASSUME NEW S, NEW s \in Seq(S), NEW t \in Seq(S)
  PROVE  s \o t \in Seq(S) /\ ToSet(s \o t) = ToSet(s) \cup ToSet(t)
<1>1. /\ s \o t \in Seq(S) /\ Len(s \o t) = Len(s) + Len(t)
      /\ \A i \in 1..Len(s) : (s \o t)[i] = s[i]
      /\ \A i \in 1..Len(t) : (s \o t)[Len(s) + i] = t[i]
  BY ConcatElements
<1> DEFINE u == s \o t
<1> HIDE DEF u
<1>2. /\ DOMAIN u = 1..(Len(s) + Len(t))
      /\ DOMAIN s = 1..Len(s) /\ DOMAIN t = 1..Len(t)
      /\ Len(s) \in Nat /\ Len(t) \in Nat
  BY <1>1 DEF u
<1>3. \A i \in 1..Len(s) : u[i] = s[i]
  BY <1>1 DEF u
<1>4. \A i \in 1..Len(t) : u[Len(s) + i] = t[i]
  BY <1>1 DEF u
<1>5. ASSUME NEW x \in ToSet(u) PROVE x \in ToSet(s) \cup ToSet(t)
  <2>1. PICK i \in 1..(Len(s) + Len(t)) : x = u[i]
    BY <1>2 DEF ToSet
  <2>2. CASE i \in 1..Len(s)
    BY <2>1, <2>2, <1>2, <1>3 DEF ToSet
  <2>3. CASE i \notin 1..Len(s)
    <3>1. i - Len(s) \in 1..Len(t) /\ i = Len(s) + (i - Len(s))
      BY <2>3, <1>2
    <3>2. x = t[i - Len(s)]
      BY <3>1, <2>1, <1>4
    <3> QED BY <3>1, <3>2, <1>2 DEF ToSet
  <2> QED BY <2>2, <2>3
<1>6. ToSet(s) \subseteq ToSet(u)
  <2>1. \A i \in 1..Len(s) : i \in 1..(Len(s) + Len(t))
    BY <1>2
  <2> QED BY <2>1, <1>2, <1>3 DEF ToSet
<1>7. ToSet(t) \subseteq ToSet(u)
  <2>1. \A i \in 1..Len(t) : Len(s) + i \in 1..(Len(s) + Len(t))
    BY <1>2
  <2> QED BY <2>1, <1>2, <1>4 DEF ToSet
<1>8. ToSet(u) = ToSet(s) \cup ToSet(t)
  BY <1>5, <1>6, <1>7
<1> QED BY <1>1, <1>8 DEF u

LEMMA ToSetEmpty == ToSet(<<>>) = {}
BY DEF ToSet

LEMMA ToSetSingle ==
  ASSUME NEW x
  PROVE  ToSet(<<x>>) = {x}
BY DEF ToSet

LEMMA ToSetAppend ==
  ASSUME NEW S, NEW s \in Seq(S), NEW x \in S
  PROVE  Append(s, x) \in Seq(S) /\ ToSet(Append(s, x)) = ToSet(s) \cup {x}
<1> DEFINE one == <<x>>
<1>1. Append(s, x) = s \o one
  OBVIOUS
<1>2. one \in Seq(S) /\ ToSet(one) = {x}
  BY ToSetSingle
<1> HIDE DEF one
<1> QED BY <1>1, <1>2, ToSetConcat

LEMMA ToSetSeq ==
  ASSUME NEW S, NEW s \in Seq(S)
  PROVE  ToSet(s) \subseteq S
BY DEF ToSet

\* The first element and the others.
LEMMA ToSetHeadTail ==
  ASSUME NEW S, NEW s \in Seq(S), s # <<>>
  PROVE  /\ Head(s) \in ToSet(s) /\ Tail(s) \in Seq(S)
         /\ ToSet(s) = {Head(s)} \cup ToSet(Tail(s))
<1> DEFINE one == <<Head(s)>>
           rest == Tail(s)
<1>1. rest \in Seq(S) /\ s = one \o rest /\ one \in Seq(S)
  OBVIOUS
<1>2. ToSet(one) = {Head(s)}
  BY ToSetSingle
<1> HIDE DEF one, rest
<1>3. ToSet(s) = {Head(s)} \cup ToSet(rest)
  BY <1>1, <1>2, ToSetConcat
<1> QED BY <1>1, <1>3 DEF rest

LEMMA HeadTailJoined ==
  ASSUME NEW S, NEW x \in S, NEW s \in Seq(S)
  PROVE  Head(<<x>> \o s) = x /\ Tail(<<x>> \o s) = s
OBVIOUS

LEMMA SeqOwn ==
  ASSUME NEW S, NEW s \in Seq(S)
  PROVE  s \in Seq(ToSet(s))
BY DEF ToSet

LEMMA ToSetSubSeq ==
  ASSUME NEW S, NEW s \in Seq(S), NEW m \in 1..(Len(s) + 1), NEW n \in 0..Len(s)
  PROVE  /\ SubSeq(s, m, n) \in Seq(S)
         /\ ToSet(SubSeq(s, m, n)) = {s[i] : i \in m..n}
<1> DEFINE u == SubSeq(s, m, n)
<1>1. CASE m > n
  <2>1. u = <<>> /\ m..n = {}
    BY <1>1
  <2> QED BY <2>1, ToSetEmpty
<1>2. CASE m <= n
  <2>1. u \in Seq(S) /\ Len(u) = n - m + 1 /\ \A i \in 1..(n - m + 1) : u[i] = s[m + i - 1]
    BY <1>2
  <2> HIDE DEF u
  <2>2. DOMAIN u = 1..(n - m + 1)
    BY <2>1
  <2>3. \A i \in m..n : (i - m + 1) \in 1..(n - m + 1) /\ u[i - m + 1] = s[i]
    BY <2>1
  <2>4. \A i \in 1..(n - m + 1) : m + i - 1 \in m..n
    OBVIOUS
  <2>5. \A x \in ToSet(u) : x \in {s[i] : i \in m..n}
    BY <2>1, <2>2, <2>4 DEF ToSet
  <2>6. \A i \in m..n : s[i] \in ToSet(u)
    BY <2>2, <2>3 DEF ToSet
  <2> QED BY <2>1, <2>5, <2>6 DEF u
<1> QED BY <1>1, <1>2

\* An element put in somewhere.
LEMMA InsertAtMembers ==
  ASSUME NEW S, NEW s \in Seq(S), NEW i \in 1..(Len(s) + 1), NEW e \in S
  PROVE  InsertAt(s, i, e) \in Seq(S) /\ ToSet(InsertAt(s, i, e)) = ToSet(s) \cup {e}
<1> DEFINE u == SubSeq(s, 1, i - 1)
           one == <<e>>
           v == SubSeq(s, i, Len(s))
<1>1. u \in Seq(S) /\ ToSet(u) = {s[j] : j \in 1..(i - 1)}
  BY ToSetSubSeq
<1>2. v \in Seq(S) /\ ToSet(v) = {s[j] : j \in i..Len(s)}
  BY ToSetSubSeq
<1>3. one \in Seq(S) /\ ToSet(one) = {e}
  BY ToSetSingle
<1>4. InsertAt(s, i, e) = (u \o one) \o v
  BY DEF InsertAt
<1> HIDE DEF u, one, v
<1>5. u \o one \in Seq(S) /\ ToSet(u \o one) = ToSet(u) \cup {e}
  BY <1>1, <1>3, ToSetConcat
<1>6. (u \o one) \o v \in Seq(S) /\ ToSet((u \o one) \o v) = ToSet(u) \cup {e} \cup ToSet(v)
  <2> DEFINE w == u \o one
  <2>1. w \in Seq(S) /\ ToSet(w) = ToSet(u) \cup {e}
    BY <1>5
  <2> HIDE DEF w
  <2>2. w \o v \in Seq(S) /\ ToSet(w \o v) = ToSet(w) \cup ToSet(v)
    BY <1>2, <2>1, ToSetConcat
  <2> QED BY <2>1, <2>2 DEF w
<1>7. ToSet(u) \cup ToSet(v) = ToSet(s)
  <2>1. DOMAIN s = 1..Len(s) /\ 1..Len(s) = 1..(i - 1) \cup i..Len(s)
    OBVIOUS
  <2> QED BY <1>1, <1>2, <2>1 DEF ToSet
<1> QED BY <1>4, <1>6, <1>7

-----------------------------------------------------------------------------
(* FlattenSeq, one sequence after the other.                               *)

FlatDomain(ss) == 1..Len(ss)
FlatRank(ss, i) == i
FlatDef(ss, f, i) == IF i = 1 THEN ss[i] ELSE f[i - 1] \o ss[i]

FlatRec == INSTANCE Recursion WITH S <- FlatDomain, Rank <- FlatRank, Def <- FlatDef

\* The first n sequences flattened.
FlatPrefix(ss) == CHOOSE f : f = [i \in 1..Len(ss) |-> IF i = 1 THEN ss[i] ELSE f[i - 1] \o ss[i]]

LEMMA FlattenUnfold ==
  ASSUME NEW ss, Len(ss) \in Nat
  PROVE  /\ FlatPrefix(ss) = [i \in 1..Len(ss) |-> IF i = 1 THEN ss[i]
                                                   ELSE FlatPrefix(ss)[i - 1] \o ss[i]]
         /\ Len(ss) # 0 => FlattenSeq(ss) = FlatPrefix(ss)[Len(ss)]
         /\ Len(ss) = 0 => FlattenSeq(ss) = ss
<1>1. FlatRec!WellDefined(ss)
  BY DEF FlatRec!WellDefined, FlatDomain, FlatRank, FlatDef
<1>2. \E f : f = [i \in 1..Len(ss) |-> IF i = 1 THEN ss[i] ELSE f[i - 1] \o ss[i]]
  BY <1>1, FlatRec!Recurse, Induct DEF FlatRec!Inductive, FlatDomain, FlatDef
<1>3. FlatPrefix(ss) = [i \in 1..Len(ss) |-> IF i = 1 THEN ss[i]
                                             ELSE FlatPrefix(ss)[i - 1] \o ss[i]]
  BY <1>2 DEF FlatPrefix
<1>4. Len(ss) # 0 => FlattenSeq(ss) = FlatPrefix(ss)[Len(ss)]
  BY DEF FlattenSeq, FlatPrefix
<1>5. Len(ss) = 0 => FlattenSeq(ss) = ss
  BY DEF FlattenSeq
<1> QED BY <1>3, <1>4, <1>5

\* The first n sequences, if there are so many, hold what each of them holds.
FlatHolds(e, n) ==
  n + 1 <= Len(e.ss) =>
    /\ FlatPrefix(e.ss)[n + 1] \in Seq(e.S)
    /\ ToSet(FlatPrefix(e.ss)[n + 1]) = UNION {ToSet(e.ss[i]) : i \in 1..(n + 1)}

LEMMA FlattenMembers ==
  ASSUME NEW S, NEW ss \in Seq(Seq(S))
  PROVE  /\ FlattenSeq(ss) \in Seq(S)
         /\ ToSet(FlattenSeq(ss)) = UNION {ToSet(ss[i]) : i \in DOMAIN ss}
<1> DEFINE e == [ss |-> ss, S |-> S]
           F == FlatPrefix(ss)
<1>1. Len(ss) \in Nat /\ DOMAIN ss = 1..Len(ss) /\ \A i \in 1..Len(ss) : ss[i] \in Seq(S)
  OBVIOUS
<1> HIDE DEF e, F
<1>2. \A i \in 1..Len(ss) : F[i] = IF i = 1 THEN ss[i] ELSE F[i - 1] \o ss[i]
  <2>1. F = [i \in 1..Len(ss) |-> IF i = 1 THEN ss[i] ELSE F[i - 1] \o ss[i]]
    BY <1>1, FlattenUnfold DEF F
  <2> QED BY <2>1
<1>e. e.ss = ss /\ e.S = S
  BY DEF e
<1>3. FlatHolds(e, 0)
  <2> SUFFICES ASSUME 1 <= Len(ss)
               PROVE  F[1] \in Seq(S) /\ ToSet(F[1]) = UNION {ToSet(ss[i]) : i \in 1..1}
    BY <1>e DEF FlatHolds, F
  <2>1. 1 \in 1..Len(ss) /\ 1..1 = {1}
    BY <1>1
  <2>2. F[1] = ss[1]
    BY <1>2, <2>1
  <2>3. ss[1] \in Seq(S)
    BY <1>1, <2>1
  <2>4. UNION {ToSet(ss[i]) : i \in {1}} = ToSet(ss[1])
    OBVIOUS
  <2> QED BY <2>1, <2>2, <2>3, <2>4
<1>4. ASSUME NEW n \in Nat, FlatHolds(e, n) PROVE FlatHolds(e, n + 1)
  <2> DEFINE m == n + 1
  <2>m. m \in Nat
    OBVIOUS
  <2> HIDE DEF m
  <2> SUFFICES ASSUME m + 1 <= Len(ss)
               PROVE  /\ F[m + 1] \in Seq(S)
                      /\ ToSet(F[m + 1]) = UNION {ToSet(ss[i]) : i \in 1..(m + 1)}
    BY <1>e DEF FlatHolds, F, m
  <2>1. F[m] \in Seq(S) /\ ToSet(F[m]) = UNION {ToSet(ss[i]) : i \in 1..m}
    BY <1>1, <1>4, <1>e DEF FlatHolds, F, m
  <2>2. F[m + 1] = F[m] \o ss[m + 1] /\ ss[m + 1] \in Seq(S)
    <3>1. m + 1 \in 1..Len(ss) /\ m + 1 # 1 /\ (m + 1) - 1 = m
      BY <1>1, <2>m DEF m
    <3> QED BY <1>1, <1>2, <3>1
  <2>3. F[m + 1] \in Seq(S) /\ ToSet(F[m + 1]) = ToSet(F[m]) \cup ToSet(ss[m + 1])
    BY <2>1, <2>2, ToSetConcat
  <2>4. 1..(m + 1) = (1..m) \cup {m + 1}
    BY <2>m
  <2> QED BY <2>1, <2>3, <2>4
<1>5. \A n \in Nat : FlatHolds(e, n)
  <2> DEFINE W == {n \in Nat : FlatHolds(e, n)}
  <2>1. 0 \in W /\ \A n \in Nat : n \in W => n + 1 \in W
    BY <1>3, <1>4
  <2> HIDE DEF W
  <2>2. Nat \subseteq W
    BY <2>1, Induct
  <2> QED BY <2>2 DEF W
<1>6. CASE Len(ss) = 0
  <2>1. ss = <<>> /\ DOMAIN ss = {}
    BY <1>1, <1>6
  <2>2. FlattenSeq(ss) = <<>>
    BY <1>1, <1>6, <2>1, FlattenUnfold
  <2>3. ToSet(FlattenSeq(ss)) = {} /\ FlattenSeq(ss) \in Seq(S)
    BY <2>2, ToSetEmpty
  <2> QED BY <2>1, <2>3
<1>7. CASE Len(ss) # 0
  <2>1. Len(ss) - 1 \in Nat /\ (Len(ss) - 1) + 1 = Len(ss)
    BY <1>1, <1>7
  <2>2. FlatHolds(e, Len(ss) - 1)
    BY <1>5, <2>1
  <2>3. F[Len(ss)] \in Seq(S) /\ ToSet(F[Len(ss)]) = UNION {ToSet(ss[i]) : i \in 1..Len(ss)}
    BY <2>1, <2>2, <1>1, <1>e DEF FlatHolds, F
  <2>4. FlattenSeq(ss) = F[Len(ss)]
    BY <1>1, <1>7, FlattenUnfold DEF F
  <2> QED BY <1>1, <2>3, <2>4
<1> QED BY <1>6, <1>7

\* One more sequence in front of those that are flattened.
FrontHolds(e, n) ==
  n + 1 <= Len(e.ss) =>
    /\ FlatPrefix(e.ss)[n + 1] \in Seq(e.S)
    /\ FlatPrefix(<<e.a>> \o e.ss)[n + 2] = e.a \o FlatPrefix(e.ss)[n + 1]

LEMMA FlattenCons ==
  ASSUME NEW S, NEW ss \in Seq(Seq(S)), NEW a \in Seq(S)
  PROVE  FlattenSeq(<<a>> \o ss) = a \o FlattenSeq(ss) /\ FlattenSeq(ss) \in Seq(S)
<1> DEFINE e == [ss |-> ss, S |-> S, a |-> a]
           c == <<a>> \o ss
           F == FlatPrefix(ss)
           G == FlatPrefix(c)
           N == Len(ss)
<1>e. e.ss = ss /\ e.S = S /\ e.a = a
  OBVIOUS
<1>1. /\ N \in Nat /\ Len(c) = N + 1 /\ Len(c) \in Nat /\ c[1] = a
      /\ \A i \in 1..N : ss[i] \in Seq(S) /\ c[i + 1] = ss[i]
  OBVIOUS
<1> HIDE DEF e
<1>p. \A n : FrontHolds(e, n) <=>
        (n + 1 <= N => F[n + 1] \in Seq(S) /\ G[n + 2] = a \o F[n + 1])
  BY <1>e DEF FrontHolds
<1>f. F = [i \in 1..N |-> IF i = 1 THEN ss[i] ELSE F[i - 1] \o ss[i]]
  BY <1>1, FlattenUnfold
<1>g. G = [i \in 1..Len(c) |-> IF i = 1 THEN c[i] ELSE G[i - 1] \o c[i]]
  <2> HIDE DEF c
  <2> QED BY <1>1, FlattenUnfold
<1> HIDE DEF F, G, c, N
<1>2. N >= 1 => F[1] = ss[1]
  BY <1>1, <1>f
<1>3. \A n \in Nat : n + 2 <= N => F[n + 2] = F[n + 1] \o ss[n + 2]
  <2> SUFFICES ASSUME NEW n \in Nat, n + 2 <= N PROVE F[n + 2] = F[n + 1] \o ss[n + 2]
    OBVIOUS
  <2>1. n + 2 \in 1..N /\ n + 2 # 1 /\ (n + 2) - 1 = n + 1
    BY <1>1
  <2> QED BY <1>f, <2>1
<1>4. G[1] = a
  BY <1>1, <1>g
<1>5. \A n \in Nat : n + 1 <= N => G[n + 2] = G[n + 1] \o ss[n + 1]
  <2> SUFFICES ASSUME NEW n \in Nat, n + 1 <= N PROVE G[n + 2] = G[n + 1] \o ss[n + 1]
    OBVIOUS
  <2>1. n + 2 \in 1..Len(c) /\ n + 2 # 1 /\ (n + 2) - 1 = n + 1
    BY <1>1
  <2>2. c[n + 2] = ss[n + 1]
    <3>1. n + 1 \in 1..N /\ (n + 1) + 1 = n + 2
      BY <1>1
    <3> QED BY <1>1, <3>1
  <2> QED BY <1>g, <2>1, <2>2
<1>6. FrontHolds(e, 0)
  <2> SUFFICES ASSUME 0 + 1 <= N PROVE F[0 + 1] \in Seq(S) /\ G[0 + 2] = a \o F[0 + 1]
    BY <1>p
  <2>1. 0 + 1 = 1 /\ 1 \in 1..N
    BY <1>1
  <2>2. G[0 + 2] = G[0 + 1] \o ss[0 + 1]
    BY <1>5
  <2>3. F[0 + 1] = ss[1] /\ G[0 + 1] = a /\ ss[0 + 1] = ss[1]
    BY <2>1, <1>2, <1>4
  <2> QED BY <1>1, <2>1, <2>2, <2>3
<1>7. ASSUME NEW n \in Nat, FrontHolds(e, n) PROVE FrontHolds(e, n + 1)
  <2> SUFFICES ASSUME (n + 1) + 1 <= N
               PROVE  F[(n + 1) + 1] \in Seq(S) /\ G[(n + 1) + 2] = a \o F[(n + 1) + 1]
    BY <1>p
  <2> DEFINE x == F[n + 1]
             y == ss[n + 2]
  <2>0. n + 1 <= N /\ n + 2 <= N /\ n + 2 \in 1..N
    BY <1>1
  <2>1. x \in Seq(S) /\ G[n + 2] = a \o x
    BY <1>7, <1>p, <2>0
  <2>2. y \in Seq(S) /\ F[n + 2] = x \o y
    BY <1>1, <1>3, <2>0
  <2>3. (n + 1) + 1 = n + 2 /\ n + 1 \in Nat
    OBVIOUS
  <2>4. G[(n + 1) + 2] = G[(n + 1) + 1] \o ss[(n + 1) + 1]
    BY <1>5, <2>3
  <2>5. G[(n + 1) + 2] = (a \o x) \o y /\ F[(n + 1) + 1] = x \o y
    BY <2>1, <2>2, <2>3, <2>4
  <2> HIDE DEF x, y
  <2>6. (a \o x) \o y = a \o (x \o y)
    <3>1. Regroups(a, x, y)
      BY <2>1, <2>2, ConcatRegroups
    <3> QED BY <3>1 DEF Regroups
  <2>7. x \o y \in Seq(S)
    BY <2>1, <2>2
  <2> QED BY <2>5, <2>6, <2>7
<1>8. \A n \in Nat : FrontHolds(e, n)
  <2> DEFINE W == {n \in Nat : FrontHolds(e, n)}
  <2>1. 0 \in W /\ \A n \in Nat : n \in W => n + 1 \in W
    BY <1>6, <1>7
  <2> HIDE DEF W
  <2>2. Nat \subseteq W
    BY <2>1, Induct
  <2> QED BY <2>2 DEF W
<1>9. FlattenSeq(c) = G[N + 1]
  <2>1. Len(c) # 0
    BY <1>1
  <2>2. FlattenSeq(c) = FlatPrefix(c)[Len(c)]
    BY <1>1, <2>1, FlattenUnfold, Zenon
  <2> QED BY <1>1, <2>2 DEF G
<1>10. CASE N = 0
  <2>0. ss = <<>> /\ Len(ss) \in Nat /\ Len(ss) = 0
    BY <1>10 DEF N
  <2>1. FlattenSeq(ss) = ss
    BY <2>0, FlattenUnfold, Zenon
  <2>2. FlattenSeq(c) = a /\ a \o <<>> = a /\ <<>> \in Seq(S)
    BY <1>1, <1>4, <1>9, <1>10
  <2> QED BY <2>0, <2>1, <2>2 DEF c
<1>11. CASE N # 0
  <2>1. FlattenSeq(ss) = F[N]
    BY <1>1, <1>11, FlattenUnfold DEF F, N
  <2>2. PICK n \in Nat : n = N - 1
    BY <1>1, <1>11
  <2>3. F[n + 1] \in Seq(S) /\ G[n + 2] = a \o F[n + 1]
    <3>1. n + 1 <= N
      BY <1>1, <2>2
    <3> QED BY <1>8, <1>p, <3>1
  <2>4. n + 1 = N /\ n + 2 = N + 1
    BY <1>1, <2>2
  <2>5. F[N] \in Seq(S) /\ G[N + 1] = a \o F[N]
    BY <2>3, <2>4
  <2> QED BY <1>9, <2>1, <2>5 DEF c
<1> QED BY <1>10, <1>11

\* Flattening sequences of one element each.
Singles(x) == [i \in DOMAIN x |-> <<x[i]>>]

SinglesHold(x, n) == n + 1 <= Len(x) => FlatPrefix(Singles(x))[n + 1] = [i \in 1..(n + 1) |-> x[i]]

LEMMA SinglesFlatten ==
  ASSUME NEW S, NEW x \in Seq(S)
  PROVE  FlattenSeq(Singles(x)) = x
<1> DEFINE ss == Singles(x)
           F == FlatPrefix(ss)
           N == Len(x)
           pre(n) == [i \in 1..n |-> x[i]]
<1>1. N \in Nat /\ Len(ss) = N /\ (N = 0 => ss = <<>> /\ x = <<>>) /\ x = [i \in 1..N |-> x[i]]
  BY DEF Singles
<1>2. \A i \in 1..N : ss[i] = <<x[i]>> /\ x[i] \in S
  BY DEF Singles
<1> HIDE DEF ss
<1>3. F = [i \in 1..N |-> IF i = 1 THEN ss[i] ELSE F[i - 1] \o ss[i]]
  BY <1>1, FlattenUnfold
<1> HIDE DEF F, N
<1>4. SinglesHold(x, 0)
  <2> SUFFICES ASSUME 0 + 1 <= N PROVE F[0 + 1] = pre(0 + 1)
    BY DEF SinglesHold, F, ss, N
  <2>1. 1 \in 1..N /\ 0 + 1 = 1
    BY <1>1
  <2>2. F[1] = <<x[1]>>
    BY <1>2, <1>3, <2>1
  <2>3. pre(1) = <<x[1]>>
    OBVIOUS
  <2> QED BY <2>1, <2>2, <2>3
<1>5. ASSUME NEW n \in Nat, SinglesHold(x, n) PROVE SinglesHold(x, n + 1)
  <2> SUFFICES ASSUME (n + 1) + 1 <= N PROVE F[(n + 1) + 1] = pre((n + 1) + 1)
    BY DEF SinglesHold, F, ss, N
  <2> DEFINE m == n + 1
  <2>1. m \in Nat /\ m + 1 \in 1..N /\ m + 1 # 1 /\ (m + 1) - 1 = m /\ m <= N
    BY <1>1
  <2>2. F[m] = pre(m)
    BY <1>5, <2>1 DEF SinglesHold, F, ss, N
  <2> HIDE DEF m
  <2>3. F[m + 1] = pre(m) \o <<x[m + 1]>>
    <3> HIDE DEF pre
    <3>1. F[m + 1] = F[m] \o ss[m + 1]
      BY <1>3, <2>1
    <3> QED BY <1>2, <2>1, <2>2, <3>1
  <2>4. pre(m) \in Seq(S) /\ Len(pre(m)) = m /\ x[m + 1] \in S /\ \A i \in 1..m : pre(m)[i] = x[i]
    <3>1. \A i \in 1..m : i \in 1..N
      BY <1>1, <2>1
    <3>2. \A i \in 1..m : x[i] \in S
      BY <1>2, <3>1
    <3>3. pre(m) \in Seq(S) /\ Len(pre(m)) = m
      BY <2>1, <3>2
    <3> QED BY <1>2, <2>1, <3>3
  <2>5. pre(m) \o <<x[m + 1]>> = pre(m + 1)
    <3> DEFINE p == pre(m)
               y == x[m + 1]
               q == p \o <<y>>
    <3>1. p \in Seq(S) /\ Len(p) = m /\ y \in S
      BY <2>4
    <3>2. \A i \in 1..m : p[i] = x[i]
      BY <2>4
    <3> HIDE DEF p, y
    <3>3. q \in Seq(S) /\ Len(q) = m + 1 /\ q[m + 1] = y /\ \A i \in 1..m : q[i] = p[i]
      BY <2>1, <3>1
    <3> HIDE DEF q
    <3>4. \A i \in 1..(m + 1) : q[i] = x[i]
      <4> SUFFICES ASSUME NEW i \in 1..(m + 1) PROVE q[i] = x[i]
        OBVIOUS
      <4>1. i \in 1..m \/ i = m + 1
        BY <2>1
      <4> QED BY <4>1, <3>2, <3>3 DEF y
    <3>5. q = [i \in 1..(m + 1) |-> q[i]]
      BY <2>1, <3>3
    <3>6. q = pre(m + 1)
      BY <3>4, <3>5
    <3> QED BY <3>6 DEF q, p, y
  <2> QED BY <2>3, <2>5 DEF m
<1>6. \A n \in Nat : SinglesHold(x, n)
  <2> DEFINE W == {n \in Nat : SinglesHold(x, n)}
  <2>1. 0 \in W /\ \A n \in Nat : n \in W => n + 1 \in W
    BY <1>4, <1>5
  <2> HIDE DEF W
  <2>2. Nat \subseteq W
    BY <2>1, Induct
  <2> QED BY <2>2 DEF W
<1>7. CASE N = 0
  <2>1. ss = <<>> /\ x = <<>> /\ Len(ss) = 0
    BY <1>1, <1>7
  <2> QED BY <1>1, <1>7, <2>1, FlattenUnfold DEF ss
<1>8. CASE N # 0
  <2>1. FlattenSeq(ss) = F[N]
    BY <1>1, <1>8, FlattenUnfold DEF F
  <2>2. N - 1 \in Nat /\ (N - 1) + 1 = N /\ N <= N
    BY <1>1, <1>8
  <2>3. F[N] = pre(N)
    BY <1>6, <2>2 DEF SinglesHold, F, ss, N
  <2> QED BY <1>1, <2>1, <2>3 DEF ss
<1> QED BY <1>7, <1>8

\* The elements of s that are in P, as Only selects them.
Selected(s, P) == FlattenSeq([i \in DOMAIN s |-> IF s[i] \in P THEN <<s[i]>> ELSE <<>>])

LEMMA SelectedMembers ==
  ASSUME NEW S, NEW s \in Seq(S), NEW P
  PROVE  Selected(s, P) \in Seq(S) /\ ToSet(Selected(s, P)) = ToSet(s) \cap P
<1> DEFINE ss == [i \in DOMAIN s |-> IF s[i] \in P THEN <<s[i]>> ELSE <<>>]
<1>1. DOMAIN ss = DOMAIN s /\ ss \in Seq(Seq(S))
  <2>1. \A i \in DOMAIN s : s[i] \in S /\ <<s[i]>> \in Seq(S) /\ <<>> \in Seq(S)
    OBVIOUS
  <2>2. \A i \in DOMAIN s : ss[i] \in Seq(S)
    BY <2>1
  <2>3. DOMAIN ss = 1..Len(s) /\ Len(s) \in Nat /\ DOMAIN s = 1..Len(s)
    OBVIOUS
  <2>4. ss = [i \in 1..Len(s) |-> ss[i]]
    BY <2>3
  <2> HIDE DEF ss
  <2> QED BY <2>2, <2>3, <2>4
<1>2. \A i \in DOMAIN s : ToSet(ss[i]) = {s[i]} \cap P
  <2> SUFFICES ASSUME NEW i \in DOMAIN s PROVE ToSet(ss[i]) = {s[i]} \cap P
    OBVIOUS
  <2>1. CASE s[i] \in P
    <3>1. ss[i] = <<s[i]>>
      BY <2>1
    <3> HIDE DEF ss
    <3> QED BY <3>1, <2>1, ToSetSingle
  <2>2. CASE s[i] \notin P
    <3>1. ss[i] = <<>>
      BY <2>2
    <3> HIDE DEF ss
    <3> QED BY <3>1, <2>2, ToSetEmpty
  <2> QED BY <2>1, <2>2
<1> HIDE DEF ss
<1>3. FlattenSeq(ss) \in Seq(S) /\ ToSet(FlattenSeq(ss)) = UNION {ToSet(ss[i]) : i \in DOMAIN ss}
  BY <1>1, FlattenMembers
<1>4. UNION {ToSet(ss[i]) : i \in DOMAIN ss} = ToSet(s) \cap P
  BY <1>1, <1>2 DEF ToSet
<1> QED BY <1>3, <1>4 DEF ss, Selected

-----------------------------------------------------------------------------
(* Sets in order.                                                          *)

NoneBelow(S, n) == \A x \in S : x >= n

LEMMA LeastMember ==
  ASSUME NEW S \in SUBSET Nat, S # {}
  PROVE  Min(S) \in S /\ \A y \in S : Min(S) <= y
<1>1. \E x \in S : \A y \in S : x <= y
  <2> SUFFICES ASSUME \A x \in S : \E y \in S : ~(x <= y) PROVE FALSE
    OBVIOUS
  <2>1. NoneBelow(S, 0)
    BY DEF NoneBelow
  <2>2. ASSUME NEW n \in Nat, NoneBelow(S, n) PROVE NoneBelow(S, n + 1)
    BY <2>2 DEF NoneBelow
  <2>3. \A n \in Nat : NoneBelow(S, n)
    <3> DEFINE W == {n \in Nat : NoneBelow(S, n)}
    <3>1. 0 \in W /\ \A n \in Nat : n \in W => n + 1 \in W
      BY <2>1, <2>2
    <3> HIDE DEF W
    <3>2. Nat \subseteq W
      BY <3>1, Induct
    <3> QED BY <3>2 DEF W
  <2>4. PICK x \in S : TRUE
    OBVIOUS
  <2>5. NoneBelow(S, x + 1)
    BY <2>3
  <2> QED BY <2>4, <2>5 DEF NoneBelow
<1> QED BY <1>1 DEF Min

LEMMA GreatestMember ==
  ASSUME NEW N \in Nat, NEW S \in SUBSET (1..N), S # {}
  PROVE  Max(S) \in S /\ \A y \in S : Max(S) >= y
<1> DEFINE T == {N - x : x \in S}
<1>1. T \in SUBSET Nat /\ T # {}
  <2>1. \A x \in S : N - x \in Nat /\ N - x \in T
    OBVIOUS
  <2>2. \A y \in T : \E x \in S : y = N - x
    OBVIOUS
  <2> HIDE DEF T
  <2> QED BY <2>1, <2>2
<1>2. Min(T) \in T /\ \A y \in T : Min(T) <= y
  <2> HIDE DEF T
  <2> QED BY <1>1, LeastMember
<1>3. PICK x \in S : Min(T) = N - x
  BY <1>2
<1>4. \A y \in S : N - y \in T
  OBVIOUS
<1>5. \A y \in S : y \in Int
  OBVIOUS
<1> HIDE DEF T
<1>6. \A y \in S : x >= y
  <2> SUFFICES ASSUME NEW y \in S PROVE x >= y
    OBVIOUS
  <2>1. N - x <= N - y
    BY <1>2, <1>3, <1>4
  <2> QED BY <2>1, <1>5
<1> QED BY <1>6 DEF Max

OrderDomain(S) == 0..Cardinality(S)
OrderRank(S, n) == n
OrderDef(S, f, n) == IF n = 0 THEN <<>> ELSE Append(f[n - 1], Min(S \ ToSet(f[n - 1])))

OrderRec == INSTANCE Recursion WITH S <- OrderDomain, Rank <- OrderRank, Def <- OrderDef

\* The first n members.
OrderPrefix(S) ==
  CHOOSE f : f = [n \in 0..Cardinality(S) |->
                    IF n = 0 THEN <<>> ELSE Append(f[n - 1], Min(S \ ToSet(f[n - 1])))]

OrderHolds(S, n) ==
  n <= Cardinality(S) =>
    /\ OrderPrefix(S)[n] \in Seq(S)
    /\ Cardinality(ToSet(OrderPrefix(S)[n])) = n

LEMMA InOrderMembers ==
  ASSUME NEW S \in SUBSET Nat, IsFiniteSet(S)
  PROVE  InOrder(S) \in Seq(S) /\ ToSet(InOrder(S)) = S
<1> DEFINE F == OrderPrefix(S)
           N == Cardinality(S)
<1>1. N \in Nat
  BY FS_CardinalityType
<1>2. F = [n \in 0..N |-> IF n = 0 THEN <<>> ELSE Append(F[n - 1], Min(S \ ToSet(F[n - 1])))]
  <2>1. OrderRec!WellDefined(S)
    <3>1. \A n \in 0..N : n \in Nat /\ (n # 0 => n - 1 \in 0..N /\ n - 1 < n)
      BY <1>1
    <3>2. \A n \in 0..N : \A f, g : (n = 0 \/ f[n - 1] = g[n - 1]) => OrderDef(S, f, n) = OrderDef(S, g, n)
      BY DEF OrderDef
    <3> QED BY <3>1, <3>2 DEF OrderRec!WellDefined, OrderDomain, OrderRank
  <2>2. \E f : f = [n \in 0..N |-> IF n = 0 THEN <<>> ELSE Append(f[n - 1], Min(S \ ToSet(f[n - 1])))]
    BY <2>1, OrderRec!Recurse, Induct DEF OrderRec!Inductive, OrderDomain, OrderDef
  <2> QED BY <2>2 DEF OrderPrefix
<1>3. InOrder(S) = F[N]
  BY DEF InOrder, OrderPrefix
<1>f. ASSUME NEW s \in Seq(S) PROVE IsFiniteSet(ToSet(s)) /\ ToSet(s) \subseteq S
  BY ToSetSeq, FS_Subset
<1> HIDE DEF F, N
<1>4. OrderHolds(S, 0)
  <2>1. F[0] = <<>>
    BY <1>1, <1>2
  <2>2. F[0] \in Seq(S)
    BY <2>1
  <2>3. ToSet(F[0]) = {}
    BY <2>1, ToSetEmpty
  <2>4. Cardinality(ToSet(F[0])) = 0
    BY <2>3, FS_EmptySet
  <2> QED BY <2>2, <2>4 DEF OrderHolds, F
<1>5. ASSUME NEW n \in Nat, OrderHolds(S, n) PROVE OrderHolds(S, n + 1)
  <2> SUFFICES ASSUME n + 1 <= N
               PROVE  F[n + 1] \in Seq(S) /\ Cardinality(ToSet(F[n + 1])) = n + 1
    BY DEF OrderHolds, F, N
  <2> DEFINE rest == S \ ToSet(F[n])
  <2>1. F[n] \in Seq(S) /\ Cardinality(ToSet(F[n])) = n
    BY <1>1, <1>5 DEF OrderHolds, F, N
  <2>2. IsFiniteSet(ToSet(F[n])) /\ ToSet(F[n]) \subseteq S
    BY <2>1, <1>f
  <2>3. rest # {} /\ rest \in SUBSET Nat
    <3>1. ToSet(F[n]) # S
      BY <2>1, <1>1 DEF N
    <3> QED BY <3>1, <2>2
  <2>4. Min(rest) \in rest
    BY <2>3, LeastMember
  <2>5. F[n + 1] = Append(F[n], Min(rest))
    <3>1. n + 1 \in 0..N /\ n + 1 # 0 /\ (n + 1) - 1 = n
      BY <1>1
    <3> QED BY <1>2, <3>1
  <2> HIDE DEF rest
  <2>6. Min(rest) \in S /\ Min(rest) \notin ToSet(F[n])
    BY <2>4 DEF rest
  <2>7. F[n + 1] \in Seq(S) /\ ToSet(F[n + 1]) = ToSet(F[n]) \cup {Min(rest)}
    BY <2>1, <2>5, <2>6, ToSetAppend
  <2> QED BY <2>1, <2>2, <2>6, <2>7, FS_AddElement
<1>6. \A n \in Nat : OrderHolds(S, n)
  <2> DEFINE W == {n \in Nat : OrderHolds(S, n)}
  <2>1. 0 \in W /\ \A n \in Nat : n \in W => n + 1 \in W
    BY <1>4, <1>5
  <2> HIDE DEF W
  <2>2. Nat \subseteq W
    BY <2>1, Induct
  <2> QED BY <2>2 DEF W
<1>7. F[N] \in Seq(S) /\ Cardinality(ToSet(F[N])) = N
  BY <1>1, <1>6 DEF OrderHolds, F, N
<1>8. ToSet(F[N]) = S
  BY <1>7, <1>f, FS_Subset DEF N
<1> QED BY <1>3, <1>7, <1>8

\* A finite set as a sequence, in whatever order.
LEMMA SetToSeqMembers ==
  ASSUME NEW S, IsFiniteSet(S)
  PROVE  SetToSeq(S) \in Seq(S) /\ ToSet(SetToSeq(S)) = S
<1> DEFINE N == Cardinality(S)
           q == SetToSeq(S)
<1>1. N \in Nat /\ ExistsBijection(1..N, S)
  BY FS_CardinalityType
<1>2. \E f \in [1..N -> S] : IsInjective(f)
  BY <1>1, FS_CardinalityType DEF ExistsBijection, Bijection, Injection, IsInjective
<1>3. q \in [1..N -> S] /\ IsInjective(q)
  BY <1>2 DEF SetToSeq
<1>4. IsFiniteSet(1..N) /\ Cardinality(1..N) = N
  BY <1>1, FS_Interval
<1> HIDE DEF q
<1>5. q \in Injection(1..N, S)
  BY <1>3 DEF Injection, IsInjective
<1> HIDE DEF N
<1>6. q \in Surjection(1..N, S)
  BY <1>4, <1>5, FS_Injection DEF N
<1>7. q \in Seq(S) /\ DOMAIN q = 1..N
  BY <1>1, <1>3
<1>8. ToSet(q) = S
  BY <1>3, <1>6, <1>7 DEF ToSet, Surjection
<1> QED BY <1>7, <1>8 DEF q
=============================================================================
