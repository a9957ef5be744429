----------------------------- MODULE Recursion -----------------------------
(***************************************************************************)
(* Recursive functions: f[x \in S] == Def(f, x) has a solution if Def       *)
(* looks at f only where a rank is smaller.  All depends on a context e.    *)
(* A proof about a recursive function instantiates this module with its    *)
(* domain, rank and definition.                                            *)
(*                                                                         *)
(* Induction is a hypothesis here, discharged by SequenceFacts!Induct where *)
(* the module is used: its proof needs the library's facts about finite     *)
(* sets, of which every instance would have a copy.                        *)
(***************************************************************************)
EXTENDS Integers, TLAPS

CONSTANTS S(_), Rank(_, _), Def(_, _, _)

\* Induction over the natural numbers.
Inductive == \A W : 0 \in W /\ (\A n \in Nat : n \in W => n + 1 \in W) => Nat \subseteq W

WellDefined(e) ==
  /\ \A x \in S(e) : Rank(e, x) \in Nat
  /\ \A f, g : \A x \in S(e) :
       (\A y \in S(e) : Rank(e, y) < Rank(e, x) => f[y] = g[y]) => Def(e, f, x) = Def(e, g, x)

\* f solves the equation where the rank is below n.
Upto(e, f, n) == \A x \in S(e) : Rank(e, x) < n => f[x] = Def(e, f, x)

Reached(e, n) == \E f : Upto(e, f, n)

Agree(e, n) ==
  \A f, g : Upto(e, f, n) /\ Upto(e, g, n) => \A x \in S(e) : Rank(e, x) < n => f[x] = g[x]

\* Solutions agree as far as they are ones.
LEMMA Unique == Inductive => \A e : WellDefined(e) => \A n \in Nat : Agree(e, n)
<1> SUFFICES ASSUME Inductive, NEW e, WellDefined(e) PROVE \A n \in Nat : Agree(e, n)
  OBVIOUS
<1>1. Agree(e, 0)
  BY DEF Agree, WellDefined
<1>2. ASSUME NEW n \in Nat, Agree(e, n) PROVE Agree(e, n + 1)
  <2> SUFFICES ASSUME NEW f, NEW g, Upto(e, f, n + 1), Upto(e, g, n + 1),
                      NEW x \in S(e), Rank(e, x) < n + 1
               PROVE  f[x] = g[x]
    BY DEF Agree
  <2>1. Upto(e, f, n) /\ Upto(e, g, n)
    BY DEF Upto, WellDefined
  <2>2. \A y \in S(e) : Rank(e, y) < Rank(e, x) => f[y] = g[y]
    BY <1>2, <2>1 DEF Agree, WellDefined
  <2> QED BY <2>2 DEF Upto, WellDefined
<1> DEFINE W == {n \in Nat : Agree(e, n)}
<1>3. 0 \in W /\ \A n \in Nat : n \in W => n + 1 \in W
  BY <1>1, <1>2
<1> HIDE DEF W
<1>4. Nat \subseteq W
  BY <1>3 DEF Inductive
<1> QED BY <1>4 DEF W

\* The equation can be solved as far as one likes.
LEMMA Reachable == Inductive => \A e : WellDefined(e) => \A n \in Nat : Reached(e, n)
<1> SUFFICES ASSUME Inductive, NEW e, WellDefined(e) PROVE \A n \in Nat : Reached(e, n)
  OBVIOUS
<1>1. Reached(e, 0)
  BY DEF Reached, Upto, WellDefined
<1>2. ASSUME NEW n \in Nat, Reached(e, n) PROVE Reached(e, n + 1)
  <2>1. PICK f : Upto(e, f, n)
    BY <1>2 DEF Reached
  <2> DEFINE g == [x \in S(e) |-> IF Rank(e, x) = n THEN Def(e, f, x) ELSE f[x]]
  <2>2. \A x \in S(e) : Rank(e, x) < n => g[x] = f[x]
    BY DEF WellDefined
  <2>3. \A x \in S(e) : Rank(e, x) = n => g[x] = Def(e, f, x)
    OBVIOUS
  <2> HIDE DEF g
  <2>4. \A x \in S(e) : Rank(e, x) <= n => Def(e, g, x) = Def(e, f, x)
    BY <2>2 DEF WellDefined
  <2>5. Upto(e, g, n + 1)
    BY <2>1, <2>2, <2>3, <2>4 DEF Upto, WellDefined
  <2> QED BY <2>5 DEF Reached
<1> DEFINE W == {n \in Nat : Reached(e, n)}
<1>3. 0 \in W /\ \A n \in Nat : n \in W => n + 1 \in W
  BY <1>1, <1>2
<1> HIDE DEF W
<1>4. Nat \subseteq W
  BY <1>3 DEF Inductive
<1> QED BY <1>4 DEF W

\* The equation has a solution, so the function its definition chooses solves it.
THEOREM Recurse == Inductive => \A e : WellDefined(e) => \E f : f = [x \in S(e) |-> Def(e, f, x)]
<1> SUFFICES ASSUME Inductive, NEW e, WellDefined(e) PROVE \E f : f = [x \in S(e) |-> Def(e, f, x)]
  OBVIOUS
<1> DEFINE F(n) == CHOOSE f : Upto(e, f, n)
           g == [x \in S(e) |-> F(Rank(e, x) + 1)[x]]
<1>1. \A n \in Nat : Upto(e, F(n), n)
  BY Reachable DEF Reached
<1> HIDE DEF F
<1>2. \A x \in S(e) : g[x] = Def(e, F(Rank(e, x) + 1), x)
  BY <1>1 DEF Upto, WellDefined
<1>3. ASSUME NEW x \in S(e), NEW y \in S(e), Rank(e, y) < Rank(e, x)
      PROVE  F(Rank(e, x) + 1)[y] = g[y]
  <2>1. Rank(e, x) + 1 \in Nat /\ Rank(e, y) + 1 \in Nat
    BY DEF WellDefined
  <2>2. Upto(e, F(Rank(e, x) + 1), Rank(e, y) + 1)
    BY <1>1, <1>3, <2>1 DEF Upto, WellDefined
  <2>3. Upto(e, F(Rank(e, y) + 1), Rank(e, y) + 1)
    BY <1>1, <2>1
  <2>4. Agree(e, Rank(e, y) + 1)
    BY <2>1, Unique
  <2>5. F(Rank(e, x) + 1)[y] = F(Rank(e, y) + 1)[y]
    BY <2>2, <2>3, <2>4 DEF Agree, WellDefined
  <2> QED BY <2>5
<1>4. \A x \in S(e) : Def(e, F(Rank(e, x) + 1), x) = Def(e, g, x)
  <2> HIDE DEF g
  <2> QED BY <1>3 DEF WellDefined
<1>5. g = [x \in S(e) |-> Def(e, g, x)]
  BY <1>2, <1>4
<1> QED BY <1>5
=============================================================================
