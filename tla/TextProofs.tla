----------------------------- MODULE TextProofs -----------------------------
(***************************************************************************)
(* What is written into a text is what is read back, for names and         *)
(* comments of any length and any tokens.                                  *)
(***************************************************************************)
EXTENDS SchemaText, SequenceFacts

\* The tokens by name.
Open == "("
Close == ")"
Letter == "a"
Backslash == "\\"
Create == "CREATE TABLE "
Engine == " ENGINE="
Counter == " AUTO_INCREMENT=7"
Comma == ","
Semicolon == ";"
Break == "\n"
Alter == "ALTER TABLE "
Add == "ADD "
Constrain == "ADD CONSTRAINT "
DropForeign == "DROP FOREIGN KEY "
Foreign == "FOREIGN KEY "
Check == "CHECK "
Words == {Alter, Add, Constrain, DropForeign, Foreign, Check}

\* Everything the texts consist of.
Alphabet ==
  Tokens \cup Quotes \cup Words
    \cup {Open, Close, Letter, Backslash, Comma, Semicolon, Break, Create, Engine, Counter}
Text == Seq(Alphabet)
One(c) == <<c>>

LEMMA ConsIs == \A c, w : Cons(c, w) = One(c) \o w
BY DEF Cons, One

LEMMA OneText ==
  ASSUME NEW c \in Alphabet
  PROVE  One(c) \in Text /\ Len(One(c)) = 1 /\ One(c) # <<>>
BY DEF One, Text

LEMMA Joined ==
  ASSUME NEW u \in Text, NEW v \in Text
  PROVE  /\ u \o v \in Text /\ Len(u \o v) = Len(u) + Len(v)
         /\ Len(u) \in Nat /\ u \o <<>> = u /\ <<>> \o u = u
BY DEF Text

LEMMA Associative ==
  ASSUME NEW u \in Text, NEW v \in Text, NEW w \in Text
  PROVE  (u \o v) \o w = u \o (v \o w)
BY DEF Text

\* Texts one after the other, as an operator of its own for the prover.
Then(u, v) == u \o v

LEMMA ThenGroups ==
  \A u, v, w \in Text : Then(u, v) \in Text /\ Then(Then(u, v), w) = Then(u, Then(v, w))
BY Joined, Associative DEF Then

LEMMA EmptyText == <<>> \in Text /\ Len(<<>>) = 0
BY DEF Text

LEMMA FirstOf ==
  ASSUME NEW c \in Alphabet, NEW w \in Text
  PROVE  /\ Cons(c, w) \in Text /\ Cons(c, w) # <<>> /\ Len(Cons(c, w)) = 1 + Len(w)
         /\ First(Cons(c, w)) = c /\ Head(Cons(c, w)) = c /\ Tail(Cons(c, w)) = w
BY DEF First, Cons, One, Text

LEMMA FirstOfNone == First(<<>>) = Nothing
BY DEF First

\* A text that is not empty has a first token and others.
LEMMA HeadAndTail ==
  ASSUME NEW m \in Text, NEW n \in Nat, Len(m) = n + 1
  PROVE  /\ Head(m) \in Alphabet /\ Tail(m) \in Text /\ Len(Tail(m)) = n
         /\ m = Cons(Head(m), Tail(m))
BY DEF Cons, One, Text

LEMMA NoTokens ==
  ASSUME NEW m \in Text, Len(m) = 0
  PROVE  m = <<>>
BY DEF Text

-----------------------------------------------------------------------------
(* The place in a text from which on it is a given text.                   *)

Follows(text, i, w) ==
  /\ i \in Nat \ {0} /\ Len(text) = i - 1 + Len(w)
  /\ \A k \in 1..Len(w) : text[i + k - 1] = w[k]

\* At the end of the text it is empty.
LEMMA FollowsEnd ==
  ASSUME NEW text \in Text, NEW i, NEW w \in Text, Follows(text, i, w)
  PROVE  i \in Nat /\ i > 0 /\ Len(text) \in Nat /\ (i > Len(text) <=> w = <<>>)
BY DEF Follows, Text

LEMMA FollowsRest ==
  ASSUME NEW text \in Text, NEW i, NEW w \in Text, Follows(text, i, w)
  PROVE  Rest(text, i) = w
<1> DEFINE r == Rest(text, i)
<1>0. text \in Seq(Alphabet) /\ w \in Seq(Alphabet)
  BY DEF Text
<1>1. CASE w = <<>>
  <2>1. i = Len(text) + 1
    BY <1>0, <1>1 DEF Follows
  <2> QED BY <1>0, <1>1, <2>1 DEF Rest
<1>2. CASE w # <<>>
  <2>1. i \in 1..Len(text) /\ Len(w) = Len(text) - i + 1
    BY <1>0, <1>2 DEF Follows
  <2>2. r \in Seq(Alphabet) /\ Len(r) = Len(w) /\ \A k \in 1..Len(w) : r[k] = text[i + k - 1]
    BY <1>0, <2>1 DEF Rest
  <2> HIDE DEF r
  <2>3. \A k \in 1..Len(w) : r[k] = w[k]
    BY <2>2 DEF Follows
  <2> QED BY <1>0, <2>2, <2>3 DEF r
<1> QED BY <1>1, <1>2

\* The token at the place, and what follows after it.
LEMMA FollowsStep ==
  ASSUME NEW text \in Text, NEW i, NEW w \in Text, NEW c \in Alphabet,
         Follows(text, i, Cons(c, w))
  PROVE  /\ i \in Nat /\ i + 1 \in Nat /\ i <= Len(text) /\ text[i] = c
         /\ Follows(text, i + 1, w) /\ Rest(text, i + 1) = w
<1> DEFINE u == Cons(c, w)
<1>0. text \in Seq(Alphabet) /\ w \in Seq(Alphabet) /\ c \in Alphabet
  BY DEF Text
<1>1. Len(u) = 1 + Len(w) /\ u[1] = c /\ \A k \in 1..Len(w) : u[k + 1] = w[k]
  BY <1>0 DEF Cons, One
<1>2. Follows(text, i, u) /\ Len(w) \in Nat
  BY <1>0 DEF Cons, One
<1> HIDE DEF u
<1>3. i \in Nat \ {0} /\ Len(text) = i - 1 + Len(u) /\ \A k \in 1..Len(u) : text[i + k - 1] = u[k]
  BY <1>2 DEF Follows
<1>4. i <= Len(text) /\ text[i] = c
  <2>1. 1 \in 1..Len(u) /\ i + 1 - 1 = i
    BY <1>1, <1>2, <1>3
  <2> QED BY <1>1, <1>2, <1>3, <2>1
<1>5. \A k \in 1..Len(w) : text[(i + 1) + k - 1] = w[k]
  <2> SUFFICES ASSUME NEW k \in 1..Len(w) PROVE text[(i + 1) + k - 1] = w[k]
    OBVIOUS
  <2>1. k + 1 \in 1..Len(u) /\ i + (k + 1) - 1 = (i + 1) + k - 1
    BY <1>1, <1>2, <1>3
  <2> QED BY <1>1, <1>3, <2>1
<1>6. Follows(text, i + 1, w)
  BY <1>1, <1>2, <1>3, <1>5 DEF Follows
<1>7. Rest(text, i + 1) = w
  BY <1>6, FollowsRest
<1> QED BY <1>3, <1>4, <1>6, <1>7

\* Two tokens, and what follows after them.
Pair(text, i, c, d, w) ==
  /\ i \in Nat /\ i + 2 \in Nat /\ i <= Len(text) /\ text[i] = c
  /\ First(Rest(text, i + 1)) = d /\ Follows(text, i + 2, w)

LEMMA FollowsTwice ==
  ASSUME NEW text \in Text, NEW i, NEW w \in Text, NEW c \in Alphabet, NEW d \in Alphabet,
         Follows(text, i, Cons(c, Cons(d, w)))
  PROVE  Pair(text, i, c, d, w)
<1> DEFINE u == Cons(d, w)
<1>1. u \in Text /\ First(u) = d
  BY FirstOf
<1>2. Follows(text, i, Cons(c, u)) /\ (Follows(text, i + 1, u) <=> Follows(text, i + 1, Cons(d, w)))
  OBVIOUS
<1> HIDE DEF u
<1>3. i \in Nat /\ i <= Len(text) /\ text[i] = c /\ Follows(text, i + 1, u) /\ Rest(text, i + 1) = u
  BY <1>1, <1>2, FollowsStep
<1>4. Follows(text, (i + 1) + 1, w)
  BY <1>2, <1>3, FollowsStep
<1>5. (i + 1) + 1 = i + 2 /\ i + 2 \in Nat
  BY <1>3
<1> QED BY <1>1, <1>3, <1>4, <1>5 DEF Pair

\* A text follows what is written before it.
LEMMA FollowsWhole ==
  ASSUME NEW w \in Text
  PROVE  Follows(w, 1, w)
BY DEF Follows, Text

-----------------------------------------------------------------------------
(* Writing, token by token.                                                *)

Unit(c, quote) == IF c = quote THEN One(quote) \o One(quote) ELSE One(c)

LEMMA DoubledCons ==
  ASSUME NEW m \in Text, NEW c \in Alphabet, NEW quote \in Alphabet
  PROVE  /\ Doubled(One(c) \o m, quote) = Unit(c, quote) \o Doubled(m, quote)
         /\ Doubled(m, quote) \in Text /\ Unit(c, quote) \in Text
<1> DEFINE S == Alphabet
           u == One(c) \o m
           ss == [i \in DOMAIN m |-> IF m[i] = quote THEN <<quote, quote>> ELSE <<m[i]>>]
           tt == [i \in DOMAIN u |-> IF u[i] = quote THEN <<quote, quote>> ELSE <<u[i]>>]
           a == Unit(c, quote)
<1>0. m \in Seq(S) /\ c \in S /\ quote \in S
  BY DEF Text
<1>t. One(quote) \o One(quote) = <<quote, quote>>
  <2> DEFINE one == One(quote)
             two == one \o one
  <2>1. one \in Seq(S) /\ Len(one) = 1 /\ one[1] = quote
    BY <1>0 DEF One
  <2> HIDE DEF one
  <2>4. /\ two \in Seq(S) /\ Len(two) = Len(one) + Len(one)
        /\ \A i \in 1..Len(one) : two[i] = one[i] /\ two[Len(one) + i] = one[i]
    BY <2>1, ConcatElements
  <2>2. two \in Seq(S) /\ Len(two) = 2 /\ two[1] = quote /\ two[2] = quote
    <3>1. 1 \in 1..Len(one) /\ Len(one) + 1 = 2
      BY <2>1
    <3> HIDE DEF two
    <3> QED BY <2>1, <2>4, <3>1
  <2> HIDE DEF two
  <2>3. two = <<two[1], two[2]>>
    BY <2>2
  <2> QED BY <2>2, <2>3 DEF two, one
<1>u. \A x : Unit(x, quote) = IF x = quote THEN <<quote, quote>> ELSE <<x>>
  BY <1>t DEF Unit, One
<1>v. \A x \in S : <<x>> \in Seq(S) /\ <<quote, quote>> \in Seq(S)
  BY <1>0
<1> HIDE DEF S
<1>1. a \in Seq(S)
  BY <1>0 DEF Unit, One
<1>2. Len(u) = Len(m) + 1 /\ u[1] = c /\ \A i \in 1..Len(m) : u[i + 1] = m[i] /\ m[i] \in S
  BY <1>0 DEF One
<1>3. Len(m) \in Nat /\ DOMAIN m = 1..Len(m) /\ u \in Seq(S) /\ DOMAIN u = 1..Len(u)
  BY <1>0 DEF One
<1>4. Doubled(m, quote) = FlattenSeq(ss) /\ Doubled(u, quote) = FlattenSeq(tt)
  BY DEF Doubled
<1>5. \A i \in 1..Len(m) : ss[i] = Unit(m[i], quote) /\ ss[i] \in Seq(S)
  BY <1>2, <1>3, <1>u, <1>v
<1>6. \A i \in 1..Len(u) : tt[i] = Unit(u[i], quote)
  BY <1>3, <1>u
<1>7. DOMAIN ss = 1..Len(m) /\ DOMAIN tt = 1..Len(u) /\ ss = [i \in 1..Len(m) |-> ss[i]] /\ tt = [i \in 1..Len(u) |-> tt[i]]
  BY <1>3
<1> HIDE DEF ss, tt, a, u
<1>8. ss \in Seq(Seq(S)) /\ Len(ss) = Len(m)
  BY <1>3, <1>5, <1>7
<1> DEFINE v == <<a>> \o ss
<1>9. Len(v) = Len(m) + 1 /\ v[1] = a /\ \A i \in 1..Len(m) : v[i + 1] = ss[i]
  BY <1>1, <1>8
<1>10. v \in Seq(Seq(S))
  BY <1>1, <1>8
<1> HIDE DEF v
<1>11. \A i \in 1..Len(u) : v[i] = tt[i]
  <2> SUFFICES ASSUME NEW i \in 1..Len(u) PROVE v[i] = tt[i]
    OBVIOUS
  <2>1. CASE i = 1
    BY <2>1, <1>2, <1>6, <1>9 DEF a
  <2>2. CASE i # 1
    <3>1. i - 1 \in 1..Len(m) /\ (i - 1) + 1 = i
      BY <2>2, <1>2, <1>3
    <3>2. v[i] = ss[i - 1] /\ u[i] = m[i - 1]
      BY <3>1, <1>2, <1>9
    <3> QED BY <3>1, <3>2, <1>5, <1>6
  <2> QED BY <2>1, <2>2
<1>12. v = tt
  <2>1. v = [i \in 1..Len(u) |-> v[i]]
    BY <1>2, <1>9, <1>10
  <2> QED BY <2>1, <1>7, <1>11
<1>13. FlattenSeq(v) = a \o FlattenSeq(ss) /\ FlattenSeq(ss) \in Seq(S)
  BY <1>1, <1>8, FlattenCons DEF v
<1> QED BY <1>1, <1>4, <1>12, <1>13 DEF a, u, S, Text

LEMMA DoubledEmpty ==
  ASSUME NEW quote
  PROVE  Doubled(<<>>, quote) = <<>>
<1> DEFINE ss == [i \in DOMAIN <<>> |-> IF <<>>[i] = quote THEN <<quote, quote>> ELSE <<<<>>[i]>>]
<1>1. ss = <<>> /\ Doubled(<<>>, quote) = FlattenSeq(ss)
  BY DEF Doubled
<1> HIDE DEF ss
<1>2. Len(ss) = 0
  BY <1>1
<1> QED BY <1>1, <1>2, FlattenUnfold

\* A text with its quotes doubled, and another after it.
Spelled(m, quote, w) == Doubled(m, quote) \o w

LEMMA DoubledFirst ==
  ASSUME NEW m \in Text, NEW c \in Alphabet, NEW quote \in Alphabet, NEW w \in Text
  PROVE  /\ Spelled(m, quote, w) \in Text
         /\ c # quote => Spelled(Cons(c, m), quote, w) = Cons(c, Spelled(m, quote, w))
         /\ c = quote => Spelled(Cons(c, m), quote, w) =
                           Cons(quote, Cons(quote, Spelled(m, quote, w)))
<1> DEFINE d == Doubled(m, quote)
           t == d \o w
           one == One(c)
           q == One(quote)
           v == q \o d
           dd == Doubled(one \o m, quote)
<1>1. d \in Text /\ dd = Unit(c, quote) \o d
  BY DoubledCons
<1>2. one \in Text /\ q \in Text
  BY OneText
<1>3. Unit(c, quote) = IF c = quote THEN q \o q ELSE one
  BY DEF Unit
<1>h. d \o w = t /\ q \o d = v
  OBVIOUS
<1> HIDE DEF d, one, q, t, v, dd
<1>4. t \in Text /\ v \in Text
  BY <1>1, <1>2, <1>h, Joined
<1>5. (one \o d) \o w = one \o t /\ v \o w = q \o t
  <2>1. /\ Then(Then(one, d), w) = Then(one, Then(d, w))
        /\ Then(Then(q, d), w) = Then(q, Then(d, w))
    BY <1>1, <1>2, <1>h, ThenGroups
  <2> QED BY <1>h, <2>1 DEF Then
<1>6. (q \o q) \o d = q \o v
  <2>1. Then(Then(q, q), d) = Then(q, Then(q, d))
    BY <1>1, <1>2, <1>h, ThenGroups
  <2> QED BY <1>h, <2>1 DEF Then
<1>8. (q \o v) \o w = q \o (v \o w)
  <2>1. Then(Then(q, v), w) = Then(q, Then(v, w))
    BY <1>2, <1>4, ThenGroups
  <2> QED BY <2>1 DEF Then
<1>7. /\ t \in Text
      /\ c # quote => dd \o w = one \o t
      /\ c = quote => dd \o w = q \o (q \o t)
  BY <1>1, <1>3, <1>4, <1>5, <1>6, <1>8
<1> QED BY <1>7, ConsIs DEF d, one, q, t, dd, Spelled

LEMMA DoubledNone ==
  ASSUME NEW m \in Text, Len(m) = 0, NEW quote, NEW w \in Text
  PROVE  Spelled(m, quote, w) = w /\ m \o w = w
BY NoTokens, DoubledEmpty, Joined, Zenon DEF Spelled

-----------------------------------------------------------------------------
(* The recursive functions of the readers look at later places only.       *)

LaterPlaces(e) == Nat
PlacesLeft(text, i) == IF i > Len(text) THEN 0 ELSE Len(text) + 1 - i

ExtractRank(e, i) == PlacesLeft(e.text, i)

ExtractDef(e, f, i) ==
  IF i > Len(e.text) THEN NoName
  ELSE LET again == e.text[i] = e.quote /\ First(Rest(e.text, i + 1)) = e.quote
           later == f[IF again THEN i + 2 ELSE i + 1]
       IN IF e.text[i] = e.quote /\ ~again
          THEN [ok |-> TRUE, name |-> <<>>]
          ELSE [later EXCEPT !.name = IF later.ok THEN <<e.text[i]>> \o @ ELSE @]

ExtractRec == INSTANCE Recursion WITH S <- LaterPlaces, Rank <- ExtractRank, Def <- ExtractDef

\* What ExtractQuotedIdentifier reads from each place on.
Extracted(text, quote) ==
  CHOOSE from : from = [i \in Nat |->
        IF i > Len(text) THEN NoName
        ELSE LET again == text[i] = quote /\ First(Rest(text, i + 1)) = quote
                 later == from[IF again THEN i + 2 ELSE i + 1]
             IN IF text[i] = quote /\ ~again
                THEN [ok |-> TRUE, name |-> <<>>]
                ELSE [later EXCEPT !.name = IF later.ok THEN <<text[i]>> \o @
                                                        ELSE @]]

Prepended(c, read) ==
  [read EXCEPT !.name = IF read.ok THEN <<c>> \o @ ELSE @]

LEMMA ExtractSteps ==
  ASSUME NEW text \in Text, NEW quote, NEW i \in Nat
  PROVE  /\ ExtractQuotedIdentifier(text, quote) = Extracted(text, quote)[2]
         /\ i > Len(text) => Extracted(text, quote)[i] = NoName
         /\ i <= Len(text) /\ text[i] # quote =>
              Extracted(text, quote)[i] = Prepended(text[i], Extracted(text, quote)[i + 1])
         /\ i <= Len(text) /\ text[i] = quote /\ First(Rest(text, i + 1)) = quote =>
              Extracted(text, quote)[i] = Prepended(quote, Extracted(text, quote)[i + 2])
         /\ i <= Len(text) /\ text[i] = quote /\ First(Rest(text, i + 1)) # quote =>
              Extracted(text, quote)[i] = [ok |-> TRUE, name |-> <<>>]
<1> DEFINE e == [text |-> text, quote |-> quote]
           F == Extracted(text, quote)
<1>0. Len(text) \in Nat
  BY DEF Text
<1>1. ExtractRec!WellDefined(e)
  <2>1. \A x \in Nat : ExtractRank(e, x) \in Nat
    BY <1>0 DEF ExtractRank, PlacesLeft
  <2>2. ASSUME NEW f, NEW g, NEW x \in Nat,
               \A y \in Nat : ExtractRank(e, y) < ExtractRank(e, x) => f[y] = g[y]
        PROVE  ExtractDef(e, f, x) = ExtractDef(e, g, x)
    <3>1. CASE x > Len(text)
      BY <3>1 DEF ExtractDef
    <3>2. CASE ~(x > Len(text))
      <4>1. f[x + 1] = g[x + 1] /\ f[x + 2] = g[x + 2]
        BY <1>0, <2>2, <3>2 DEF ExtractRank, PlacesLeft
      <4> QED BY <4>1 DEF ExtractDef
    <3> QED BY <3>1, <3>2
  <2> QED BY <2>1, <2>2 DEF ExtractRec!WellDefined, LaterPlaces
<1>2. \E f : f = [x \in Nat |-> ExtractDef(e, f, x)]
  BY <1>1, ExtractRec!Recurse, Induct DEF ExtractRec!Inductive, LaterPlaces
<1>3. PICK f : f = [x \in Nat |-> ExtractDef(e, f, x)]
  BY <1>2
<1>e. e.text = text /\ e.quote = quote
  OBVIOUS
<1> HIDE DEF e
<1>4. f = [x \in Nat |->
        IF x > Len(text) THEN NoName
        ELSE LET again == text[x] = quote /\ First(Rest(text, x + 1)) = quote
                 later == f[IF again THEN x + 2 ELSE x + 1]
             IN IF text[x] = quote /\ ~again
                THEN [ok |-> TRUE, name |-> <<>>]
                ELSE [later EXCEPT !.name = IF later.ok THEN <<text[x]>> \o @
                                                        ELSE @]]
  BY <1>3, <1>e DEF ExtractDef
<1>12. F = [x \in Nat |->
        IF x > Len(text) THEN NoName
        ELSE LET again == text[x] = quote /\ First(Rest(text, x + 1)) = quote
                 later == F[IF again THEN x + 2 ELSE x + 1]
             IN IF text[x] = quote /\ ~again
                THEN [ok |-> TRUE, name |-> <<>>]
                ELSE [later EXCEPT !.name = IF later.ok THEN <<text[x]>> \o @
                                                        ELSE @]]
  BY <1>4 DEF Extracted
<1>5. ExtractQuotedIdentifier(text, quote) = F[2]
  BY DEF ExtractQuotedIdentifier, Extracted
<1> HIDE DEF F
<1>6. F[i] =
        IF i > Len(text) THEN NoName
        ELSE LET again == text[i] = quote /\ First(Rest(text, i + 1)) = quote
                 later == F[IF again THEN i + 2 ELSE i + 1]
             IN IF text[i] = quote /\ ~again
                THEN [ok |-> TRUE, name |-> <<>>]
                ELSE Prepended(text[i], later)
  BY <1>12 DEF Prepended
<1>7. i > Len(text) => F[i] = NoName
  BY <1>6
<1>8. i <= Len(text) => ~(i > Len(text))
  BY <1>0
<1>9. i <= Len(text) /\ text[i] # quote => F[i] = Prepended(text[i], F[i + 1])
  BY <1>6, <1>8
<1>10. i <= Len(text) /\ text[i] = quote /\ First(Rest(text, i + 1)) = quote =>
         F[i] = Prepended(quote, F[i + 2])
  BY <1>6, <1>8
<1>11. i <= Len(text) /\ text[i] = quote /\ First(Rest(text, i + 1)) # quote =>
         F[i] = [ok |-> TRUE, name |-> <<>>]
  BY <1>6, <1>8
<1> QED BY <1>5, <1>7, <1>9, <1>10, <1>11 DEF F

\* A name that was read.
Read(k) == [ok |-> TRUE, name |-> k]

LEMMA PrependedReads ==
  ASSUME NEW c, NEW m
  PROVE  Prepended(c, Read(m)) = Read(Cons(c, m)) /\ Prepended(c, NoName) = NoName
<1>1. ASSUME NEW b \in BOOLEAN, NEW k
      PROVE  Prepended(c, [ok |-> b, name |-> k]) =
               [ok |-> b, name |-> IF b THEN <<c>> \o k ELSE k]
  BY DEF Prepended
<1>2. NoName = [ok |-> FALSE, name |-> <<>>]
  BY DEF NoName
<1> QED BY <1>1, <1>2 DEF Read, Cons, One

-----------------------------------------------------------------------------
(* Across a text whose quotes are doubled the reader finds no end: it reads *)
(* m and then what it reads from j on.                                     *)

Carries(text, quote, i, m, j) ==
  /\ Extracted(text, quote)[j] = NoName => Extracted(text, quote)[i] = NoName
  /\ \A k \in Text : Extracted(text, quote)[j] = Read(k) =>
                       Extracted(text, quote)[i] = Read(m \o k)

Crosses(text, quote, i, m, w) ==
  \E j \in Nat : Follows(text, j, w) /\ Carries(text, quote, i, m, j)

ExtractHolds(e, n) ==
  \A m \in Text, w \in Text, i \in Nat :
    Len(m) = n /\ Follows(e.text, i, Spelled(m, e.quote, w)) =>
      Crosses(e.text, e.quote, i, m, w)

LEMMA CarriesOne ==
  ASSUME NEW text \in Text, NEW quote \in Alphabet, NEW c \in Alphabet, NEW m \in Text,
         NEW w \in Text, NEW i \in Nat, NEW k \in Nat, Crosses(text, quote, k, m, w),
         Extracted(text, quote)[i] = Prepended(c, Extracted(text, quote)[k])
  PROVE  Crosses(text, quote, i, Cons(c, m), w)
<1> DEFINE X == Extracted(text, quote)
           one == One(c)
<1>1. X[i] = Prepended(c, X[k]) /\ one \in Text
  BY OneText
<1>6. PICK j \in Nat : Follows(text, j, w) /\ Carries(text, quote, k, m, j)
  BY DEF Crosses
<1>2. /\ X[j] = NoName => X[k] = NoName
      /\ \A x \in Text : X[j] = Read(x) => X[k] = Read(m \o x)
  BY <1>6 DEF Carries
<1>3. Prepended(c, NoName) = NoName /\ \A x : Prepended(c, Read(x)) = Read(one \o x)
  BY PrependedReads, ConsIs
<1> HIDE DEF X, one
<1>4. ASSUME NEW x \in Text, X[j] = Read(x) PROVE X[i] = Read((one \o m) \o x)
  <2>1. (one \o m) \o x = one \o (m \o x)
    <3>1. Then(Then(one, m), x) = Then(one, Then(m, x))
      BY <1>1, <1>4, ThenGroups
    <3> QED BY <3>1 DEF Then
  <2> QED BY <1>1, <1>2, <1>3, <1>4, <2>1
<1>5. X[j] = NoName => X[i] = NoName
  BY <1>1, <1>2, <1>3
<1>7. Carries(text, quote, i, one \o m, j)
  BY <1>4, <1>5 DEF Carries, X
<1> QED BY <1>6, <1>7, ConsIs DEF Crosses, one

LEMMA ExtractAcross ==
  ASSUME NEW text \in Text, NEW quote \in Alphabet, NEW m \in Text, NEW w \in Text,
         NEW i \in Nat, Follows(text, i, Spelled(m, quote, w))
  PROVE  Crosses(text, quote, i, m, w)
<1> DEFINE e == [text |-> text, quote |-> quote]
<1>e. e.text = text /\ e.quote = quote
  OBVIOUS
<1> HIDE DEF e
<1>1. ExtractHolds(e, 0)
  <2> SUFFICES ASSUME NEW x \in Text, NEW v \in Text, NEW k \in Nat, Len(x) = 0,
                      Follows(text, k, Spelled(x, quote, v))
               PROVE  Crosses(text, quote, k, x, v)
    BY <1>e DEF ExtractHolds
  <2>1. \A y \in Text : Spelled(x, quote, y) = y /\ x \o y = y
    BY DoubledNone
  <2>2. Follows(text, k, v) /\ Carries(text, quote, k, x, k)
    BY <2>1 DEF Carries
  <2> QED BY <2>2 DEF Crosses
<1>2. ASSUME NEW n \in Nat, ExtractHolds(e, n) PROVE ExtractHolds(e, n + 1)
  <2> SUFFICES ASSUME NEW x \in Text, NEW v \in Text, NEW k \in Nat, Len(x) = n + 1,
                      Follows(text, k, Spelled(x, quote, v))
               PROVE  Crosses(text, quote, k, x, v)
    BY <1>e DEF ExtractHolds
  <2> DEFINE c == Head(x)
             y == Tail(x)
             d == Spelled(y, quote, v)
  <2>1. c \in Alphabet /\ y \in Text /\ Len(y) = n /\ x = Cons(c, y)
    BY HeadAndTail
  <2> HIDE DEF c, y
  <2>2. /\ d \in Text
        /\ c # quote => Spelled(x, quote, v) = Cons(c, d)
        /\ c = quote => Spelled(x, quote, v) = Cons(quote, Cons(quote, d))
    <3>1. /\ d \in Text
          /\ c # quote => Spelled(Cons(c, y), quote, v) = Cons(c, d)
          /\ c = quote => Spelled(Cons(c, y), quote, v) = Cons(quote, Cons(quote, d))
      BY <2>1, DoubledFirst
    <3> HIDE DEF d
    <3> QED BY <2>1, <3>1
  <2>3. \A l \in Nat : Follows(text, l, d) => Crosses(text, quote, l, y, v)
    BY <1>2, <1>e, <2>1 DEF ExtractHolds
  <2> HIDE DEF d
  <2>4. CASE c # quote
    <3>1. k <= Len(text) /\ text[k] = c /\ Follows(text, k + 1, d) /\ k + 1 \in Nat
      <4>1. Follows(text, k, Cons(c, d))
        BY <2>2, <2>4
      <4> QED BY <2>1, <2>2, <4>1, FollowsStep
    <3>2. Extracted(text, quote)[k] = Prepended(c, Extracted(text, quote)[k + 1])
      BY <2>4, <3>1, ExtractSteps
    <3>3. Crosses(text, quote, k + 1, y, v)
      BY <2>3, <3>1
    <3> QED BY <2>1, <3>1, <3>2, <3>3, CarriesOne
  <2>5. CASE c = quote
    <3>1. /\ k <= Len(text) /\ text[k] = quote /\ Follows(text, k + 2, d) /\ k + 2 \in Nat
          /\ First(Rest(text, k + 1)) = quote
      <4>1. Follows(text, k, Cons(quote, Cons(quote, d)))
        BY <2>2, <2>5
      <4>2. Pair(text, k, quote, quote, d)
        BY <2>2, <4>1, FollowsTwice
      <4> QED BY <4>2 DEF Pair
    <3>2. Extracted(text, quote)[k] = Prepended(c, Extracted(text, quote)[k + 2])
      BY <2>5, <3>1, ExtractSteps
    <3>3. Crosses(text, quote, k + 2, y, v)
      BY <2>3, <3>1
    <3> QED BY <2>1, <3>1, <3>2, <3>3, CarriesOne
  <2> QED BY <2>4, <2>5
<1>3. \A n \in Nat : ExtractHolds(e, n)
  <2> DEFINE W == {n \in Nat : ExtractHolds(e, n)}
  <2>1. 0 \in W /\ \A n \in Nat : n \in W => n + 1 \in W
    BY <1>1, <1>2
  <2> HIDE DEF W
  <2>2. Nat \subseteq W
    BY <2>1, Induct
  <2> QED BY <2>2 DEF W
<1>4. Len(m) \in Nat
  BY Joined
<1> QED BY <1>3, <1>4, <1>e DEF ExtractHolds

-----------------------------------------------------------------------------
(* The place after a quoted name.                                          *)

EndDef(text, f, i) ==
  IF i > Len(text) THEN 0
  ELSE IF text[i] # Backtick THEN f[i + 1]
  ELSE IF First(Rest(text, i + 1)) = Backtick THEN f[i + 2]
  ELSE i + 1

EndRec == INSTANCE Recursion WITH S <- LaterPlaces, Rank <- PlacesLeft, Def <- EndDef

\* What QuotedIdentifierEnd finds from each place on.
Ended(text) ==
  CHOOSE from : from = [i \in Nat |->
        IF i > Len(text) THEN 0
        ELSE IF text[i] # Backtick THEN from[i + 1]
        ELSE IF First(Rest(text, i + 1)) = Backtick THEN from[i + 2]
        ELSE i + 1]

LEMMA EndSteps ==
  ASSUME NEW text \in Text, NEW i \in Nat
  PROVE  /\ First(text) = Backtick => QuotedIdentifierEnd(text) = Ended(text)[2]
         /\ i > Len(text) => Ended(text)[i] = 0
         /\ i <= Len(text) /\ text[i] # Backtick => Ended(text)[i] = Ended(text)[i + 1]
         /\ i <= Len(text) /\ text[i] = Backtick /\ First(Rest(text, i + 1)) = Backtick =>
              Ended(text)[i] = Ended(text)[i + 2]
         /\ i <= Len(text) /\ text[i] = Backtick /\ First(Rest(text, i + 1)) # Backtick =>
              Ended(text)[i] = i + 1
<1> DEFINE F == Ended(text)
<1>0. Len(text) \in Nat
  BY DEF Text
<1>1. EndRec!WellDefined(text)
  <2>1. \A x \in Nat : PlacesLeft(text, x) \in Nat
    BY <1>0 DEF PlacesLeft
  <2>2. ASSUME NEW f, NEW g, NEW x \in Nat,
               \A y \in Nat : PlacesLeft(text, y) < PlacesLeft(text, x) => f[y] = g[y]
        PROVE  EndDef(text, f, x) = EndDef(text, g, x)
    <3>1. CASE x > Len(text)
      BY <3>1 DEF EndDef
    <3>2. CASE ~(x > Len(text))
      <4>1. f[x + 1] = g[x + 1] /\ f[x + 2] = g[x + 2]
        BY <1>0, <2>2, <3>2 DEF PlacesLeft
      <4> QED BY <4>1 DEF EndDef
    <3> QED BY <3>1, <3>2
  <2> QED BY <2>1, <2>2 DEF EndRec!WellDefined, LaterPlaces
<1>2. \E f : f = [x \in Nat |-> EndDef(text, f, x)]
  BY <1>1, EndRec!Recurse, Induct DEF EndRec!Inductive, LaterPlaces
<1>3. F = [x \in Nat |-> EndDef(text, F, x)]
  BY <1>2 DEF Ended, EndDef
<1>4. First(text) = Backtick => QuotedIdentifierEnd(text) = F[2]
  BY DEF QuotedIdentifierEnd, Ended
<1> HIDE DEF F
<1>5. F[i] = EndDef(text, F, i)
  BY <1>3
<1>6. i <= Len(text) <=> ~(i > Len(text))
  BY <1>0
<1> QED BY <1>4, <1>5, <1>6 DEF EndDef, F

\* Across a text whose backticks are doubled there is none.
EndHolds(text, n) ==
  \A m \in Text, w \in Text, i \in Nat :
    Len(m) = n /\ Follows(text, i, Spelled(m, Backtick, w)) =>
      \E j \in Nat : Follows(text, j, w) /\ Ended(text)[i] = Ended(text)[j]

LEMMA QuotesInAlphabet == Quotes \subseteq Alphabet
BY DEF Alphabet

LEMMA EndAcross ==
  ASSUME NEW text \in Text, NEW m \in Text, NEW w \in Text, NEW i \in Nat,
         Follows(text, i, Spelled(m, Backtick, w))
  PROVE  \E j \in Nat : Follows(text, j, w) /\ Ended(text)[i] = Ended(text)[j]
<1>q. Backtick \in Alphabet
  BY QuotesInAlphabet DEF Quotes
<1>1. EndHolds(text, 0)
  <2> SUFFICES ASSUME NEW x \in Text, NEW v \in Text, NEW k \in Nat, Len(x) = 0,
                      Follows(text, k, Spelled(x, Backtick, v))
               PROVE  \E j \in Nat : Follows(text, j, v) /\ Ended(text)[k] = Ended(text)[j]
    BY DEF EndHolds
  <2>1. Follows(text, k, v)
    BY DoubledNone
  <2> QED BY <2>1
<1>2. ASSUME NEW n \in Nat, EndHolds(text, n) PROVE EndHolds(text, n + 1)
  <2> SUFFICES ASSUME NEW x \in Text, NEW v \in Text, NEW k \in Nat, Len(x) = n + 1,
                      Follows(text, k, Spelled(x, Backtick, v))
               PROVE  \E j \in Nat : Follows(text, j, v) /\ Ended(text)[k] = Ended(text)[j]
    BY DEF EndHolds
  <2> DEFINE c == Head(x)
             y == Tail(x)
             d == Spelled(y, Backtick, v)
  <2>1. c \in Alphabet /\ y \in Text /\ Len(y) = n /\ x = Cons(c, y)
    BY HeadAndTail
  <2> HIDE DEF c, y
  <2>2. /\ d \in Text
        /\ c # Backtick => Spelled(x, Backtick, v) = Cons(c, d)
        /\ c = Backtick => Spelled(x, Backtick, v) = Cons(Backtick, Cons(Backtick, d))
    <3>1. /\ d \in Text
          /\ c # Backtick => Spelled(Cons(c, y), Backtick, v) = Cons(c, d)
          /\ c = Backtick =>
               Spelled(Cons(c, y), Backtick, v) = Cons(Backtick, Cons(Backtick, d))
      BY <1>q, <2>1, DoubledFirst
    <3> HIDE DEF d
    <3> QED BY <2>1, <3>1
  <2>3. \A l \in Nat : Follows(text, l, d) =>
          \E j \in Nat : Follows(text, j, v) /\ Ended(text)[l] = Ended(text)[j]
    BY <1>2, <2>1 DEF EndHolds
  <2> HIDE DEF d
  <2>4. CASE c # Backtick
    <3>1. k <= Len(text) /\ text[k] = c /\ Follows(text, k + 1, d) /\ k + 1 \in Nat
      <4>1. Follows(text, k, Cons(c, d))
        BY <2>2, <2>4
      <4> QED BY <2>1, <2>2, <4>1, FollowsStep
    <3>2. Ended(text)[k] = Ended(text)[k + 1]
      BY <2>4, <3>1, EndSteps
    <3> QED BY <2>3, <3>1, <3>2
  <2>5. CASE c = Backtick
    <3>1. /\ k <= Len(text) /\ text[k] = Backtick /\ Follows(text, k + 2, d) /\ k + 2 \in Nat
          /\ First(Rest(text, k + 1)) = Backtick
      <4>1. Follows(text, k, Cons(Backtick, Cons(Backtick, d)))
        BY <2>2, <2>5
      <4>2. Pair(text, k, Backtick, Backtick, d)
        BY <1>q, <2>2, <4>1, FollowsTwice
      <4> QED BY <4>2 DEF Pair
    <3>2. Ended(text)[k] = Ended(text)[k + 2]
      BY <3>1, EndSteps
    <3> QED BY <2>3, <3>1, <3>2
  <2> QED BY <2>4, <2>5
<1>3. \A n \in Nat : EndHolds(text, n)
  <2> DEFINE W == {n \in Nat : EndHolds(text, n)}
  <2>1. 0 \in W /\ \A n \in Nat : n \in W => n + 1 \in W
    BY <1>1, <1>2
  <2> HIDE DEF W
  <2>2. Nat \subseteq W
    BY <2>1, Induct
  <2> QED BY <2>2 DEF W
<1>4. Len(m) \in Nat
  BY Joined
<1> QED BY <1>3, <1>4 DEF EndHolds

-----------------------------------------------------------------------------
(* The other reader of a quoted name, which looks for what comes after it. *)

StripDef(text, f, i) ==
  IF i > Len(text) THEN text
  ELSE IF text[i] = Backtick /\ First(Rest(text, i + 1)) = Backtick THEN f[i + 2]
  ELSE IF text[i] = Backtick THEN Rest(text, i + 1)
  ELSE f[i + 1]

StripRec == INSTANCE Recursion WITH S <- LaterPlaces, Rank <- PlacesLeft, Def <- StripDef

\* What StripFieldNamePrefix leaves when it reads from each place on.
Stripped(text) ==
  CHOOSE after : after = [i \in Nat |->
        IF i > Len(text) THEN text
        ELSE IF text[i] = Backtick /\ First(Rest(text, i + 1)) = Backtick THEN after[i + 2]
        ELSE IF text[i] = Backtick THEN Rest(text, i + 1)
        ELSE after[i + 1]]

LEMMA StripSteps ==
  ASSUME NEW text \in Text, NEW i \in Nat
  PROVE  /\ First(text) = Backtick => StripFieldNamePrefix(text) = Stripped(text)[2]
         /\ Stripped(text)[i] = StripDef(text, Stripped(text), i)
<1> DEFINE F == Stripped(text)
<1>0. Len(text) \in Nat
  BY DEF Text
<1>1. StripRec!WellDefined(text)
  <2>1. \A x \in Nat : PlacesLeft(text, x) \in Nat
    BY <1>0 DEF PlacesLeft
  <2>2. ASSUME NEW f, NEW g, NEW x \in Nat,
               \A y \in Nat : PlacesLeft(text, y) < PlacesLeft(text, x) => f[y] = g[y]
        PROVE  StripDef(text, f, x) = StripDef(text, g, x)
    <3>1. CASE x > Len(text)
      BY <3>1 DEF StripDef
    <3>2. CASE ~(x > Len(text))
      <4>1. f[x + 1] = g[x + 1] /\ f[x + 2] = g[x + 2]
        BY <1>0, <2>2, <3>2 DEF PlacesLeft
      <4> QED BY <4>1 DEF StripDef
    <3> QED BY <3>1, <3>2
  <2> QED BY <2>1, <2>2 DEF StripRec!WellDefined, LaterPlaces
<1>2. \E f : f = [x \in Nat |-> StripDef(text, f, x)]
  BY <1>1, StripRec!Recurse, Induct DEF StripRec!Inductive, LaterPlaces
<1>3. F = [x \in Nat |-> StripDef(text, F, x)]
  BY <1>2 DEF Stripped, StripDef
<1>4. First(text) = Backtick => StripFieldNamePrefix(text) = F[2]
  BY DEF StripFieldNamePrefix, Stripped
<1> HIDE DEF F
<1> QED BY <1>3, <1>4 DEF F

\* Both readers find the same end, from the last n places of a text on.
SameEnd(text, n) ==
  \A i \in Nat : PlacesLeft(text, i) <= n =>
    Stripped(text)[i] = IF Ended(text)[i] = 0 THEN text ELSE Rest(text, Ended(text)[i])

LEMMA StripEnds ==
  ASSUME NEW text \in Text, First(text) = Backtick
  PROVE  StripFieldNamePrefix(text) =
           IF QuotedIdentifierEnd(text) = 0 THEN text ELSE Rest(text, QuotedIdentifierEnd(text))
<1> DEFINE F == Stripped(text)
           E == Ended(text)
<1>0. Len(text) \in Nat
  BY DEF Text
<1>1. SameEnd(text, 0)
  <2> SUFFICES ASSUME NEW i \in Nat, PlacesLeft(text, i) <= 0
               PROVE  F[i] = IF E[i] = 0 THEN text ELSE Rest(text, E[i])
    BY DEF SameEnd
  <2>1. i > Len(text)
    BY <1>0 DEF PlacesLeft
  <2>2. F[i] = text
    BY <2>1, StripSteps DEF StripDef
  <2>3. E[i] = 0
    BY <2>1, EndSteps
  <2> QED BY <2>2, <2>3
<1>2. ASSUME NEW n \in Nat, SameEnd(text, n) PROVE SameEnd(text, n + 1)
  <2> SUFFICES ASSUME NEW i \in Nat, PlacesLeft(text, i) <= n + 1
               PROVE  F[i] = IF E[i] = 0 THEN text ELSE Rest(text, E[i])
    BY DEF SameEnd
  <2>1. CASE i > Len(text)
    BY <1>0, <1>2, <2>1 DEF SameEnd, PlacesLeft
  <2>2. CASE ~(i > Len(text))
    <3>1. \A k \in {i + 1, i + 2} :
            k \in Nat /\ F[k] = IF E[k] = 0 THEN text ELSE Rest(text, E[k])
      <4>1. \A k \in {i + 1, i + 2} : k \in Nat /\ PlacesLeft(text, k) <= n
        BY <1>0, <2>2 DEF PlacesLeft
      <4> QED BY <1>2, <4>1 DEF SameEnd
    <3>2. F[i] = StripDef(text, F, i)
      BY StripSteps
    <3>3. i <= Len(text)
      BY <1>0, <2>2
    <3> HIDE DEF F, E
    <3>4. CASE text[i] = Backtick /\ First(Rest(text, i + 1)) = Backtick
      <4>1. E[i] = E[i + 2]
        BY <3>3, <3>4, EndSteps DEF E
      <4> QED BY <2>2, <3>1, <3>2, <3>4, <4>1 DEF StripDef
    <3>5. CASE text[i] = Backtick /\ First(Rest(text, i + 1)) # Backtick
      <4>1. E[i] = i + 1 /\ i + 1 # 0
        BY <3>3, <3>5, EndSteps DEF E
      <4> QED BY <2>2, <3>2, <3>5, <4>1 DEF StripDef
    <3>6. CASE text[i] # Backtick
      <4>1. E[i] = E[i + 1]
        BY <3>3, <3>6, EndSteps DEF E
      <4> QED BY <2>2, <3>1, <3>2, <3>6, <4>1 DEF StripDef
    <3> QED BY <3>4, <3>5, <3>6 DEF F, E
  <2> QED BY <2>1, <2>2
<1>3. \A n \in Nat : SameEnd(text, n)
  <2> DEFINE W == {n \in Nat : SameEnd(text, n)}
  <2>1. 0 \in W /\ \A n \in Nat : n \in W => n + 1 \in W
    BY <1>1, <1>2
  <2> HIDE DEF W
  <2>2. Nat \subseteq W
    BY <2>1, Induct
  <2> QED BY <2>2 DEF W
<1>4. F[2] = IF E[2] = 0 THEN text ELSE Rest(text, E[2])
  <2>1. PlacesLeft(text, 2) \in Nat /\ PlacesLeft(text, 2) <= PlacesLeft(text, 2)
    BY <1>0 DEF PlacesLeft
  <2> QED BY <1>3, <2>1 DEF SameEnd
<1>5. StripFieldNamePrefix(text) = F[2] /\ QuotedIdentifierEnd(text) = E[2]
  BY StripSteps, EndSteps
<1> QED BY <1>4, <1>5

-----------------------------------------------------------------------------
(* A quoted name at the start of a text.                                   *)

\* The name m in quotes, and w after it.
Quoted(m, quote, w) == Cons(quote, Spelled(m, quote, Cons(quote, w)))

LEMMA QuotedText ==
  ASSUME NEW m \in Text, NEW quote \in Alphabet, NEW w \in Text
  PROVE  /\ Quoted(m, quote, w) \in Text /\ First(Quoted(m, quote, w)) = quote
         /\ Spelled(m, quote, Cons(quote, w)) \in Text /\ Cons(quote, w) \in Text
         /\ Follows(Quoted(m, quote, w), 2, Spelled(m, quote, Cons(quote, w)))
<1>1. Cons(quote, w) \in Text
  BY FirstOf
<1> DEFINE s == Spelled(m, quote, Cons(quote, w))
<1>2. s \in Text
  BY <1>1, DoubledFirst
<1>3. Quoted(m, quote, w) = Cons(quote, s)
  BY DEF Quoted
<1> HIDE DEF s
<1> DEFINE t == Cons(quote, s)
<1>4. t \in Text /\ First(t) = quote
  BY <1>2, FirstOf
<1>5. Follows(t, 1, t)
  BY <1>4, FollowsWhole
<1>6. Follows(t, 1 + 1, s)
  <2> DEFINE u == t
  <2>1. u \in Text /\ Follows(u, 1, Cons(quote, s))
    BY <1>4, <1>5
  <2> HIDE DEF u
  <2>2. Follows(u, 1 + 1, s)
    BY <1>2, <2>1, FollowsStep
  <2> QED BY <2>2 DEF u
<1>7. 1 + 1 = 2
  OBVIOUS
<1> QED BY <1>1, <1>2, <1>3, <1>4, <1>6, <1>7 DEF s

\* It is read back, and its end is where the rest begins.
LEMMA QuotedRead ==
  ASSUME NEW m \in Text, NEW quote \in Alphabet, NEW w \in Text, First(w) # quote
  PROVE  /\ ExtractQuotedIdentifier(Quoted(m, quote, w), quote) = Read(m)
         /\ quote = Backtick =>
              /\ QuotedIdentifierEnd(Quoted(m, quote, w)) \in Nat \ {0}
              /\ Follows(Quoted(m, quote, w), QuotedIdentifierEnd(Quoted(m, quote, w)), w)
<1> DEFINE t == Quoted(m, quote, w)
           r == Cons(quote, w)
<1>1. t \in Text /\ First(t) = quote /\ r \in Text /\ Follows(t, 2, Spelled(m, quote, r))
  BY QuotedText
<1>2. \A j \in Nat : Follows(t, j, r) =>
        /\ j <= Len(t) /\ t[j] = quote /\ First(Rest(t, j + 1)) # quote
        /\ Follows(t, j + 1, w) /\ j + 1 \in Nat \ {0}
  <2> SUFFICES ASSUME NEW j \in Nat, Follows(t, j, r)
               PROVE  /\ j <= Len(t) /\ t[j] = quote /\ First(Rest(t, j + 1)) # quote
                      /\ Follows(t, j + 1, w) /\ j + 1 \in Nat \ {0}
    OBVIOUS
  <2> HIDE DEF t
  <2>1. /\ j <= Len(t) /\ t[j] = quote /\ Follows(t, j + 1, w) /\ Rest(t, j + 1) = w
    BY <1>1, FollowsStep
  <2> QED BY <2>1
<1> HIDE DEF t, r
<1>3. ExtractQuotedIdentifier(t, quote) = Read(m)
  <2>1. PICK j \in Nat : Follows(t, j, r) /\ Carries(t, quote, 2, m, j)
    <3>1. Crosses(t, quote, 2, m, r)
      BY <1>1, ExtractAcross
    <3> QED BY <3>1 DEF Crosses
  <2>2. Extracted(t, quote)[j] = Read(<<>>)
    BY <1>1, <1>2, <2>1, ExtractSteps DEF Read
  <2>3. Extracted(t, quote)[2] = Read(m)
    <3>1. Extracted(t, quote)[2] = Read(m \o <<>>)
      BY <2>1, <2>2, EmptyText DEF Carries
    <3>2. m \o <<>> = m
      BY Joined
    <3> QED BY <3>1, <3>2
  <2>4. ExtractQuotedIdentifier(t, quote) = Extracted(t, quote)[2]
    BY <1>1, ExtractSteps
  <2> QED BY <2>3, <2>4
<1>4. ASSUME quote = Backtick
      PROVE  QuotedIdentifierEnd(t) \in Nat \ {0} /\ Follows(t, QuotedIdentifierEnd(t), w)
  <2>1. PICK j \in Nat : Follows(t, j, r) /\ Ended(t)[2] = Ended(t)[j]
    <3>1. Follows(t, 2, Spelled(m, Backtick, r))
      BY <1>1, <1>4
    <3> QED BY <1>1, <3>1, EndAcross
  <2>2. Ended(t)[j] = j + 1 /\ Follows(t, j + 1, w) /\ j + 1 \in Nat \ {0}
    BY <1>1, <1>2, <1>4, <2>1, EndSteps
  <2>3. QuotedIdentifierEnd(t) = Ended(t)[2]
    BY <1>1, <1>4, EndSteps
  <2> QED BY <2>1, <2>2, <2>3
<1> QED BY <1>3, <1>4 DEF t

LEMMA QuoteIdentifierQuotes ==
  ASSUME NEW m \in Text, NEW w \in Text
  PROVE  QuoteIdentifier(m) \o w = Quoted(m, Backtick, w) /\ QuoteIdentifier(m) \in Text
<1> DEFINE b == One(Backtick)
           d == Doubled(m, Backtick)
           bd == b \o d
           bw == b \o w
<1>1. Backtick \in Alphabet
  BY QuotesInAlphabet DEF Quotes
<1>2. b \in Text
  BY <1>1, OneText
<1>3. d \in Text
  BY <1>1, DoubledCons
<1>4. QuoteIdentifier(m) = bd \o b
  BY DEF QuoteIdentifier, One
<1>5. Quoted(m, Backtick, w) = b \o (d \o bw)
  BY ConsIs DEF Quoted, Spelled
<1> HIDE DEF b, d
<1>6. bd \in Text /\ bw \in Text /\ bd \o b \in Text
  BY <1>2, <1>3, Joined
<1> DEFINE dbw == d \o bw
<1>7. b \o dbw = bd \o bw
  <2>1. Then(Then(b, d), bw) = Then(b, Then(d, bw))
    BY <1>2, <1>3, <1>6, ThenGroups
  <2> QED BY <2>1 DEF Then
<1> HIDE DEF bd
<1>8. (bd \o b) \o w = bd \o bw
  <2>1. Then(Then(bd, b), w) = Then(bd, Then(b, w))
    BY <1>2, <1>6, ThenGroups
  <2> QED BY <2>1 DEF Then
<1> QED BY <1>4, <1>5, <1>6, <1>7, <1>8

LEMMA LiteralText ==
  ASSUME NEW m \in Text
  PROVE  Literal(m) \in Text /\ First(Literal(m)) = Apostrophe
<1> DEFINE b == One(Apostrophe)
           q == Doubled(m, Apostrophe)
           d == Doubled(q, Backslash)
           t == d \o b
           bd == b \o d
<1>1. Apostrophe \in Alphabet /\ Backslash \in Alphabet
  BY QuotesInAlphabet DEF Quotes, Alphabet
<1>2. b \in Text
  BY <1>1, OneText
<1>3. q \in Text
  BY <1>1, DoubledCons
<1> HIDE DEF q
<1>4. d \in Text
  BY <1>1, <1>3, DoubledCons
<1>5. Literal(m) = bd \o b
  BY DEF Literal, One, q, Backslash
<1> HIDE DEF b, d
<1>6. t \in Text
  BY <1>2, <1>4, Joined
<1>7. Literal(m) = b \o t
  <2>1. Then(Then(b, d), b) = Then(b, Then(d, b))
    BY <1>2, <1>4, ThenGroups
  <2> QED BY <1>5, <2>1 DEF Then
<1> HIDE DEF t
<1>8. Literal(m) = Cons(Apostrophe, t)
  BY <1>7, ConsIs DEF b
<1> QED BY <1>1, <1>6, <1>8, FirstOf

-----------------------------------------------------------------------------
(* What is typed consists of tokens.                                       *)

Typed == name \in Seq(Tokens) /\ comment \in Seq(Tokens)

LEMMA TypedInit == Init => Typed
BY DEF Init, Typed

LEMMA TypedNext == Typed /\ [Next]_vars => Typed'
<1> SUFFICES ASSUME Typed, [Next]_vars PROVE Typed'
  OBVIOUS
<1>a. \A s \in Seq(Tokens), t \in Tokens : Append(s, t) \in Seq(Tokens)
  OBVIOUS
<1>1. CASE TypeName
  BY <1>1, <1>a DEF TypeName, Typed
<1>2. CASE TypeComment
  BY <1>2, <1>a DEF TypeComment, Typed
<1>3. CASE UNCHANGED vars
  BY <1>3 DEF vars, Typed
<1> QED BY <1>1, <1>2, <1>3 DEF Next

LEMMA TypedText == Typed => name \in Text /\ comment \in Text
<1>1. Tokens \subseteq Alphabet
  BY DEF Alphabet
<1>2. \A s \in Seq(Tokens) : s \in Seq(Alphabet)
  BY <1>1
<1> QED BY <1>2 DEF Typed, Text

(* Whatever tokens a name consists of, and however many, it is read back as *)
(* it was written, and what follows it on the line is found after it.      *)
THEOREM NamesAlwaysReadBack == Spec => []NamesReadBack
<1>1. Typed => NamesReadBack
  <2> SUFFICES ASSUME Typed PROVE NamesReadBack
    OBVIOUS
  <2> DEFINE w == Literal(comment)
             line == QuoteIdentifier(name) \o w
  <2>1. name \in Text /\ comment \in Text /\ Backtick \in Alphabet
    BY TypedText, QuotesInAlphabet DEF Quotes
  <2>2. w \in Text /\ First(w) # Backtick
    BY <2>1, LiteralText DEF Apostrophe, Backtick
  <2> HIDE DEF w
  <2>3. line = Quoted(name, Backtick, w) /\ First(line) = Backtick /\ line \in Text
    <3>1. line = Quoted(name, Backtick, w)
      BY <2>1, <2>2, QuoteIdentifierQuotes
    <3>2. /\ Quoted(name, Backtick, w) \in Text
          /\ First(Quoted(name, Backtick, w)) = Backtick
      BY <2>1, <2>2, QuotedText
    <3> HIDE DEF line
    <3> QED BY <3>1, <3>2
  <2> HIDE DEF line
  <2>4. /\ ExtractQuotedIdentifier(line, Backtick) = Read(name)
        /\ QuotedIdentifierEnd(line) \in Nat \ {0}
        /\ Follows(line, QuotedIdentifierEnd(line), w)
    BY <2>1, <2>2, <2>3, QuotedRead
  <2>5. Rest(line, QuotedIdentifierEnd(line)) = w
    BY <2>2, <2>3, <2>4, FollowsRest
  <2>6. StripFieldNamePrefix(line) = w
    BY <2>3, <2>4, <2>5, StripEnds
  <2> QED BY <2>4, <2>6 DEF NamesReadBack, Read, line, w
<1> QED BY <1>1, TypedInit, TypedNext, PTL DEF Spec

-----------------------------------------------------------------------------
(* The end of the definitions of a table.                                  *)

ScanStates(sql) == Nat \X Int \X (Quotes \cup {Nothing})
ScanRank(sql, at) == PlacesLeft(sql, at[1])
ScanDef(sql, f, at) ==
  LET next == AfterToken(sql, at[1], at[2], at[3])
  IN IF at[1] > Len(sql) THEN 0
     ELSE IF at[2] = 1 /\ next[2] = 0 THEN at[1]
     ELSE f[next]

ScanRec == INSTANCE Recursion WITH S <- ScanStates, Rank <- ScanRank, Def <- ScanDef

\* What FindDefinitionEnd finds from each place, depth and quote on.
Scanned(sql) ==
  CHOOSE from : from = [at \in Nat \X Int \X (Quotes \cup {Nothing}) |->
        LET next == AfterToken(sql, at[1], at[2], at[3])
        IN IF at[1] > Len(sql) THEN 0
           ELSE IF at[2] = 1 /\ next[2] = 0 THEN at[1]
           ELSE from[next]]

LEMMA QuotesAreNot ==
  /\ Nothing \notin Quotes /\ Open \notin Quotes /\ Close \notin Quotes /\ Letter \notin Quotes
  /\ Backslash \notin Quotes /\ Backtick \in Quotes /\ Apostrophe \in Quotes
  /\ Backtick # Apostrophe
BY DEF Quotes, Backtick, Apostrophe, DoubleQuote, Nothing, Open, Close, Letter, Backslash

LEMMA AfterTokenInQuotes ==
  ASSUME NEW sql, NEW i, NEW d, NEW q, q # Nothing
  PROVE  /\ sql[i] = Backslash /\ q # Backtick => AfterToken(sql, i, d, q) = <<i + 2, d, q>>
         /\ sql[i] = q /\ First(Rest(sql, i + 1)) = q => AfterToken(sql, i, d, q) = <<i + 2, d, q>>
         /\ sql[i] = q /\ q # Backslash /\ First(Rest(sql, i + 1)) # q =>
              AfterToken(sql, i, d, q) = <<i + 1, d, Nothing>>
         /\ sql[i] # q /\ (sql[i] # Backslash \/ q = Backtick) =>
              AfterToken(sql, i, d, q) = <<i + 1, d, q>>
BY DEF AfterToken, Backslash

LEMMA AfterTokenOutside ==
  ASSUME NEW sql, NEW i, NEW d
  PROVE  /\ sql[i] \in Quotes => AfterToken(sql, i, d, Nothing) = <<i + 1, d, sql[i]>>
         /\ sql[i] = Open => AfterToken(sql, i, d, Nothing) = <<i + 1, d + 1, Nothing>>
         /\ sql[i] = Close => AfterToken(sql, i, d, Nothing) = <<i + 1, d - 1, Nothing>>
         /\ sql[i] \notin Quotes \cup {Open, Close} => AfterToken(sql, i, d, Nothing) = <<i + 1, d, Nothing>>
BY QuotesAreNot DEF AfterToken, Open, Close

LEMMA AfterTokenLater ==
  ASSUME NEW sql, NEW at \in ScanStates(sql)
  PROVE  /\ AfterToken(sql, at[1], at[2], at[3]) \in ScanStates(sql)
         /\ AfterToken(sql, at[1], at[2], at[3])[1] > at[1]
<1> DEFINE i == at[1]
           d == at[2]
           q == at[3]
           next == AfterToken(sql, i, d, q)
<1>1. i \in Nat /\ d \in Int /\ q \in Quotes \cup {Nothing}
  BY DEF ScanStates
<1> HIDE DEF i, d, q
<1>2. \/ next = <<i + 2, d, q>> \/ next = <<i + 1, d, Nothing>> \/ next = <<i + 1, d, q>>
      \/ (\E t \in Quotes : next = <<i + 1, d, t>>)
      \/ next = <<i + 1, d + 1, Nothing>> \/ next = <<i + 1, d - 1, Nothing>>
  BY DEF AfterToken
<1>3. next \in Nat \X Int \X (Quotes \cup {Nothing}) /\ next[1] > i
  <2> HIDE DEF next
  <2> QED BY <1>1, <1>2
<1> QED BY <1>3 DEF ScanStates, next, i, d, q

LEMMA ScanSteps ==
  ASSUME NEW sql \in Text, NEW i \in Nat, NEW d \in Int, NEW q \in Quotes \cup {Nothing}
  PROVE  LET next == AfterToken(sql, i, d, q)
         IN  /\ Position(sql, Open) # 0 =>
                  FindDefinitionEnd(sql) = Scanned(sql)[<<Position(sql, Open), 0, Nothing>>]
             /\ i <= Len(sql) /\ d = 1 /\ next[2] = 0 => Scanned(sql)[<<i, d, q>>] = i
             /\ i <= Len(sql) /\ ~(d = 1 /\ next[2] = 0) =>
                  Scanned(sql)[<<i, d, q>>] = Scanned(sql)[next]
<1> DEFINE F == Scanned(sql)
           T == ScanStates(sql)
<1>0. Len(sql) \in Nat
  BY DEF Text
<1>1. ScanRec!WellDefined(sql)
  <2>1. \A x \in T : ScanRank(sql, x) \in Nat /\ x[1] \in Nat
    BY <1>0 DEF ScanStates, ScanRank, PlacesLeft
  <2>2. ASSUME NEW f, NEW g, NEW x \in T,
               \A y \in T : ScanRank(sql, y) < ScanRank(sql, x) => f[y] = g[y]
        PROVE  ScanDef(sql, f, x) = ScanDef(sql, g, x)
    <3> DEFINE next == AfterToken(sql, x[1], x[2], x[3])
    <3>1. CASE x[1] > Len(sql)
      BY <3>1 DEF ScanDef
    <3>2. CASE ~(x[1] > Len(sql))
      <4>1. next \in T /\ next[1] > x[1] /\ next[1] \in Nat /\ x[1] \in Nat
        BY <2>1, AfterTokenLater
      <4> HIDE DEF next, T
      <4>2. ScanRank(sql, next) < ScanRank(sql, x)
        BY <1>0, <3>2, <4>1 DEF ScanRank, PlacesLeft
      <4>3. f[next] = g[next]
        BY <2>2, <4>1, <4>2
      <4> QED BY <4>3 DEF ScanDef, next
    <3> QED BY <3>1, <3>2
  <2> QED BY <2>1, <2>2 DEF ScanRec!WellDefined
<1>2. \E f : f = [x \in T |-> ScanDef(sql, f, x)]
  BY <1>1, ScanRec!Recurse, Induct DEF ScanRec!Inductive
<1>3. F = [x \in T |-> ScanDef(sql, F, x)]
  BY <1>2 DEF Scanned, ScanDef, ScanStates
<1>4. Position(sql, Open) # 0 => FindDefinitionEnd(sql) = F[<<Position(sql, Open), 0, Nothing>>]
  BY DEF FindDefinitionEnd, Scanned, Open
<1> HIDE DEF F
<1>5. <<i, d, q>> \in T
  BY DEF ScanStates
<1>6. F[<<i, d, q>>] = ScanDef(sql, F, <<i, d, q>>)
  BY <1>3, <1>5
<1>7. i <= Len(sql) <=> ~(i > Len(sql))
  BY <1>0
<1> QED BY <1>4, <1>6, <1>7 DEF ScanDef, F

\* A name or a comment as it is written between quotes, and w after it.
Written(m, q, w) ==
  IF q = Backtick THEN Spelled(m, Backtick, w) ELSE Spelled(Doubled(m, q), Backslash, w)

Escaped(c, q) == c = q \/ (c = Backslash /\ q # Backtick)

LEMMA WrittenFirst ==
  ASSUME NEW m \in Text, NEW c \in Alphabet, NEW w \in Text, NEW q \in {Backtick, Apostrophe}
  PROVE  /\ Written(m, q, w) \in Text
         /\ ~Escaped(c, q) => Written(Cons(c, m), q, w) = Cons(c, Written(m, q, w))
         /\ Escaped(c, q) => Written(Cons(c, m), q, w) = Cons(c, Cons(c, Written(m, q, w)))
<1>1. Backtick \in Alphabet /\ Apostrophe \in Alphabet /\ Backslash \in Alphabet
  BY QuotesInAlphabet DEF Quotes, Alphabet
<1>2. CASE q = Backtick
  BY <1>1, <1>2, DoubledFirst DEF Written, Escaped
<1>3. CASE q = Apostrophe
  <2>0. q # Backtick /\ q \in Alphabet /\ q # Backslash
    BY <1>1, <1>3, QuotesAreNot
  <2> DEFINE u == Doubled(m, q)
             v == Doubled(Cons(c, m), q)
             s == Spelled(u, Backslash, w)
  <2>1. /\ u \in Text
        /\ c # q => v = Cons(c, u)
        /\ c = q => v = Cons(q, Cons(q, u))
    <3>1. Spelled(m, q, <<>>) = u /\ Spelled(Cons(c, m), q, <<>>) = v
      <4>1. u \in Text /\ v \in Text
        BY <2>0, FirstOf, DoubledCons
      <4> QED BY <4>1, Joined DEF Spelled
    <3> HIDE DEF u, v
    <3> QED BY <2>0, <3>1, EmptyText, DoubledFirst
  <2>2. Written(m, q, w) = s /\ Written(Cons(c, m), q, w) = Spelled(v, Backslash, w)
    BY <2>0 DEF Written
  <2> HIDE DEF u, v
  <2>3. s \in Text
    BY <1>1, <2>1, DoubledFirst
  <2>4. CASE c = q
    <3> DEFINE t == Cons(q, u)
    <3>1. t \in Text /\ v = Cons(q, t)
      BY <2>0, <2>1, <2>4, FirstOf
    <3>2. Spelled(t, Backslash, w) = Cons(q, s)
      BY <1>1, <2>0, <2>1, DoubledFirst
    <3> HIDE DEF t
    <3>3. Spelled(Cons(q, t), Backslash, w) = Cons(q, Spelled(t, Backslash, w))
      BY <1>1, <2>0, <3>1, DoubledFirst
    <3>4. Spelled(v, Backslash, w) = Cons(q, Cons(q, s))
      BY <3>1, <3>2, <3>3
    <3> HIDE DEF s
    <3> QED BY <2>2, <2>3, <2>4, <3>4 DEF Escaped
  <2>5. CASE c # q /\ c = Backslash
    <3>1. Spelled(v, Backslash, w) = Cons(c, Cons(c, s))
      <4>1. v = Cons(c, u)
        BY <2>1, <2>5
      <4>2. Spelled(Cons(Backslash, u), Backslash, w) = Cons(Backslash, Cons(Backslash, s))
        BY <1>1, <2>1, DoubledFirst
      <4> QED BY <2>5, <4>1, <4>2
    <3> HIDE DEF s
    <3> QED BY <2>0, <2>2, <2>3, <2>5, <3>1 DEF Escaped
  <2>6. CASE c # q /\ c # Backslash
    <3>1. Spelled(v, Backslash, w) = Cons(c, s)
      <4>1. v = Cons(c, u)
        BY <2>1, <2>6
      <4>2. Spelled(Cons(c, u), Backslash, w) = Cons(c, s)
        BY <1>1, <2>1, <2>6, DoubledFirst
      <4> QED BY <4>1, <4>2
    <3> HIDE DEF s
    <3> QED BY <2>0, <2>2, <2>3, <2>6, <3>1 DEF Escaped
  <2> QED BY <2>4, <2>5, <2>6
<1> QED BY <1>2, <1>3

LEMMA WrittenNone ==
  ASSUME NEW m \in Text, Len(m) = 0, NEW q, NEW w \in Text
  PROVE  Written(m, q, w) = w
<1>1. Doubled(m, q) \in Text /\ Len(Doubled(m, q)) = 0
  BY NoTokens, DoubledEmpty, EmptyText
<1> QED BY <1>1, DoubledNone DEF Written

\* Between quotes there is no end.
ScanHolds(e, n) ==
  \A m \in Text, w \in Text, i \in Nat :
    Len(m) = n /\ Follows(e.sql, i, Written(m, e.q, w)) =>
      \E j \in Nat : Follows(e.sql, j, w)
                     /\ Scanned(e.sql)[<<i, e.d, e.q>>] = Scanned(e.sql)[<<j, e.d, e.q>>]

LEMMA ScanAcross ==
  ASSUME NEW sql \in Text, NEW d \in Int, NEW q \in {Backtick, Apostrophe},
         NEW m \in Text, NEW w \in Text, NEW i \in Nat, Follows(sql, i, Written(m, q, w))
  PROVE  \E j \in Nat : Follows(sql, j, w) /\ Scanned(sql)[<<i, d, q>>] = Scanned(sql)[<<j, d, q>>]
<1> DEFINE e == [sql |-> sql, d |-> d, q |-> q]
           X(k) == Scanned(sql)[<<k, d, q>>]
<1>e. e.sql = sql /\ e.d = d /\ e.q = q
  OBVIOUS
<1> HIDE DEF e
<1>q. q \in Quotes /\ q \in Quotes \cup {Nothing} /\ q # Nothing /\ q \in Alphabet
  BY QuotesInAlphabet, QuotesAreNot
<1>p. \A n : ScanHolds(e, n) <=>
        \A x \in Text, v \in Text, k \in Nat :
          Len(x) = n /\ Follows(sql, k, Written(x, q, v)) =>
            \E j \in Nat : Follows(sql, j, v) /\ X(k) = X(j)
  BY <1>e DEF ScanHolds
<1>s. \A k \in Nat, l \in Nat : k <= Len(sql) /\ AfterToken(sql, k, d, q) = <<l, d, q>> => X(k) = X(l)
  <2> SUFFICES ASSUME NEW k \in Nat, NEW l \in Nat, k <= Len(sql),
                      AfterToken(sql, k, d, q) = <<l, d, q>>
               PROVE  X(k) = X(l)
    OBVIOUS
  <2>1. ~(d = 1 /\ AfterToken(sql, k, d, q)[2] = 0)
    OBVIOUS
  <2>2. Scanned(sql)[<<k, d, q>>] = Scanned(sql)[AfterToken(sql, k, d, q)]
    BY <1>q, <2>1, ScanSteps
  <2> QED BY <2>2
<1> HIDE DEF X
<1>1. ScanHolds(e, 0)
  <2> SUFFICES ASSUME NEW x \in Text, NEW v \in Text, NEW k \in Nat, Len(x) = 0,
                      Follows(sql, k, Written(x, q, v))
               PROVE  \E j \in Nat : Follows(sql, j, v) /\ X(k) = X(j)
    BY <1>p
  <2>1. Follows(sql, k, v)
    BY WrittenNone
  <2> QED BY <2>1
<1>2. ASSUME NEW n \in Nat, ScanHolds(e, n) PROVE ScanHolds(e, n + 1)
  <2> SUFFICES ASSUME NEW x \in Text, NEW v \in Text, NEW k \in Nat, Len(x) = n + 1,
                      Follows(sql, k, Written(x, q, v))
               PROVE  \E j \in Nat : Follows(sql, j, v) /\ X(k) = X(j)
    BY <1>p
  <2> DEFINE c == Head(x)
             y == Tail(x)
             s == Written(y, q, v)
  <2>1. c \in Alphabet /\ y \in Text /\ Len(y) = n /\ x = Cons(c, y)
    BY HeadAndTail
  <2> HIDE DEF c, y
  <2>2. /\ s \in Text
        /\ ~Escaped(c, q) => Written(x, q, v) = Cons(c, s)
        /\ Escaped(c, q) => Written(x, q, v) = Cons(c, Cons(c, s))
    <3>1. /\ s \in Text
          /\ ~Escaped(c, q) => Written(Cons(c, y), q, v) = Cons(c, s)
          /\ Escaped(c, q) => Written(Cons(c, y), q, v) = Cons(c, Cons(c, s))
      BY <2>1, WrittenFirst
    <3> HIDE DEF s
    <3> QED BY <2>1, <3>1
  <2>3. \A l \in Nat : Follows(sql, l, s) => \E j \in Nat : Follows(sql, j, v) /\ X(l) = X(j)
    BY <1>2, <1>p, <2>1
  <2> HIDE DEF s
  <2>4. CASE ~Escaped(c, q)
    <3>1. k <= Len(sql) /\ sql[k] = c /\ Follows(sql, k + 1, s) /\ k + 1 \in Nat
      <4>1. Follows(sql, k, Cons(c, s))
        BY <2>2, <2>4
      <4> QED BY <2>1, <2>2, <4>1, FollowsStep
    <3>2. AfterToken(sql, k, d, q) = <<k + 1, d, q>>
      BY <1>q, <2>4, <3>1, AfterTokenInQuotes DEF Escaped
    <3>3. X(k) = X(k + 1)
      BY <1>s, <3>1, <3>2
    <3> QED BY <2>3, <3>1, <3>3
  <2>5. CASE Escaped(c, q)
    <3>1. /\ k <= Len(sql) /\ sql[k] = c /\ Follows(sql, k + 2, s) /\ k + 2 \in Nat
          /\ First(Rest(sql, k + 1)) = c
      <4> DEFINE t == Cons(c, s)
      <4>1. t \in Text /\ First(t) = c
        BY <2>1, <2>2, FirstOf
      <4>2. Follows(sql, k, Cons(c, t))
        BY <2>2, <2>5
      <4>5. \A l : Follows(sql, l, t) => Follows(sql, l, Cons(c, s))
        OBVIOUS
      <4> HIDE DEF t
      <4>3. k <= Len(sql) /\ sql[k] = c /\ Rest(sql, k + 1) = t /\ Follows(sql, k + 1, t)
        BY <2>1, <4>1, <4>2, FollowsStep
      <4>6. Follows(sql, k + 1, Cons(c, s))
        BY <4>3, <4>5
      <4>4. Follows(sql, (k + 1) + 1, s)
        BY <2>1, <2>2, <4>6, FollowsStep
      <4>7. (k + 1) + 1 = k + 2 /\ k + 2 \in Nat
        OBVIOUS
      <4> QED BY <4>1, <4>3, <4>4, <4>7
    <3>2. AfterToken(sql, k, d, q) = <<k + 2, d, q>>
      BY <1>q, <2>5, <3>1, AfterTokenInQuotes DEF Escaped
    <3>3. X(k) = X(k + 2)
      BY <1>s, <3>1, <3>2
    <3> QED BY <2>3, <3>1, <3>3
  <2> QED BY <2>4, <2>5
<1>3. \A n \in Nat : ScanHolds(e, n)
  <2> DEFINE W == {n \in Nat : ScanHolds(e, n)}
  <2>1. 0 \in W /\ \A n \in Nat : n \in W => n + 1 \in W
    BY <1>1, <1>2
  <2> HIDE DEF W
  <2>2. Nat \subseteq W
    BY <2>1, Induct
  <2> QED BY <2>2 DEF W
<1>4. Len(m) \in Nat
  BY Joined
<1> QED BY <1>3, <1>4, <1>p DEF X

-----------------------------------------------------------------------------
(* Texts written as tuples.                                                *)

LEMMA ConsElements ==
  ASSUME NEW c \in Alphabet, NEW w \in Text
  PROVE  /\ Cons(c, w) \in Seq(Alphabet) /\ Len(Cons(c, w)) = 1 + Len(w)
         /\ Cons(c, w)[1] = c /\ \A k \in 1..Len(w) : Cons(c, w)[k + 1] = w[k]
BY DEF Cons, One, Text

LEMMA TwoTokens ==
  ASSUME NEW a \in Alphabet, NEW b \in Alphabet
  PROVE  <<a, b>> = Cons(a, One(b)) /\ <<a, b>> \in Text
<1> DEFINE w == One(b)
           v == Cons(a, w)
<1>1. /\ w \in Text /\ Len(w) = 1
      /\ w[1] = b
  BY DEF One, Text
<1> HIDE DEF w
<1>2. /\ v \in Seq(Alphabet) /\ Len(v) = 1 + Len(w) /\ v[1] = a
      /\ \A k \in 1..Len(w) : v[k + 1] = w[k]
  BY <1>1, ConsElements
<1> HIDE DEF v
<1>3. v[1 + 1] = w[1]
  <2>1. 1 \in 1..Len(w)
    BY <1>1
  <2> QED BY <1>2, <2>1
<1>4. v \in Seq(Alphabet) /\ Len(v) = 2 /\ v[1] = a /\ v[2] = b
  BY <1>1, <1>2, <1>3
<1>5. v = <<v[1], v[2]>>
  BY <1>4
<1> QED BY <1>2, <1>4, <1>5 DEF v, w, Text

LEMMA ThreeTokens ==
  ASSUME NEW a \in Alphabet, NEW b \in Alphabet, NEW c \in Alphabet
  PROVE  <<a, b, c>> = Cons(a, <<b, c>>) /\ <<a, b, c>> \in Text
<1> DEFINE w == <<b, c>>
           v == Cons(a, w)
<1>1. /\ w \in Text /\ Len(w) = 2
      /\ w[1] = b /\ w[2] = c
  BY DEF One, Text
<1> HIDE DEF w
<1>2. /\ v \in Seq(Alphabet) /\ Len(v) = 1 + Len(w) /\ v[1] = a
      /\ \A k \in 1..Len(w) : v[k + 1] = w[k]
  BY <1>1, ConsElements
<1> HIDE DEF v
<1>3. v[1 + 1] = w[1] /\ v[2 + 1] = w[2]
  <2>1. 1 \in 1..Len(w) /\ 2 \in 1..Len(w)
    BY <1>1
  <2> QED BY <1>2, <2>1
<1>4. v \in Seq(Alphabet) /\ Len(v) = 3 /\ v[1] = a /\ v[2] = b /\ v[3] = c
  BY <1>1, <1>2, <1>3
<1>5. v = <<v[1], v[2], v[3]>>
  BY <1>4
<1> QED BY <1>2, <1>4, <1>5 DEF v, w, Text

ThreeInLine(a, b, c) == <<a, b, c>> = Cons(a, <<b, c>>)

LEMMA ThreeLined ==
  ASSUME NEW a \in Alphabet, NEW b \in Alphabet, NEW c \in Alphabet
  PROVE  ThreeInLine(a, b, c)
BY ThreeTokens DEF ThreeInLine

LEMMA FourTokens ==
  ASSUME NEW a \in Alphabet, NEW b \in Alphabet, NEW c \in Alphabet, NEW d \in Alphabet
  PROVE  <<a, b, c, d>> = Cons(a, <<b, c, d>>) /\ <<a, b, c, d>> \in Text
<1> DEFINE w == <<b, c, d>>
           v == Cons(a, w)
<1>1. /\ w \in Text /\ Len(w) = 3
      /\ w[1] = b /\ w[2] = c /\ w[3] = d
  BY DEF One, Text
<1> HIDE DEF w
<1>2. /\ v \in Seq(Alphabet) /\ Len(v) = 1 + Len(w) /\ v[1] = a
      /\ \A k \in 1..Len(w) : v[k + 1] = w[k]
  BY <1>1, ConsElements
<1> HIDE DEF v
<1>3. v[1 + 1] = w[1] /\ v[2 + 1] = w[2] /\ v[3 + 1] = w[3]
  <2>1. 1 \in 1..Len(w) /\ 2 \in 1..Len(w) /\ 3 \in 1..Len(w)
    BY <1>1
  <2> QED BY <1>2, <2>1
<1>4. v \in Seq(Alphabet) /\ Len(v) = 4 /\ v[1] = a /\ v[2] = b /\ v[3] = c /\ v[4] = d
  BY <1>1, <1>2, <1>3
<1>5. v = <<v[1], v[2], v[3], v[4]>>
  BY <1>4
<1> QED BY <1>2, <1>4, <1>5 DEF v, w, Text

LEMMA FiveTokens ==
  ASSUME NEW a \in Alphabet, NEW b \in Alphabet, NEW c \in Alphabet, NEW d \in Alphabet,
         NEW e \in Alphabet
  PROVE  <<a, b, c, d, e>> = Cons(a, <<b, c, d, e>>) /\ <<a, b, c, d, e>> \in Text
<1> DEFINE w == <<b, c, d, e>>
           v == Cons(a, w)
<1>1. /\ w \in Text /\ Len(w) = 4
      /\ w[1] = b /\ w[2] = c /\ w[3] = d /\ w[4] = e
  BY DEF One, Text
<1> HIDE DEF w
<1>2. /\ v \in Seq(Alphabet) /\ Len(v) = 1 + Len(w) /\ v[1] = a
      /\ \A k \in 1..Len(w) : v[k + 1] = w[k]
  BY <1>1, ConsElements
<1> HIDE DEF v
<1>3. v[1 + 1] = w[1] /\ v[2 + 1] = w[2] /\ v[3 + 1] = w[3] /\ v[4 + 1] = w[4]
  <2>1. 1 \in 1..Len(w) /\ 2 \in 1..Len(w) /\ 3 \in 1..Len(w) /\ 4 \in 1..Len(w)
    BY <1>1
  <2> QED BY <1>2, <2>1
<1>4. v \in Seq(Alphabet) /\ Len(v) = 5 /\ v[1] = a /\ v[2] = b /\ v[3] = c /\ v[4] = d /\ v[5] = e
  BY <1>1, <1>2, <1>3
<1>5. v = <<v[1], v[2], v[3], v[4], v[5]>>
  BY <1>4
<1> QED BY <1>2, <1>4, <1>5 DEF v, w, Text

LEMMA ConsThen ==
  ASSUME NEW c \in Alphabet, NEW u \in Text, NEW w \in Text
  PROVE  Cons(c, u) \o w = Cons(c, u \o w)
<1> DEFINE o == One(c)
           r == u \o w
<1>1. o \in Text
  BY OneText
<1> HIDE DEF o
<1>2. (o \o u) \o w = o \o r
  <2>1. Then(Then(o, u), w) = Then(o, Then(u, w))
    BY <1>1, ThenGroups
  <2> QED BY <2>1 DEF Then
<1> QED BY <1>2, ConsIs DEF o

LEMMA TwoThen ==
  ASSUME NEW a \in Alphabet, NEW b \in Alphabet, NEW w \in Text
  PROVE  <<a, b>> \o w = Cons(a, Cons(b, w))
<1> DEFINE t == <<a, b>>
           u == One(b)
<1>1. u \in Text /\ u \o w = Cons(b, w)
  BY OneText, ConsIs
<1>2. t = Cons(a, u)
  BY TwoTokens
<1> HIDE DEF t, u
<1>3. Cons(a, u) \o w = Cons(a, u \o w)
  BY <1>1, ConsThen
<1> QED BY <1>1, <1>2, <1>3 DEF t

ThreeStart(a, b, c) ==
  \A w \in Text : <<a, b, c>> \o w = Cons(a, Cons(b, Cons(c, w)))

LEMMA ThreeThen ==
  ASSUME NEW a \in Alphabet, NEW b \in Alphabet, NEW c \in Alphabet
  PROVE  ThreeStart(a, b, c)
<1> SUFFICES ASSUME NEW w \in Text PROVE <<a, b, c>> \o w = Cons(a, Cons(b, Cons(c, w)))
  BY DEF ThreeStart
<1> DEFINE t == <<a, b, c>>
           u == <<b, c>>
<1>1. u \in Text /\ u \o w = Cons(b, Cons(c, w))
  BY TwoTokens, TwoThen
<1>2. t = Cons(a, u)
  BY ThreeTokens
<1> HIDE DEF t, u
<1>3. Cons(a, u) \o w = Cons(a, u \o w)
  BY <1>1, ConsThen
<1> QED BY <1>1, <1>2, <1>3 DEF t

FourStart(a, b, c, d) ==
  \A w \in Text : <<a, b, c, d>> \o w = Cons(a, Cons(b, Cons(c, Cons(d, w))))

LEMMA FourThen ==
  ASSUME NEW a \in Alphabet, NEW b \in Alphabet, NEW c \in Alphabet, NEW d \in Alphabet
  PROVE  FourStart(a, b, c, d)
<1> SUFFICES ASSUME NEW w \in Text
             PROVE  <<a, b, c, d>> \o w = Cons(a, Cons(b, Cons(c, Cons(d, w))))
  BY DEF FourStart
<1> DEFINE t == <<a, b, c, d>>
           u == <<b, c, d>>
<1>1. u \in Text
  BY ThreeTokens
<1>2. u \o w = Cons(b, Cons(c, Cons(d, w)))
  <2>1. ThreeStart(b, c, d)
    BY ThreeThen
  <2> QED BY <2>1 DEF ThreeStart
<1>3. <<a, b, c, d>> = Cons(a, <<b, c, d>>) /\ <<a, b, c, d>> \in Text
  BY FourTokens, Zenon
<1>5. t = Cons(a, u)
  BY <1>3
<1> HIDE DEF t, u
<1>4. t \o w = Cons(a, u \o w)
  BY <1>1, <1>5, ConsThen
<1> QED BY <1>2, <1>4 DEF t

FiveStart(a, b, c, d, e) ==
  \A w \in Text :
    <<a, b, c, d, e>> \o w = Cons(a, Cons(b, Cons(c, Cons(d, Cons(e, w)))))

LEMMA FiveThen ==
  ASSUME NEW a \in Alphabet, NEW b \in Alphabet, NEW c \in Alphabet, NEW d \in Alphabet,
         NEW e \in Alphabet
  PROVE  FiveStart(a, b, c, d, e)
<1> SUFFICES ASSUME NEW w \in Text
             PROVE  <<a, b, c, d, e>> \o w = Cons(a, Cons(b, Cons(c, Cons(d, Cons(e, w)))))
  BY DEF FiveStart
<1> DEFINE t == <<a, b, c, d, e>>
           u == <<b, c, d, e>>
<1>1. u \in Text
  BY FourTokens
<1>2. u \o w = Cons(b, Cons(c, Cons(d, Cons(e, w))))
  BY FourThen DEF FourStart
<1>3. <<a, b, c, d, e>> = Cons(a, <<b, c, d, e>>) /\ <<a, b, c, d, e>> \in Text
  BY FiveTokens, Zenon
<1>5. t = Cons(a, u)
  BY <1>3
<1> HIDE DEF t, u
<1>4. t \o w = Cons(a, u \o w)
  BY <1>1, <1>5, ConsThen
<1> QED BY <1>2, <1>4 DEF t

-----------------------------------------------------------------------------
(* What is left of the options without the counter.                        *)

Uncounted(text) == Only(text, LAMBDA t : t # Counter)

LEMMA UncountedCons ==
  ASSUME NEW c \in Alphabet, NEW m \in Text
  PROVE  Uncounted(Cons(c, m)) = IF c # Counter THEN Cons(c, Uncounted(m)) ELSE Uncounted(m)
<1> DEFINE S == Alphabet
           u == Cons(c, m)
           Kept(t) == IF t # Counter THEN <<t>> ELSE <<>>
           ss == [i \in DOMAIN m |-> Kept(m[i])]
           tt == [i \in DOMAIN u |-> Kept(u[i])]
           v == <<Kept(c)>> \o ss
<1>1. Uncounted(m) = FlattenSeq(ss) /\ Uncounted(u) = FlattenSeq(tt)
  BY DEF Uncounted, Only
<1>2. \A x \in S : Kept(x) \in Seq(S)
  OBVIOUS
<1>3. /\ Len(u) = 1 + Len(m) /\ u[1] = c /\ u \in Seq(S)
      /\ \A k \in 1..Len(m) : u[k + 1] = m[k]
  BY ConsElements
<1>4. m \in Seq(S) /\ Len(m) \in Nat /\ DOMAIN m = 1..Len(m) /\ DOMAIN u = 1..Len(u)
  BY <1>3 DEF Text
<1> HIDE DEF u, S
<1>5. /\ \A k \in 1..Len(m) : ss[k] = Kept(m[k]) /\ ss[k] \in Seq(S)
      /\ \A k \in 1..Len(u) : tt[k] = Kept(u[k])
      /\ ss = [k \in 1..Len(m) |-> ss[k]] /\ tt = [k \in 1..Len(u) |-> tt[k]]
  BY <1>2, <1>4
<1>c. Kept(c) \in Seq(S) /\ Kept(c) = IF c # Counter THEN One(c) ELSE <<>>
  BY <1>2 DEF S, One
<1> HIDE DEF ss, tt, Kept
<1>6. ss \in Seq(Seq(S)) /\ Len(ss) = Len(m)
  BY <1>4, <1>5
<1>7. /\ v \in Seq(Seq(S)) /\ Len(v) = Len(m) + 1 /\ v[1] = Kept(c)
      /\ \A k \in 1..Len(m) : v[k + 1] = ss[k]
  BY <1>c, <1>6
<1> HIDE DEF v
<1>8. \A k \in 1..Len(u) : v[k] = tt[k]
  <2> SUFFICES ASSUME NEW k \in 1..Len(u) PROVE v[k] = tt[k]
    OBVIOUS
  <2>1. CASE k = 1
    BY <2>1, <1>3, <1>5, <1>7
  <2>2. CASE k # 1
    <3>1. k - 1 \in 1..Len(m) /\ (k - 1) + 1 = k
      BY <2>2, <1>3, <1>4
    <3>2. v[k] = ss[k - 1] /\ u[k] = m[k - 1]
      BY <3>1, <1>3, <1>7
    <3> QED BY <3>1, <3>2, <1>5
  <2> QED BY <2>1, <2>2
<1>9. v = tt
  <2>1. v = [k \in 1..Len(u) |-> v[k]]
    BY <1>3, <1>4, <1>7
  <2> QED BY <2>1, <1>5, <1>8
<1>10. FlattenSeq(v) = Kept(c) \o FlattenSeq(ss) /\ FlattenSeq(ss) \in Seq(S)
  BY <1>c, <1>6, FlattenCons DEF v
<1>11. <<>> \o FlattenSeq(ss) = FlattenSeq(ss)
  BY <1>10
<1> QED BY <1>1, <1>9, <1>10, <1>11, <1>c, ConsIs DEF u

LEMMA UncountedNone == Uncounted(<<>>) = <<>>
<1> DEFINE ss == [i \in DOMAIN <<>> |-> IF <<>>[i] # Counter THEN <<<<>>[i]>> ELSE <<>>]
<1>1. ss = <<>> /\ Uncounted(<<>>) = FlattenSeq(ss)
  BY DEF Uncounted, Only
<1> HIDE DEF ss
<1>2. Len(ss) = 0
  BY <1>1
<1> QED BY <1>1, <1>2, FlattenUnfold

-----------------------------------------------------------------------------
(* The scan of a CREATE TABLE with a column and its comment.               *)

\* The scan comes to a place where w follows, at this depth and in this quote.
Comes(sql, d, q, w) ==
  \E j \in Nat : Follows(sql, j, w) /\ FindDefinitionEnd(sql) = Scanned(sql)[<<j, d, q>>]

LEMMA ComesToken ==
  ASSUME NEW sql \in Text, NEW d \in Nat, NEW c \in Alphabet, NEW w \in Text,
         Comes(sql, d, Nothing, Cons(c, w))
  PROVE  /\ c \in Quotes => Comes(sql, d, c, w)
         /\ c = Open => Comes(sql, d + 1, Nothing, w)
         /\ c = Close /\ d = 1 => Follows(sql, FindDefinitionEnd(sql), Cons(c, w))
         /\ c = Close /\ d = 2 => Comes(sql, 1, Nothing, w)
         /\ c \notin Quotes \cup {Open, Close} => Comes(sql, d, Nothing, w)
<1> DEFINE X(j, k, q) == Scanned(sql)[<<j, k, q>>]
           E == FindDefinitionEnd(sql)
<1>1. PICK j \in Nat : Follows(sql, j, Cons(c, w)) /\ E = X(j, d, Nothing)
  BY DEF Comes
<1>2. j <= Len(sql) /\ sql[j] = c /\ Follows(sql, j + 1, w) /\ j + 1 \in Nat
  BY <1>1, FollowsStep
<1> DEFINE next == AfterToken(sql, j, d, Nothing)
<1>3. /\ c \in Quotes => next = <<j + 1, d, c>>
      /\ c = Open => next = <<j + 1, d + 1, Nothing>>
      /\ c = Close => next = <<j + 1, d - 1, Nothing>>
      /\ c \notin Quotes \cup {Open, Close} => next = <<j + 1, d, Nothing>>
  BY <1>2, AfterTokenOutside
<1>4. /\ d = 1 /\ next[2] = 0 => X(j, d, Nothing) = j
      /\ ~(d = 1 /\ next[2] = 0) => X(j, d, Nothing) = Scanned(sql)[next]
  <2>1. d \in Int /\ Nothing \in Quotes \cup {Nothing}
    OBVIOUS
  <2> QED BY <1>2, <2>1, ScanSteps
<1> HIDE DEF next
<1>5. ASSUME c \in Quotes PROVE Comes(sql, d, c, w)
  <2>1. next[2] = d /\ Scanned(sql)[next] = X(j + 1, d, c)
    BY <1>3, <1>5
  <2>2. E = X(j + 1, d, c)
    BY <1>1, <1>4, <2>1
  <2> QED BY <1>2, <2>2 DEF Comes
<1>6. ASSUME c = Open PROVE Comes(sql, d + 1, Nothing, w)
  <2>1. next[2] = d + 1 /\ Scanned(sql)[next] = X(j + 1, d + 1, Nothing)
    BY <1>3, <1>6
  <2>2. E = X(j + 1, d + 1, Nothing)
    BY <1>1, <1>4, <2>1
  <2> QED BY <1>2, <2>2 DEF Comes
<1>7. ASSUME c = Close, d = 1 PROVE Follows(sql, E, Cons(c, w))
  <2>1. next[2] = 0
    BY <1>3, <1>7
  <2>2. E = j
    BY <1>1, <1>4, <1>7, <2>1
  <2> QED BY <1>1, <2>2
<1>8. ASSUME c = Close, d = 2 PROVE Comes(sql, 1, Nothing, w)
  <2>1. d - 1 = 1
    BY <1>8
  <2>2. next = <<j + 1, 1, Nothing>>
    BY <1>3, <1>8, <2>1
  <2>3. E = X(j + 1, 1, Nothing)
    BY <1>1, <1>4, <1>8, <2>2
  <2> QED BY <1>2, <2>3 DEF Comes
<1>9. ASSUME c \notin Quotes \cup {Open, Close} PROVE Comes(sql, d, Nothing, w)
  <2>1. next[2] = d /\ Scanned(sql)[next] = X(j + 1, d, Nothing)
    BY <1>3, <1>9
  <2>2. E = X(j + 1, d, Nothing)
    BY <1>1, <1>4, <2>1
  <2> QED BY <1>2, <2>2 DEF Comes
<1> QED BY <1>5, <1>6, <1>7, <1>8, <1>9

LEMMA ComesAcross ==
  ASSUME NEW sql \in Text, NEW d \in Nat, NEW q \in {Backtick, Apostrophe}, NEW m \in Text,
         NEW w \in Text, First(w) # q, Comes(sql, d, q, Written(m, q, Cons(q, w)))
  PROVE  Comes(sql, d, Nothing, w)
<1> DEFINE X(j, p) == Scanned(sql)[<<j, d, p>>]
           E == FindDefinitionEnd(sql)
           v == Cons(q, w)
<1>q. q \in Quotes \cup {Nothing} /\ q # Nothing /\ q \in Alphabet /\ q # Backslash /\ d \in Int
  BY QuotesInAlphabet, QuotesAreNot
<1>0. v \in Text
  BY <1>q, FirstOf
<1>1. PICK j \in Nat : Follows(sql, j, Written(m, q, v)) /\ E = X(j, q)
  BY DEF Comes
<1>2. PICK k \in Nat : Follows(sql, k, v) /\ X(j, q) = X(k, q)
  <2> HIDE DEF v
  <2> QED BY <1>0, <1>1, <1>q, ScanAcross
<1>3. k <= Len(sql) /\ sql[k] = q /\ Follows(sql, k + 1, w) /\ Rest(sql, k + 1) = w /\ k + 1 \in Nat
  BY <1>2, <1>q, FollowsStep
<1>4. AfterToken(sql, k, d, q) = <<k + 1, d, Nothing>>
  BY <1>q, <1>3, AfterTokenInQuotes
<1>5. X(k, q) = X(k + 1, Nothing)
  <2>1. ~(d = 1 /\ AfterToken(sql, k, d, q)[2] = 0)
    BY <1>4
  <2>2. X(k, q) = Scanned(sql)[AfterToken(sql, k, d, q)]
    BY <1>q, <1>3, <2>1, ScanSteps
  <2> QED BY <1>4, <2>2
<1> HIDE DEF X
<1>6. E = X(k + 1, Nothing)
  BY <1>1, <1>2, <1>5
<1> QED BY <1>3, <1>6 DEF Comes, X

\* A comment and the parenthesis after it; a column whose type has one, with
\* that comment; the statement that creates a table with it.
Commented(m, r) == Cons(Apostrophe, Written(m, Apostrophe, Cons(Apostrophe, Cons(Close, r))))
Column(n, m, r) ==
  Cons(Backtick, Written(n, Backtick, Cons(Backtick,
    Cons(Letter, Cons(Open, Cons(Letter, Cons(Close, Commented(m, r))))))))
Created(n, m, r) ==
  Cons(Create, Cons(Backtick, Cons(Letter, Cons(Backtick, Cons(Open, Column(n, m, r))))))

LEMMA Tokenized ==
  /\ Backtick \in Alphabet /\ Apostrophe \in Alphabet /\ Letter \in Alphabet
  /\ Open \in Alphabet /\ Close \in Alphabet /\ Create \in Alphabet
  /\ Engine \in Alphabet /\ Counter \in Alphabet
BY QuotesInAlphabet DEF Quotes, Alphabet, Counter

LEMMA CommentedScanned ==
  ASSUME NEW sql \in Text, NEW m \in Text, NEW r \in Text
  PROVE  /\ Commented(m, r) \in Text
         /\ Comes(sql, 1, Nothing, Commented(m, r)) =>
              Follows(sql, FindDefinitionEnd(sql), Cons(Close, r))
<1> DEFINE v == Cons(Close, r)
           u == Cons(Apostrophe, v)
           s == Written(m, Apostrophe, u)
<1>1. v \in Text /\ First(v) # Apostrophe
  <2>1. v \in Text /\ First(v) = Close
    BY Tokenized, FirstOf
  <2> QED BY <2>1, QuotesAreNot
<1>2. Commented(m, r) = Cons(Apostrophe, s)
  BY DEF Commented
<1>e. Comes(sql, 1, Nothing, v) => Follows(sql, FindDefinitionEnd(sql), v)
  BY Tokenized, ComesToken
<1> HIDE DEF v
<1>f. Comes(sql, 1, Apostrophe, s) => Comes(sql, 1, Nothing, v)
  BY <1>1, ComesAcross
<1>3. u \in Text
  BY <1>1, Tokenized, FirstOf
<1> HIDE DEF u
<1>4. s \in Text
  BY <1>3, Tokenized, WrittenFirst
<1> HIDE DEF s
<1>5. Comes(sql, 1, Nothing, Cons(Apostrophe, s)) => Comes(sql, 1, Apostrophe, s)
  BY <1>4, Tokenized, QuotesAreNot, ComesToken
<1>6. Cons(Apostrophe, s) \in Text
  BY <1>4, Tokenized, FirstOf
<1> QED BY <1>2, <1>5, <1>6, <1>e, <1>f DEF v

LEMMA ColumnScanned ==
  ASSUME NEW sql \in Text, NEW n \in Text, NEW m \in Text, NEW r \in Text
  PROVE  /\ Column(n, m, r) \in Text
         /\ Comes(sql, 1, Nothing, Column(n, m, r)) =>
              Follows(sql, FindDefinitionEnd(sql), Cons(Close, r))
<1> DEFINE w == Commented(m, r)
           v1 == Cons(Close, w)
           v2 == Cons(Letter, v1)
           v3 == Cons(Open, v2)
           v4 == Cons(Letter, v3)
           u == Cons(Backtick, v4)
           s == Written(n, Backtick, u)
           End == Follows(sql, FindDefinitionEnd(sql), Cons(Close, r))
<1>0. Column(n, m, r) = Cons(Backtick, s)
  BY DEF Column
<1>n. Letter \notin Quotes \cup {Open, Close} /\ Letter # Backtick /\ Backtick \in Quotes
  BY QuotesAreNot DEF Letter, Open, Close
<1>1. w \in Text /\ (Comes(sql, 1, Nothing, w) => End)
  BY CommentedScanned
<1> HIDE DEF w, End
<1>2. v1 \in Text /\ (Comes(sql, 2, Nothing, v1) => Comes(sql, 1, Nothing, w))
  BY <1>1, Tokenized, FirstOf, ComesToken
<1> HIDE DEF v1
<1>3. v2 \in Text /\ (Comes(sql, 2, Nothing, v2) => Comes(sql, 2, Nothing, v1))
  BY <1>2, <1>n, Tokenized, FirstOf, ComesToken
<1> HIDE DEF v2
<1>4. v3 \in Text /\ (Comes(sql, 1, Nothing, v3) => Comes(sql, 2, Nothing, v2))
  <2>1. v3 \in Text
    BY <1>3, Tokenized, FirstOf
  <2>2. Comes(sql, 1, Nothing, v3) => Comes(sql, 1 + 1, Nothing, v2)
    BY <1>3, Tokenized, ComesToken
  <2> QED BY <2>1, <2>2
<1> HIDE DEF v3
<1>5. v4 \in Text /\ First(v4) = Letter /\ (Comes(sql, 1, Nothing, v4) => Comes(sql, 1, Nothing, v3))
  BY <1>4, <1>n, Tokenized, FirstOf, ComesToken
<1> HIDE DEF v4
<1>6. u \in Text
  BY <1>5, Tokenized, FirstOf
<1>7. Comes(sql, 1, Backtick, s) => Comes(sql, 1, Nothing, v4)
  BY <1>5, <1>n, ComesAcross
<1> HIDE DEF u
<1>8. s \in Text
  BY <1>6, Tokenized, WrittenFirst
<1> HIDE DEF s
<1>9. /\ Cons(Backtick, s) \in Text
      /\ Comes(sql, 1, Nothing, Cons(Backtick, s)) => Comes(sql, 1, Backtick, s)
  BY <1>8, <1>n, Tokenized, FirstOf, ComesToken
<1>10. Comes(sql, 1, Nothing, Column(n, m, r)) => End
  BY <1>0, <1>1, <1>2, <1>3, <1>4, <1>5, <1>7, <1>9
<1> QED BY <1>0, <1>9, <1>10 DEF End

LEMMA FollowsNext ==
  ASSUME NEW text \in Text, NEW i \in Nat, NEW j \in Nat, j = i + 1, NEW w \in Text,
         NEW c \in Alphabet, Follows(text, i, Cons(c, w))
  PROVE  i <= Len(text) /\ text[i] = c /\ Follows(text, j, w)
BY FollowsStep

\* The first parenthesis is the one after the name of the table.
LEMMA CreatedScanned ==
  ASSUME NEW n \in Text, NEW m \in Text, NEW r \in Text
  PROVE  /\ Created(n, m, r) \in Text
         /\ Follows(Created(n, m, r), FindDefinitionEnd(Created(n, m, r)), Cons(Close, r))
<1> DEFINE w == Column(n, m, r)
           v1 == Cons(Open, w)
           v2 == Cons(Backtick, v1)
           v3 == Cons(Letter, v2)
           v4 == Cons(Backtick, v3)
           t == Cons(Create, v4)
           End == Follows(t, FindDefinitionEnd(t), Cons(Close, r))
<1> DEFINE k1 == 1
           k2 == 2
           k3 == 3
           k4 == 4
           k5 == 5
<1>k. /\ k1 \in Nat /\ k2 \in Nat /\ k3 \in Nat /\ k4 \in Nat /\ k5 \in Nat
      /\ k2 = k1 + 1 /\ k3 = k2 + 1 /\ k4 = k3 + 1 /\ k5 = k4 + 1
  OBVIOUS
<1>0. Created(n, m, r) = t
  BY DEF Created
<1>1. w \in Text
  BY ColumnScanned
<1>2. v1 \in Text /\ v2 \in Text /\ v3 \in Text /\ v4 \in Text /\ t \in Text
  <2>1. v1 \in Text
    BY <1>1, Tokenized, FirstOf
  <2> HIDE DEF v1
  <2>2. v2 \in Text
    BY <2>1, Tokenized, FirstOf
  <2> HIDE DEF v2
  <2>3. v3 \in Text
    BY <2>2, Tokenized, FirstOf
  <2> HIDE DEF v3
  <2>4. v4 \in Text
    BY <2>3, Tokenized, FirstOf
  <2> HIDE DEF v4
  <2>5. t \in Text
    BY <2>4, Tokenized, FirstOf
  <2> QED BY <2>1, <2>2, <2>3, <2>4, <2>5
<1>3. Comes(t, 1, Nothing, w) => End
  <2> HIDE DEF t
  <2> QED BY <1>2, ColumnScanned
<1>4. Follows(t, k1, Cons(Create, v4))
  <2>1. \A x : x = t => Follows(x, 1, x)
    BY <1>2, FollowsWhole
  <2> QED BY <2>1
<1>h. /\ \A x : Follows(x, k2, v4) => Follows(x, k2, Cons(Backtick, v3))
      /\ \A x : Follows(x, k3, v3) => Follows(x, k3, Cons(Letter, v2))
      /\ \A x : Follows(x, k4, v2) => Follows(x, k4, Cons(Backtick, v1))
      /\ \A x : Follows(x, k5, v1) => Follows(x, k5, Cons(Open, w))
      /\ \A x, d : Comes(x, d, Nothing, v1) => Comes(x, d, Nothing, Cons(Open, w))
  OBVIOUS
<1> HIDE DEF k1, k2, k3, k4, k5, t, v4, v3, v2, v1, w, End
<1>5. t[k1] = Create /\ Follows(t, k2, v4)
  BY <1>2, <1>4, <1>k, Tokenized, FollowsNext
<1>6. t[k2] = Backtick /\ Follows(t, k3, v3)
  <2>1. Follows(t, k2, Cons(Backtick, v3))
    BY <1>5, <1>h
  <2> QED BY <1>2, <1>k, <2>1, Tokenized, FollowsNext
<1>7. t[k3] = Letter /\ Follows(t, k4, v2)
  <2>1. Follows(t, k3, Cons(Letter, v2))
    BY <1>6, <1>h
  <2> QED BY <1>2, <1>k, <2>1, Tokenized, FollowsNext
<1>8. t[k4] = Backtick /\ Follows(t, k5, v1)
  <2>1. Follows(t, k4, Cons(Backtick, v1))
    BY <1>7, <1>h
  <2> QED BY <1>2, <1>k, <2>1, Tokenized, FollowsNext
<1>9. t[k5] = Open /\ k5 <= Len(t)
  <2>1. Follows(t, k5, Cons(Open, w))
    BY <1>8, <1>h
  <2> QED BY <1>1, <1>2, <1>k, <2>1, Tokenized, FollowsStep
<1>10. Position(t, Open) = 5
  <2> DEFINE I == {i \in 1..Len(t) : t[i] = Open}
  <2>1. Position(t, Open) = IF I # {} THEN Min(I) ELSE 0
    BY DEF Position, SelectInSeq
  <2>2. I \in SUBSET Nat /\ 5 \in I /\ Len(t) \in Nat
    BY <1>2, <1>9 DEF Text, k5
  <2>3. 1 \notin I /\ 2 \notin I /\ 3 \notin I /\ 4 \notin I
    BY <1>5, <1>6, <1>7, <1>8, QuotesAreNot DEF k1, k2, k3, k4, Quotes, Open, Letter, Create
  <2>4. \A i \in I : i > 4
    <3>1. \A i \in I : i \in Nat /\ i > 0
      OBVIOUS
    <3> HIDE DEF I
    <3> QED BY <2>3, <3>1
  <2> HIDE DEF I
  <2>5. Min(I) \in I /\ \A y \in I : Min(I) <= y
    BY <2>2, LeastMember
  <2>7. Min(I) \in Nat /\ Min(I) > 4 /\ Min(I) <= 5
    BY <2>2, <2>4, <2>5
  <2>8. \A k \in Nat : k > 4 /\ k <= 5 => k = 5
    OBVIOUS
  <2>6. Min(I) = 5
    BY <2>7, <2>8
  <2> QED BY <2>1, <2>2, <2>6
<1>11. Comes(t, 0, Nothing, v1)
  <2>1. FindDefinitionEnd(t) = Scanned(t)[<<5, 0, Nothing>>]
    <3>1. 0 \in Int /\ 5 \in Nat /\ Nothing \in Quotes \cup {Nothing} /\ Position(t, Open) # 0
      BY <1>10
    <3> QED BY <1>2, <1>10, <3>1, ScanSteps
  <2> QED BY <1>8, <1>h, <2>1 DEF Comes, k5
<1>12. Comes(t, 0 + 1, Nothing, w)
  BY <1>1, <1>2, <1>11, <1>h, Tokenized, ComesToken
<1> QED BY <1>0, <1>2, <1>3, <1>12 DEF End

-----------------------------------------------------------------------------
(* The statement as it is put together.                                    *)

LEMMA LiteralThen ==
  ASSUME NEW m \in Text, NEW w \in Text
  PROVE  Literal(m) \o w = Cons(Apostrophe, Written(m, Apostrophe, Cons(Apostrophe, w)))
<1> DEFINE b == One(Apostrophe)
           q == Doubled(m, Apostrophe)
           d == Doubled(q, Backslash)
           bd == b \o d
           bw == b \o w
           dbw == d \o bw
<1>1. b \in Text
  BY Tokenized, OneText
<1>2. q \in Text
  BY Tokenized, DoubledCons
<1>3. Cons(Apostrophe, Written(m, Apostrophe, Cons(Apostrophe, w))) = b \o dbw
  BY ConsIs, QuotesAreNot DEF Written, Spelled
<1>4. Literal(m) = bd \o b
  BY DEF Literal, One, Backslash
<1> HIDE DEF b, q
<1>5. d \in Text
  <2>1. Backslash \in Alphabet
    BY DEF Alphabet
  <2> QED BY <1>2, <2>1, DoubledCons
<1> HIDE DEF d
<1>6. bd \in Text /\ bw \in Text
  BY <1>1, <1>5, Joined
<1>7. b \o dbw = bd \o bw
  <2>1. Then(Then(b, d), bw) = Then(b, Then(d, bw))
    BY <1>1, <1>5, <1>6, ThenGroups
  <2> QED BY <2>1 DEF Then
<1> HIDE DEF bd
<1>8. (bd \o b) \o w = bd \o bw
  <2>1. Then(Then(bd, b), w) = Then(bd, Then(b, w))
    BY <1>1, <1>6, ThenGroups
  <2> QED BY <2>1 DEF Then
<1> QED BY <1>3, <1>4, <1>7, <1>8

\* The statement up to and with the parenthesis that ends the definitions.
Definitions(n, m) ==
  <<Create, Backtick, Letter, Backtick, Open>> \o QuoteIdentifier(n)
    \o <<Letter, Open, Letter, Close>> \o Literal(m)

LEMMA DefinitionsThen ==
  ASSUME NEW n \in Text, NEW m \in Text, NEW r \in Text
  PROVE  /\ Definitions(n, m) \in Text
         /\ Definitions(n, m) \o Cons(Close, r) = Created(n, m, r)
<1> DEFINE f == <<Create, Backtick, Letter, Backtick, Open>>
           q == QuoteIdentifier(n)
           g == <<Letter, Open, Letter, Close>>
           l == Literal(m)
           w == Cons(Close, r)
           fq == f \o q
           fqg == fq \o g
           lw == l \o w
           glw == g \o lw
           qglw == q \o glw
<1>1. f \in Text
  BY Tokenized, FiveTokens
<1>2. g \in Text
  BY Tokenized, FourTokens
<1>3. q \in Text
  BY QuoteIdentifierQuotes
<1>4. l \in Text
  BY LiteralText
<1>5. w \in Text
  BY Tokenized, FirstOf
<1>6. Definitions(n, m) = fqg \o l
  BY DEF Definitions
<1>7. lw = Commented(m, r)
  BY <1>5, LiteralThen DEF Commented
<1>8. \A x \in Text : g \o x = Cons(Letter, Cons(Open, Cons(Letter, Cons(Close, x))))
  <2>1. FourStart(Letter, Open, Letter, Close)
    BY Tokenized, FourThen
  <2> QED BY <2>1 DEF FourStart
<1>9. \A x \in Text : q \o x = Cons(Backtick, Written(n, Backtick, Cons(Backtick, x)))
  BY QuoteIdentifierQuotes DEF Quoted, Written
<1>10. \A x \in Text : f \o x =
         Cons(Create, Cons(Backtick, Cons(Letter, Cons(Backtick, Cons(Open, x)))))
  <2>1. FiveStart(Create, Backtick, Letter, Backtick, Open)
    BY Tokenized, FiveThen
  <2> QED BY <2>1 DEF FiveStart
<1> HIDE DEF f, q, g, l, w
<1>11. fq \in Text /\ lw \in Text
  BY <1>1, <1>3, <1>4, <1>5, Joined
<1> HIDE DEF lw
<1>12. fqg \in Text /\ glw \in Text
  BY <1>2, <1>11, Joined
<1>a. fq \o glw = f \o (q \o glw)
  <2>1. Then(Then(f, q), glw) = Then(f, Then(q, glw))
    BY <1>1, <1>3, <1>12, ThenGroups
  <2> QED BY <2>1 DEF Then
<1> HIDE DEF fq
<1>b. fqg \o lw = fq \o (g \o lw)
  <2>1. Then(Then(fq, g), lw) = Then(fq, Then(g, lw))
    BY <1>2, <1>11, ThenGroups
  <2> QED BY <2>1 DEF Then
<1>c. fqg \o l \in Text
  BY <1>4, <1>12, Joined
<1> HIDE DEF fqg
<1>d. (fqg \o l) \o w = fqg \o lw
  <2>1. Then(Then(fqg, l), w) = Then(fqg, Then(l, w))
    BY <1>4, <1>5, <1>12, ThenGroups
  <2> QED BY <2>1 DEF Then, lw
<1>e. (fqg \o l) \o w = f \o qglw
  BY <1>a, <1>b, <1>d
<1>f. qglw = Column(n, m, r) /\ qglw \in Text
  <2>1. qglw = Cons(Backtick, Written(n, Backtick, Cons(Backtick, glw)))
    BY <1>9, <1>12
  <2>2. glw = Cons(Letter, Cons(Open, Cons(Letter, Cons(Close, lw))))
    BY <1>8, <1>11
  <2>3. qglw = Column(n, m, r)
    BY <2>1, <2>2, <1>7 DEF Column
  <2> QED BY <2>3, ColumnScanned
<1> HIDE DEF qglw
<1>g. f \o qglw = Created(n, m, r)
  BY <1>10, <1>f DEF Created
<1> QED BY <1>6, <1>c, <1>e, <1>g DEF w

\* What is removed is the counter, after the definitions.
LEMMA CreatedFormatted ==
  ASSUME NEW n \in Text, NEW m \in Text, NEW r \in Text, Uncounted(r) \in Text
  PROVE  FmtTableCreateSQL(Created(n, m, r)) = Created(n, m, Uncounted(r))
<1> DEFINE h == Definitions(n, m)
           p == One(Close)
           hp == h \o p
           t == Created(n, m, r)
           end == FindDefinitionEnd(t)
           v == Cons(Close, r)
<1>1. h \in Text
  BY DefinitionsThen
<1>a. \A x \in Text : h \o Cons(Close, x) = Created(n, m, x)
  BY DefinitionsThen
<1>2. p \in Text /\ Len(p) = 1
  BY Tokenized, OneText
<1>b. \A x : Cons(Close, x) = p \o x
  BY ConsIs
<1>3. t \in Text /\ Follows(t, end, v)
  BY CreatedScanned
<1>4. Len(v) = 1 + Len(r) /\ v \in Text
  BY Tokenized, FirstOf
<1>5. Rest(t, end + 1) = r
  BY <1>3, Tokenized, FollowsStep
<1>f. FmtTableCreateSQL(t) = SubSeq(t, 1, end) \o Uncounted(Rest(t, end + 1))
  BY DEF FmtTableCreateSQL, Uncounted, Counter
<1> HIDE DEF h, p, t, v, end
<1>6. hp \in Text /\ Len(hp) = Len(h) + 1 /\ Len(h) \in Nat /\ Len(r) \in Nat
  <2>1. hp \in Text /\ Len(hp) = Len(h) + Len(p) /\ Len(h) \in Nat
    BY <1>1, <1>2, Joined
  <2>2. Len(r) \in Nat
    BY Joined
  <2> HIDE DEF hp
  <2> QED BY <1>2, <2>1, <2>2
<1>7. \A x \in Text : hp \o x = Created(n, m, x)
  <2> SUFFICES ASSUME NEW x \in Text PROVE hp \o x = Created(n, m, x)
    OBVIOUS
  <2>1. (h \o p) \o x = h \o (p \o x)
    <3>1. Then(Then(h, p), x) = Then(h, Then(p, x))
      BY <1>1, <1>2, ThenGroups
    <3> QED BY <3>1 DEF Then
  <2>2. h \o (p \o x) = Created(n, m, x)
    BY <1>a, <1>b
  <2> QED BY <2>1, <2>2
<1> HIDE DEF hp
<1>8. t = hp \o r
  BY <1>7 DEF t
<1>9. Len(t) = Len(hp) + Len(r)
  BY <1>6, <1>8, Joined
<1>10. end = Len(hp)
  <2>1. end \in Nat /\ Len(t) = end - 1 + Len(v)
    BY <1>3 DEF Follows
  <2> QED BY <1>4, <1>6, <1>9, <2>1
<1>11. SubSeq(t, 1, end) = hp
  <2>1. hp \in Seq(Alphabet) /\ r \in Seq(Alphabet)
    BY <1>6 DEF Text
  <2>2. SubSeq(hp \o r, 1, Len(hp)) = hp
    BY <2>1
  <2> QED BY <1>8, <1>10, <2>2
<1>12. FmtTableCreateSQL(t) = hp \o Uncounted(r)
  BY <1>5, <1>f, <1>11
<1> QED BY <1>7, <1>12 DEF t

\* A statement with these options.
Stated(n, m, options) ==
  <<Create, Backtick, Letter, Backtick, Open>>
    \o QuoteIdentifier(n) \o <<Letter, Open, Letter, Close>> \o Literal(m)
    \o <<Close, Engine, Letter>> \o options \o <<Letter>>

LEMMA StatedCreated ==
  ASSUME NEW n \in Text, NEW m \in Text, NEW o \in Text
  PROVE  Stated(n, m, o) = Created(n, m, Cons(Engine, Cons(Letter, o \o One(Letter))))
<1> DEFINE h == Definitions(n, m)
           g == <<Close, Engine, Letter>>
           a == One(Letter)
           hg == h \o g
           oa == o \o a
           goa == g \o oa
           hgo == hg \o o
<1>1. h \in Text
  BY DefinitionsThen
<1>b. \A x \in Text : h \o Cons(Close, x) = Created(n, m, x)
  BY DefinitionsThen
<1>2. g \in Text
  BY Tokenized, ThreeTokens
<1>c. \A x \in Text : g \o x = Cons(Close, Cons(Engine, Cons(Letter, x)))
  <2>1. ThreeStart(Close, Engine, Letter)
    BY Tokenized, ThreeThen
  <2> QED BY <2>1 DEF ThreeStart
<1>3. a \in Text
  BY Tokenized, OneText
<1>4. Stated(n, m, o) = hgo \o a
  BY DEF Stated, Definitions, One
<1> HIDE DEF h, g, a
<1>5. hg \in Text /\ oa \in Text
  BY <1>1, <1>2, <1>3, Joined
<1>6. hg \o oa = h \o goa
  <2>1. Then(Then(h, g), oa) = Then(h, Then(g, oa))
    BY <1>1, <1>2, <1>5, ThenGroups
  <2> QED BY <2>1 DEF Then
<1> HIDE DEF hg
<1>7. hgo \o a = hg \o oa
  <2>1. Then(Then(hg, o), a) = Then(hg, Then(o, a))
    BY <1>3, <1>5, ThenGroups
  <2> QED BY <2>1 DEF Then
<1>8. Cons(Engine, Cons(Letter, oa)) \in Text
  BY <1>5, Tokenized, FirstOf
<1>9. goa = Cons(Close, Cons(Engine, Cons(Letter, oa)))
  BY <1>c, <1>5
<1>10. h \o goa = Created(n, m, Cons(Engine, Cons(Letter, oa)))
  BY <1>b, <1>8, <1>9
<1> QED BY <1>4, <1>6, <1>7, <1>10 DEF a

(* Whatever tokens the name of a column and its comment consist of, and     *)
(* however many, the scan of the CREATE TABLE ends at the parenthesis that  *)
(* ends its definitions, and only the counter after it is removed.         *)
THEOREM OnlyCounterEverRemoved == Spec => []OnlyCounterRemoved
<1>1. Typed => OnlyCounterRemoved
  <2> SUFFICES ASSUME Typed PROVE OnlyCounterRemoved
    OBVIOUS
  <2> DEFINE Options(o) == Cons(Engine, Cons(Letter, o \o One(Letter)))
             kept == Options(<<>>)
  <2>1. name \in Text /\ comment \in Text
    BY TypedText
  <2>2. One(Counter) \in Text /\ One(Letter) \in Text /\ <<>> \in Text
    BY Tokenized, OneText, EmptyText
  <2>3. <<>> \o One(Letter) = One(Letter) /\ One(Counter) \o One(Letter) = Cons(Counter, One(Letter))
    BY <2>2, Joined, ConsIs
  <2>4. Uncounted(One(Letter)) = One(Letter)
    <3>1. One(Letter) = Cons(Letter, <<>>)
      BY <2>2, ConsIs, Joined
    <3>2. Uncounted(Cons(Letter, <<>>)) = Cons(Letter, Uncounted(<<>>))
      BY <2>2, Tokenized, UncountedCons DEF Counter, Engine, Letter
    <3> QED BY <3>1, <3>2, UncountedNone
  <2>5. Uncounted(Cons(Counter, One(Letter))) = One(Letter) /\ Cons(Counter, One(Letter)) \in Text
    BY <2>2, <2>4, Tokenized, UncountedCons, FirstOf
  <2>6. \A x \in Text : Uncounted(Cons(Engine, Cons(Letter, x))) =
                        Cons(Engine, Cons(Letter, Uncounted(x)))
    <3> SUFFICES ASSUME NEW x \in Text
                 PROVE  Uncounted(Cons(Engine, Cons(Letter, x))) =
                          Cons(Engine, Cons(Letter, Uncounted(x)))
      OBVIOUS
    <3> DEFINE y == Cons(Letter, x)
    <3>1. y \in Text /\ Uncounted(y) = Cons(Letter, Uncounted(x))
      BY Tokenized, FirstOf, UncountedCons DEF Counter, Engine, Letter
    <3> HIDE DEF y
    <3>2. Uncounted(Cons(Engine, y)) = Cons(Engine, Uncounted(y))
      BY <3>1, Tokenized, UncountedCons DEF Counter, Engine, Letter
    <3> QED BY <3>1, <3>2 DEF y
  <2>7. Uncounted(Options(One(Counter))) = kept
    BY <2>3, <2>5, <2>6
  <2>8. Options(One(Counter)) \in Text /\ kept \in Text
    BY <2>2, <2>3, <2>5, Tokenized, FirstOf
  <2>9. /\ Stated(name, comment, One(Counter)) = Created(name, comment, Options(One(Counter)))
        /\ Stated(name, comment, <<>>) = Created(name, comment, kept)
    BY <2>1, <2>2, StatedCreated
  <2> HIDE DEF Options
  <2>10. FmtTableCreateSQL(Created(name, comment, Options(One(Counter)))) =
           Created(name, comment, kept)
    BY <2>1, <2>7, <2>8, CreatedFormatted
  <2>11. FmtTableCreateSQL(Stated(name, comment, One(Counter))) = Stated(name, comment, <<>>)
    BY <2>9, <2>10
  <2> QED BY <2>11 DEF OnlyCounterRemoved, Stated, One, Counter, Open, Close, Letter, Create, Engine
<1> QED BY <1>1, TypedInit, TypedNext, PTL DEF Spec

-----------------------------------------------------------------------------
(* The columns a foreign key references.                                   *)

\* From a place on there is no name to be read, or one that ends after the place.
ReadsTo(text, i) ==
  \/ Extracted(text, Backtick)[i] = NoName
  \/ /\ \E k : Extracted(text, Backtick)[i] = Read(k)
     /\ Ended(text)[i] \in Nat /\ Ended(text)[i] > i

EndsToo(text, n) == \A i \in Nat : PlacesLeft(text, i) <= n => ReadsTo(text, i)

LEMMA ReadHasEnd ==
  ASSUME NEW text \in Text
  PROVE  \A n \in Nat : EndsToo(text, n)
<1> DEFINE X == Extracted(text, Backtick)
           E == Ended(text)
<1>0. Len(text) \in Nat
  BY DEF Text
<1>x. \A i \in Nat :
        /\ i > Len(text) => X[i] = NoName
        /\ i <= Len(text) /\ text[i] # Backtick => X[i] = Prepended(text[i], X[i + 1])
        /\ i <= Len(text) /\ text[i] = Backtick /\ First(Rest(text, i + 1)) = Backtick =>
             X[i] = Prepended(Backtick, X[i + 2])
        /\ i <= Len(text) /\ text[i] = Backtick /\ First(Rest(text, i + 1)) # Backtick =>
             X[i] = Read(<<>>)
  BY ExtractSteps DEF Read
<1>y. \A i \in Nat :
        /\ i <= Len(text) /\ text[i] # Backtick => E[i] = E[i + 1]
        /\ i <= Len(text) /\ text[i] = Backtick /\ First(Rest(text, i + 1)) = Backtick =>
             E[i] = E[i + 2]
        /\ i <= Len(text) /\ text[i] = Backtick /\ First(Rest(text, i + 1)) # Backtick =>
             E[i] = i + 1
  BY EndSteps
<1>d. \A i : ReadsTo(text, i) <=>
         X[i] = NoName \/ ((\E k : X[i] = Read(k)) /\ E[i] \in Nat /\ E[i] > i)
  BY DEF ReadsTo
<1> HIDE DEF X, E
<1>2. ASSUME NEW i \in Nat, NEW j \in Nat, NEW c, ReadsTo(text, j), j > i,
             X[i] = Prepended(c, X[j]), E[i] = E[j]
      PROVE  ReadsTo(text, i)
  <2>1. CASE X[j] = NoName
    BY <1>2, <1>d, <2>1, PrependedReads
  <2>2. CASE X[j] # NoName
    <3>1. PICK k : X[j] = Read(k)
      BY <1>2, <1>d, <2>2
    <3>2. X[i] = Read(Cons(c, k))
      BY <1>2, <3>1, PrependedReads
    <3>3. E[i] \in Nat /\ E[i] > i
      BY <1>2, <1>d, <2>2
    <3> QED BY <1>d, <3>2, <3>3
  <2> QED BY <2>1, <2>2
<1>4. EndsToo(text, 0)
  <2>1. ASSUME NEW i \in Nat, PlacesLeft(text, i) <= 0 PROVE i > Len(text)
    BY <1>0, <2>1 DEF PlacesLeft
  <2> QED BY <1>x, <1>d, <2>1 DEF EndsToo
<1>5. ASSUME NEW n \in Nat, EndsToo(text, n) PROVE EndsToo(text, n + 1)
  <2> SUFFICES ASSUME NEW i \in Nat, PlacesLeft(text, i) <= n + 1 PROVE ReadsTo(text, i)
    BY DEF EndsToo
  <2>1. CASE i > Len(text)
    BY <1>x, <1>d, <2>1
  <2>2. CASE i <= Len(text)
    <3>1. PlacesLeft(text, i + 1) <= n /\ PlacesLeft(text, i + 2) <= n
      BY <1>0, <2>2 DEF PlacesLeft
    <3>2. i + 1 \in Nat /\ i + 2 \in Nat /\ i + 1 > i /\ i + 2 > i
      OBVIOUS
    <3>3. ReadsTo(text, i + 1) /\ ReadsTo(text, i + 2)
      BY <1>5, <3>1, <3>2 DEF EndsToo
    <3>4. CASE text[i] # Backtick
      BY <1>2, <1>x, <1>y, <2>2, <3>2, <3>3, <3>4
    <3>5. CASE text[i] = Backtick /\ First(Rest(text, i + 1)) = Backtick
      BY <1>2, <1>x, <1>y, <2>2, <3>2, <3>3, <3>5
    <3>6. CASE text[i] = Backtick /\ First(Rest(text, i + 1)) # Backtick
      BY <1>d, <1>x, <1>y, <2>2, <3>2, <3>6
    <3> QED BY <3>4, <3>5, <3>6
  <2> QED BY <1>0, <2>1, <2>2
<1> DEFINE W == {n \in Nat : EndsToo(text, n)}
<1>6. 0 \in W /\ \A n \in Nat : n \in W => n + 1 \in W
  BY <1>4, <1>5
<1> HIDE DEF W
<1>7. Nat \subseteq W
  BY <1>6, Induct
<1> QED BY <1>7 DEF W

LEMMA ReadEnds ==
  ASSUME NEW text \in Text, First(text) = Backtick, ExtractQuotedIdentifier(text, Backtick).ok
  PROVE  QuotedIdentifierEnd(text) \in Nat /\ QuotedIdentifierEnd(text) > 2
<1> DEFINE n == PlacesLeft(text, 2)
<1>1. n \in Nat /\ n <= n
  <2>1. Len(text) \in Nat
    BY Joined
  <2> QED BY <2>1 DEF PlacesLeft
<1>2. EndsToo(text, n)
  BY <1>1, ReadHasEnd
<1>3. ReadsTo(text, 2)
  BY <1>1, <1>2 DEF EndsToo
<1>4. Extracted(text, Backtick)[2] # NoName
  BY ExtractSteps DEF NoName
<1>5. QuotedIdentifierEnd(text) = Ended(text)[2]
  BY EndSteps
<1> QED BY <1>3, <1>4, <1>5 DEF ReadsTo

\* What NamesRead reads from each place on.
Places(list) == Nat \ {0}

Unknown == [ok |-> FALSE, names |-> <<>>]

NamesDef(list, f, i) ==
  LET text == Rest(list, i)
      read == ExtractQuotedIdentifier(text, Backtick)
      end == i + QuotedIdentifierEnd(text) - 1
      later == f[end + 1]
  IN IF text = <<>> THEN [ok |-> TRUE, names |-> <<>>]
     ELSE IF Head(text) # Backtick \/ ~read.ok \/ read.name = <<>>
       THEN [ok |-> FALSE, names |-> <<>>]
     ELSE IF end > Len(list)
       THEN [ok |-> TRUE, names |-> <<read.name>>]
     ELSE IF list[end] # Comma
       THEN [ok |-> FALSE, names |-> <<>>]
     ELSE [ok |-> later.ok, names |-> <<read.name>> \o later.names]

NamesRec == INSTANCE Recursion WITH S <- Places, Rank <- PlacesLeft, Def <- NamesDef

Listed(list) ==
  CHOOSE from : from = [i \in Nat \ {0} |->
        LET text == Rest(list, i)
            read == ExtractQuotedIdentifier(text, Backtick)
            end == i + QuotedIdentifierEnd(text) - 1
            later == from[end + 1]
        IN IF text = <<>> THEN [ok |-> TRUE, names |-> <<>>]
           ELSE IF Head(text) # Backtick \/ ~read.ok \/ read.name = <<>>
             THEN [ok |-> FALSE, names |-> <<>>]
           ELSE IF end > Len(list)
             THEN [ok |-> TRUE, names |-> <<read.name>>]
           ELSE IF list[end] # Comma
             THEN [ok |-> FALSE, names |-> <<>>]
           ELSE [ok |-> later.ok, names |-> <<read.name>> \o later.names]]

LEMMA RestText ==
  ASSUME NEW text \in Text, NEW i \in Nat \ {0}
  PROVE  /\ Rest(text, i) \in Text
         /\ Rest(text, i) # <<>> => First(Rest(text, i)) = Head(Rest(text, i)) /\ i <= Len(text)
<1> DEFINE r == Rest(text, i)
<1>1. r \in Text
  BY DEF Rest, Text
<1>2. i > Len(text) => r = <<>>
  BY DEF Rest, Text
<1>3. Len(text) \in Nat
  BY Joined
<1> HIDE DEF r
<1>4. r # <<>> => First(r) = Head(r)
  BY DEF First
<1> QED BY <1>1, <1>2, <1>3, <1>4 DEF r

LEMMA ListedSteps ==
  ASSUME NEW list \in Text, NEW i \in Nat \ {0}
  PROVE  /\ NamesRead(list) = Listed(list)[1]
         /\ Listed(list)[i] = NamesDef(list, Listed(list), i)
<1> DEFINE F == Listed(list)
<1>0. Len(list) \in Nat
  BY Joined
<1>1. NamesRec!WellDefined(list)
  <2>1. \A x \in Nat \ {0} : PlacesLeft(list, x) \in Nat
    BY <1>0 DEF PlacesLeft
  <2>2. ASSUME NEW f, NEW g, NEW x \in Nat \ {0},
               \A y \in Nat \ {0} : PlacesLeft(list, y) < PlacesLeft(list, x) => f[y] = g[y]
        PROVE  NamesDef(list, f, x) = NamesDef(list, g, x)
    <3> DEFINE text == Rest(list, x)
               read == ExtractQuotedIdentifier(text, Backtick)
               end == QuotedIdentifierEnd(text)
               next == x + end - 1 + 1
    <3>1. text \in Text /\ (text # <<>> => First(text) = Head(text) /\ x <= Len(list))
      BY RestText
    <3>2. ASSUME text # <<>>, Head(text) = Backtick, read.ok PROVE f[next] = g[next]
      <4> HIDE DEF text
      <4>1. end \in Nat /\ end > 2
        BY <3>1, <3>2, ReadEnds
      <4> HIDE DEF end
      <4>2. next \in Nat \ {0} /\ next > x
        BY <4>1
      <4>3. PlacesLeft(list, next) < PlacesLeft(list, x)
        BY <1>0, <3>1, <3>2, <4>2 DEF PlacesLeft
      <4> HIDE DEF next
      <4> QED BY <2>2, <4>2, <4>3
    <3> QED BY <3>2 DEF NamesDef
  <2> QED BY <2>1, <2>2 DEF NamesRec!WellDefined, Places
<1>2. \E f : f = [x \in Nat \ {0} |-> NamesDef(list, f, x)]
  BY <1>1, NamesRec!Recurse, Induct DEF NamesRec!Inductive, Places
<1>3. F = [x \in Nat \ {0} |-> NamesDef(list, F, x)]
  BY <1>2 DEF Listed, NamesDef
<1>4. NamesRead(list) = F[1]
  BY DEF NamesRead, Listed, Comma
<1> HIDE DEF F
<1>5. F[i] = NamesDef(list, F, i)
  BY <1>3
<1> QED BY <1>4, <1>5 DEF F

LEMMA FollowsWithin ==
  ASSUME NEW text \in Text, NEW i, NEW u \in Text, NEW j, NEW w \in Text,
         Follows(text, i, u), Follows(u, j, w)
  PROVE  Follows(text, i + j - 1, w)
<1>1. Len(text) \in Nat /\ Len(u) \in Nat /\ Len(w) \in Nat
  BY Joined
<1>2. /\ i \in Nat \ {0} /\ Len(text) = i - 1 + Len(u)
      /\ \A k \in 1..Len(u) : text[i + k - 1] = u[k]
  BY DEF Follows
<1>3. /\ j \in Nat \ {0} /\ Len(u) = j - 1 + Len(w)
      /\ \A k \in 1..Len(w) : u[j + k - 1] = w[k]
  BY DEF Follows
<1>4. ASSUME NEW k \in 1..Len(w) PROVE text[(i + j - 1) + k - 1] = w[k]
  <2> DEFINE l == j + k - 1
  <2>1. l \in 1..Len(u) /\ i + l - 1 = (i + j - 1) + k - 1
    BY <1>1, <1>2, <1>3
  <2>2. u[l] = w[k]
    BY <1>3
  <2> HIDE DEF l
  <2> QED BY <1>2, <2>1, <2>2
<1>5. i + j - 1 \in Nat \ {0} /\ Len(text) = (i + j - 1) - 1 + Len(w)
  BY <1>1, <1>2, <1>3
<1> QED BY <1>4, <1>5 DEF Follows

\* A name whose closing quote is missing makes the list unknown.
LEMMA UnclosedUnknown ==
  ASSUME NEW list \in Text, NEW i, NEW m \in Text,
         Follows(list, i, Cons(Backtick, Spelled(m, Backtick, <<>>)))
  PROVE  Listed(list)[i] = Unknown
<1> DEFINE s == Spelled(m, Backtick, <<>>)
           t == Cons(Backtick, s)
<1>1. Backtick \in Alphabet /\ <<>> \in Text
  BY Tokenized, EmptyText
<1>2. s \in Text
  BY <1>1, DoubledFirst
<1>s. s = Spelled(m, Backtick, <<>>)
  OBVIOUS
<1> HIDE DEF s
<1>3. t \in Text /\ t # <<>> /\ Head(t) = Backtick
  BY <1>1, <1>2, FirstOf
<1>4. Follows(t, 2, s)
  <2>1. \A u \in Text : Follows(u, 1, t) => Follows(u, 2, s)
    <3> SUFFICES ASSUME NEW u \in Text, Follows(u, 1, t) PROVE Follows(u, 2, s)
      OBVIOUS
    <3> DEFINE k1 == 1
               k2 == 2
    <3>1. k1 \in Nat /\ k2 \in Nat /\ k2 = k1 + 1 /\ Follows(u, k1, Cons(Backtick, s))
      OBVIOUS
    <3> HIDE DEF k1, k2
    <3>2. Follows(u, k2, s)
      BY <1>1, <1>2, <3>1, FollowsNext
    <3> QED BY <3>2 DEF k2
  <2> HIDE DEF t
  <2> QED BY <1>3, <2>1, FollowsWhole
<1>5. Rest(list, i) = t /\ i \in Nat \ {0}
  <2>1. Follows(list, i, t)
    BY <1>s
  <2> HIDE DEF t
  <2> QED BY <1>3, <2>1, FollowsRest DEF Follows
<1> HIDE DEF t
<1>6. PICK j \in Nat : Follows(t, j, <<>>) /\ Carries(t, Backtick, 2, m, j)
  <2>1. Crosses(t, Backtick, 2, m, <<>>)
    BY <1>1, <1>3, <1>4, <1>s, ExtractAcross
  <2> QED BY <2>1 DEF Crosses
<1>7. j > Len(t)
  BY <1>1, <1>3, <1>6, FollowsEnd
<1>8. Extracted(t, Backtick)[j] = NoName
  BY <1>3, <1>7, ExtractSteps
<1>9. Extracted(t, Backtick)[2] = NoName
  BY <1>6, <1>8 DEF Carries
<1>10. ExtractQuotedIdentifier(t, Backtick) = NoName
  BY <1>3, <1>9, ExtractSteps
<1>11. NamesDef(list, Listed(list), i) = Unknown
  BY <1>3, <1>5, <1>10 DEF NamesDef, Unknown, NoName
<1> QED BY <1>5, <1>11, ListedSteps

\* The name m is read, and then what follows it.
ReadsName(list, i, m, w) ==
  \E end \in Nat \ {0} :
    /\ Follows(list, end, w)
    /\ Listed(list)[i] =
         IF end > Len(list) THEN [ok |-> TRUE, names |-> <<m>>]
         ELSE IF list[end] # Comma THEN Unknown
         ELSE [ok |-> Listed(list)[end + 1].ok, names |-> <<m>> \o Listed(list)[end + 1].names]

LEMMA ListedName ==
  ASSUME NEW list \in Text, NEW i, NEW m \in Text, m # <<>>, NEW w \in Text,
         First(w) # Backtick, Follows(list, i, Quoted(m, Backtick, w))
  PROVE  ReadsName(list, i, m, w)
<1> DEFINE t == Quoted(m, Backtick, w)
           q == QuotedIdentifierEnd(t)
           end == i + q - 1
<1>1. Backtick \in Alphabet
  BY Tokenized
<1>2. t \in Text /\ First(t) = Backtick
  BY <1>1, QuotedText
<1>3. /\ ExtractQuotedIdentifier(t, Backtick) = Read(m)
      /\ q \in Nat \ {0} /\ Follows(t, q, w)
  BY <1>1, QuotedRead
<1>4. Follows(list, i, t)
  OBVIOUS
<1> HIDE DEF t
<1>5. i \in Nat \ {0} /\ Rest(list, i) = t
  BY <1>2, <1>4, FollowsRest DEF Follows
<1>6. t # <<>> /\ Head(t) = Backtick
  <2>1. Backtick # Nothing
    BY DEF Backtick, Nothing
  <2> QED BY <1>2, <2>1 DEF First
<1>7. Follows(list, end, w)
  BY <1>2, <1>3, <1>4, FollowsWithin
<1>8. end \in Nat \ {0}
  BY <1>3, <1>5
<1>9. NamesDef(list, Listed(list), i) =
        IF end > Len(list) THEN [ok |-> TRUE, names |-> <<m>>]
        ELSE IF list[end] # Comma THEN Unknown
        ELSE [ok |-> Listed(list)[end + 1].ok,
              names |-> <<m>> \o Listed(list)[end + 1].names]
  <2>1. Read(m).ok = TRUE /\ Read(m).name = m
    BY DEF Read
  <2> QED BY <1>3, <1>5, <1>6, <2>1 DEF NamesDef, Unknown
<1>10. Listed(list)[i] = NamesDef(list, Listed(list), i)
  BY <1>5, ListedSteps
<1> HIDE DEF end
<1> QED BY <1>7, <1>8, <1>9, <1>10 DEF ReadsName

\* The lists that ParseQuotedIdentifierList may cut out, and what is read of them:
\* a name that is cut, a name and one that is cut, or two names.
LEMMA CutNameUnknown ==
  ASSUME NEW p \in Text
  PROVE  Names(Cons(Backtick, Spelled(p, Backtick, <<>>))) = <<>>
<1> DEFINE t == Cons(Backtick, Spelled(p, Backtick, <<>>))
<1>1. Backtick \in Alphabet /\ <<>> \in Text
  BY Tokenized, EmptyText
<1>2. t \in Text
  BY <1>1, DoubledFirst, FirstOf
<1>3. \A i : \A u \in Text : Follows(u, i, t) => Listed(u)[i] = Unknown
  BY UnclosedUnknown
<1> HIDE DEF t
<1>4. Listed(t)[1] = Unknown
  BY <1>2, <1>3, FollowsWhole
<1>5. NamesRead(t) = Listed(t)[1]
  BY <1>2, ListedSteps
<1> QED BY <1>4, <1>5 DEF Names, Unknown, t

LEMMA CommaNext ==
  ASSUME NEW text \in Text, NEW i \in Nat, NEW w \in Text, Follows(text, i, Cons(Comma, w))
  PROVE  ~(i > Len(text)) /\ text[i] = Comma /\ Follows(text, i + 1, w)
<1>1. Comma \in Alphabet
  BY DEF Alphabet
<1>2. i <= Len(text) /\ text[i] = Comma /\ Follows(text, i + 1, w)
  BY <1>1, FollowsStep
<1>3. Len(text) \in Nat
  BY Joined
<1> QED BY <1>2, <1>3

LEMMA ListedNext ==
  ASSUME NEW m \in Text, m # <<>>, NEW v \in Text
  PROVE  LET t == Quoted(m, Backtick, Cons(Comma, v))
         IN \E j \in Nat \ {0} :
              /\ Follows(t, j, v)
              /\ NamesRead(t) = [ok |-> Listed(t)[j].ok, names |-> <<m>> \o Listed(t)[j].names]
<1> DEFINE w == Cons(Comma, v)
           t == Quoted(m, Backtick, w)
<1>1. Backtick \in Alphabet /\ Comma \in Alphabet /\ Comma # Backtick
  BY Tokenized DEF Alphabet, Comma, Backtick
<1>2. w \in Text /\ First(w) # Backtick
  BY <1>1, FirstOf
<1>w. \A u \in Text, i \in Nat : Follows(u, i, w) =>
        ~(i > Len(u)) /\ u[i] = Comma /\ Follows(u, i + 1, v)
  BY CommaNext
<1> HIDE DEF w
<1>3. t \in Text
  BY <1>1, <1>2, QuotedText
<1>t. t = Quoted(m, Backtick, w)
  OBVIOUS
<1> HIDE DEF t
<1>4. Follows(t, 1, Quoted(m, Backtick, w))
  BY <1>3, <1>t, FollowsWhole
<1>5. PICK end \in Nat \ {0} :
        /\ Follows(t, end, w)
        /\ Listed(t)[1] =
             IF end > Len(t) THEN [ok |-> TRUE, names |-> <<m>>]
             ELSE IF t[end] # Comma THEN Unknown
             ELSE [ok |-> Listed(t)[end + 1].ok, names |-> <<m>> \o Listed(t)[end + 1].names]
  <2>1. ReadsName(t, 1, m, w)
    BY <1>2, <1>3, <1>4, ListedName
  <2> QED BY <2>1 DEF ReadsName
<1>6. ~(end > Len(t)) /\ t[end] = Comma /\ Follows(t, end + 1, v)
  BY <1>3, <1>5, <1>w
<1>7. NamesRead(t) = Listed(t)[1]
  BY <1>3, ListedSteps
<1>8. end + 1 \in Nat \ {0}
  OBVIOUS
<1>9. NamesRead(t) = [ok |-> Listed(t)[end + 1].ok, names |-> <<m>> \o Listed(t)[end + 1].names]
  BY <1>5, <1>6, <1>7
<1> QED BY <1>6, <1>8, <1>9 DEF t, w

LEMMA CutListUnknown ==
  ASSUME NEW m \in Text, m # <<>>, NEW p \in Text
  PROVE  Names(Quoted(m, Backtick,
                 Cons(Comma, Cons(Backtick, Spelled(p, Backtick, <<>>))))) = <<>>
<1> DEFINE v == Cons(Backtick, Spelled(p, Backtick, <<>>))
           t == Quoted(m, Backtick, Cons(Comma, v))
<1>1. Backtick \in Alphabet /\ Comma \in Alphabet /\ <<>> \in Text
  BY Tokenized, EmptyText DEF Alphabet
<1>2. v \in Text
  BY <1>1, DoubledFirst, FirstOf
<1>3. t \in Text
  BY <1>1, <1>2, FirstOf, QuotedText
<1>4. \A i : \A u \in Text : Follows(u, i, v) => Listed(u)[i] = Unknown
  BY UnclosedUnknown
<1> HIDE DEF v
<1>5. PICK j \in Nat \ {0} :
        /\ Follows(t, j, v)
        /\ NamesRead(t) = [ok |-> Listed(t)[j].ok, names |-> <<m>> \o Listed(t)[j].names]
  BY <1>2, ListedNext
<1> HIDE DEF t
<1>6. Listed(t)[j] = Unknown
  BY <1>3, <1>4, <1>5
<1>7. NamesRead(t).ok = FALSE
  BY <1>5, <1>6 DEF Unknown
<1> QED BY <1>7 DEF Names, t, v

LEMMA PairJoined ==
  ASSUME NEW x, NEW y
  PROVE  <<x>> \o <<y>> = <<x, y>>
<1> DEFINE S == {x, y}
           a == <<x>>
           b == <<y>>
           ab == a \o b
<1>1. /\ a \in Seq(S) /\ Len(a) = 1 /\ a[1] = x
      /\ b \in Seq(S) /\ Len(b) = 1 /\ b[1] = y
  OBVIOUS
<1> HIDE DEF S, a, b
<1>c. /\ ab \in Seq(S) /\ Len(ab) = Len(a) + Len(b)
      /\ \A i \in 1..Len(a) : ab[i] = a[i]
      /\ \A i \in 1..Len(b) : ab[Len(a) + i] = b[i]
  BY <1>1, ConcatElements
<1> HIDE DEF ab
<1>2. ab \in Seq(S) /\ Len(ab) = 2 /\ ab[1] = a[1] /\ ab[2] = b[1]
  <2>1. 1 \in 1..Len(a) /\ 1 \in 1..Len(b) /\ Len(a) + 1 = 2
    BY <1>1
  <2>2. ab[1] = a[1] /\ ab[Len(a) + 1] = b[1]
    BY <1>c, <2>1
  <2> QED BY <1>1, <1>c, <2>1, <2>2
<1>3. ab = <<ab[1], ab[2]>>
  BY <1>2
<1> QED BY <1>1, <1>2, <1>3 DEF a, b, ab

LEMMA TwoNamesRead ==
  ASSUME NEW m \in Text, m # <<>>, NEW n \in Text, n # <<>>
  PROVE  Names(Quoted(m, Backtick, Cons(Comma, Quoted(n, Backtick, <<>>)))) = <<m, n>>
<1> DEFINE v == Quoted(n, Backtick, <<>>)
           t == Quoted(m, Backtick, Cons(Comma, v))
<1>1. Backtick \in Alphabet /\ Comma \in Alphabet /\ <<>> \in Text
  BY Tokenized, EmptyText DEF Alphabet
<1>2. v \in Text
  BY <1>1, QuotedText
<1>3. t \in Text
  BY <1>1, <1>2, FirstOf, QuotedText
<1>v. v = Quoted(n, Backtick, <<>>)
  OBVIOUS
<1> HIDE DEF v
<1>5. PICK j \in Nat \ {0} :
        /\ Follows(t, j, v)
        /\ NamesRead(t) = [ok |-> Listed(t)[j].ok, names |-> <<m>> \o Listed(t)[j].names]
  BY <1>2, ListedNext
<1> HIDE DEF t
<1>6. First(<<>>) # Backtick
  BY FirstOfNone DEF Nothing, Backtick
<1>7. PICK end \in Nat \ {0} :
        /\ Follows(t, end, <<>>)
        /\ Listed(t)[j] =
             IF end > Len(t) THEN [ok |-> TRUE, names |-> <<n>>]
             ELSE IF t[end] # Comma THEN Unknown
             ELSE [ok |-> Listed(t)[end + 1].ok, names |-> <<n>> \o Listed(t)[end + 1].names]
  <2>1. ReadsName(t, j, n, <<>>)
    BY <1>1, <1>3, <1>5, <1>6, <1>v, ListedName
  <2> QED BY <2>1 DEF ReadsName
<1>8. end > Len(t)
  BY <1>1, <1>3, <1>7, FollowsEnd
<1>9. Listed(t)[j] = [ok |-> TRUE, names |-> <<n>>]
  BY <1>7, <1>8
<1>10. <<m>> \o <<n>> = <<m, n>>
  BY PairJoined
<1>11. NamesRead(t).ok = TRUE /\ NamesRead(t).names = <<m>> \o <<n>>
  BY <1>5, <1>9
<1> QED BY <1>10, <1>11 DEF Names, t, v

\* What comes before the first closing parenthesis of a text.
Before(text) ==
  IF Position(text, Close) = 0 THEN text ELSE SubSeq(text, 1, Position(text, Close) - 1)

PlacesOf(text, token) == {i \in 1..Len(text) : text[i] = token}

LEMMA PositionSays ==
  ASSUME NEW text \in Text, NEW token
  PROVE  \/ /\ Position(text, token) = 0
            /\ \A i \in 1..Len(text) : text[i] # token
         \/ /\ Position(text, token) \in 1..Len(text)
            /\ text[Position(text, token)] = token
            /\ \A i \in 1..Len(text) : text[i] = token => Position(text, token) <= i
<1> DEFINE I == PlacesOf(text, token)
           n == Position(text, token)
<1>1. n = IF I # {} THEN Min(I) ELSE 0
  BY DEF Position, SelectInSeq, PlacesOf
<1>2. I \in SUBSET Nat
  BY Joined DEF PlacesOf
<1>3. \A i : i \in I <=> i \in 1..Len(text) /\ text[i] = token
  BY DEF PlacesOf
<1> HIDE DEF I, n
<1>4. CASE I = {}
  BY <1>1, <1>3, <1>4 DEF n
<1>5. CASE I # {}
  <2>1. n \in I /\ \A y \in I : n <= y
    BY <1>1, <1>2, <1>5, LeastMember
  <2> QED BY <1>3, <2>1 DEF n
<1> QED BY <1>4, <1>5

LEMMA PositionCons ==
  ASSUME NEW c \in Alphabet, NEW w \in Text, NEW token
  PROVE  Position(Cons(c, w), token) =
           IF c = token THEN 1
           ELSE IF Position(w, token) = 0 THEN 0 ELSE Position(w, token) + 1
<1> DEFINE u == Cons(c, w)
           p == Position(u, token)
           q == Position(w, token)
<1>1. u \in Text
  BY FirstOf
<1>2. Len(u) = 1 + Len(w) /\ u[1] = c /\ \A k \in 1..Len(w) : u[k + 1] = w[k]
  BY ConsElements
<1>3. Len(w) \in Nat
  BY Joined
<1> HIDE DEF u
<1>4. \/ p = 0 /\ \A i \in 1..Len(u) : u[i] # token
      \/ /\ p \in 1..Len(u) /\ u[p] = token
         /\ \A i \in 1..Len(u) : u[i] = token => p <= i
  BY <1>1, PositionSays
<1>5. \/ q = 0 /\ \A i \in 1..Len(w) : w[i] # token
      \/ /\ q \in 1..Len(w) /\ w[q] = token
         /\ \A i \in 1..Len(w) : w[i] = token => q <= i
  BY PositionSays
<1> HIDE DEF p, q
<1>6. CASE c = token
  <2>1. 1 \in 1..Len(u) /\ u[1] = token
    BY <1>2, <1>3, <1>6
  <2>2. p \in 1..Len(u) /\ p <= 1
    BY <1>4, <2>1
  <2>3. p = 1
    BY <1>2, <1>3, <2>2
  <2> QED BY <1>6, <2>3 DEF p, u
<1>7. CASE c # token
  <2>1. CASE p = 0
    <3>1. \A i \in 1..Len(w) : i + 1 \in 1..Len(u)
      BY <1>2, <1>3
    <3>2. \A i \in 1..Len(w) : w[i] # token
      BY <1>2, <1>4, <2>1, <3>1
    <3>3. q = 0
      BY <1>3, <1>5, <3>2
    <3> QED BY <1>7, <2>1, <3>3 DEF p, q, u
  <2>2. CASE p # 0
    <3>1. p \in 1..Len(u) /\ u[p] = token /\ \A i \in 1..Len(u) : u[i] = token => p <= i
      BY <1>4, <2>2
    <3>2. p # 1
      BY <1>2, <1>7, <3>1
    <3>3. p - 1 \in 1..Len(w) /\ (p - 1) + 1 = p
      BY <1>2, <1>3, <3>1, <3>2
    <3>4. w[p - 1] = token
      BY <1>2, <3>1, <3>3
    <3>5. q \in 1..Len(w) /\ w[q] = token /\ q <= p - 1
      BY <1>5, <3>3, <3>4
    <3>6. q + 1 \in 1..Len(u) /\ u[q + 1] = token
      BY <1>2, <1>3, <3>5
    <3>7. p <= q + 1
      BY <3>1, <3>6
    <3>8. p = q + 1 /\ q # 0
      BY <1>3, <3>3, <3>5, <3>7
    <3> QED BY <1>7, <3>8 DEF p, q, u
  <2> QED BY <2>1, <2>2
<1> QED BY <1>6, <1>7

LEMMA ConsCut ==
  ASSUME NEW c \in Alphabet, NEW w \in Text, NEW n \in 1..Len(w)
  PROVE  SubSeq(Cons(c, w), 1, n) = Cons(c, SubSeq(w, 1, n - 1)) /\ SubSeq(w, 1, n - 1) \in Text
<1> DEFINE u == Cons(c, w)
           x == SubSeq(w, 1, n - 1)
           y == SubSeq(u, 1, n)
           z == Cons(c, x)
<1>1. Len(w) \in Nat /\ w \in Seq(Alphabet)
  BY Joined DEF Text
<1>2. u \in Seq(Alphabet) /\ Len(u) = 1 + Len(w) /\ u[1] = c /\ \A k \in 1..Len(w) : u[k + 1] = w[k]
  BY ConsElements
<1> HIDE DEF u
<1>3. x \in Seq(Alphabet) /\ Len(x) = n - 1 /\ \A k \in 1..(n - 1) : x[k] = w[k]
  BY <1>1
<1>4. y \in Seq(Alphabet) /\ Len(y) = n /\ \A k \in 1..n : y[k] = u[k]
  BY <1>1, <1>2
<1>t. x \in Text
  BY <1>3 DEF Text
<1> HIDE DEF x, y
<1>5. z \in Seq(Alphabet) /\ Len(z) = 1 + Len(x) /\ z[1] = c /\ \A k \in 1..Len(x) : z[k + 1] = x[k]
  BY <1>t, ConsElements
<1> HIDE DEF z
<1>6. \A k \in 1..n : y[k] = z[k]
  <2> SUFFICES ASSUME NEW k \in 1..n PROVE y[k] = z[k]
    OBVIOUS
  <2>1. CASE k = 1
    BY <1>2, <1>4, <1>5, <2>1
  <2>2. CASE k # 1
    <3>1. k - 1 \in 1..(n - 1) /\ (k - 1) + 1 = k /\ k - 1 \in 1..Len(w)
      BY <1>1, <2>2
    <3>2. z[k] = w[k - 1] /\ u[k] = w[k - 1]
      BY <1>2, <1>3, <1>5, <3>1
    <3> QED BY <1>4, <3>2
  <2> QED BY <2>1, <2>2
<1>7. Len(z) = n
  BY <1>1, <1>3, <1>5
<1>8. y = [k \in 1..n |-> y[k]] /\ z = [k \in 1..n |-> z[k]]
  BY <1>4, <1>5, <1>7
<1>9. y = z
  BY <1>6, <1>8
<1> QED BY <1>9, <1>t DEF x, y, z, u

LEMMA BeforeCons ==
  ASSUME NEW c \in Alphabet, NEW w \in Text
  PROVE  /\ Before(w) \in Text
         /\ Before(Cons(c, w)) = IF c = Close THEN <<>> ELSE Cons(c, Before(w))
<1> DEFINE u == Cons(c, w)
           p == Position(u, Close)
           q == Position(w, Close)
<1>1. p = IF c = Close THEN 1 ELSE IF q = 0 THEN 0 ELSE q + 1
  BY PositionCons
<1>2. q = 0 \/ q \in 1..Len(w)
  BY PositionSays
<1>3. \A n \in 1..Len(w) : SubSeq(u, 1, n) = Cons(c, SubSeq(w, 1, n - 1)) /\ SubSeq(w, 1, n - 1) \in Text
  BY ConsCut
<1>4. SubSeq(u, 1, 0) = <<>>
  <2>1. u \in Seq(Alphabet)
    BY ConsElements
  <2> HIDE DEF u
  <2> QED BY <2>1
<1>5. /\ Before(u) = IF p = 0 THEN u ELSE SubSeq(u, 1, p - 1)
      /\ Before(w) = IF q = 0 THEN w ELSE SubSeq(w, 1, q - 1)
  BY DEF Before
<1>u. u = Cons(c, w) /\ Len(w) \in Nat
  BY Joined
<1> HIDE DEF u, p, q
<1>6. CASE c = Close
  <2>1. p = 1 /\ p - 1 = 0
    BY <1>1, <1>6
  <2>2. Before(u) = <<>>
    BY <1>4, <1>5, <2>1
  <2>3. Before(w) \in Text
    BY <1>2, <1>3, <1>5
  <2> QED BY <1>6, <2>2, <2>3, <1>u
<1>7. CASE c # Close /\ q = 0
  BY <1>1, <1>5, <1>7, <1>u
<1>8. CASE c # Close /\ q # 0
  <2>1. q \in 1..Len(w) /\ p = q + 1 /\ p - 1 = q /\ p # 0
    BY <1>1, <1>2, <1>8, <1>u
  <2>2. Before(u) = SubSeq(u, 1, q) /\ Before(w) = SubSeq(w, 1, q - 1)
    BY <1>5, <1>8, <2>1
  <2> QED BY <1>3, <1>8, <2>1, <2>2, <1>u
<1> QED BY <1>6, <1>7, <1>8

\* Across a name: all of it comes before the first closing parenthesis, or what
\* comes before it is a part of the name.
CutsIn(m, w) == \E p \in Text : Before(Spelled(m, Backtick, w)) = Spelled(p, Backtick, <<>>)
CutsAfter(m, w) == Before(Spelled(m, Backtick, w)) = Spelled(m, Backtick, Before(w))

BeforeHolds(e, n) ==
  \A m \in Text, w \in Text :
    Len(m) = n => IF Close \in ToSet(m) THEN CutsIn(m, w) ELSE CutsAfter(m, w)

LEMMA ToSetCons ==
  ASSUME NEW c \in Alphabet, NEW m \in Text
  PROVE  ToSet(Cons(c, m)) = {c} \cup ToSet(m)
<1> DEFINE o == One(c)
<1>1. o \in Seq(Alphabet) /\ m \in Seq(Alphabet)
  BY DEF One, Text
<1>2. ToSet(o) = {c}
  BY ToSetSingle DEF One
<1> HIDE DEF o
<1>3. ToSet(o \o m) = {c} \cup ToSet(m)
  BY <1>1, <1>2, ToSetConcat
<1> QED BY <1>3, ConsIs DEF o

LEMMA SpelledFirst ==
  ASSUME NEW m \in Text, NEW c \in Alphabet, NEW w \in Text
  PROVE  /\ Spelled(m, Backtick, w) \in Text
         /\ c # Backtick => Spelled(Cons(c, m), Backtick, w) = Cons(c, Spelled(m, Backtick, w))
         /\ c = Backtick => Spelled(Cons(c, m), Backtick, w) =
                              Cons(Backtick, Cons(Backtick, Spelled(m, Backtick, w)))
BY Tokenized, DoubledFirst

\* One token of a name more.
LEMMA BeforeOneMore ==
  ASSUME NEW c \in Alphabet, NEW m \in Text, NEW w \in Text, c # Close
  PROVE  /\ CutsAfter(m, w) => CutsAfter(Cons(c, m), w)
         /\ CutsIn(m, w) => CutsIn(Cons(c, m), w)
<1> DEFINE s == Spelled(m, Backtick, w)
<1>1. /\ Backtick \in Alphabet /\ Backtick # Close /\ <<>> \in Text /\ Before(w) \in Text
  BY Tokenized, EmptyText, BeforeCons DEF Backtick, Close
<1>2. /\ s \in Text
      /\ c # Backtick => Spelled(Cons(c, m), Backtick, w) = Cons(c, s)
      /\ c = Backtick => Spelled(Cons(c, m), Backtick, w) = Cons(Backtick, Cons(Backtick, s))
  BY SpelledFirst
<1>s. s = Spelled(m, Backtick, w)
  OBVIOUS
<1> HIDE DEF s
<1>3. /\ c # Backtick => Before(Spelled(Cons(c, m), Backtick, w)) = Cons(c, Before(s))
      /\ c = Backtick => Before(Spelled(Cons(c, m), Backtick, w)) =
                           Cons(Backtick, Cons(Backtick, Before(s)))
  <2>1. Cons(Backtick, s) \in Text
    BY <1>1, <1>2, FirstOf
  <2>2. Before(Cons(c, s)) = Cons(c, Before(s)) /\ Before(Cons(Backtick, s)) = Cons(Backtick, Before(s))
    BY <1>1, <1>2, BeforeCons
  <2>3. Before(Cons(Backtick, Cons(Backtick, s))) = Cons(Backtick, Cons(Backtick, Before(s)))
    BY <1>1, <2>1, <2>2, BeforeCons
  <2> QED BY <1>2, <2>2, <2>3
<1>4. ASSUME NEW p \in Text, NEW v \in Text, Before(s) = Spelled(p, Backtick, v)
      PROVE  Before(Spelled(Cons(c, m), Backtick, w)) = Spelled(Cons(c, p), Backtick, v)
  <2>1. /\ c # Backtick => Spelled(Cons(c, p), Backtick, v) = Cons(c, Before(s))
        /\ c = Backtick => Spelled(Cons(c, p), Backtick, v) =
                             Cons(Backtick, Cons(Backtick, Before(s)))
    BY <1>4, SpelledFirst
  <2> QED BY <1>3, <2>1
<1>5. CutsAfter(m, w) => CutsAfter(Cons(c, m), w)
  BY <1>1, <1>4, <1>s DEF CutsAfter
<1>6. ASSUME CutsIn(m, w) PROVE CutsIn(Cons(c, m), w)
  <2>1. PICK p \in Text : Before(s) = Spelled(p, Backtick, <<>>)
    BY <1>6, <1>s DEF CutsIn
  <2>2. Cons(c, p) \in Text
    BY FirstOf
  <2>3. Before(Spelled(Cons(c, m), Backtick, w)) = Spelled(Cons(c, p), Backtick, <<>>)
    BY <1>1, <1>4, <2>1
  <2> QED BY <2>2, <2>3 DEF CutsIn
<1> QED BY <1>5, <1>6

LEMMA BeforeAcross ==
  ASSUME NEW m \in Text, NEW w \in Text
  PROVE  IF Close \in ToSet(m) THEN CutsIn(m, w) ELSE CutsAfter(m, w)
<1>1. BeforeHolds(0, 0)
  <2> SUFFICES ASSUME NEW x \in Text, NEW v \in Text, Len(x) = 0
               PROVE  Close \notin ToSet(x) /\ CutsAfter(x, v)
    BY DEF BeforeHolds
  <2>1. x = <<>>
    BY NoTokens
  <2>2. \A y : Spelled(<<>>, Backtick, y) = <<>> \o y
    BY DoubledEmpty DEF Spelled
  <2>3. Before(v) \in Text
    <3>1. Backtick \in Alphabet
      BY Tokenized
    <3> QED BY <3>1, BeforeCons
  <2>4. <<>> \o v = v /\ <<>> \o Before(v) = Before(v)
    BY <2>3, Joined
  <2> QED BY <2>1, <2>2, <2>4, ToSetEmpty DEF CutsAfter
<1>2. ASSUME NEW n \in Nat, BeforeHolds(0, n) PROVE BeforeHolds(0, n + 1)
  <2> SUFFICES ASSUME NEW x \in Text, NEW v \in Text, Len(x) = n + 1
               PROVE  IF Close \in ToSet(x) THEN CutsIn(x, v) ELSE CutsAfter(x, v)
    BY DEF BeforeHolds
  <2> DEFINE c == Head(x)
             y == Tail(x)
  <2>1. c \in Alphabet /\ y \in Text /\ Len(y) = n /\ x = Cons(c, y)
    BY HeadAndTail
  <2> HIDE DEF c, y
  <2>2. ToSet(x) = {c} \cup ToSet(y)
    BY <2>1, ToSetCons
  <2>3. IF Close \in ToSet(y) THEN CutsIn(y, v) ELSE CutsAfter(y, v)
    BY <1>2, <2>1 DEF BeforeHolds
  <2>4. CASE c = Close
    <3>1. Backtick # Close /\ Close \in Alphabet /\ <<>> \in Text
      BY Tokenized, EmptyText DEF Backtick, Close
    <3>2. Spelled(y, Backtick, v) \in Text /\ Spelled(x, Backtick, v) = Cons(Close, Spelled(y, Backtick, v))
      BY <2>1, <2>4, <3>1, SpelledFirst
    <3>3. Before(Spelled(x, Backtick, v)) = <<>>
      BY <3>1, <3>2, BeforeCons
    <3>4. Spelled(<<>>, Backtick, <<>>) = <<>>
      BY <3>1, DoubledNone
    <3>5. CutsIn(x, v)
      BY <3>1, <3>3, <3>4 DEF CutsIn
    <3> QED BY <2>2, <2>4, <3>5
  <2>5. CASE c # Close
    BY <2>1, <2>2, <2>3, <2>5, BeforeOneMore
  <2> QED BY <2>4, <2>5
<1>3. \A n \in Nat : BeforeHolds(0, n)
  <2> DEFINE W == {n \in Nat : BeforeHolds(0, n)}
  <2>1. 0 \in W /\ \A n \in Nat : n \in W => n + 1 \in W
    BY <1>1, <1>2
  <2> HIDE DEF W
  <2>2. Nat \subseteq W
    BY <2>1, Induct
  <2> QED BY <2>2 DEF W
<1>4. Len(m) \in Nat
  BY Joined
<1> QED BY <1>3, <1>4 DEF BeforeHolds

LEMMA ConsRest ==
  ASSUME NEW c \in Alphabet, NEW w \in Text, NEW n \in 1..Len(w)
  PROVE  SubSeq(Cons(c, w), 1 + 1, n) = SubSeq(w, 1, n - 1)
<1> DEFINE u == Cons(c, w)
           x == SubSeq(w, 1, n - 1)
           y == SubSeq(u, 2, n)
<1>1. Len(w) \in Nat /\ w \in Seq(Alphabet)
  BY Joined DEF Text
<1>2. u \in Seq(Alphabet) /\ Len(u) = 1 + Len(w) /\ \A k \in 1..Len(w) : u[k + 1] = w[k]
  BY ConsElements
<1> HIDE DEF u
<1>3. x \in Seq(Alphabet) /\ Len(x) = n - 1 /\ \A k \in 1..(n - 1) : x[k] = w[k]
  BY <1>1
<1>4. y \in Seq(Alphabet) /\ Len(y) = n - 1 /\ \A k \in 1..(n - 1) : y[k] = u[k + 1]
  BY <1>1, <1>2
<1> HIDE DEF x, y
<1>5. \A k \in 1..(n - 1) : k \in 1..Len(w)
  BY <1>1
<1>6. \A k \in 1..(n - 1) : y[k] = x[k]
  BY <1>2, <1>3, <1>4, <1>5
<1>7. y = [k \in 1..(n - 1) |-> y[k]] /\ x = [k \in 1..(n - 1) |-> x[k]]
  BY <1>3, <1>4
<1>8. y = x /\ 1 + 1 = 2
  BY <1>6, <1>7
<1> QED BY <1>8 DEF x, y, u

LEMMA OneMore ==
  ASSUME NEW S, NEW x \in Seq(S), NEW c \in S
  PROVE  /\ x \o <<c>> \in Seq(S) /\ Len(x \o <<c>>) = Len(x) + 1
         /\ (x \o <<c>>)[Len(x) + 1] = c
OBVIOUS

LEMMA LastFound ==
  ASSUME NEW x \in Text, NEW c \in Alphabet
  PROVE  Position(x \o One(c), c) # 0
<1> DEFINE u == x \o One(c)
<1>1. \A s \in Seq(Alphabet) :
        /\ s \o <<c>> \in Seq(Alphabet) /\ Len(s \o <<c>>) = Len(s) + 1
        /\ (s \o <<c>>)[Len(s) + 1] = c
  BY OneMore
<1>2. u \in Seq(Alphabet) /\ Len(u) = Len(x) + 1 /\ u[Len(x) + 1] = c
  BY <1>1 DEF One, Text
<1>3. Len(x) \in Nat
  BY Joined
<1> HIDE DEF u
<1>4. Len(x) + 1 \in 1..Len(u)
  BY <1>2, <1>3
<1>5. u \in Text
  BY <1>2 DEF Text
<1>6. Position(u, c) # 0
  BY <1>2, <1>4, <1>5, PositionSays
<1> QED BY <1>6 DEF u

LEMMA PositionTwo ==
  ASSUME NEW c \in Alphabet, NEW d \in Alphabet, c # d, NEW w \in Text
  PROVE  /\ Position(Cons(c, w), c) = 1
         /\ Position(Cons(c, w), d) = IF Position(w, d) = 0 THEN 0 ELSE Position(w, d) + 1
BY PositionCons

\* The list is what comes between the first parenthesis and the first closing one.
LEMMA ParsedList ==
  ASSUME NEW r \in Text, NEW x \in Text, Cons(Open, r) = x \o One(Close)
  PROVE  ParseQuotedIdentifierList(Cons(Open, r)) = Names(Before(r))
<1> DEFINE t == Cons(Open, r)
           open == Position(t, Open)
           close == Position(t, Close)
           q == Position(r, Close)
<1>1. Open \in Alphabet /\ Close \in Alphabet /\ Open # Close
  BY Tokenized DEF Open, Close
<1>2. t \in Text
  BY <1>1, FirstOf
<1>3. open = 1 /\ close = IF q = 0 THEN 0 ELSE q + 1
  BY <1>1, PositionTwo
<1>4. close # 0
  <2>1. Position(x \o One(Close), Close) # 0
    BY <1>1, LastFound
  <2> QED BY <2>1
<1>5. q \in 1..Len(r) /\ close = q + 1
  BY <1>3, <1>4, PositionSays
<1>6. SubSeq(t, 1 + 1, q) = SubSeq(r, 1, q - 1)
  BY <1>1, <1>5, ConsRest
<1>7. Before(r) = SubSeq(r, 1, q - 1)
  BY <1>3, <1>4 DEF Before
<1>8. ParseQuotedIdentifierList(t) =
        IF open = 0 \/ close <= open THEN <<>> ELSE Names(SubSeq(t, open + 1, close - 1))
  BY DEF ParseQuotedIdentifierList, Open, Close
<1>9. Len(r) \in Nat
  BY Joined
<1> HIDE DEF t, open, close, q
<1>10. open # 0 /\ ~(close <= open) /\ open + 1 = 1 + 1 /\ close - 1 = q
  BY <1>3, <1>5, <1>9
<1>11. SubSeq(t, open + 1, close - 1) = Before(r)
  BY <1>6, <1>7, <1>10
<1>12. ParseQuotedIdentifierList(t) = Names(Before(r))
  BY <1>8, <1>10, <1>11
<1> QED BY <1>12 DEF t

\* The list as the server writes it.
LEMMA ListWritten ==
  ASSUME NEW n \in Text, NEW m \in Text
  PROVE  LET x == One(Open) \o QuoteIdentifier(n) \o One(Comma) \o QuoteIdentifier(m)
         IN /\ x \in Text
            /\ x \o One(Close) =
                 Cons(Open, Quoted(n, Backtick, Cons(Comma, Quoted(m, Backtick, One(Close)))))
<1> DEFINE o == One(Open)
           a == QuoteIdentifier(n)
           k == One(Comma)
           b == QuoteIdentifier(m)
           c == One(Close)
           oa == o \o a
           oak == oa \o k
           x == oak \o b
           bc == b \o c
           kbc == k \o bc
           akbc == a \o kbc
<1>1. Open \in Alphabet /\ Close \in Alphabet /\ Comma \in Alphabet
  BY Tokenized DEF Alphabet
<1>2. o \in Text /\ k \in Text /\ c \in Text
  BY <1>1, OneText
<1>3. a \in Text /\ b \in Text
  <2>1. <<>> \in Text
    BY EmptyText
  <2> QED BY <2>1, QuoteIdentifierQuotes
<1>c. \A v \in Text : a \o v = Quoted(n, Backtick, v) /\ b \o v = Quoted(m, Backtick, v)
  BY QuoteIdentifierQuotes
<1>d. \A v : o \o v = Cons(Open, v) /\ k \o v = Cons(Comma, v)
  BY ConsIs
<1> HIDE DEF o, a, k, b, c
<1>4. oa \in Text /\ bc \in Text
  BY <1>2, <1>3, Joined
<1> HIDE DEF oa
<1>5. oak \in Text /\ kbc \in Text
  BY <1>2, <1>4, Joined
<1> HIDE DEF oak
<1>6. x \in Text
  BY <1>3, <1>5, Joined
<1>7. x \o c = oak \o bc
  <2>1. Then(Then(oak, b), c) = Then(oak, Then(b, c))
    BY <1>2, <1>3, <1>5, ThenGroups
  <2> QED BY <2>1 DEF Then
<1> HIDE DEF bc
<1>8. oak \o bc = oa \o kbc
  <2>1. Then(Then(oa, k), bc) = Then(oa, Then(k, bc))
    BY <1>2, <1>4, ThenGroups
  <2> QED BY <2>1 DEF Then, oak
<1> HIDE DEF kbc
<1>9. oa \o kbc = o \o akbc
  <2>1. Then(Then(o, a), kbc) = Then(o, Then(a, kbc))
    BY <1>2, <1>3, <1>5, ThenGroups
  <2> QED BY <2>1 DEF Then, oa
<1>10. bc = Quoted(m, Backtick, c)
  BY <1>2, <1>c DEF bc
<1>11. kbc = Cons(Comma, bc)
  BY <1>d DEF kbc
<1>12. akbc = Quoted(n, Backtick, kbc)
  BY <1>5, <1>c
<1> HIDE DEF akbc
<1>13. x \o c = Cons(Open, Quoted(n, Backtick, Cons(Comma, Quoted(m, Backtick, c))))
  BY <1>7, <1>8, <1>9, <1>10, <1>11, <1>12, <1>d
<1> QED BY <1>6, <1>13 DEF x, oak, oa, o, a, k, b, c

\* Before the first closing parenthesis of a quoted name and a text.
LEMMA BeforeQuoted ==
  ASSUME NEW m \in Text, NEW w \in Text
  PROVE  IF Close \in ToSet(m)
         THEN \E p \in Text :
                Before(Quoted(m, Backtick, w)) = Cons(Backtick, Spelled(p, Backtick, <<>>))
         ELSE Before(Quoted(m, Backtick, w)) = Quoted(m, Backtick, Before(w))
<1> DEFINE v == Cons(Backtick, w)
           s == Spelled(m, Backtick, v)
<1>1. Backtick \in Alphabet /\ Backtick # Close
  BY Tokenized DEF Backtick, Close
<1>2. v \in Text /\ Before(v) = Cons(Backtick, Before(w))
  BY <1>1, FirstOf, BeforeCons
<1> HIDE DEF v
<1>3. s \in Text
  BY <1>1, <1>2, SpelledFirst
<1>4. IF Close \in ToSet(m) THEN CutsIn(m, v) ELSE CutsAfter(m, v)
  BY <1>2, BeforeAcross
<1>5. Quoted(m, Backtick, w) = Cons(Backtick, s)
  BY DEF Quoted, v
<1>6. CutsIn(m, v) => \E p \in Text : Before(s) = Spelled(p, Backtick, <<>>)
  BY DEF CutsIn
<1>7. CutsAfter(m, v) => Before(s) = Spelled(m, Backtick, Cons(Backtick, Before(w)))
  BY <1>2 DEF CutsAfter
<1> HIDE DEF s
<1>8. Before(Quoted(m, Backtick, w)) = Cons(Backtick, Before(s))
  BY <1>1, <1>3, <1>5, BeforeCons
<1> QED BY <1>4, <1>6, <1>7, <1>8 DEF Quoted

(* Whatever tokens the names of two referenced columns consist of, either   *)
(* both are read as they are, or the list is unknown, and then one of them  *)
(* has a closing parenthesis.                                              *)
THEOREM ColumnsAreNeverCutShort == Spec => []ColumnsNeverCutShort
<1>1. Typed => ColumnsNeverCutShort
  <2> SUFFICES ASSUME Typed, name # <<>>, comment # <<>>
               PROVE  LET read == ParseQuotedIdentifierList(
                             <<"(">> \o QuoteIdentifier(name) \o <<",">>
                                \o QuoteIdentifier(comment) \o <<")">>)
                      IN read = <<name, comment>>
                           \/ (read = <<>> /\ ")" \in ToSet(name \o comment))
    BY DEF ColumnsNeverCutShort
  <2> DEFINE x == One(Open) \o QuoteIdentifier(name) \o One(Comma) \o QuoteIdentifier(comment)
             l == One(Close)
             v == Quoted(comment, Backtick, l)
             w == Cons(Comma, v)
             r == Quoted(name, Backtick, w)
             read == ParseQuotedIdentifierList(x \o l)
  <2>1. name \in Text /\ comment \in Text
    BY TypedText
  <2>2. /\ Backtick \in Alphabet /\ Comma \in Alphabet /\ Close \in Alphabet
        /\ Comma # Close /\ <<>> \in Text
    BY Tokenized, EmptyText DEF Alphabet, Comma, Close
  <2>3. x \in Text /\ x \o l = Cons(Open, r)
    BY <2>1, ListWritten
  <2> HIDE DEF x
  <2>4. l \in Text /\ Before(l) = <<>>
    <3>1. l = Cons(Close, <<>>) /\ l \in Text
      BY <2>2, OneText, ConsIs, Joined
    <3> QED BY <2>2, <3>1, BeforeCons
  <2> HIDE DEF l
  <2>5. v \in Text /\ w \in Text
    <3>1. v \in Text
      BY <2>1, <2>2, <2>4, QuotedText
    <3> HIDE DEF v
    <3> QED BY <2>2, <3>1, FirstOf
  <2>6. IF Close \in ToSet(comment)
        THEN \E p \in Text : Before(v) = Cons(Backtick, Spelled(p, Backtick, <<>>))
        ELSE Before(v) = Quoted(comment, Backtick, <<>>)
    BY <2>1, <2>4, BeforeQuoted
  <2> HIDE DEF v
  <2>7. Before(w) = Cons(Comma, Before(v))
    BY <2>2, <2>5, BeforeCons
  <2> HIDE DEF w
  <2>8. IF Close \in ToSet(name)
        THEN \E p \in Text : Before(r) = Cons(Backtick, Spelled(p, Backtick, <<>>))
        ELSE Before(r) = Quoted(name, Backtick, Before(w))
    BY <2>1, <2>5, BeforeQuoted
  <2>9. r \in Text
    BY <2>1, <2>2, <2>5, QuotedText
  <2> HIDE DEF r
  <2>10. read = Names(Before(r))
    BY <2>3, <2>9, ParsedList DEF l
  <2> HIDE DEF read
  <2>11. ToSet(name \o comment) = ToSet(name) \cup ToSet(comment)
    <3>1. name \in Seq(Alphabet) /\ comment \in Seq(Alphabet)
      BY <2>1 DEF Text
    <3> QED BY <3>1, ToSetConcat
  <2>12. CASE Close \in ToSet(name)
    <3>1. Names(Before(r)) = <<>>
      BY <2>8, <2>12, CutNameUnknown
    <3>2. read = <<>> /\ Close \in ToSet(name \o comment)
      BY <2>10, <2>11, <2>12, <3>1
    <3> QED BY <3>2 DEF read, x, l, One, Open, Close, Comma
  <2>13. CASE Close \notin ToSet(name) /\ Close \in ToSet(comment)
    <3>1. PICK p \in Text : Before(v) = Cons(Backtick, Spelled(p, Backtick, <<>>))
      BY <2>6, <2>13
    <3>2. Before(r) = Quoted(name, Backtick,
                        Cons(Comma, Cons(Backtick, Spelled(p, Backtick, <<>>))))
      BY <2>7, <2>8, <2>13, <3>1
    <3>3. Names(Before(r)) = <<>>
      BY <2>1, <3>2, CutListUnknown
    <3>4. read = <<>> /\ Close \in ToSet(name \o comment)
      BY <2>10, <2>11, <2>13, <3>3
    <3> QED BY <3>4 DEF read, x, l, One, Open, Close, Comma
  <2>14. CASE Close \notin ToSet(name) /\ Close \notin ToSet(comment)
    <3>1. Before(r) = Quoted(name, Backtick, Cons(Comma, Quoted(comment, Backtick, <<>>)))
      BY <2>6, <2>7, <2>8, <2>14
    <3>2. read = <<name, comment>>
      BY <2>1, <2>10, <3>1, TwoNamesRead
    <3> QED BY <3>2 DEF read, x, l, One, Open, Close, Comma
  <2> QED BY <2>12, <2>13, <2>14
<1> QED BY <1>1, TypedInit, TypedNext, PTL DEF Spec
-----------------------------------------------------------------------------
(* A text in lines, token by token.                                        *)

Split(lines, t) ==
  IF t = Break THEN Append(lines, <<>>) ELSE [lines EXCEPT ![Len(lines)] = Append(@, t)]

LinesDomain(text) == SUBSET DOMAIN text
LinesRank(text, places) == Cardinality(places)
LinesDef(text, f, places) ==
  IF places = {} THEN << <<>> >>
  ELSE Split(f[places \ {Max(places)}], text[Max(places)])

LinesRec == INSTANCE Recursion WITH S <- LinesDomain, Rank <- LinesRank, Def <- LinesDef

\* The lines of the tokens at some places.
LinesOf(text) ==
  CHOOSE f : f = [places \in SUBSET DOMAIN text |->
                    IF places = {} THEN << <<>> >>
                    ELSE Split(f[places \ {Max(places)}], text[Max(places)])]

\* The lines of the first n tokens.
LinesAt(text, n) == LinesOf(text)[1..n]

LEMMA GreatestPlace ==
  ASSUME NEW n \in Nat, n # 0
  PROVE  Max(1..n) = n /\ (1..n) \ {n} = 1..(n - 1)
BY DEF Max

LEMMA LinesSteps ==
  ASSUME NEW text \in Text
  PROVE  /\ Lines(text) = LinesAt(text, Len(text))
         /\ LinesAt(text, 0) = << <<>> >>
         /\ \A n \in 1..Len(text) : LinesAt(text, n) = Split(LinesAt(text, n - 1), text[n])
<1> DEFINE D == DOMAIN text
           F == LinesOf(text)
<1>1. D = 1..Len(text) /\ Len(text) \in Nat
  BY DEF Text
<1>2. IsFiniteSet(D)
  BY <1>1, FS_Interval
<1> HIDE DEF D
<1>3. \A s \in SUBSET D : IsFiniteSet(s) /\ Cardinality(s) \in Nat
  BY <1>2, FS_Subset, FS_CardinalityType
<1>4. \A s \in SUBSET D : s # {} => Cardinality(s \ {Max(s)}) < Cardinality(s)
  <2> SUFFICES ASSUME NEW s \in SUBSET D, s # {}
               PROVE  Cardinality(s \ {Max(s)}) < Cardinality(s)
    OBVIOUS
  <2>1. Max(s) \in s
    BY <1>1, GreatestMember
  <2>2. Cardinality(s \ {Max(s)}) = Cardinality(s) - 1
    BY <1>3, <2>1, FS_RemoveElement
  <2> QED BY <1>3, <2>2
<1>5. LinesRec!WellDefined(text)
  <2>1. \A s \in SUBSET D : s # {} => s \ {Max(s)} \in SUBSET D
    OBVIOUS
  <2>2. ASSUME NEW f, NEW g, NEW s \in SUBSET D,
               \A y \in SUBSET D : Cardinality(y) < Cardinality(s) => f[y] = g[y]
        PROVE  LinesDef(text, f, s) = LinesDef(text, g, s)
    <3>1. s # {} => f[s \ {Max(s)}] = g[s \ {Max(s)}]
      BY <1>4, <2>1, <2>2
    <3> QED BY <3>1 DEF LinesDef
  <2> QED BY <1>3, <2>2 DEF LinesRec!WellDefined, LinesDomain, LinesRank, D
<1>6. \E f : f = [s \in SUBSET D |-> LinesDef(text, f, s)]
  BY <1>5, LinesRec!Recurse, Induct DEF LinesRec!Inductive, LinesDomain, D
<1>7. F = [s \in SUBSET D |-> IF s = {} THEN << <<>> >>
                             ELSE Split(F[s \ {Max(s)}], text[Max(s)])]
  BY <1>6 DEF LinesOf, LinesDef, D
<1>8. Lines(text) = F[D]
  BY DEF Lines, FoldLeft, MapThenFoldSet, LinesOf, Split, Break, D
<1> HIDE DEF F
<1>9. \A s \in SUBSET D : F[s] = IF s = {} THEN << <<>> >>
                                 ELSE Split(F[s \ {Max(s)}], text[Max(s)])
  BY <1>7
<1>10. \A n : LinesAt(text, n) = F[1..n]
  BY DEF LinesAt, F
<1>11. F[1..0] = << <<>> >>
  <2>1. 1..0 = {} /\ {} \in SUBSET D
    OBVIOUS
  <2> QED BY <1>9, <2>1
<1>12. \A n \in 1..Len(text) : F[1..n] = Split(F[1..(n - 1)], text[n])
  <2> SUFFICES ASSUME NEW n \in 1..Len(text) PROVE F[1..n] = Split(F[1..(n - 1)], text[n])
    OBVIOUS
  <2>1. n \in Nat /\ n # 0 /\ 1..n \in SUBSET D /\ 1..n # {}
    <3>1. n \in Nat /\ n # 0 /\ n \in 1..n /\ 1..n \subseteq 1..Len(text)
      BY <1>1
    <3> QED BY <1>1, <3>1
  <2>2. Max(1..n) = n /\ (1..n) \ {n} = 1..(n - 1)
    BY <2>1, GreatestPlace
  <2> QED BY <1>9, <2>1, <2>2
<1> QED BY <1>1, <1>8, <1>10, <1>11, <1>12
\* The first tokens of a text are read as if they were the whole of it.
SameLines(e, n) == n <= Len(e.u) => LinesAt(e.v, n) = LinesAt(e.u, n)

LEMMA LinesOneMore ==
  ASSUME NEW u \in Text, NEW c \in Alphabet
  PROVE  Lines(u \o One(c)) = Split(Lines(u), c)
<1> DEFINE v == u \o One(c)
           e == [u |-> u, v |-> v]
<1>1. /\ v \in Text /\ Len(u) \in Nat /\ Len(v) = Len(u) + 1 /\ v[Len(v)] = c
      /\ \A i \in 1..Len(u) : v[i] = u[i]
  BY DEF Text, One
<1>e. e.u = u /\ e.v = v
  OBVIOUS
<1> HIDE DEF v, e
<1>2. SameLines(e, 0)
  BY <1>1, <1>e, LinesSteps DEF SameLines
<1>3. ASSUME NEW n \in Nat, SameLines(e, n) PROVE SameLines(e, n + 1)
  <2> SUFFICES ASSUME n + 1 <= Len(u) PROVE LinesAt(v, n + 1) = LinesAt(u, n + 1)
    BY <1>e DEF SameLines
  <2>1. n + 1 \in 1..Len(u) /\ n + 1 \in 1..Len(v) /\ (n + 1) - 1 = n /\ n <= Len(u)
    BY <1>1
  <2>2. LinesAt(v, n) = LinesAt(u, n)
    BY <1>3, <1>e, <2>1 DEF SameLines
  <2>3. LinesAt(v, n + 1) = Split(LinesAt(v, n), v[n + 1])
    BY <1>1, <2>1, LinesSteps
  <2>4. LinesAt(u, n + 1) = Split(LinesAt(u, n), u[n + 1])
    BY <2>1, LinesSteps
  <2> QED BY <1>1, <2>1, <2>2, <2>3, <2>4
<1>4. \A n \in Nat : SameLines(e, n)
  <2> DEFINE W == {n \in Nat : SameLines(e, n)}
  <2>1. 0 \in W /\ \A n \in Nat : n \in W => n + 1 \in W
    BY <1>2, <1>3
  <2> HIDE DEF W
  <2>2. Nat \subseteq W
    BY <2>1, Induct
  <2> QED BY <2>2 DEF W
<1>5. LinesAt(v, Len(u)) = LinesAt(u, Len(u))
  BY <1>1, <1>4, <1>e DEF SameLines
<1>6. Len(v) \in 1..Len(v) /\ Len(v) - 1 = Len(u)
  BY <1>1
<1>7. Lines(v) = Split(LinesAt(v, Len(u)), c)
  BY <1>1, <1>6, LinesSteps
<1>8. Lines(u) = LinesAt(u, Len(u))
  BY LinesSteps
<1> QED BY <1>5, <1>7, <1>8 DEF v

\* A text without a line break.
Unbroken(w) == Break \notin ToSet(w)

\* The lines of a text: the last one, and those before it.
Ending(u, done, line) == Lines(u) = Append(done, line)

LEMMA SplitEnd ==
  ASSUME NEW done \in Seq(Text), NEW line \in Text, NEW c \in Alphabet
  PROVE  /\ c = Break => Split(Append(done, line), c) = Append(Append(done, line), <<>>)
         /\ c # Break => Split(Append(done, line), c) = Append(done, line \o One(c))
<1> DEFINE ls == Append(done, line)
           new == line \o One(c)
           changed == [ls EXCEPT ![Len(ls)] = new]
<1>1. new = Append(line, c) /\ new \in Text
  BY DEF One, Text
<1> HIDE DEF new
<1>2. changed = Append(done, new)
  <2> DEFINE n == Len(done) + 1
             more == Append(done, new)
  <2>1. /\ n \in Nat /\ ls \in Seq(Text) /\ Len(ls) = n
        /\ more \in Seq(Text) /\ Len(more) = n /\ more[n] = new
        /\ \A i \in 1..n : i # n => more[i] = ls[i]
    BY <1>1
  <2> HIDE DEF ls, more, n
  <2>2. changed = [i \in 1..n |-> IF i = n THEN new ELSE ls[i]]
    <3>1. changed = [i \in DOMAIN ls |-> IF i = Len(ls) THEN new ELSE ls[i]]
      OBVIOUS
    <3>2. DOMAIN ls = 1..n
      BY <2>1
    <3> QED BY <2>1, <3>1, <3>2
  <2>3. more = [i \in 1..n |-> more[i]]
    BY <2>1
  <2>4. more = [i \in 1..n |-> IF i = n THEN new ELSE ls[i]]
    BY <2>1, <2>3
  <2> QED BY <2>2, <2>4 DEF more
<1>3. ls[Len(ls)] = line
  OBVIOUS
<1>4. [ls EXCEPT ![Len(ls)] = Append(@, c)] = changed
  BY <1>1, <1>3
<1> QED BY <1>2, <1>4 DEF Split, new

LinesHold(e, n) ==
  \A u \in Text : \A w \in Text : \A done \in Seq(Text) : \A line \in Text :
    Len(w) = n /\ Unbroken(w) /\ Ending(u, done, line) => Ending(u \o w, done, line \o w)

\* What has no line break belongs to the last line.
LEMMA LineGrows ==
  ASSUME NEW u \in Text, NEW w \in Text, NEW done \in Seq(Text), NEW line \in Text,
         Unbroken(w), Ending(u, done, line)
  PROVE  Ending(u \o w, done, line \o w)
<1>1. LinesHold(0, 0)
  <2> SUFFICES ASSUME NEW x \in Text, NEW y \in Text, NEW d \in Seq(Text), NEW l \in Text,
                      Len(y) = 0, Ending(x, d, l)
               PROVE  Ending(x \o y, d, l \o y)
    BY DEF LinesHold
  <2>1. y = <<>> /\ x \o <<>> = x /\ l \o <<>> = l
    BY NoTokens, Joined
  <2> QED BY <2>1
<1>2. ASSUME NEW n \in Nat, LinesHold(0, n) PROVE LinesHold(0, n + 1)
  <2> SUFFICES ASSUME NEW x \in Text, NEW y \in Text, NEW d \in Seq(Text), NEW l \in Text,
                      Len(y) = n + 1, Unbroken(y), Ending(x, d, l)
               PROVE  Ending(x \o y, d, l \o y)
    BY DEF LinesHold
  <2> DEFINE c == Head(y)
             z == Tail(y)
             one == One(c)
             xc == x \o one
             lc == l \o one
  <2>1. c \in Alphabet /\ z \in Text /\ Len(z) = n /\ y = Cons(c, z)
    BY HeadAndTail
  <2>2. c # Break /\ Unbroken(z)
    <3>1. ToSet(y) = {c} \cup ToSet(z)
      BY <2>1, ToSetCons
    <3> QED BY <3>1 DEF Unbroken
  <2> HIDE DEF c, z
  <2>3. one \in Text
    BY <2>1, OneText
  <2>4. y = one \o z
    BY <2>1, ConsIs
  <2>5. Ending(xc, d, lc)
    <3>1. Lines(xc) = Split(Lines(x), c)
      BY <2>1, LinesOneMore
    <3>2. Split(Append(d, l), c) = Append(d, lc)
      BY <2>1, <2>2, SplitEnd
    <3> HIDE DEF xc, lc
    <3> QED BY <3>1, <3>2 DEF Ending
  <2>6. xc \in Text /\ lc \in Text
    BY <2>3, Joined
  <2>7. xc \o z = x \o y /\ lc \o z = l \o y
    <3> HIDE DEF one
    <3>1. Then(Then(x, one), z) = Then(x, Then(one, z))
      BY <2>1, <2>3, ThenGroups
    <3>2. Then(Then(l, one), z) = Then(l, Then(one, z))
      BY <2>1, <2>3, ThenGroups
    <3> QED BY <2>4, <3>1, <3>2 DEF Then
  <2> HIDE DEF xc, lc
  <2> QED BY <1>2, <2>1, <2>2, <2>5, <2>6, <2>7 DEF LinesHold
<1>3. \A n \in Nat : LinesHold(0, n)
  <2> DEFINE W == {n \in Nat : LinesHold(0, n)}
  <2>1. 0 \in W /\ \A n \in Nat : n \in W => n + 1 \in W
    BY <1>1, <1>2
  <2> HIDE DEF W
  <2>2. Nat \subseteq W
    BY <2>1, Induct
  <2> QED BY <2>2 DEF W
<1>4. Len(w) \in Nat
  BY Joined
<1> QED BY <1>3, <1>4 DEF LinesHold

\* A line break begins an empty line, and what follows grows it.
LEMMA LineBegins ==
  ASSUME NEW u \in Text, NEW w \in Text, NEW done \in Seq(Text), NEW line \in Text,
         Unbroken(w), Ending(u, done, line)
  PROVE  Ending(u \o (One(Break) \o w), Append(done, line), w)
<1> DEFINE b == One(Break)
           ub == u \o b
           more == Append(done, line)
<1>1. Break \in Alphabet /\ <<>> \in Text /\ more \in Seq(Text)
  BY EmptyText DEF Alphabet
<1>2. b \in Text
  BY <1>1, OneText
<1>3. Lines(ub) = Split(Lines(u), Break)
  BY <1>1, LinesOneMore
<1>4. Split(more, Break) = Append(more, <<>>)
  BY <1>1, SplitEnd
<1>5. ub \in Text /\ ub \o w = u \o (b \o w) /\ <<>> \o w = w
  <2> HIDE DEF b
  <2>1. Then(Then(u, b), w) = Then(u, Then(b, w)) /\ Then(u, b) \in Text
    BY <1>2, ThenGroups
  <2>2. <<>> \o w = w
    BY Joined
  <2> QED BY <2>1, <2>2 DEF Then
<1> HIDE DEF ub, b
<1>6. Ending(ub, more, <<>>)
  <2> HIDE DEF more
  <2>1. Lines(u) = more
    BY DEF Ending, more
  <2> QED BY <1>3, <1>4, <2>1 DEF Ending
<1> HIDE DEF more
<1>7. Ending(ub \o w, more, <<>> \o w)
  BY <1>1, <1>5, <1>6, LineGrows
<1> QED BY <1>5, <1>7 DEF more, b
LEMMA UnbrokenJoined ==
  ASSUME NEW u \in Text, NEW v \in Text, Unbroken(u), Unbroken(v)
  PROVE  Unbroken(u \o v)
<1>1. u \in Seq(Alphabet) /\ v \in Seq(Alphabet)
  BY DEF Text
<1>2. ToSet(u \o v) = ToSet(u) \cup ToSet(v)
  BY <1>1, ToSetConcat
<1> QED BY <1>2 DEF Unbroken

LEMMA UnbrokenOne ==
  ASSUME NEW c \in Alphabet, c # Break
  PROVE  One(c) \in Text /\ Unbroken(One(c))
<1>1. ToSet(<<c>>) = {c}
  BY ToSetSingle
<1>2. One(c) \in Text
  BY OneText
<1> QED BY <1>1, <1>2 DEF Unbroken, One

\* Doubling brings in no token of its own.
LEMMA UnbrokenDoubled ==
  ASSUME NEW m \in Text, Unbroken(m), NEW quote \in Alphabet
  PROVE  Unbroken(Doubled(m, quote)) /\ Doubled(m, quote) \in Text
<1> DEFINE S == ToSet(m)
           ss == [i \in DOMAIN m |-> IF m[i] = quote THEN <<quote, quote>> ELSE <<m[i]>>]
<1>1. m \in Seq(Alphabet)
  BY DEF Text
<1>2. m \in Seq(S)
  BY <1>1, SeqOwn
<1>3. Doubled(m, quote) = FlattenSeq(ss)
  BY DEF Doubled
<1>4. DOMAIN m = 1..Len(m) /\ Len(m) \in Nat /\ \A i \in 1..Len(m) : m[i] \in S
  BY <1>2
<1> HIDE DEF S
<1>5. \A i \in 1..Len(m) : ss[i] \in Seq(S)
  BY <1>4
<1>6. ss \in Seq(Seq(S))
  <2>1. ss = [i \in 1..Len(m) |-> ss[i]]
    BY <1>4
  <2> HIDE DEF ss
  <2> QED BY <1>4, <1>5, <2>1
<1> HIDE DEF ss
<1>7. FlattenSeq(ss) \in Seq(S)
  BY <1>6, FlattenMembers
<1>8. ToSet(FlattenSeq(ss)) \subseteq S
  BY <1>7, ToSetSeq
<1>9. Doubled(m, quote) \in Text
  BY DoubledCons
<1> QED BY <1>3, <1>8, <1>9 DEF Unbroken, S

-----------------------------------------------------------------------------
(* The clauses of a statement are read back as they were written.          *)

\* A text whose last token stays when commas are removed from its end.
Finished(u) == \E v \in Text : \E d \in Alphabet \ {Comma, Semicolon} : u = v \o One(d)

\* A clause that can stand on a line.
Whole(u) == u \in Text /\ Unbroken(u) /\ Finished(u)

LEMMA WholeOne ==
  ASSUME NEW c \in Alphabet \ {Comma, Semicolon, Break}
  PROVE  Whole(One(c))
<1>1. One(c) \in Text /\ Unbroken(One(c))
  BY UnbrokenOne
<1>2. One(c) = <<>> \o One(c) /\ <<>> \in Text
  BY <1>1, Joined, EmptyText
<1> QED BY <1>1, <1>2 DEF Whole, Finished

LEMMA WholeAfter ==
  ASSUME NEW u \in Text, Unbroken(u), NEW v, Whole(v)
  PROVE  Whole(u \o v)
<1>1. v \in Text /\ Unbroken(v)
  BY DEF Whole
<1>2. PICK p \in Text, d \in Alphabet \ {Comma, Semicolon} : v = p \o One(d)
  BY DEF Whole, Finished
<1>3. One(d) \in Text /\ u \o p \in Text
  BY OneText, Joined
<1>4. u \o (p \o One(d)) = (u \o p) \o One(d)
  <2>1. Then(Then(u, p), One(d)) = Then(u, Then(p, One(d)))
    BY <1>3, ThenGroups
  <2> QED BY <2>1 DEF Then
<1>5. Finished(u \o v)
  BY <1>2, <1>3, <1>4 DEF Finished
<1>6. u \o v \in Text /\ Unbroken(u \o v)
  BY <1>1, Joined, UnbrokenJoined
<1> QED BY <1>5, <1>6 DEF Whole

LEMMA WholeCons ==
  ASSUME NEW c \in Alphabet \ {Break}, NEW v, Whole(v)
  PROVE  Whole(Cons(c, v))
<1>1. One(c) \in Text /\ Unbroken(One(c))
  BY UnbrokenOne
<1> HIDE DEF Whole
<1>2. Whole(One(c) \o v)
  BY <1>1, WholeAfter
<1> QED BY <1>2, ConsIs

LEMMA WholeNames ==
  ASSUME NEW m \in Text, Unbroken(m)
  PROVE  Whole(QuoteIdentifier(m)) /\ Whole(Literal(m))
<1> DEFINE b == One(Backtick)
           a == One(Apostrophe)
           d == Doubled(m, Backtick)
           e == Doubled(m, Apostrophe)
           f == Doubled(e, Backslash)
<1>1. /\ Backtick \in Alphabet \ {Comma, Semicolon, Break}
      /\ Apostrophe \in Alphabet \ {Comma, Semicolon, Break}
      /\ Backslash \in Alphabet
  BY Tokenized DEF Alphabet, Backtick, Apostrophe, Comma, Semicolon, Break
<1>3. b \in Text /\ a \in Text /\ Unbroken(a) /\ Unbroken(b)
  BY <1>1, UnbrokenOne
<1>4. d \in Text /\ e \in Text /\ Unbroken(d) /\ Unbroken(e)
  BY <1>1, UnbrokenDoubled
<1> HIDE DEF e
<1>5. f \in Text /\ Unbroken(f)
  BY <1>1, <1>4, UnbrokenDoubled
<1>6. QuoteIdentifier(m) = (b \o d) \o b
  BY DEF QuoteIdentifier, One
<1>7. Literal(m) = (a \o f) \o a
  BY DEF Literal, One, Backslash, e
<1>8. Whole(a) /\ Whole(b)
  BY <1>1, WholeOne
<1> HIDE DEF a, b, d, f
<1>9. b \o d \in Text /\ Unbroken(b \o d)
  BY <1>3, <1>4, Joined, UnbrokenJoined
<1>10. a \o f \in Text /\ Unbroken(a \o f)
  BY <1>3, <1>5, Joined, UnbrokenJoined
<1>11. Whole((b \o d) \o b)
  BY <1>8, <1>9, WholeAfter
<1>12. Whole((a \o f) \o a)
  BY <1>8, <1>10, WholeAfter
<1> QED BY <1>6, <1>7, <1>11, <1>12

LEMMA TrimmedClause ==
  ASSUME NEW u \in Text, Finished(u), NEW c \in {Comma, Semicolon}
  PROVE  TrimmedRight(u \o One(c)) = u /\ u # <<>>
<1> DEFINE t == u \o One(c)
           kept == {i \in 1..Len(t) : t[i] \notin {Comma, Semicolon}}
<1>1. PICK v \in Text, d \in Alphabet \ {Comma, Semicolon} : u = v \o One(d)
  BY DEF Finished
<1>2. Len(u) \in Nat /\ Len(u) # 0 /\ u[Len(u)] = d /\ u # <<>> /\ u \in Seq(Alphabet)
  BY <1>1 DEF One, Text
<1>3. c \in Alphabet
  BY DEF Alphabet
<1>4. /\ Len(t) = Len(u) + 1 /\ t[Len(u) + 1] = c /\ t \in Seq(Alphabet)
      /\ \A i \in 1..Len(u) : t[i] = u[i]
  BY <1>2, <1>3 DEF One
<1>5. Len(u) \in kept /\ \A i \in kept : i <= Len(u)
  <2> HIDE DEF t
  <2>1. Len(u) \in 1..Len(t) /\ t[Len(u)] = d
    BY <1>2, <1>4
  <2>2. \A i \in kept : i \in 1..Len(t) /\ i # Len(u) + 1
    BY <1>4
  <2> QED BY <1>1, <1>2, <1>4, <2>1, <2>2
<1>6. kept \in SUBSET (1..(Len(u) + 1))
  BY <1>4
<1>7. SelectLastInSeq(t, LAMBDA x : x \notin {",", ";"}) = Max(kept)
  <2>1. kept # {}
    BY <1>5
  <2> QED BY <2>1 DEF SelectLastInSeq, Comma, Semicolon
<1>8. TrimmedRight(t) = SubSeq(t, 1, Max(kept))
  BY <1>7 DEF TrimmedRight
<1> HIDE DEF kept, t
<1>9. Max(kept) \in kept /\ \A y \in kept : Max(kept) >= y
  <2>1. Len(u) + 1 \in Nat /\ kept # {}
    BY <1>2, <1>5
  <2> QED BY <1>6, <2>1, GreatestMember
<1>10. Max(kept) = Len(u)
  <2>1. Max(kept) >= Len(u) /\ Max(kept) <= Len(u) /\ Max(kept) \in 1..(Len(u) + 1)
    BY <1>5, <1>6, <1>9
  <2> QED BY <1>2, <2>1
<1>11. SubSeq(t, 1, Len(u)) = u
  <2> DEFINE p == SubSeq(t, 1, Len(u))
  <2>1. p \in Seq(Alphabet) /\ Len(p) = Len(u) /\ \A i \in 1..Len(u) : p[i] = t[i]
    BY <1>2, <1>4
  <2> HIDE DEF p
  <2>2. p = [i \in 1..Len(u) |-> p[i]] /\ u = [i \in 1..Len(u) |-> u[i]]
    BY <1>2, <2>1
  <2>3. \A i \in 1..Len(u) : p[i] = u[i]
    BY <1>4, <2>1
  <2> QED BY <2>2, <2>3 DEF p
<1> QED BY <1>2, <1>8, <1>10, <1>11 DEF t

LEMMA TrimmedNothing == TrimmedRight(<<>>) = <<>>
BY DEF TrimmedRight, SelectLastInSeq
Separator(cs, i) == IF i = Len(cs) THEN Semicolon ELSE Comma
Line(cs, i) == cs[i] \o One(Separator(cs, i))
FirstLines(cs, n) == [i \in 1..n |-> Line(cs, i)]
Broken(cs) == [i \in DOMAIN cs |-> One(Break) \o Line(cs, i)]
Begun(n) == One(Alter) \o QuoteIdentifier(n)

Clauses(cs) ==
  /\ cs \in Seq(Text) /\ cs # <<>>
  /\ \A i \in 1..Len(cs) : Whole(cs[i])

LEMMA LineText ==
  ASSUME NEW cs, Clauses(cs), NEW i \in 1..Len(cs)
  PROVE  /\ cs[i] \in Text /\ Unbroken(cs[i]) /\ Finished(cs[i])
         /\ Line(cs, i) \in Text /\ Unbroken(Line(cs, i))
         /\ TrimmedRight(Line(cs, i)) = cs[i] /\ cs[i] # <<>>
<1> DEFINE s == Separator(cs, i)
           u == cs[i]
<1>1. u \in Text /\ Unbroken(u) /\ Finished(u)
  BY DEF Clauses, Whole
<1>2. s \in {Comma, Semicolon} /\ s \in Alphabet /\ s # Break
  BY DEF Separator, Comma, Semicolon, Break, Alphabet
<1> HIDE DEF s, u
<1>3. One(s) \in Text /\ Unbroken(One(s))
  BY <1>2, UnbrokenOne
<1>4. u \o One(s) \in Text /\ Unbroken(u \o One(s))
  BY <1>1, <1>3, Joined, UnbrokenJoined
<1>5. TrimmedRight(u \o One(s)) = u /\ u # <<>>
  BY <1>1, <1>2, TrimmedClause
<1> QED BY <1>1, <1>4, <1>5 DEF Line, s, u

LEMMA BegunText ==
  ASSUME NEW n \in Text, Unbroken(n)
  PROVE  /\ Begun(n) \in Text /\ Unbroken(Begun(n))
         /\ Head(Begun(n)) = Alter /\ First(Begun(n)) = Alter
         /\ Tail(Begun(n)) = QuoteIdentifier(n)
<1> DEFINE q == QuoteIdentifier(n)
<1>1. q \in Text /\ Unbroken(q)
  BY WholeNames DEF Whole
<1>2. Alter \in Alphabet /\ Alter # Break
  BY DEF Alphabet, Words, Alter, Break
<1>3. One(Alter) \in Text /\ Unbroken(One(Alter))
  BY <1>2, UnbrokenOne
<1> HIDE DEF q
<1>4. One(Alter) \o q \in Text /\ Unbroken(One(Alter) \o q)
  BY <1>1, <1>3, Joined, UnbrokenJoined
<1>5. First(Cons(Alter, q)) = Alter /\ Head(Cons(Alter, q)) = Alter /\ Tail(Cons(Alter, q)) = q
  BY <1>1, <1>2, FirstOf
<1> QED BY <1>4, <1>5, ConsIs DEF Begun, q

\* The statement as one text after the other.
LEMMA AlterTableIs ==
  ASSUME NEW n \in Text, Unbroken(n), NEW cs, Clauses(cs)
  PROVE  AlterTable(n, cs) = Begun(n) \o FlattenSeq(Broken(cs))
<1> DEFINE ss == [i \in DOMAIN cs |->
                    <<"\n">> \o cs[i] \o IF i = Len(cs) THEN <<";">> ELSE <<",">>]
<1>1. DOMAIN cs = 1..Len(cs) /\ Len(cs) \in Nat
  BY DEF Clauses
<1>2. \A i \in 1..Len(cs) : ss[i] = Broken(cs)[i]
  <2> SUFFICES ASSUME NEW i \in 1..Len(cs) PROVE ss[i] = Broken(cs)[i]
    OBVIOUS
  <2> DEFINE b == One(Break)
             s == One(Separator(cs, i))
             c == cs[i]
  <2>1. b \in Text /\ s \in Text /\ c \in Text
    <3>1. Break \in Alphabet /\ Separator(cs, i) \in Alphabet
      BY DEF Alphabet, Separator
    <3> QED BY <3>1, LineText, OneText
  <2>2. ss[i] = (b \o c) \o s
    <3>1. s = IF i = Len(cs) THEN <<";">> ELSE <<",">>
      BY DEF One, Separator, Comma, Semicolon
    <3>2. b = <<"\n">>
      BY DEF One, Break
    <3> HIDE DEF b, s
    <3> QED BY <1>1, <3>1, <3>2
  <2>3. Broken(cs)[i] = b \o (c \o s)
    BY <1>1 DEF Broken, Line
  <2> HIDE DEF b, s, c
  <2>4. (b \o c) \o s = b \o (c \o s)
    <3>1. Then(Then(b, c), s) = Then(b, Then(c, s))
      BY <2>1, ThenGroups
    <3> QED BY <3>1 DEF Then
  <2> QED BY <2>2, <2>3, <2>4
<1>3. ss = Broken(cs)
  <2>1. ss = [i \in 1..Len(cs) |-> ss[i]]
    BY <1>1
  <2>2. Broken(cs) = [i \in 1..Len(cs) |-> Broken(cs)[i]]
    BY <1>1 DEF Broken
  <2> HIDE DEF ss
  <2> QED BY <1>2, <2>1, <2>2
<1>4. AlterTable(n, cs) = <<"ALTER TABLE ">> \o QuoteIdentifier(n) \o FlattenSeq(ss)
  BY DEF AlterTable
<1> HIDE DEF ss
<1> QED BY <1>3, <1>4 DEF Begun, One, Alter
\* The lines of a statement up to a clause.
StatementHolds(e, n) ==
  n + 1 <= Len(e.cs) =>
    /\ e.h \o FlatPrefix(Broken(e.cs))[n + 1] \in Text
    /\ FlatPrefix(Broken(e.cs))[n + 1] \in Text
    /\ Ending(e.h \o FlatPrefix(Broken(e.cs))[n + 1],
              <<e.h>> \o FirstLines(e.cs, n), Line(e.cs, n + 1))

LEMMA FirstLinesMore ==
  ASSUME NEW h \in Text, NEW cs, Clauses(cs), NEW n \in Nat, n + 1 <= Len(cs)
  PROVE  /\ <<h>> \o FirstLines(cs, n) \in Seq(Text)
         /\ Append(<<h>> \o FirstLines(cs, n), Line(cs, n + 1)) = <<h>> \o FirstLines(cs, n + 1)
<1> DEFINE p == FirstLines(cs, n)
           q == FirstLines(cs, n + 1)
           l == Line(cs, n + 1)
           a == <<h>> \o p
           b == <<h>> \o q
           c == Append(a, l)
<1>0. Len(cs) \in Nat
  BY DEF Clauses
<1>1. \A i \in 1..(n + 1) : Line(cs, i) \in Text
  <2>1. \A i \in 1..(n + 1) : i \in 1..Len(cs)
    BY <1>0
  <2> QED BY <2>1, LineText
<1>2. l \in Text
  BY <1>1
<1>3. p \in Seq(Text) /\ Len(p) = n /\ \A i \in 1..n : p[i] = Line(cs, i)
  <2>1. \A i \in 1..n : Line(cs, i) \in Text
    BY <1>1
  <2> QED BY <2>1 DEF FirstLines
<1>4. q \in Seq(Text) /\ Len(q) = n + 1 /\ \A i \in 1..(n + 1) : q[i] = Line(cs, i)
  BY <1>1 DEF FirstLines
<1>l. l = Line(cs, n + 1)
  OBVIOUS
<1> HIDE DEF p, q, l
<1>5. a \in Seq(Text) /\ Len(a) = n + 1 /\ a[1] = h /\ \A i \in 1..n : a[i + 1] = p[i]
  BY <1>3
<1>6. b \in Seq(Text) /\ Len(b) = n + 2 /\ b[1] = h /\ \A i \in 1..(n + 1) : b[i + 1] = q[i]
  BY <1>4
<1> HIDE DEF a, b
<1>7. /\ c \in Seq(Text) /\ Len(c) = n + 2 /\ c[n + 2] = l
      /\ \A i \in 1..(n + 1) : c[i] = a[i]
  BY <1>2, <1>5
<1> HIDE DEF c
<1>8. \A i \in 1..(n + 2) : c[i] = b[i]
  <2> SUFFICES ASSUME NEW i \in 1..(n + 2) PROVE c[i] = b[i]
    OBVIOUS
  <2>1. CASE i = 1
    <3>1. 1 \in 1..(n + 1)
      OBVIOUS
    <3> QED BY <2>1, <3>1, <1>5, <1>6, <1>7
  <2>2. CASE i = n + 2
    <3>1. n + 1 \in 1..(n + 1) /\ (n + 1) + 1 = n + 2
      OBVIOUS
    <3>2. b[(n + 1) + 1] = q[n + 1]
      BY <3>1, <1>6
    <3> QED BY <2>2, <3>1, <3>2, <1>4, <1>7, <1>l
  <2>3. CASE i # 1 /\ i # n + 2
    <3>1. i - 1 \in 1..n /\ i - 1 \in 1..(n + 1) /\ (i - 1) + 1 = i /\ i \in 1..(n + 1)
      BY <2>3
    <3>2. a[(i - 1) + 1] = p[i - 1] /\ b[(i - 1) + 1] = q[i - 1]
      BY <3>1, <1>5, <1>6
    <3> QED BY <3>1, <3>2, <1>3, <1>4, <1>7
  <2> QED BY <2>1, <2>2, <2>3
<1>9. c = [i \in 1..(n + 2) |-> c[i]] /\ b = [i \in 1..(n + 2) |-> b[i]]
  BY <1>6, <1>7
<1>10. c = b
  BY <1>8, <1>9
<1> QED BY <1>5, <1>10 DEF a, b, c, p, q, l

LEMMA StatementLines ==
  ASSUME NEW n \in Text, Unbroken(n), NEW cs, Clauses(cs)
  PROVE  Lines(AlterTable(n, cs)) = <<Begun(n)>> \o FirstLines(cs, Len(cs))
<1> DEFINE h == Begun(n)
           ss == Broken(cs)
           F == FlatPrefix(ss)
           N == Len(cs)
           e == [h |-> h, cs |-> cs]
           L(k) == <<h>> \o FirstLines(cs, k)
<1>1. N \in Nat /\ N # 0 /\ DOMAIN cs = 1..N /\ Len(ss) = N
  BY DEF Clauses, Broken
<1>e. e.h = h /\ e.cs = cs
  OBVIOUS
<1>h. h \in Text /\ Unbroken(h)
  BY BegunText
<1>l. \A i \in 1..N : Line(cs, i) \in Text /\ Unbroken(Line(cs, i))
  BY LineText
<1>s. \A i \in 1..N : ss[i] = One(Break) \o Line(cs, i) /\ ss[i] \in Text
  <2>1. Break \in Alphabet
    BY DEF Alphabet
  <2>2. One(Break) \in Text
    BY <2>1, OneText
  <2>3. \A i \in 1..N : One(Break) \o Line(cs, i) \in Text
    BY <1>l, <2>2, Joined
  <2> QED BY <1>1, <2>3 DEF Broken
<1>f. F = [i \in 1..N |-> IF i = 1 THEN ss[i] ELSE F[i - 1] \o ss[i]]
  <2> HIDE DEF ss
  <2> QED BY <1>1, FlattenUnfold
<1>m. \A k \in Nat : k + 1 <= N => L(k) \in Seq(Text) /\ Append(L(k), Line(cs, k + 1)) = L(k + 1)
  BY <1>h, FirstLinesMore
<1> HIDE DEF e, F, N, ss, h
<1>d. \A k : StatementHolds(e, k) <=>
        (k + 1 <= N => h \o F[k + 1] \in Text /\ F[k + 1] \in Text /\ Ending(h \o F[k + 1], L(k), Line(cs, k + 1)))
  BY <1>e DEF StatementHolds, F, N, ss
<1>0. L(0) = <<h>> /\ <<>> \in Seq(Text)
  BY DEF FirstLines
<1>b. Ending(h, <<>>, h)
  <2>1. Lines(<<>>) = << <<>> >>
    BY EmptyText, LinesSteps
  <2>2. Ending(<<>>, <<>>, <<>>)
    BY <2>1 DEF Ending
  <2>3. Ending(<<>> \o h, <<>>, <<>> \o h)
    BY <1>0, <1>h, <2>2, EmptyText, LineGrows
  <2>4. <<>> \o h = h
    BY <1>h, Joined
  <2> QED BY <2>3, <2>4
<1> HIDE DEF L
<1>2. StatementHolds(e, 0)
  <2> SUFFICES ASSUME 0 + 1 <= N
               PROVE  h \o F[1] \in Text /\ F[1] \in Text /\ Ending(h \o F[1], L(0), Line(cs, 1))
    BY <1>d
  <2>1. 1 \in 1..N
    BY <1>1
  <2>2. F[1] = One(Break) \o Line(cs, 1) /\ F[1] \in Text
    BY <1>f, <1>s, <2>1
  <2>3. Append(<<>>, h) = L(0)
    BY <1>0
  <2>4. Ending(h \o (One(Break) \o Line(cs, 1)), Append(<<>>, h), Line(cs, 1))
    BY <1>0, <1>b, <1>h, <1>l, <2>1, LineBegins
  <2>5. h \o F[1] \in Text
    BY <1>h, <2>2, Joined
  <2> QED BY <2>2, <2>3, <2>4, <2>5
<1>3. ASSUME NEW k \in Nat, StatementHolds(e, k) PROVE StatementHolds(e, k + 1)
  <2> SUFFICES ASSUME (k + 1) + 1 <= N
               PROVE  StatementHolds(e, k + 1)
    BY <1>d
  <2> DEFINE m == k + 1
             u == h \o F[m]
             l == Line(cs, m + 1)
  <2>1. m \in Nat /\ m + 1 \in 1..N /\ m \in 1..N /\ m + 1 # 1 /\ (m + 1) - 1 = m /\ k + 1 <= N
    BY <1>1
  <2>2. u \in Text /\ F[m] \in Text /\ Ending(u, L(k), Line(cs, m))
    BY <1>3, <1>d, <2>1
  <2>3. Append(L(k), Line(cs, m)) = L(m) /\ L(k) \in Seq(Text)
    BY <1>m, <2>1
  <2> HIDE DEF m
  <2>4. F[m + 1] = F[m] \o (One(Break) \o l) /\ One(Break) \o l \in Text
    <3>1. F[m + 1] = F[m] \o ss[m + 1]
      BY <1>f, <2>1
    <3> QED BY <1>s, <2>1, <3>1
  <2>5. l \in Text /\ Unbroken(l) /\ Line(cs, m) \in Text
    BY <1>l, <2>1
  <2> HIDE DEF u, l
  <2>6. Ending(u \o (One(Break) \o l), Append(L(k), Line(cs, m)), l)
    BY <2>2, <2>3, <2>5, LineBegins
  <2>7. (h \o F[m]) \o (One(Break) \o l) = h \o (F[m] \o (One(Break) \o l))
    <3> DEFINE f == F[m]
               bl == One(Break) \o l
    <3>1. f \in Text /\ bl \in Text
      BY <2>2, <2>4
    <3> HIDE DEF f, bl
    <3>2. Then(Then(h, f), bl) = Then(h, Then(f, bl))
      BY <1>h, <3>1, ThenGroups
    <3> QED BY <3>2 DEF Then, f, bl
  <2>8. F[m] \o (One(Break) \o l) \in Text /\ h \o F[m + 1] \in Text
    BY <1>h, <2>2, <2>4, Joined
  <2>9. Ending(h \o F[m + 1], L(m), l)
    BY <2>3, <2>4, <2>6, <2>7 DEF u
  <2> QED BY <1>d, <2>4, <2>8, <2>9 DEF m, l
<1>4. \A k \in Nat : StatementHolds(e, k)
  <2> DEFINE W == {k \in Nat : StatementHolds(e, k)}
  <2>1. 0 \in W /\ \A k \in Nat : k \in W => k + 1 \in W
    BY <1>2, <1>3
  <2> HIDE DEF W
  <2>2. Nat \subseteq W
    BY <2>1, Induct
  <2> QED BY <2>2 DEF W
<1>5. PICK k \in Nat : k + 1 = N
  <2>1. N - 1 \in Nat /\ (N - 1) + 1 = N
    BY <1>1
  <2> QED BY <2>1
<1>6. k + 1 <= N
  BY <1>1, <1>5
<1>7. Ending(h \o F[k + 1], L(k), Line(cs, k + 1))
  BY <1>4, <1>6, <1>d
<1>8. Lines(h \o F[N]) = L(N)
  BY <1>5, <1>6, <1>7, <1>m DEF Ending
<1>9. FlattenSeq(ss) = F[N]
  BY <1>1, FlattenUnfold DEF F
<1>10. AlterTable(n, cs) = h \o FlattenSeq(ss)
  BY AlterTableIs DEF h, ss
<1> QED BY <1>8, <1>9, <1>10 DEF L, h, N
LEMMA NamedRead ==
  ASSUME NEW m \in Text, NEW w \in Text, First(w) # Backtick
  PROVE  /\ QuotedIdentifierEnd(QuoteIdentifier(m) \o w) # 0
         /\ Rest(QuoteIdentifier(m) \o w, QuotedIdentifierEnd(QuoteIdentifier(m) \o w)) = w
         /\ ExtractQuotedIdentifier(QuoteIdentifier(m) \o w, Backtick).name = m
         /\ First(QuoteIdentifier(m) \o w) = Backtick
<1> DEFINE t == Quoted(m, Backtick, w)
<1>1. Backtick \in Alphabet
  BY Tokenized
<1>2. QuoteIdentifier(m) \o w = t
  BY QuoteIdentifierQuotes
<1>3. t \in Text /\ First(t) = Backtick
  BY <1>1, QuotedText
<1>4. /\ ExtractQuotedIdentifier(t, Backtick) = Read(m)
      /\ QuotedIdentifierEnd(t) \in Nat \ {0}
      /\ Follows(t, QuotedIdentifierEnd(t), w)
  BY <1>1, QuotedRead
<1> HIDE DEF t
<1>5. Rest(t, QuotedIdentifierEnd(t)) = w
  BY <1>3, <1>4, FollowsRest
<1>6. Read(m).name = m
  BY DEF Read
<1> QED BY <1>2, <1>3, <1>4, <1>5, <1>6

\* The clauses of any statement are read as they were written.
LEMMA ClausesReadBack ==
  ASSUME NEW n \in Text, Unbroken(n), NEW cs, Clauses(cs)
  PROVE  AlterOperationClauses(AlterTable(n, cs)) = cs
<1> DEFINE sql == AlterTable(n, cs)
           lines == Lines(sql)
           h == Begun(n)
           fs == FirstLines(cs, Len(cs))
           named == Tail(Head(lines))
           end == QuotedIdentifierEnd(named)
           clauses == <<Rest(named, end)>> \o Tail(lines)
           trimmed == [i \in DOMAIN clauses |-> TrimmedRight(clauses[i])]
           kept == [i \in DOMAIN trimmed |-> IF trimmed[i] # <<>> THEN <<trimmed[i]>> ELSE <<>>]
           N == Len(cs)
<1>0. N \in Nat /\ cs \in Seq(Text) /\ DOMAIN cs = 1..N /\ cs = [i \in 1..N |-> cs[i]]
  BY DEF Clauses
<1>1. lines = <<h>> \o fs
  BY StatementLines
<1>2. h \in Text /\ First(h) = "ALTER TABLE " /\ Tail(h) = QuoteIdentifier(n)
  BY BegunText DEF Alter
<1>3. fs \in Seq(Text) /\ Len(fs) = N /\ \A i \in 1..N : fs[i] = Line(cs, i)
  <2>1. \A i \in 1..N : Line(cs, i) \in Text
    BY LineText
  <2> QED BY <1>0, <2>1 DEF FirstLines
<1>4. AlterOperationClauses(sql) =
        IF First(Head(lines)) # "ALTER TABLE " \/ end = 0 THEN <<>> ELSE FlattenSeq(kept)
  BY DEF AlterOperationClauses, Only
<1> HIDE DEF sql, lines, h, fs
<1>5. Head(lines) = h /\ Tail(lines) = fs
  BY <1>1, <1>2, <1>3, HeadTailJoined
<1>6. named = QuoteIdentifier(n)
  BY <1>2, <1>5
<1>7. end # 0 /\ Rest(named, end) = <<>>
  <2>1. QuoteIdentifier(n) \in Text /\ <<>> \in Text /\ First(<<>>) # Backtick
    BY WholeNames, EmptyText, FirstOfNone DEF Whole, Nothing, Backtick
  <2>2. QuoteIdentifier(n) \o <<>> = QuoteIdentifier(n)
    BY <2>1, Joined
  <2>3. /\ QuotedIdentifierEnd(QuoteIdentifier(n) \o <<>>) # 0
        /\ Rest(QuoteIdentifier(n) \o <<>>, QuotedIdentifierEnd(QuoteIdentifier(n) \o <<>>)) = <<>>
    BY <2>1, NamedRead
  <2> QED BY <1>6, <2>2, <2>3
<1>8. AlterOperationClauses(sql) = FlattenSeq(kept)
  BY <1>2, <1>4, <1>5, <1>7
<1> HIDE DEF named, end
<1>9. clauses = << <<>> >> \o fs
  BY <1>5, <1>7
<1> HIDE DEF clauses
<1>10. /\ Len(clauses) = N + 1 /\ DOMAIN clauses = 1..(N + 1) /\ clauses[1] = <<>>
       /\ \A i \in 1..N : clauses[i + 1] = Line(cs, i)
  <2>1. <<>> \in Text
    BY EmptyText
  <2> QED BY <1>0, <1>3, <1>9, <2>1
<1>11. /\ DOMAIN trimmed = 1..(N + 1) /\ trimmed[1] = <<>>
       /\ \A i \in 1..N : trimmed[i + 1] = cs[i] /\ cs[i] # <<>>
  <2>1. \A i \in 1..N : TrimmedRight(Line(cs, i)) = cs[i] /\ cs[i] # <<>>
    BY LineText
  <2>2. 1 \in 1..(N + 1) /\ \A i \in 1..N : i + 1 \in 1..(N + 1)
    BY <1>0
  <2> QED BY <1>10, <2>1, <2>2, TrimmedNothing
<1> HIDE DEF trimmed
<1>12. kept[1] = <<>> /\ DOMAIN kept = 1..(N + 1) /\ \A i \in 1..N : kept[i + 1] = <<cs[i]>>
  <2>1. 1 \in 1..(N + 1) /\ \A i \in 1..N : i + 1 \in 1..(N + 1)
    BY <1>0
  <2> QED BY <1>11, <2>1
<1>13. kept = [i \in 1..(N + 1) |-> kept[i]]
  BY <1>11
<1> HIDE DEF kept
<1> DEFINE ss == Singles(cs)
           v == << <<>> >> \o ss
<1>14. ss \in Seq(Seq(Text)) /\ Len(ss) = N /\ \A i \in 1..N : ss[i] = <<cs[i]>>
  BY <1>0 DEF Singles
<1>s. FlattenSeq(ss) = cs
  BY <1>0, SinglesFlatten
<1> HIDE DEF ss
<1>15. <<>> \in Seq(Text)
  OBVIOUS
<1>16. FlattenSeq(v) = <<>> \o FlattenSeq(ss)
  BY <1>14, <1>15, FlattenCons
<1>17. /\ Len(v) = N + 1 /\ v[1] = <<>> /\ v = [i \in 1..(N + 1) |-> v[i]]
       /\ \A i \in 1..N : v[i + 1] = ss[i]
  <2>1. v \in Seq(Seq(Text)) /\ Len(v) = N + 1
    BY <1>0, <1>14, <1>15
  <2>2. v[1] = <<>>
    BY <1>0, <1>14, <1>15
  <2>3. \A i \in 1..N : v[i + 1] = ss[i]
    BY <1>0, <1>14, <1>15
  <2> HIDE DEF v
  <2>4. v = [i \in 1..(N + 1) |-> v[i]]
    BY <2>1
  <2> QED BY <2>1, <2>2, <2>3, <2>4
<1> HIDE DEF v
<1>18. \A i \in 1..(N + 1) : v[i] = kept[i]
  <2> SUFFICES ASSUME NEW i \in 1..(N + 1) PROVE v[i] = kept[i]
    OBVIOUS
  <2>1. CASE i = 1
    BY <2>1, <1>12, <1>17
  <2>2. CASE i # 1
    <3>1. i - 1 \in 1..N /\ (i - 1) + 1 = i
      BY <2>2, <1>0
    <3>2. v[i] = ss[i - 1] /\ kept[i] = <<cs[i - 1]>>
      BY <3>1, <1>12, <1>17
    <3> QED BY <3>1, <3>2, <1>14
  <2> QED BY <2>1, <2>2
<1>19. v = kept
  BY <1>13, <1>17, <1>18
<1>20. FlattenSeq(kept) = <<>> \o cs
  BY <1>16, <1>19, <1>s
<1> QED BY <1>0, <1>8, <1>20 DEF sql
-----------------------------------------------------------------------------
(* The foreign keys of the statements of ForeignKeysReadBack.              *)

ForeignOf(c) == IF IsForeignClause(c) THEN <<c>> ELSE <<>>
NameOf(c) == ExtractQuotedIdentifier(Tail(c), Backtick).name

\* A clause after its first token, a name after that.
LEMMA ClauseOf ==
  ASSUME NEW c \in Alphabet, NEW m \in Text, NEW w \in Text, First(w) # Backtick
  PROVE  LET clause == One(c) \o (QuoteIdentifier(m) \o w)
         IN /\ clause \in Text /\ NameOf(clause) = m
            /\ IsForeignClause(clause) <=>
                 c = DropForeign \/ (c = Constrain /\ First(w) = Foreign)
<1> DEFINE q == QuoteIdentifier(m) \o w
           clause == Cons(c, q)
<1>1. q \in Text
  BY QuoteIdentifierQuotes, Joined
<1>2. /\ QuotedIdentifierEnd(q) # 0 /\ Rest(q, QuotedIdentifierEnd(q)) = w
      /\ ExtractQuotedIdentifier(q, Backtick).name = m /\ First(q) = Backtick
  BY NamedRead
<1> HIDE DEF q
<1>3. clause \in Text /\ First(clause) = c /\ Tail(clause) = q
  BY <1>1, FirstOf
<1> HIDE DEF clause
<1>4. IsForeignClause(clause) <=> c = DropForeign \/ (c = Constrain /\ First(w) = Foreign)
  BY <1>2, <1>3 DEF IsForeignClause, DropForeign, Constrain, Foreign
<1>5. NameOf(clause) = m
  BY <1>2, <1>3 DEF NameOf
<1>6. clause = One(c) \o q
  BY ConsIs DEF clause
<1> QED BY <1>3, <1>4, <1>5, <1>6 DEF q

\* The keys of a statement, from its clauses.
KeysOf(cs) ==
  LET foreign == FlattenSeq([i \in DOMAIN cs |-> ForeignOf(cs[i])])
  IN FlattenSeq([i \in DOMAIN foreign |->
                   IF NameOf(foreign[i]) # <<>> THEN <<NameOf(foreign[i])>> ELSE <<>>])

LEMMA KeysRead ==
  ASSUME NEW n \in Text, Unbroken(n), NEW cs, Clauses(cs)
  PROVE  ForeignKeyNamesFromAlterSQL(AlterTable(n, cs)) = KeysOf(cs)
<1> DEFINE sql == AlterTable(n, cs)
           foreign == FlattenSeq([i \in DOMAIN cs |-> ForeignOf(cs[i])])
           names == [i \in DOMAIN foreign |-> NameOf(foreign[i])]
<1>1. AlterOperationClauses(sql) = cs
  BY ClausesReadBack
<1> HIDE DEF sql
<1>2. Only(AlterOperationClauses(sql), IsForeignClause) = foreign
  BY <1>1 DEF Only, ForeignOf
<1> HIDE DEF foreign
<1>3. ForeignKeyNamesFromAlterSQL(sql) =
        FlattenSeq([i \in DOMAIN names |-> IF names[i] # <<>> THEN <<names[i]>> ELSE <<>>])
  BY <1>2 DEF ForeignKeyNamesFromAlterSQL, Only, NameOf
<1>4. [i \in DOMAIN names |-> IF names[i] # <<>> THEN <<names[i]>> ELSE <<>>] =
      [i \in DOMAIN foreign |->
         IF NameOf(foreign[i]) # <<>> THEN <<NameOf(foreign[i])>> ELSE <<>>]
  OBVIOUS
<1> QED BY <1>3, <1>4 DEF KeysOf, foreign, sql
LEMMA FlattenTwo ==
  ASSUME NEW a \in Seq(Text), NEW b \in Seq(Text)
  PROVE  FlattenSeq(<<a, b>>) = a \o b
<1> DEFINE none == <<>>
           last == <<b>>
<1>1. none \in Seq(Seq(Text)) /\ last \in Seq(Seq(Text)) /\ last = <<b>> \o none
  OBVIOUS
<1>2. FlattenSeq(<<b>> \o none) = b \o FlattenSeq(none)
  BY <1>1, FlattenCons
<1>3. FlattenSeq(none) = none
  <2>1. Len(none) = 0
    OBVIOUS
  <2> QED BY <2>1, FlattenUnfold
<1>4. b \o none = b
  OBVIOUS
<1>p. <<a, b>> = <<a>> \o last
  BY PairJoined
<1> HIDE DEF none, last
<1>5. FlattenSeq(last) = b
  BY <1>1, <1>2, <1>3, <1>4
<1>6. FlattenSeq(<<a>> \o last) = a \o FlattenSeq(last)
  BY <1>1, FlattenCons
<1> QED BY <1>p, <1>5, <1>6

LEMMA FlattenThree ==
  ASSUME NEW a \in Seq(Text), NEW b \in Seq(Text), NEW c \in Seq(Text)
  PROVE  FlattenSeq(<<a, b, c>>) = a \o (b \o c)
<1> DEFINE rest == <<b, c>>
<1>1. rest \in Seq(Seq(Text)) /\ <<a, b, c>> = <<a>> \o rest
  OBVIOUS
<1>2. FlattenSeq(rest) = b \o c
  BY FlattenTwo
<1> HIDE DEF rest
<1>3. FlattenSeq(<<a>> \o rest) = a \o FlattenSeq(rest)
  BY <1>1, FlattenCons
<1> QED BY <1>1, <1>2, <1>3

LEMMA NoKeys ==
  ASSUME NEW cs, FlattenSeq([i \in DOMAIN cs |-> ForeignOf(cs[i])]) = <<>>
  PROVE  KeysOf(cs) = <<>>
<1> DEFINE none == [i \in DOMAIN <<>> |->
                      IF NameOf(<<>>[i]) # <<>> THEN <<NameOf(<<>>[i])>> ELSE <<>>]
<1>1. KeysOf(cs) = FlattenSeq(none)
  BY DEF KeysOf
<1>2. none = <<>>
  OBVIOUS
<1> HIDE DEF none
<1>3. Len(none) = 0
  BY <1>2
<1> QED BY <1>1, <1>2, <1>3, FlattenUnfold

LEMMA OneKey ==
  ASSUME NEW cs, NEW k, FlattenSeq([i \in DOMAIN cs |-> ForeignOf(cs[i])]) = <<k>>,
         NEW m \in Text, NameOf(k) = m, m # <<>>
  PROVE  KeysOf(cs) = <<m>>
<1> DEFINE found == <<k>>
           named == [i \in DOMAIN found |->
                       IF NameOf(found[i]) # <<>> THEN <<NameOf(found[i])>> ELSE <<>>]
           x == <<m>>
<1>1. KeysOf(cs) = FlattenSeq(named)
  BY DEF KeysOf
<1>2. DOMAIN found = {1} /\ found[1] = k
  OBVIOUS
<1> HIDE DEF found
<1>3. named = [i \in {1} |-> <<m>>]
  BY <1>2
<1>4. Singles(x) = [i \in {1} |-> <<m>>] /\ x \in Seq(Text)
  BY DEF Singles
<1> HIDE DEF named, x
<1>5. FlattenSeq(Singles(x)) = x
  BY <1>4, SinglesFlatten
<1> QED BY <1>1, <1>3, <1>4, <1>5 DEF x

\* What the keys of a statement with two or three clauses are.
LEMMA KeysOfTwo ==
  ASSUME NEW a \in Text, NEW b \in Text, ~IsForeignClause(a), ~IsForeignClause(b)
  PROVE  KeysOf(<<a, b>>) = <<>>
<1> DEFINE cs == <<a, b>>
           of == [i \in DOMAIN cs |-> ForeignOf(cs[i])]
<1>1. DOMAIN cs = 1..2 /\ cs[1] = a /\ cs[2] = b
  OBVIOUS
<1>2. ForeignOf(a) = <<>> /\ ForeignOf(b) = <<>>
  BY DEF ForeignOf
<1> HIDE DEF cs
<1>3. of = <<ForeignOf(a), ForeignOf(b)>>
  BY <1>1
<1> HIDE DEF of
<1>4. of = << <<>>, <<>> >> /\ <<>> \in Seq(Text) /\ <<>> \o <<>> = <<>>
  BY <1>2, <1>3
<1>5. FlattenSeq(of) = <<>>
  BY <1>4, FlattenTwo
<1> QED BY <1>5, NoKeys DEF of, cs

LEMMA KeysOfThree ==
  ASSUME NEW a \in Text, NEW b \in Text, NEW c \in Text, NEW m \in Text, m # <<>>
  PROVE  /\ IsForeignClause(a) /\ ~IsForeignClause(b) /\ ~IsForeignClause(c) /\ NameOf(a) = m =>
              KeysOf(<<a, b, c>>) = <<m>>
         /\ ~IsForeignClause(a) /\ ~IsForeignClause(b) /\ IsForeignClause(c) /\ NameOf(c) = m =>
              KeysOf(<<a, b, c>>) = <<m>>
<1> DEFINE cs == <<a, b, c>>
           of == [i \in DOMAIN cs |-> ForeignOf(cs[i])]
<1>1. DOMAIN cs = 1..3 /\ cs[1] = a /\ cs[2] = b /\ cs[3] = c
  OBVIOUS
<1>2. /\ ForeignOf(a) = IF IsForeignClause(a) THEN <<a>> ELSE <<>>
      /\ ForeignOf(b) = IF IsForeignClause(b) THEN <<b>> ELSE <<>>
      /\ ForeignOf(c) = IF IsForeignClause(c) THEN <<c>> ELSE <<>>
  BY DEF ForeignOf
<1>3. of = <<ForeignOf(a), ForeignOf(b), ForeignOf(c)>>
  <2> HIDE DEF cs
  <2> QED BY <1>1
<1>4. ForeignOf(a) \in Seq(Text) /\ ForeignOf(b) \in Seq(Text) /\ ForeignOf(c) \in Seq(Text)
  BY <1>2
<1> HIDE DEF of
<1>5. FlattenSeq(of) = ForeignOf(a) \o (ForeignOf(b) \o ForeignOf(c))
  <2>1. \A x, y, z \in Seq(Text) : FlattenSeq(<<x, y, z>>) = x \o (y \o z)
    BY FlattenThree
  <2> QED BY <1>3, <1>4, <2>1, Zenon
<1>6. /\ <<a>> \o (<<>> \o <<>>) = <<a>> /\ <<>> \o (<<>> \o <<c>>) = <<c>>
  OBVIOUS
<1>7. ASSUME IsForeignClause(a), ~IsForeignClause(b), ~IsForeignClause(c), NameOf(a) = m
      PROVE  KeysOf(cs) = <<m>>
  <2>1. FlattenSeq(of) = <<a>>
    BY <1>2, <1>5, <1>6, <1>7
  <2> HIDE DEF cs
  <2> QED BY <2>1, <1>7, OneKey DEF of
<1>8. ASSUME ~IsForeignClause(a), ~IsForeignClause(b), IsForeignClause(c), NameOf(c) = m
      PROVE  KeysOf(cs) = <<m>>
  <2>1. FlattenSeq(of) = <<c>>
    BY <1>2, <1>5, <1>6, <1>8
  <2> HIDE DEF cs
  <2> QED BY <2>1, <1>8, OneKey DEF of
<1> QED BY <1>7, <1>8 DEF cs
(* The clauses of ForeignKeysReadBack, and what comes after the names.     *)
AddedThen(m) == One(Letter) \o Literal(m)
CheckedThen(m) == Cons(Check, Cons(Open, Literal(m) \o One(Close)))
ForeignThen == Cons(Foreign, Cons(Open, Cons(Letter, One(Close))))

LEMMA EndsWhole ==
  ASSUME NEW m \in Text, Unbroken(m)
  PROVE  /\ Whole(AddedThen(m)) /\ First(AddedThen(m)) = Letter
         /\ Whole(CheckedThen(m)) /\ First(CheckedThen(m)) = Check
         /\ Whole(ForeignThen) /\ First(ForeignThen) = Foreign
<1> DEFINE l == Literal(m)
           lc == l \o One(Close)
           oc == Cons(Open, lc)
           c == One(Close)
           ac == Cons(Letter, c)
           oac == Cons(Open, ac)
<1>1. /\ Letter \in Alphabet \ {Break} /\ Check \in Alphabet \ {Break}
      /\ Open \in Alphabet \ {Break} /\ Foreign \in Alphabet \ {Break}
      /\ Close \in Alphabet \ {Comma, Semicolon, Break}
  BY DEF Alphabet, Words, Letter, Check, Open, Foreign, Close, Comma, Semicolon, Break
<1>2. Whole(l) /\ l \in Text /\ Unbroken(l)
  BY WholeNames DEF Whole
<1>3. Whole(c)
  BY <1>1, WholeOne
<1> HIDE DEF l
<1>4. Whole(lc)
  BY <1>2, <1>3, WholeAfter
<1> HIDE DEF lc
<1>5. Whole(oc)
  BY <1>1, <1>4, WholeCons
<1> HIDE DEF oc
<1>6. Whole(Cons(Check, oc)) /\ First(Cons(Check, oc)) = Check
  <2>1. oc \in Text
    BY <1>5 DEF Whole
  <2> QED BY <1>1, <1>5, <2>1, WholeCons, FirstOf
<1> HIDE DEF c
<1>7. Whole(ac)
  BY <1>1, <1>3, WholeCons
<1> HIDE DEF ac
<1>8. Whole(oac)
  BY <1>1, <1>7, WholeCons
<1> HIDE DEF oac
<1>9. Whole(Cons(Foreign, oac)) /\ First(Cons(Foreign, oac)) = Foreign
  <2>1. oac \in Text
    BY <1>8 DEF Whole
  <2> QED BY <1>1, <1>8, <2>1, WholeCons, FirstOf
<1>10. Whole(Cons(Letter, l)) /\ First(Cons(Letter, l)) = Letter
  BY <1>1, <1>2, WholeCons, FirstOf
<1> QED BY <1>6, <1>9, <1>10, ConsIs
           DEF AddedThen, CheckedThen, ForeignThen, l, lc, oc, c, ac, oac

\* A word, a name and what comes after it are a clause.
Clause(c, m, w) == One(c) \o (QuoteIdentifier(m) \o w)

LEMMA ClauseWhole ==
  ASSUME NEW c \in Words, NEW m \in Text, Unbroken(m), NEW w, Whole(w) \/ w = <<>>,
         First(w) # Backtick
  PROVE  /\ Whole(Clause(c, m, w)) /\ NameOf(Clause(c, m, w)) = m
         /\ IsForeignClause(Clause(c, m, w)) <=>
              c = DropForeign \/ (c = Constrain /\ First(w) = Foreign)
<1> DEFINE q == QuoteIdentifier(m)
<1>1. c \in Alphabet \ {Break} /\ w \in Text
  <2>1. Break \notin Words
    BY DEF Words, Break, Alter, Add, Constrain, DropForeign, Foreign, Check
  <2> QED BY <2>1, EmptyText DEF Alphabet, Whole
<1>2. Whole(q) /\ q \in Text /\ Unbroken(q)
  BY WholeNames DEF Whole
<1> HIDE DEF q
<1>3. Whole(q \o w)
  <2>1. CASE w = <<>>
    <3>1. q \o w = q
      BY <1>2, <2>1, Joined
    <3> QED BY <1>2, <3>1
  <2>2. CASE Whole(w)
    BY <1>2, <2>2, WholeAfter
  <2> QED BY <2>1, <2>2
<1>4. Whole(Cons(c, q \o w))
  BY <1>1, <1>3, WholeCons
<1>5. NameOf(Clause(c, m, w)) = m
  BY <1>1, ClauseOf DEF Clause
<1>6. IsForeignClause(Clause(c, m, w)) <=>
        c = DropForeign \/ (c = Constrain /\ First(w) = Foreign)
  BY <1>1, ClauseOf DEF Clause
<1> QED BY <1>4, <1>5, <1>6, ConsIs DEF Clause, q
LEMMA TwoClauses ==
  ASSUME NEW a \in Text, NEW b \in Text, Whole(a), Whole(b)
  PROVE  Clauses(<<a, b>>)
<1> DEFINE cs == <<a, b>>
<1>1. cs \in Seq(Text) /\ cs # <<>> /\ Len(cs) = 2 /\ cs[1] = a /\ cs[2] = b
  OBVIOUS
<1> HIDE DEF cs
<1>2. \A i \in 1..Len(cs) : i = 1 \/ i = 2
  BY <1>1
<1>3. \A i \in 1..Len(cs) : Whole(cs[i])
  BY <1>1, <1>2
<1> QED BY <1>1, <1>3 DEF Clauses, cs

LEMMA ThreeClauses ==
  ASSUME NEW a \in Text, NEW b \in Text, NEW c \in Text, Whole(a), Whole(b), Whole(c)
  PROVE  Clauses(<<a, b, c>>)
<1> DEFINE cs == <<a, b, c>>
<1>1. /\ cs \in Seq(Text) /\ cs # <<>> /\ Len(cs) = 3
      /\ cs[1] = a /\ cs[2] = b /\ cs[3] = c
  OBVIOUS
<1> HIDE DEF cs
<1>2. \A i \in 1..Len(cs) : i = 1 \/ i = 2 \/ i = 3
  BY <1>1
<1>3. \A i \in 1..Len(cs) : Whole(cs[i])
  BY <1>1, <1>2
<1> QED BY <1>1, <1>3 DEF Clauses, cs

\* What is written, as clauses.
LEMMA ClausesWritten ==
  ASSUME NEW m \in Text, Unbroken(m), NEW k \in Text, Unbroken(k)
  PROVE  /\ <<"ADD ">> \o QuoteIdentifier(m) \o <<"a">> \o Literal(m) =
              Clause(Add, m, AddedThen(m))
         /\ <<"ADD CONSTRAINT ">> \o QuoteIdentifier(m) \o <<"CHECK ", "(">> \o Literal(m)
              \o <<")">> = Clause(Constrain, m, CheckedThen(m))
         /\ <<"DROP FOREIGN KEY ">> \o QuoteIdentifier(k) = Clause(DropForeign, k, <<>>)
         /\ <<"ADD CONSTRAINT ">> \o QuoteIdentifier(k) \o <<"FOREIGN KEY ", "(", "a", ")">> =
              Clause(Constrain, k, ForeignThen)
<1> DEFINE q == QuoteIdentifier(m)
           r == QuoteIdentifier(k)
           l == Literal(m)
           add == One(Add)
           con == One(Constrain)
           a == One(Letter)
           c == One(Close)
           co == <<"CHECK ", "(">>
           f == <<"FOREIGN KEY ", "(", "a", ")">>
<1>1. /\ Add \in Alphabet /\ Constrain \in Alphabet /\ Letter \in Alphabet /\ Close \in Alphabet
      /\ Check \in Alphabet /\ Open \in Alphabet /\ Foreign \in Alphabet
  BY DEF Alphabet, Words
<1>2. q \in Text /\ r \in Text /\ l \in Text
  BY WholeNames DEF Whole
<1>3. add \in Text /\ con \in Text /\ a \in Text /\ c \in Text
  BY <1>1, OneText
<1>4. co = <<Check, Open>> /\ f = <<Foreign, Open, Letter, Close>>
  BY DEF Check, Open, Foreign, Letter, Close
<1>5. co \in Text
  BY <1>1, <1>4, TwoTokens
<1>6. f = ForeignThen /\ f \in Text
  <2>1. /\ <<Foreign, Open, Letter, Close>> = Cons(Foreign, <<Open, Letter, Close>>)
        /\ <<Foreign, Open, Letter, Close>> \in Text
    BY <1>1, FourTokens
  <2>2. <<Open, Letter, Close>> = Cons(Open, <<Letter, Close>>)
    <3>1. ThreeInLine(Open, Letter, Close)
      BY <1>1, ThreeLined
    <3> QED BY <3>1 DEF ThreeInLine
  <2>3. <<Letter, Close>> = Cons(Letter, One(Close))
    BY <1>1, TwoTokens
  <2> HIDE DEF f
  <2> QED BY <1>4, <2>1, <2>2, <2>3 DEF ForeignThen
<1>7. /\ <<"ADD ">> = add /\ <<"ADD CONSTRAINT ">> = con /\ <<"a">> = a /\ <<")">> = c
      /\ <<"DROP FOREIGN KEY ">> = One(DropForeign)
  BY DEF One, Add, Constrain, Letter, Close, DropForeign
<1> HIDE DEF q, r, l, add, con, a, c, co, f
<1>8. Then(Then(Then(add, q), a), l) = Then(add, Then(q, Then(a, l)))
  BY <1>2, <1>3, ThenGroups
<1>9. Then(Then(Then(Then(con, q), co), l), c) = Then(con, Then(q, Then(co, Then(l, c))))
  <2>1. Then(con, q) \in Text /\ Then(l, c) \in Text
    BY <1>2, <1>3, ThenGroups
  <2>2. Then(Then(con, q), co) \in Text /\ Then(co, Then(l, c)) \in Text
    BY <1>5, <2>1, ThenGroups
  <2>3. Then(Then(Then(Then(con, q), co), l), c) = Then(Then(Then(con, q), co), Then(l, c))
    BY <1>2, <1>3, <2>2, ThenGroups
  <2>4. Then(Then(Then(con, q), co), Then(l, c)) = Then(Then(con, q), Then(co, Then(l, c)))
    BY <1>5, <2>1, ThenGroups
  <2>5. Then(Then(con, q), Then(co, Then(l, c))) = Then(con, Then(q, Then(co, Then(l, c))))
    BY <1>2, <1>3, <2>2, ThenGroups
  <2> QED BY <2>3, <2>4, <2>5
<1>10. co \o (l \o c) = CheckedThen(m)
  <2> DEFINE lc == l \o c
  <2>1. lc \in Text
    BY <1>2, <1>3, Joined
  <2> HIDE DEF lc
  <2>2. <<Check, Open>> \o lc = Cons(Check, Cons(Open, lc))
    BY <1>1, <2>1, TwoThen
  <2> QED BY <1>4, <2>2 DEF CheckedThen, lc, l, c
<1>11. Then(Then(con, r), f) = Then(con, Then(r, f))
  BY <1>2, <1>3, <1>6, ThenGroups
<1>12. r \o <<>> = r
  BY <1>2, Joined
<1>13. ((<<"ADD ">> \o q) \o <<"a">>) \o l = Clause(Add, m, AddedThen(m))
  BY <1>7, <1>8 DEF Clause, AddedThen, Then, q, l, add, a
<1>14. (((<<"ADD CONSTRAINT ">> \o q) \o co) \o l) \o <<")">> = Clause(Constrain, m, CheckedThen(m))
  BY <1>7, <1>9, <1>10 DEF Clause, Then, q, con
<1>15. <<"DROP FOREIGN KEY ">> \o r = Clause(DropForeign, k, <<>>)
  BY <1>7, <1>12 DEF Clause, r
<1>16. (<<"ADD CONSTRAINT ">> \o r) \o f = Clause(Constrain, k, ForeignThen)
  BY <1>6, <1>7, <1>11 DEF Clause, Then, r, con
<1> QED BY <1>13, <1>14, <1>15, <1>16 DEF q, r, l, co, f

\* From the statements it has written the tool reads exactly the foreign keys
\* that they drop and add, if no name and no comment breaks a line: a statement
\* is taken apart line by line, and SHOW CREATE TABLE writes the line breaks of
\* a comment as two characters.
THEOREM ForeignKeysAlwaysReadBack ==
  ASSUME Break \notin Tokens
  PROVE  Spec => []ForeignKeysReadBack
<1>1. Typed => ForeignKeysReadBack
  <2> SUFFICES ASSUME Typed, name # <<>> PROVE ForeignKeysReadBack
    BY DEF ForeignKeysReadBack
  <2> DEFINE add == <<"ADD ">> \o QuoteIdentifier(comment) \o <<"a">> \o Literal(comment)
             check == <<"ADD CONSTRAINT ">> \o QuoteIdentifier(comment)
                        \o <<"CHECK ", "(">> \o Literal(comment) \o <<")">>
             drop == <<"DROP FOREIGN KEY ">> \o QuoteIdentifier(name)
             foreign == <<"ADD CONSTRAINT ">> \o QuoteIdentifier(name)
                          \o <<"FOREIGN KEY ", "(", "a", ")">>
             read(clauses) == ForeignKeyNamesFromAlterSQL(AlterTable(name, clauses))
  <2>1. name \in Text /\ comment \in Text /\ Unbroken(name) /\ Unbroken(comment)
    <3>1. name \in Text /\ comment \in Text
      BY TypedText
    <3>2. ToSet(name) \subseteq Tokens /\ ToSet(comment) \subseteq Tokens
      BY ToSetSeq DEF Typed
    <3> QED BY <3>1, <3>2 DEF Unbroken
  <2>2. /\ add = Clause(Add, comment, AddedThen(comment))
        /\ check = Clause(Constrain, comment, CheckedThen(comment))
        /\ drop = Clause(DropForeign, name, <<>>)
        /\ foreign = Clause(Constrain, name, ForeignThen)
    BY <2>1, ClausesWritten
  <2>3. /\ Whole(AddedThen(comment)) /\ First(AddedThen(comment)) = Letter
        /\ Whole(CheckedThen(comment)) /\ First(CheckedThen(comment)) = Check
        /\ Whole(ForeignThen) /\ First(ForeignThen) = Foreign
    BY <2>1, EndsWhole
  <2>4. /\ Letter # Backtick /\ Check # Backtick /\ Foreign # Backtick /\ Nothing # Backtick
        /\ Check # Foreign /\ Add # DropForeign /\ Add # Constrain /\ Constrain # DropForeign
        /\ Add \in Words /\ Constrain \in Words /\ DropForeign \in Words
    BY DEF Letter, Backtick, Check, Foreign, Nothing, Add, DropForeign, Constrain, Words
  <2> HIDE DEF add, check, drop, foreign
  <2>5. Whole(add) /\ ~IsForeignClause(add)
    BY <2>1, <2>2, <2>3, <2>4, ClauseWhole
  <2>6. Whole(check) /\ ~IsForeignClause(check)
    BY <2>1, <2>2, <2>3, <2>4, ClauseWhole
  <2>7. Whole(drop) /\ IsForeignClause(drop) /\ NameOf(drop) = name
    BY <2>1, <2>2, <2>4, FirstOfNone, ClauseWhole
  <2>8. Whole(foreign) /\ IsForeignClause(foreign) /\ NameOf(foreign) = name
    BY <2>1, <2>2, <2>3, <2>4, ClauseWhole
  <2>9. add \in Text /\ check \in Text /\ drop \in Text /\ foreign \in Text
    BY <2>5, <2>6, <2>7, <2>8 DEF Whole
  <2>10. \A cs : Clauses(cs) => read(cs) = KeysOf(cs)
    BY <2>1, KeysRead
  <2>11. read(<<drop, add, check>>) = <<name>>
    <3>1. Clauses(<<drop, add, check>>)
      BY <2>5, <2>6, <2>7, <2>9, ThreeClauses
    <3>2. KeysOf(<<drop, add, check>>) = <<name>>
      BY <2>1, <2>5, <2>6, <2>7, <2>9, KeysOfThree
    <3> QED BY <2>10, <3>1, <3>2
  <2>12. read(<<add, check, foreign>>) = <<name>>
    <3>1. Clauses(<<add, check, foreign>>)
      BY <2>5, <2>6, <2>8, <2>9, ThreeClauses
    <3>2. KeysOf(<<add, check, foreign>>) = <<name>>
      BY <2>1, <2>5, <2>6, <2>8, <2>9, KeysOfThree
    <3> QED BY <2>10, <3>1, <3>2
  <2>13. read(<<check, add>>) = <<>>
    <3>1. Clauses(<<check, add>>)
      BY <2>5, <2>6, <2>9, TwoClauses
    <3>2. KeysOf(<<check, add>>) = <<>>
      BY <2>5, <2>6, <2>9, KeysOfTwo
    <3> QED BY <2>10, <3>1, <3>2
  <2> QED BY <2>11, <2>12, <2>13 DEF ForeignKeysReadBack, add, check, drop, foreign
<1> QED BY <1>1, TypedInit, TypedNext, PTL DEF Spec
=============================================================================
