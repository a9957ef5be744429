----------------------------- MODULE SchemaText -----------------------------
(***************************************************************************)
(* Names and comments as the tool finds them in the texts of MySQL and in  *)
(* the statements it has written itself: quoted names, the columns a       *)
(* foreign key references, the end of the column definitions of a CREATE   *)
(* TABLE, the clauses of an ALTER TABLE. A text is a sequence of tokens: a *)
(* character that the readers look at, a keyword with the blank after it,  *)
(* or "a" for anything else. The state is a table whose name and comment   *)
(* are typed token by token.                                               *)
(***************************************************************************)
EXTENDS Integers, SequencesExt, Selections

CONSTANTS
  Tokens,      \* what a name or a comment may consist of
  MaxTokens    \* bound on the tokens of the name and the comment together

ASSUME SchemaTextAssumption == MaxTokens \in Nat

VARIABLES name, comment
vars == <<name, comment>>

Backtick == "backtick"
Apostrophe == "apostrophe"
DoubleQuote == "double quote"
Quotes == {Backtick, Apostrophe, DoubleQuote}
Nothing == "nothing"      \* what comes after the last token; also: no quote is open
Rest(text, i) == SubSeq(text, i, Len(text))
First(text) == IF text = <<>> THEN Nothing ELSE Head(text)
Position(text, token) == SelectInSeq(text, LAMBDA t : t = token)   \* 0: none

-----------------------------------------------------------------------------
(* Writing. *)

Doubled(text, quote) ==
  FlattenSeq([i \in DOMAIN text |->
               IF text[i] = quote THEN <<quote, quote>> ELSE <<text[i]>>])

QuoteIdentifier(text) ==
  <<Backtick>> \o Doubled(text, Backtick) \o <<Backtick>>

\* A string as SHOW CREATE TABLE writes it: quotes doubled, backslashes too.
Literal(text) ==
  <<Apostrophe>> \o Doubled(Doubled(text, Apostrophe), "\\") \o <<Apostrophe>>

-----------------------------------------------------------------------------
(* Reading a quoted name at the start of a text. *)

QuotedIdentifierEnd(text) ==          \* the place after the name, 0: none
  LET from[i \in Nat] ==
        IF i > Len(text) THEN 0
        ELSE IF text[i] # Backtick THEN from[i + 1]
        ELSE IF First(Rest(text, i + 1)) = Backtick THEN from[i + 2]
        ELSE i + 1
  IN IF First(text) # Backtick THEN 0 ELSE from[2]

\* The definition of a column without its name; all of it where the name has no end.
StripFieldNamePrefix(text) ==
  LET after[i \in Nat] ==
        IF i > Len(text) THEN text
        ELSE IF text[i] = Backtick /\ First(Rest(text, i + 1)) = Backtick THEN after[i + 2]
        ELSE IF text[i] = Backtick THEN Rest(text, i + 1)
        ELSE after[i + 1]
  IN IF First(text) # Backtick THEN text ELSE after[2]

NoName == [ok |-> FALSE, name |-> <<>>]
ExtractQuotedIdentifierFirst(text, quote) ==          \* mutant: the next quote
  LET end == Position(Tail(text), quote)
  IN IF end = 0 THEN NoName ELSE [ok |-> TRUE, name |-> SubSeq(text, 2, end)]

ExtractQuotedIdentifier(text, quote) ==
  LET from[i \in Nat] ==
        IF i > Len(text) THEN NoName
        ELSE LET again == text[i] = quote /\ First(Rest(text, i + 1)) = quote
                 later == from[IF again THEN i + 2 ELSE i + 1]
             IN IF text[i] = quote /\ ~again
                THEN [ok |-> TRUE, name |-> <<>>]
                ELSE [later EXCEPT !.name = IF later.ok THEN <<text[i]>> \o @
                                                        ELSE @]
  IN from[2]

-----------------------------------------------------------------------------
(* The columns after REFERENCES `table`: between the first parenthesis and *)
(* the first closing one, whether in a name or not. Anything unexpected    *)
(* makes the list unknown, which is the empty list.                        *)

NamesRead(list) ==
  LET from[i \in Nat \ {0}] ==
        LET text == Rest(list, i)
            read == ExtractQuotedIdentifier(text, Backtick)
            end == i + QuotedIdentifierEnd(text) - 1
            later == from[end + 1]
        IN IF text = <<>> THEN [ok |-> TRUE, names |-> <<>>]
           ELSE IF Head(text) # Backtick \/ ~read.ok \/ read.name = <<>>
             THEN [ok |-> FALSE, names |-> <<>>]
           ELSE IF end > Len(list)
             THEN [ok |-> TRUE, names |-> <<read.name>>]
           ELSE IF list[end] # ","
             THEN [ok |-> FALSE, names |-> <<>>]
           ELSE [ok |-> later.ok, names |-> <<read.name>> \o later.names]
  IN from[1]

NamesUntilOdd(list) == NamesRead(list).names        \* mutant: what was read
Names(list) == IF NamesRead(list).ok THEN NamesRead(list).names ELSE <<>>

ParseQuotedIdentifierList(text) ==
  LET open == Position(text, "(")
      close == Position(text, ")")
  IN IF open = 0 \/ close <= open THEN <<>>
     ELSE Names(SubSeq(text, open + 1, close - 1))

-----------------------------------------------------------------------------
(* The end of the column definitions: parentheses outside quotes. *)

FindDefinitionEndUnquoted(sql) == Position(sql, ")")      \* mutant

\* The place, the depth and the open quote after the token at a place.
AfterToken(sql, i, depth, quote) ==
  LET t == sql[i]
      second == First(Rest(sql, i + 1)) = t
  IN IF quote # Nothing
     THEN IF (t = "\\" /\ quote # Backtick) \/ (t = quote /\ second)
          THEN <<i + 2, depth, quote>>
          ELSE <<i + 1, depth, IF t = quote THEN Nothing ELSE quote>>
     ELSE CASE t \in Quotes -> <<i + 1, depth, t>>
            [] t = "("      -> <<i + 1, depth + 1, Nothing>>
            [] t = ")"      -> <<i + 1, depth - 1, Nothing>>
            [] OTHER        -> <<i + 1, depth, Nothing>>

FindDefinitionEnd(sql) ==
  LET from[at \in Nat \X Int \X (Quotes \cup {Nothing})] ==
        LET next == AfterToken(sql, at[1], at[2], at[3])
        IN IF at[1] > Len(sql) THEN 0
           ELSE IF at[2] = 1 /\ next[2] = 0 THEN at[1]
           ELSE from[next]
      start == Position(sql, "(")
  IN IF start = 0 THEN 0 ELSE from[<<start, 0, Nothing>>]

FmtTableCreateSQL(sql) ==
  LET end == FindDefinitionEnd(sql)
  IN SubSeq(sql, 1, end)
       \o Only(Rest(sql, end + 1), LAMBDA t : t # " AUTO_INCREMENT=7")

-----------------------------------------------------------------------------
(* The clauses of an ALTER TABLE: the rest of the first line and one on    *)
(* every further line, without commas at its end.                          *)

AlterTable(table, clauses) ==
  <<"ALTER TABLE ">> \o QuoteIdentifier(table) \o
    FlattenSeq([i \in DOMAIN clauses |->
      <<"\n">> \o clauses[i] \o
        IF i = Len(clauses) THEN <<";">> ELSE <<",">>])

TrimmedRight(text) ==
  SubSeq(text, 1, SelectLastInSeq(text, LAMBDA t : t \notin {",", ";"}))

Lines(text) ==
  FoldLeft(LAMBDA lines, t : IF t = "\n" THEN Append(lines, <<>>)
                             ELSE [lines EXCEPT ![Len(lines)] = Append(@, t)],
           << <<>> >>, text)

AlterOperationClauses(sql) ==
  LET lines == Lines(sql)
      named == Tail(Head(lines))
      end == QuotedIdentifierEnd(named)
      clauses == <<Rest(named, end)>> \o Tail(lines)
  IN IF First(Head(lines)) # "ALTER TABLE " \/ end = 0 THEN <<>>
     ELSE Only([i \in DOMAIN clauses |-> TrimmedRight(clauses[i])],
               LAMBDA clause : clause # <<>>)

\* The foreign keys that a statement drops or adds.
IsForeignClauseAnywhere(clause) ==                                \* mutant
  Contains(clause, "DROP FOREIGN KEY ") \/ Contains(clause, "FOREIGN KEY ")
IsForeignClause(clause) ==
  \/ /\ First(clause) = "DROP FOREIGN KEY "
     /\ First(Tail(clause)) = Backtick
  \/ /\ First(clause) = "ADD CONSTRAINT "
     /\ LET named == Tail(clause)
            end == QuotedIdentifierEnd(named)
        IN end # 0 /\ First(Rest(named, end)) = "FOREIGN KEY "

ForeignKeyNamesFromAlterSQL(sql) ==
  LET of(clause) == ExtractQuotedIdentifier(Tail(clause), Backtick).name
      clauses == Only(AlterOperationClauses(sql), IsForeignClause)
  IN Only([i \in DOMAIN clauses |-> of(clauses[i])],
          LAMBDA read : read # <<>>)

-----------------------------------------------------------------------------
Init == name = <<>> /\ comment = <<>>

Room == Len(name) + Len(comment) < MaxTokens
TypeName == /\ Room
            /\ \E t \in Tokens : name' = Append(name, t)
            /\ UNCHANGED comment
TypeComment == /\ Room
               /\ \E t \in Tokens : comment' = Append(comment, t)
               /\ UNCHANGED name
Next == TypeName \/ TypeComment

Spec == Init /\ [][Next]_vars

-----------------------------------------------------------------------------
(* Whatever characters a name has, it is read back as it was written, and  *)
(* what follows it on the line, its definition, is found after it.         *)
NamesReadBack ==
  LET line == QuoteIdentifier(name) \o Literal(comment)
  IN /\ ExtractQuotedIdentifier(line, Backtick) = [ok |-> TRUE, name |-> name]
     /\ StripFieldNamePrefix(line) = Literal(comment)

(* The columns a foreign key references are read as they are or not at     *)
(* all, and then every change of the parent's columns counts as one of     *)
(* theirs; a part of the list, which would hide a column that is about to  *)
(* change, is never taken for the whole. Only a name that has a closing    *)
(* parenthesis makes a list unknown.                                       *)
ColumnsNeverCutShort ==
  LET a == QuoteIdentifier(name)
      b == QuoteIdentifier(comment)
      read == ParseQuotedIdentifierList(
                <<"(">> \o a \o <<",">> \o b \o <<")">>)
  IN name # <<>> /\ comment # <<>> =>
       read = <<name, comment>>
         \/ (read = <<>> /\ ")" \in ToSet(name \o comment))

(* The counter of a table is removed from a CREATE TABLE and nothing else  *)
(* is, whatever quotes, backslashes, parentheses and options the name of   *)
(* a column and its comment imitate. The name of the table itself is taken *)
(* to have no parenthesis: the definitions are looked for from the first.  *)
OnlyCounterRemoved ==
  LET create(options) ==
        <<"CREATE TABLE ", Backtick, "a", Backtick, "(">>
          \o QuoteIdentifier(name) \o <<"a", "(", "a", ")">> \o Literal(comment)
          \o <<")", " ENGINE=", "a">> \o options \o <<"a">>
  IN FmtTableCreateSQL(create(<<" AUTO_INCREMENT=7">>)) = create(<<>>)

(* From the statements it has written the tool reads exactly the foreign   *)
(* keys that they drop and add, neither more, whatever a comment or the    *)
(* name of a CHECK says, nor fewer, whatever the keys are called.          *)
ForeignKeysReadBack ==
  LET add == <<"ADD ">> \o QuoteIdentifier(comment) \o <<"a">>
               \o Literal(comment)
      check == <<"ADD CONSTRAINT ">> \o QuoteIdentifier(comment)
                 \o <<"CHECK ", "(">> \o Literal(comment) \o <<")">>
      drop == <<"DROP FOREIGN KEY ">> \o QuoteIdentifier(name)
      foreign == <<"ADD CONSTRAINT ">> \o QuoteIdentifier(name)
                   \o <<"FOREIGN KEY ", "(", "a", ")">>
      read(clauses) ==
        ForeignKeyNamesFromAlterSQL(AlterTable(name, clauses))
  IN name # <<>> =>
       /\ read(<<drop, add, check>>) = <<name>>
       /\ read(<<add, check, foreign>>) = <<name>>
       /\ read(<<check, add>>) = <<>>
=============================================================================
