------------------------------- MODULE Query -------------------------------
(***************************************************************************)
(* The search language of internal/query: a text is cut into tokens, the   *)
(* tokens are checked against a schema and become conditions, and these    *)
(* become a WHERE clause, which is modelled by the rows it selects.        *)
(*                                                                         *)
(* A text is a sequence of characters, each a string of length one.  The   *)
(* schema has one field of each sort, with names of a letter.  Numbers,    *)
(* durations, times and severities are one sort: all four are a name or a  *)
(* spelling that is turned into a number or refused.                       *)
(***************************************************************************)
EXTENDS Integers, Sequences, SequencesExt

\* Schema.Fields: l for a text column such as level, u.i for one whose name has a
\* dot, d for a number such as duration, and t for the catch-all map of tags.
Fields == [l |-> "text", d |-> "number", t |-> "map"]
Dotted == <<"u", ".", "i">>

NoTag  == <<>>
Number  == [c \in {"1", "2", "3"} |-> CASE c = "1" -> 1 [] c = "2" -> 2 [] c = "3" -> 3]
Space   == {" "}

Strip(text) ==
  LET solid == {i \in DOMAIN text : text[i] \notin Space}
  IN  IF solid = {} THEN <<>>
      ELSE SubSeq(text, CHOOSE i \in solid : \A j \in solid : i <= j,
                        CHOOSE i \in solid : \A j \in solid : j <= i)

----------------------------------------------------------------------------
(***************************************************************************)
(* lex.                                                                    *)
(***************************************************************************)
NoToken == [tokens |-> <<>>, current |-> <<>>, field |-> <<>>, negated |-> FALSE,
           inQuote |-> FALSE, quoted |-> FALSE, hasPair |-> FALSE]

\* flush; nothing at all is no token, whatever stood before the colon.
flush(s) ==
  [NoToken EXCEPT !.inQuote = s.inQuote,
     !.tokens = IF s.current = <<>> /\ ~s.quoted THEN s.tokens
                ELSE Append(s.tokens, [pair |-> s.hasPair, field |-> s.field, value |-> s.current,
                                       negated |-> s.negated, quoted |-> s.quoted])]

LexChar(s, c) ==
  LET write == [s EXCEPT !.current = Append(@, c)]
      first == s.current = <<>> /\ ~s.hasPair
  IN
  IF c = "\"" THEN [s EXCEPT !.inQuote = ~@, !.quoted = TRUE]
  ELSE IF s.inQuote THEN write
  ELSE IF c \in Space THEN flush(s)
  ELSE IF c = ":" /\ ~s.hasPair /\ s.current # <<>>
       THEN [s EXCEPT !.field = s.current, !.current = <<>>, !.hasPair = TRUE]
  ELSE IF c \in {"!", "-"} /\ first THEN [s EXCEPT !.negated = TRUE]
  ELSE write

lex(text) ==
  LET after[n \in 0 .. Len(text)] == IF n = 0 THEN NoToken ELSE LexChar(after[n - 1], text[n])
  IN  flush(after[Len(text)]).tokens

----------------------------------------------------------------------------
(***************************************************************************)
(* Parse.                                                                  *)
(***************************************************************************)
\* Schema.Lookup: the column, its sort, and the key where the column is a map.
Lookup(name) ==
  LET n    == Strip(name)
      dots == {i \in DOMAIN n : n[i] = "."}
      dot  == IF dots = {} THEN 0 ELSE CHOOSE i \in dots : \A j \in dots : i <= j
      base == SubSeq(n, 1, dot - 1)
      on(column, sort, key) == [column |-> column, sort |-> sort, key |-> key]
  IN
  IF n = Dotted THEN on("u.i", "text", NoTag)
  ELSE IF dot > 0 /\ base = <<"t">> THEN on("t", "map", SubSeq(n, dot + 1, Len(n)))
  ELSE IF Len(n) = 1 /\ n[1] \in DOMAIN Fields THEN on(n[1], Fields[n[1]], NoTag)
  ELSE on("t", "map", n)

\* Mutant: signs are looked for inside quotes.
splitAnyOp(token) ==
  LET v == token.value
      starts(n, o) == Len(v) >= n /\ SubSeq(v, 1, n) = o
      cut(op, n) == [op |-> op, raw |-> SubSeq(v, n + 1, Len(v))]
  IN
  IF starts(2, <<">", "=">>) THEN cut(">=", 2)
  ELSE IF starts(2, <<"<", "=">>) THEN cut("<=", 2)
  ELSE IF starts(1, <<">">>) THEN cut(">", 1)
  ELSE IF starts(1, <<"<">>) THEN cut("<", 1)
  ELSE cut("=", 0)

splitOp(token) ==
  LET v == token.value
      starts(n, o) == ~token.quoted /\ Len(v) >= n /\ SubSeq(v, 1, n) = o
      cut(op, n) == [op |-> op, raw |-> SubSeq(v, n + 1, Len(v))]
  IN
  IF starts(2, <<">", "=">>) THEN cut(">=", 2)
  ELSE IF starts(2, <<"<", "=">>) THEN cut("<=", 2)
  ELSE IF starts(1, <<">">>) THEN cut(">", 1)
  ELSE IF starts(1, <<"<">>) THEN cut("<", 1)
  ELSE cut("=", 0)

\* coerce: a number, or the text without the spaces around it.
Coercible(sort, raw) == sort = "number" => Len(Strip(raw)) = 1 /\ Strip(raw)[1] \in DOMAIN Number
coerce(sort, raw)    == IF sort = "number" THEN Number[Strip(raw)[1]] ELSE Strip(raw)

\* An ordering is refused on a text column, and not on a key of a map.
Parseable(token) ==
  LET field == Lookup(token.field)  split == splitOp(token)  IN
  token.pair => /\ Coercible(field.sort, split.raw)
                /\ split.op # "=" => field.sort # "text"

Condition(token) ==
  LET field == Lookup(token.field)  split == splitOp(token)  IN
  [field |-> field, value |-> coerce(field.sort, split.raw), negated |-> token.negated,
   op |-> IF token.negated /\ split.op = "=" THEN "!=" ELSE split.op]

----------------------------------------------------------------------------
(***************************************************************************)
(* Compile.  A row has its project, its time and its environment, and a    *)
(* value in every column; a map has the empty text under a key it lacks.   *)
(***************************************************************************)
Compares(a, op, b) ==
  IF op = "=" THEN a = b ELSE IF op = "!=" THEN a # b
  ELSE IF op = ">" THEN a > b ELSE IF op = ">=" THEN a >= b
  ELSE IF op = "<" THEN a < b ELSE a <= b

\* tags without a key cannot be compiled.
Compilable(cond) == cond.field.sort = "map" => cond.field.key # NoTag

\* On a map there is = and !=, and everything else is taken for =.
Selects(cond, row) ==
  IF cond.field.sort = "map"
  THEN Compares(row.t[cond.field.key], IF cond.op = "!=" THEN "!=" ELSE "=", cond.value)
  ELSE LET holds == Compares(row[cond.field.column], cond.op, cond.value)
       IN  IF cond.negated /\ cond.op # "!=" THEN ~holds ELSE holds

Finds(text, word) ==
  \E i \in 0 .. Len(text) - Len(word) : SubSeq(text, i + 1, i + Len(word)) = word

\* What a handler's search selects: Parse and Compile for the caller's project and
\* time range, and applyEnvironment.  The tokens are of the whole text.
IsRefused(tokens) ==
  \E token \in Range(tokens) :
    ~Parseable(token) \/ (token.pair /\ ~Compilable(Condition(token)))

Search(tokens, scope, row) ==
  /\ row.project = scope.project
  /\ scope.from <= row.time /\ row.time < scope.to
  /\ scope.environment # "" => row.environment = scope.environment
  /\ \A token \in Range(tokens) :
       IF token.pair THEN Selects(Condition(token), row)
       ELSE token.value # <<>> => Finds(row.body, token.value)

----------------------------------------------------------------------------
(***************************************************************************)
(* What a query says.  A clause as a user writes it: a word, or a field    *)
(* with a comparison and a value, in quotes or not, negated or not.        *)
(***************************************************************************)
Quote(text) == <<"\"">> \o text \o <<"\"">>
Spelled(clause) ==
  (IF clause.negated THEN <<"!">> ELSE <<>>)
  \o (IF clause.field # <<>> THEN Append(clause.field, ":") ELSE <<>>)
  \o clause.op
  \o (IF clause.quoted THEN Quote(clause.value) ELSE clause.value)

OpOf(clause) ==
  IF clause.op = <<>> THEN "="
  ELSE IF clause.op = <<">">> THEN ">"
  ELSE IF clause.op = <<"<">> THEN "<"
  ELSE IF clause.op = <<">", "=">> THEN ">=" ELSE "<="

\* A word or a quoted value is as it stands.
ValueIn(clause, row) ==
  LET field == Lookup(clause.field)
  IN  IF field.sort = "map" THEN row.t[field.key] ELSE row[field.column]

\* A comparison whose value is in quotes has its sign in front of the quotes, and
\* there the sign is part of the value.
Literal(clause) == IF clause.quoted THEN clause.op \o clause.value ELSE clause.value
Sign(clause)    == IF clause.quoted THEN "=" ELSE OpOf(clause)

Says(clause, row) ==
  IF clause.field = <<>> THEN clause.negated # Finds(row.body, clause.value)
  ELSE LET field == Lookup(clause.field)
       IN  clause.negated # Compares(ValueIn(clause, row), Sign(clause), coerce(field.sort, Literal(clause)))

\* What cannot be searched for: an ordering of texts, a number that is none, the
\* map as a whole.
Senseless(clause) ==
  LET field == Lookup(clause.field)
  IN  /\ clause.field # <<>> /\ (clause.value # <<>> \/ clause.op # <<>> \/ clause.quoted)
      /\ \/ field.sort = "text" /\ Sign(clause) # "="
         \/ field.sort = "number" /\ ~Coercible("number", Literal(clause))
         \/ field.sort = "map" /\ field.key = NoTag

\* The language gives a negated word for the word itself, an ordering of a tag for
\* its equality, negated or not, and nothing for a field that is given no value.
Gives(clause, row) ==
  LET field == Lookup(clause.field)  IN
  IF clause.field = <<>> THEN Finds(row.body, clause.value)
  ELSE IF clause.op = <<>> /\ clause.value = <<>> /\ ~clause.quoted THEN TRUE
  ELSE IF field.sort = "map" /\ Sign(clause) # "=" THEN ValueIn(clause, row) = Strip(clause.value)
  ELSE Says(clause, row)

\* A search is refused exactly when a clause of it makes no sense, and otherwise
\* selects the rows of the caller's project, time range and environment that every
\* clause selects (compile.go:20-26, filters.go:16-28), whatever values and quotes
\* hold (lex.go:39-42), and they select what they say (parse.go:76-77), but for
\* those that Gives lists.
SearchSelectsWhatItSays(clauses, scope, rows) ==
  LET text   == FlattenSeq([i \in DOMAIN clauses |-> Append(Spelled(clauses[i]), " ")])
      tokens == lex(text)
      all    == Range(clauses)
  IN
  /\ IsRefused(tokens) <=> \E c \in all : Senseless(c)
  /\ ~IsRefused(tokens) =>
       \A row \in rows : Search(tokens, scope, row) <=>
         /\ row.project = scope.project /\ row.time \in scope.from .. scope.to - 1
         /\ scope.environment \in {"", row.environment}
         /\ \A c \in all : Gives(c, row)
=============================================================================
