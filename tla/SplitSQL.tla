------------------------------ MODULE SplitSQL ------------------------------
(***************************************************************************)
(* splitStatements of internal/migrate/statements.go: a migration file cut *)
(* at the semicolons that end a statement.  A text is a sequence of        *)
(* characters, those that matter to the splitter and one that stands for   *)
(* all others.                                                             *)
(***************************************************************************)
EXTENDS Integers, Sequences, SequencesExt

Blank == {" ", "\n"}

\* Mutant: a backslash escapes nothing.
AfterUnescaped(text, i, state) ==
  LET c == text[i]
      next == IF i < Len(text) THEN text[i + 1] ELSE "end"
      step(n, s) == [takes |-> n, state |-> s]
  IN
  CASE state = "quote"    -> step(1, IF c = "'" THEN "code" ELSE "quote")
    [] state = "backtick" -> step(1, IF c = "tick" THEN "code" ELSE "backtick")
    [] state = "line"     -> step(1, IF c = "\n" THEN "code" ELSE "line")
    [] state = "block"    -> IF c = "*" /\ next = "/" THEN step(2, "code") ELSE step(1, "block")
    [] OTHER              -> CASE c = "'"               -> step(1, "quote")
                               [] c = "tick"            -> step(1, "backtick")
                               [] c = "-" /\ next = "-" -> step(2, "line")
                               [] c = "#"               -> step(1, "line")
                               [] c = "/" /\ next = "*" -> step(2, "block")
                               [] OTHER                 -> step(1, "code")

\* The characters of a text from i on that the machine takes in one step, and the
\* state after them.  Two states hold text, two are comments.
After(text, i, state) ==
  LET c == text[i]
      next == IF i < Len(text) THEN text[i + 1] ELSE "end"
      step(n, s) == [takes |-> n, state |-> s]
  IN
  CASE state = "quote"    -> CASE c = "\\" /\ next # "end" -> step(2, "quote")
                               [] c = "'"                  -> step(1, "code")
                               [] OTHER                    -> step(1, "quote")
    [] state = "backtick" -> step(1, IF c = "tick" THEN "code" ELSE "backtick")
    [] state = "line"     -> step(1, IF c = "\n" THEN "code" ELSE "line")
    [] state = "block"    -> IF c = "*" /\ next = "/" THEN step(2, "code") ELSE step(1, "block")
    [] state = "code"     -> CASE c = "'"                -> step(1, "quote")
                               [] c = "tick"                -> step(1, "backtick")
                               [] c = "-" /\ next = "-"  -> step(2, "line")
                               [] c = "#"                -> step(1, "line")
                               [] c = "/" /\ next = "*"  -> step(2, "block")
                               [] OTHER                  -> step(1, "code")

\* Comments are dropped but for the newline that ends a line comment, and the
\* semicolon is not written either.
Writes(text, i, state) ==
  LET after == After(text, i, state)
      kept  == SubSeq(text, i, i + after.takes - 1)
  IN
  CASE state \in {"quote", "backtick"} -> kept
    [] state = "line"                  -> IF text[i] = "\n" THEN kept ELSE <<>>
    [] state = "block"                 -> <<>>
    [] state = "code"                  ->
         IF after.state \in {"line", "block"} \/ text[i] = ";" THEN <<>> ELSE kept

\* strings.TrimSpace.
Trim(s) ==
  LET solid == {i \in DOMAIN s : s[i] \notin Blank}
  IN  IF solid = {} THEN <<>>
      ELSE SubSeq(s, CHOOSE i \in solid : \A j \in solid : i <= j,
                     CHOOSE i \in solid : \A j \in solid : j <= i)

Flushed(current) == IF Trim(current) = <<>> THEN <<>> ELSE <<Trim(current)>>

\* One turn of the loop, at character i, when the machine has written current since
\* the last semicolon.
Turn(text, s) ==
  IF s.i > Len(text) THEN s
  ELSE LET after == After(text, s.i, s.state)
           current == s.current \o Writes(text, s.i, s.state)
           ends == s.state = "code" /\ text[s.i] = ";"
       IN  [i |-> s.i + after.takes, state |-> after.state,
            current |-> IF ends THEN <<>> ELSE current,
            out |-> IF ends THEN s.out \o Flushed(current) ELSE s.out]

splitStatements(text) ==
  LET run[n \in 0 .. Len(text)] ==
        IF n = 0 THEN [i |-> 1, state |-> "code", current |-> <<>>, out |-> <<>>]
        ELSE Turn(text, run[n - 1])
      last == run[Len(text)]
  IN  last.out \o Flushed(last.current)

----------------------------------------------------------------------------
(***************************************************************************)
(* Property, of a file put together from pieces.                           *)
(***************************************************************************)
\* A file of statements, each a sequence of pieces with the text that is written
\* and the text that should be kept (none of a comment): the splitter gives each
\* statement's kept text, cut nowhere else, and no statement for one without any
\* (statements.go:5-12).
CutsOnlyBetween(file) ==
  LET written(s) == FlattenSeq([i \in DOMAIN s |-> s[i].written]) \o <<";">>
      kept(s)    == FlattenSeq([i \in DOMAIN s |-> s[i].kept])
      expected[i \in 1 .. Len(file) + 1] ==
        IF i > Len(file) THEN <<>> ELSE Flushed(kept(file[i])) \o expected[i + 1]
  IN  splitStatements(FlattenSeq([i \in DOMAIN file |-> written(file[i])])) = expected[1]
=============================================================================
