----------------------------- MODULE MCGateway -----------------------------
(***************************************************************************)
(* Instances of Gateway for TLC: bodies that are whole, of nothing known,  *)
(* cut, over a limit and not to be encoded.                                *)
(***************************************************************************)
EXTENDS Gateway, TLC

Preamble == <<Object("none", 0), NewLine>>
item(type, payload) == <<Object(type, Len(payload)), NewLine>> \o payload \o <<NewLine>>

body(units, end) == [units |-> units, end |-> end]

One     == body(Preamble \o item("error", <<Value>>), "eof")
Two     == body(Preamble \o item("error", <<Value>>) \o item("log", <<Value>>), "eof")
Newer   == body(Preamble \o item("future", <<Value>>), "eof")
Cut     == body(Preamble \o item("error", <<Value>>), "cut")
TooMany == body(Preamble \o item("log", <<Value>>) \o item("log", <<Value>>)
                     \o item("log", <<Value>>), "eof")
NoJSON  == body(Preamble \o item("log", <<Junk>>), "eof")

AllBodies == {One, Two, Newer, Cut, TooMany, NoJSON}
OneOrNone == {One, NoJSON}

Symmetry == Permutations(Caller)
=============================================================================
