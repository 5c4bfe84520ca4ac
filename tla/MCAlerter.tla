----------------------------- MODULE MCAlerter -----------------------------
(***************************************************************************)
(* Instances of Alerter for TLC: one issue; a rule for new issues, one for *)
(* spikes and one for a slow endpoint; and signals that match the first or *)
(* cannot be read.                                                         *)
(***************************************************************************)
EXTENDS Alerter, TLC

CONSTANTS a1, a2, i1, new, spike, slow

MCKindOf == (new :> "signal") @@ (spike :> "frequency") @@ (slow :> "metric")

signal(matches, readable) == [issue |-> i1, matches |-> matches, readable |-> readable]

MCSignals == {signal({new}, TRUE), signal({}, FALSE)}

Symmetry == Permutations(Replica)
=============================================================================
