---------------------------- MODULE MCProcessor ----------------------------
(***************************************************************************)
(* Instances of Processor for TLC: jobs of one group, and the envelopes a  *)
(* run publishes, in any order and number up to MaxEntries.                *)
(***************************************************************************)
EXTENDS Processor, TLC

CONSTANTS g1, w1, w2

MCBody == Job

job(kind, wellFormed) == [kind |-> kind, group |-> g1, wellFormed |-> wellFormed]
Error == job("error", TRUE)
Log   == job("log", TRUE)
BadError == job("error", FALSE)

\* Errors of one issue and a log, alone or together.
ErrorsAndLogs == {<<Error>>, <<Error, Log>>}

\* An error that can be written, one that never can, and two jobs of which the
\* first goes to a table that is down.
GoodBadAndDown == {<<Error>>, <<BadError>>, <<job("span", TRUE), job("metric", TRUE)>>}

\* One of every way through the loop over a batch.
EveryKind == {<<Error, Log>>, <<job("session", TRUE), job("garbage", FALSE)>>,
              <<job("span", TRUE), job("metric", TRUE)>>, <<job("log", FALSE)>>}

GoodAndBad == {<<Error>>, <<BadError>>}

ErrorsOnly == {<<Error>>}
=============================================================================
