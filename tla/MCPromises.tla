---------------------------- MODULE MCPromises -----------------------------
(***************************************************************************)
(* Promises that comments and tests of the repository make of components   *)
(* that stand by themselves, and that the code does not keep.  One         *)
(* behaviour breaks them all: those of the functions by the call that is   *)
(* made, and those of the machines in turn.  A machine takes its steps     *)
(* until its promise is broken, and rests from then on.  The components    *)
(* share nothing, so this order is as good as any, and keeps the search    *)
(* small.                                                                  *)
(***************************************************************************)
EXTENDS IssueStore, Triage, Projects, Lists, AlertRules, Grouping, TLC

VARIABLE call

----------------------------------------------------------------------------
(***************************************************************************)
(* Values for the constants, and the calls of the functions: two           *)
(* occurrences of one bug, and a request for a rule.                       *)
(***************************************************************************)
OneTrace == <<1, 1>>

OnlyPlace ==
  [source |-> [NoFile EXCEPT !.dirs = <<"a">>, !.base = "cart", !.ext = "ts"],
   function |-> "pay", position |-> 1]
OnlyPlaces == {OnlyPlace}

TheBug == [type |-> "TypeError", message |-> <<>>, stack |-> <<OnlyPlace>>]
With(fingerprint) ==
  [build |-> [hash |-> "a3f9", shift |-> 0], host |-> "cdn1", id |-> "7", library |-> FALSE,
   wrapped |-> FALSE, bundled |-> FALSE, mapped |-> FALSE, fingerprint |-> fingerprint]

Fingerprints == {<<>>, <<"mine">>, <<"default">>, <<"default", "mine">>}

SlowRule == [NoConditions EXCEPT !.metric = "m", !.agg = "avg", !.operator = "gt", !.window = 2]
Requests ==
  [kind : {"metric"}, enabled : {TRUE}, throttle : {0}, channels : Channels,
   conditions : {SlowRule, [SlowRule EXCEPT !.mistyped = {"threshold"}],
                 [SlowRule EXCEPT !.mistyped = {"value"}]}]

PromiseInit ==
  /\ \E one, two \in Fingerprints, request \in Requests :
       call = [one |-> With(one), two |-> With(two), request |-> request]
  /\ IssueInit /\ TriageInit /\ ProjectsInit
  /\ ListsInit /\ list = "segments"

----------------------------------------------------------------------------
\* What is promised of the functions, and kept for this call by one of them.
CallKeepsPromise ==
  \/ ExtrasTellApart(TheBug, call.one, call.two, OnlyPlaces)
  \/ NotifiesSomeone(call.request)
  \/ Evaluates(call.request)

\* Whose turn it is.
PromiseNext ==
  /\ ~CallKeepsPromise
  /\ \/ /\ EveryReopenIsReported /\ IssueNext
        /\ UNCHANGED <<triageVars, projectVars, listVars>>
     \/ /\ ~EveryReopenIsReported /\ StragglersAreExpected /\ TriageNext
        /\ UNCHANGED <<issueVars, projectVars, listVars>>
     \/ /\ ~EveryReopenIsReported /\ ~StragglersAreExpected /\ PurgeIsComplete /\ ProjectsNext
        /\ UNCHANGED <<issueVars, triageVars, listVars>>
     \/ /\ ~EveryReopenIsReported /\ ~StragglersAreExpected /\ ~PurgeIsComplete /\ ListsNext
        /\ UNCHANGED <<issueVars, triageVars, projectVars>>
  /\ UNCHANGED call

promiseVars == <<issueVars, triageVars, projectVars, listVars, call>>

PromiseSpec == PromiseInit /\ [][PromiseNext]_promiseVars

\* At any time one at least of the promises is kept.  Each of them, if it were kept
\* throughout, would make it so; where this is violated, every one of them is: of
\* regressions (issues.go:26-27), of stragglers (issue_queries.go:173), of the purge
\* (project.go:8-9), of paging (spans.go:175-176), of extras in a fingerprint
\* (grouping.go:52-56, 96-97) and, twice, of rules (alert_handlers.go:97-99, 179-180).
SomePromiseIsKept ==
  \/ EveryReopenIsReported
  \/ StragglersAreExpected
  \/ PurgeIsComplete
  \/ SegmentsAreNotSkipped
  \/ CallKeepsPromise
=============================================================================
