----------------------------- MODULE MCServices -----------------------------
(***************************************************************************)
(* Instances, for TLC, of the components that stand by themselves.  A      *)
(* behaviour is one of one part: a state machine that takes its steps      *)
(* while the others rest, or a function, of which it is a call.            *)
(***************************************************************************)
EXTENDS Projects, Migrations, Lists, Triage, Transport, Calls, TLC

----------------------------------------------------------------------------
(***************************************************************************)
(* Values for the constants.                                               *)
(***************************************************************************)
\* Builds of the migrator: a file, the same with a newer one and a directory among
\* them, an edited one, and one with a version used twice.
file(version, body) == [kind |-> "file", version |-> version, body |-> body]
subdirectory        == [kind |-> "dir", version |-> 0, body |-> 0]
MigratorBuilds == {{file(1, 1)}, {file(2, 1), file(1, 1), subdirectory},
            {file(1, 2), file(2, 1)}, {file(1, 1), file(1, 2)}}

Traces == <<1, 1, 2>>

----------------------------------------------------------------------------
(***************************************************************************)
(* Calls of the functions.                                                 *)
(***************************************************************************)
\* Migration files of at most two statements of at most two pieces.
text(chars)           == [written |-> chars, kept |-> chars]
comment(chars, kept)  == [written |-> chars, kept |-> kept]
Pieces ==
  {text(<<"x">>), text(<<" ">>), text(<<"-", "x">>),
   text(<<"'", ";", "-", "-", "'">>), text(<<"'", "\\", "'", ";", "'">>),
   text(<<"tick", ";", "'", "tick">>),
   comment(<<"-", "-", "'", ";", "\n">>, <<"\n">>), comment(<<"#", ";", "\n">>, <<"\n">>),
   comment(<<"/", "*", ";", "'", "*", "/">>, <<>>)}
UpTo(n, S) == UNION {[1 .. m -> S] : m \in 0 .. n}
FileCalls == UpTo(2, UpTo(2, Pieces))

\* Envelopes of at most three items.
Payloads == {<<>>, <<Value>>, <<NewLine, Junk>>, <<Object("log", 1)>>, <<Value, Value, Value>>}
ItemCalls == UpTo(3, [type : {"error", "future"}, payload : Payloads])

\* Bugs, and two occurrences of one or one occurrence of two.
source(dirs, base, suffix) ==
  [NoFile EXCEPT !.dirs = dirs, !.base = base, !.suffix = suffix, !.ext = "ts"]
place(s, f, p) == [source |-> s, function |-> f, position |-> p]
SourcePlaces == {place(source(<<"a">>, "index", ""), "render", 1), place(source(<<"b">>, "index", ""), "render", 2),
           place(source(<<"a">>, "index", ""), "submit", 6),
          place(source(<<"a">>, "cart", "checkout"), "pay", 3),
           place(source(<<"a">>, "cart", "payments"), "pay", 4),
           place(source(<<"node_modules">>, "lib", ""), "", 5)}
Stacks == {<<>>} \cup {<<p>> : p \in Places} \cup {<<p, q>> : p \in Places, q \in {CHOOSE r \in Places : r.position = 3}}
word(t, looks) == [text |-> t, looks |-> looks]
Bugs == [type : {"", "TypeError"}, message : {<<>>, <<word("timeout", {})>>, <<word("41", {"number"})>>}, stack : Stacks]
Occurrences ==
  [build : {[hash |-> "a3f9", shift |-> 0], [hash |-> "b7c2", shift |-> 1]}, host : {"cdn2"},
   id : {"8"}, library : BOOLEAN, wrapped : BOOLEAN, bundled : BOOLEAN, mapped : BOOLEAN,
   fingerprint : {<<>>, <<"mine">>, <<"", "mine">>, <<"">>, <<"default", "mine">>}]
\* What differs in every way that should not matter, against one that is plain.
Plain(bundled, mapped) ==
  [build |-> [hash |-> "a3f9", shift |-> 0], host |-> "cdn1", id |-> "7", library |-> FALSE,
   wrapped |-> FALSE, bundled |-> bundled, mapped |-> mapped, fingerprint |-> <<>>]
SameBugCall ==
  \E b \in {b \in Bugs : b.message # <<>> \/ b.stack = <<>>}, o \in Occurrences,
     f \in {<<>>, <<"mine">>, <<"">>, <<"default">>, <<"mine", "default">>}, x, y \in BOOLEAN :
    call = [bug |-> b, one |-> o, two |-> [Plain(x, y) EXCEPT !.fingerprint = f]]
TwoBugsCall ==
  \E b, c \in Bugs, x, w \in BOOLEAN :
    call = [bug |-> b, other |-> c, one |-> [Plain(x, TRUE) EXCEPT !.wrapped = w]]

\* Searches of one or two clauses.
clause(n, f, o, v, q) == [negated |-> n, field |-> f, op |-> o, value |-> v, quoted |-> q]
Names   == {<<"l">>, <<"u", ".", "i">>, <<"d">>, <<"t">>, <<"t", ".", "k">>, <<"k">>}
Unquoted    == {<<>>, <<"a">>, <<"2">>, <<"a", ":", "a">>, <<"a", "-", "a">>}
InQuotes == {<<>>, <<"a">>, <<"2">>, <<"a", " ", "a">>, <<"a", ":", "a">>, <<"!", "a">>}
Signs   == {<<>>, <<">">>, <<"<">>, <<">", "=">>, <<"<", "=">>}
Clauses ==
  {clause(n, f, o, v, FALSE) : n \in BOOLEAN, f \in Names, o \in Signs, v \in Unquoted}
  \cup {clause(n, f, o, v, TRUE) : n \in BOOLEAN, f \in Names, o \in Signs, v \in InQuotes}
  \cup {clause(n, <<>>, <<>>, v, FALSE) : n \in BOOLEAN, v \in {<<"a">>, <<":", "a">>, <<"a", "-", "a">>}}
  \cup {clause(n, <<>>, <<>>, v, TRUE) : n \in BOOLEAN, v \in InQuotes}
FurtherClauses ==
  {clause(n, f, <<>>, v, FALSE) : n \in BOOLEAN, f \in {<<"l">>, <<"k">>}, v \in {<<>>, <<"a">>}}
SearchCall == \E c \in Clauses : call = <<c>> \/ \E d \in FurtherClauses : call = <<c, d>>

row(p, t, e, l, d, k) ==
  [project |-> p, time |-> t, environment |-> e, l |-> l, d |-> d, t |-> [x \in {<<"k">>} |-> k], body |-> l]
  @@ ("u.i" :> <<"a">>)
Texts == {<<>>, <<"a">>, <<"a", " ", "a">>, <<"!", "a">>, <<"a", ":", "a">>, <<"a", "-", "a">>}
Rows == {row("p", 1, "e", l, d, k) : l \in Texts, d \in 1 .. 3, k \in {<<>>, <<"a">>, <<"2">>}}
         \cup {row(q, t, e, <<"a">>, 2, <<"a">>) : q \in {"p", "q"}, t \in 0 .. 2, e \in {"e", "f"}}
MyScope == [project |-> "p", from |-> 1, to |-> 2, environment |-> "e"]

\* Payloads of every kind, from devices whose clocks are right, off, or far off.
Devices == [received : {10}, flushed : 8 .. 10, off : {-6, -3, 0, 3, 6}, stamps : BOOLEAN]
payload(w, tags, d) ==
  [time |-> NoTime, id |-> "", ip |-> "", environment |-> "", tags |-> tags, word |-> w, duration |-> d]
PayloadCall ==
  \E device \in Devices, happened \in {3, 6, 8}, other \in {5, 8}, type \in Decoded,
     p \in {payload("warning", {"a"}, 3), payload("fatal", {}, 0), payload("panic", {}, -1)} :
    /\ happened <= device.flushed /\ other <= device.flushed
    /\ call = [device |-> device, happened |-> happened, other |-> other, type |-> type, payload |-> p]

\* Rules, and what they are evaluated on.
rule(kind, channels, conditions) ==
  [kind |-> kind, channels |-> channels, conditions |-> conditions, throttle |-> 0, enabled |-> TRUE]
Observed(r, signal, events, levels, samples, now) ==
  call = [request |-> r, signal |-> signal, events |-> events, levels |-> levels,
          samples |-> samples, now |-> now]
sample(id, at, v) == [id |-> id, at |-> at, value |-> v]
Signals == [kind : {"new_issue", "regression"}, level : {"error", "fatal"},
            environment : {"production", "staging"}, release : {"1.0", "1.1"}]
AnySignal == CHOOSE s \in Signals : TRUE
Samples ==
  {{}} \cup {{sample(1, t, v)} : t \in 0 .. 11, v \in 1 .. 2}
       \cup {{sample(1, t, v), sample(2, u, 2)} : t, u \in {1, 4, 7, 8, 9, 10}, v \in 1 .. 2}
Events == {{[id |-> i, group |-> g[i], at |-> t[i]] : i \in 1 .. 3} :
             g \in [1 .. 3 -> {"g1", "g2"}], t \in [1 .. 3 -> {5, 8}]}
\* Conditions that are read, that are read when the rule is made and not when it is
\* evaluated, and that are no object.
Read(mistyped) == [NoConditions EXCEPT !.mistyped = mistyped]
AnyReading     == {Read({}), Read({"threshold"}), Read({"value"}), [NoConditions EXCEPT !.object = FALSE]}
metricRule(ch, c, a, o, w) ==
  rule("metric", ch, [c EXCEPT !.metric = "m", !.agg = a, !.operator = o, !.value = 2, !.window = w])
RuleCall ==
  \/ \E k \in {"new_issue", "regression", "other"}, ch \in Channels, c \in AnyReading,
        l \in {"", "fatal"}, e \in {"", "staging"}, r \in {"", "1.1"}, s \in Signals :
       Observed(rule(k, ch, [c EXCEPT !.level = l, !.environment = e, !.release = r]),
                s, {}, <<>>, {}, 9)
  \/ \E ch \in {"one", "null"}, m \in {{}, {"level"}}, n \in 0 .. 2, w \in {0, 2, 4}, l \in {"", "fatal"},
        events \in Events, levels \in {"g1" :> "fatal", ("g1" :> "error") @@ ("g2" :> "fatal")} :
       Observed(rule("frequency", ch, [Read(m) EXCEPT !.threshold = n, !.window = w, !.level = l]),
                AnySignal, events, levels, {}, 9)
  \/ \E a \in Aggs, o \in Operators, w \in {0, 1, 2, 3, 8}, samples \in Samples, now \in {9, 10} :
       Observed(metricRule("one", NoConditions, a, o, w), AnySignal, {}, <<>>, samples, now)
  \/ \E ch \in Channels, c \in AnyReading, samples \in {{}, {sample(1, 8, 2)}} :
       Observed(metricRule(ch, c, "sum", "gte", 2), AnySignal, {}, <<>>, samples, 10)

\* Every call is one of those that CallTypes allows.
ASSUME CallsAssumption ==
  /\ FileCalls \subseteq Seq(Seq(Piece)) /\ ItemCalls \subseteq Seq(AnyItem)
  /\ Bugs \subseteq Bug
  /\ \A bundled, mapped \in BOOLEAN :
       Occurrences \cup {Plain(bundled, mapped)} \subseteq BugOccurrence /\ Unlike(Plain(bundled, mapped))
  /\ Clauses \cup FurtherClauses \subseteq Clause /\ \A c \in Clauses \cup FurtherClauses : Writable(c)
  /\ Devices \subseteq Device
  /\ \A d \in Devices : d.flushed <= d.received /\ \A t \in {d.flushed, 3, 5, 6, 8} : t + d.off # NoTime

----------------------------------------------------------------------------
Machines == {"projects", "migrations", "lists", "triage", "transport"}
NoCall   == <<>>

Init ==
  /\ \/ part \in Machines   /\ call = NoCall
     \/ part = "files"      /\ call \in FileCalls
     \/ part = "envelopes"  /\ call \in ItemCalls
     \/ part = "one bug"    /\ SameBugCall
     \/ part = "two bugs"   /\ TwoBugsCall
     \/ part = "searches"   /\ SearchCall
     \/ part = "payloads"   /\ PayloadCall
     \/ part = "rules"      /\ RuleCall
  /\ ProjectsInit /\ MigrationsInit /\ ListsInit /\ TriageInit /\ TransportInit
  /\ part # "migrations" => engine = "postgres"
  /\ part # "lists" => list = "logs"

Next ==
  \/ /\ part = "projects" /\ ProjectsNext
     /\ UNCHANGED <<callVars, migrationVars, listVars, triageVars, transportVars>>
  \/ /\ part = "migrations" /\ MigrationsNext
     /\ UNCHANGED <<callVars, projectVars, listVars, triageVars, transportVars>>
  \/ /\ part = "lists" /\ ListsNext
     /\ UNCHANGED <<callVars, projectVars, migrationVars, triageVars, transportVars>>
  \/ /\ part = "triage" /\ TriageNext
     /\ UNCHANGED <<callVars, projectVars, migrationVars, listVars, transportVars>>
  \/ /\ part = "transport" /\ TransportNext
     /\ UNCHANGED <<callVars, projectVars, migrationVars, listVars, triageVars>>

serviceVars == <<callVars, projectVars, migrationVars, listVars, triageVars, transportVars>>

\* Where the transport is followed, its timers fire (TransportFairSpec).
FairSpec ==
  /\ Init /\ [][Next]_serviceVars
  /\ WF_transportVars(part = "transport" /\ TimerFires)
  /\ WF_transportVars(part = "transport" /\ \E r \in requests : TimesOut(r))
=============================================================================
