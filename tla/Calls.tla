------------------------------- MODULE Calls -------------------------------
(***************************************************************************)
(* The services' functions that keep no state.  A behaviour is one call,   *)
(* of the function that part names: what a caller may give, and what each  *)
(* function promises of whatever it is given.                              *)
(***************************************************************************)
EXTENDS SplitSQL, Envelope, Grouping, Query, Normalize, AlertRules

VARIABLES part, call

callVars == <<part, call>>

----------------------------------------------------------------------------
(***************************************************************************)
(* Migration files: sequences of statements, each of code, of names in     *)
(* backticks, of strings and of comments.                                  *)
(***************************************************************************)
\* No character is spelled "end", which stands for the code's 0 behind the last.  (That
\* those named here are strings is not known to the provers.)
Character == {"\n", ";", " ", "\"", ":", "!", ">", "<", "="} \cup (STRING \ {"end"})
Chars     == Seq(Character)

\* Code: nothing begins or ends in it.
Bare(w) ==
  \A k \in 1 .. Len(w) :
    /\ w[k] \notin {"'", "tick", "#", ";"}
    /\ w[k] = "-" => k < Len(w) /\ w[k + 1] # "-"
    /\ w[k] = "/" => k < Len(w) /\ w[k + 1] # "*"

\* A name in backticks.
Ticked(w) ==
  /\ Len(w) >= 2 /\ w[1] = "tick" /\ w[Len(w)] = "tick"
  /\ \A k \in 2 .. Len(w) - 1 : w[k] # "tick"

\* A string, whose quotes and backslashes are escapes or are escaped.
Quoted(w) ==
  /\ Len(w) >= 2 /\ w[1] = "'" /\ w[Len(w)] = "'"
  /\ \E escapes \in SUBSET (2 .. Len(w) - 2) : \A k \in 2 .. Len(w) - 1 :
       IF k \in escapes THEN w[k] = "\\" /\ k + 1 \notin escapes
       ELSE w[k] \in {"'", "\\"} => k - 1 \in escapes

\* A comment to the end of its line, which opens with one character or two.
LineComment(w) ==
  \E opening \in {1, 2} :
    /\ Len(w) > opening /\ w[Len(w)] = "\n"
    /\ IF opening = 1 THEN w[1] = "#" ELSE w[1] = "-" /\ w[2] = "-"
    /\ \A k \in opening + 1 .. Len(w) - 1 : w[k] # "\n"

BlockComment(w) ==
  /\ Len(w) >= 4 /\ w[1] = "/" /\ w[2] = "*" /\ w[Len(w) - 1] = "*" /\ w[Len(w)] = "/"
  /\ \A k \in 3 .. Len(w) - 2 : ~(w[k] = "*" /\ w[k + 1] = "/")

Piece ==
  {p \in [written : Chars, kept : Chars] :
     \/ p.kept = p.written /\ (Bare(p.written) \/ Ticked(p.written) \/ Quoted(p.written))
     \/ p.kept = <<"\n">> /\ LineComment(p.written)
     \/ p.kept = <<>> /\ BlockComment(p.written)}

----------------------------------------------------------------------------
(***************************************************************************)
(* Envelopes, payloads and the devices that send them, and alert rules.    *)
(***************************************************************************)
AnyItem == [type : HeaderType, payload : Seq(Unit)]

Device == [received : Int, flushed : Int, off : Int, stamps : BOOLEAN]

\* The word and the duration are the ones that are looked at; a duration is an int64.
AnyPayload ==
  [time : Int, id : STRING, ip : STRING, environment : STRING, tags : SUBSET STRING,
   word : STRING, duration : (1 - TwoTo64) .. (TwoTo64 - 1)]

\* No clock of the device's shows the time that stands for none.
Timed(device, t) == t <= device.flushed /\ t + device.off # NoTime

Conditions == [object : BOOLEAN, mistyped : SUBSET conditionFields, level : STRING,
               environment : STRING, release : STRING, threshold : Nat, window : Int,
               metric : STRING, agg : STRING, operator : STRING, value : Int]
RuleRequest == [kind : STRING, enabled : BOOLEAN, channels : Channels, conditions : Conditions,
                throttle : Int]

----------------------------------------------------------------------------
(***************************************************************************)
(* Bugs, in a source whose places are compiled into positions of their own *)
(* and whose files have names.  What a message's variable parts are        *)
(* replaced by is no word of a message, and the hash of a build is not     *)
(* that of the old one.                                                    *)
(***************************************************************************)
CONSTANT Places

SourceFile  == [host : STRING, dirs : Seq(STRING), base : STRING \ {""}, suffix : STRING, ext : STRING]
SourcePlace == [source : SourceFile, function : STRING, position : Nat \ {0}]

ASSUME PlacesAssumption ==
  /\ Places \subseteq SourcePlace
  /\ \A p, q \in Places \cup {LibraryPlace} : p.position = q.position => p = q

Word == [text : STRING \ Range(replacements), looks : SUBSET Range(replacements)]
Bug  == [type : STRING, message : Seq(Word), stack : Seq(Places)]
BugOccurrence ==
  [build : [hash : STRING \ {"0old"}, shift : Nat], host : STRING, id : STRING, library : BOOLEAN,
   wrapped : BOOLEAN, bundled : BOOLEAN, mapped : BOOLEAN, fingerprint : Seq(STRING)]

\* A function of the source that is called what the bundle calls it passes for it.
Unlike(o) == \A place \in Places : place.function # o.build.hash

----------------------------------------------------------------------------
(***************************************************************************)
(* Searches, as sequences of clauses, and what is searched.                *)
(***************************************************************************)
CONSTANTS Mine, Table

ASSUME TableAssumption ==
  /\ Mine.from \in Int /\ Mine.to \in Int
  /\ \A row \in Table : row.time \in Int /\ row.d \in Int /\ row.body \in Chars

Clause ==
  [negated : BOOLEAN, field : Chars, op : {<<>>, <<">">>, <<"<">>, <<">", "=">>, <<"<", "=">>},
   value : Chars, quoted : BOOLEAN]

\* What can be written so that it is read as it was meant: a value in quotes may hold
\* anything but quotes; without them no space, no sign of its own in front, and in a
\* word, which has no field, no mark that would make it a field or a negation.
Writable(c) ==
  LET starts(text, signs) == text # <<>> /\ text[1] \in signs  IN
  /\ \A i \in 1 .. Len(c.field) : c.field[i] \notin {"\"", " ", ":"}
  /\ ~starts(c.field, {"!", "-"})
  /\ \A i \in 1 .. Len(c.value) : c.value[i] # "\"" /\ (c.quoted \/ c.value[i] # " ")
  /\ c.field = <<>> => c.op = <<>>
  /\ c.field = <<>> /\ ~c.quoted =>
       /\ c.value # <<>> /\ ~starts(c.value, {"!", "-"})
       /\ \A i \in 2 .. Len(c.value) : c.value[i] # ":"
  /\ c.field # <<>> /\ ~c.quoted =>
       /\ c.op = <<>> => ~starts(c.value, {">", "<"})
       /\ c.op \in {<<">">>, <<"<">>} => ~starts(c.value, {"="})

----------------------------------------------------------------------------
CallTypes ==
  /\ part = "files"     => call \in Seq(Seq(Piece))
  /\ part = "envelopes" => call \in Seq(AnyItem)
  /\ part = "one bug"   => call \in [bug : Bug, one : BugOccurrence, two : BugOccurrence]
  /\ part = "two bugs"  => call \in [bug : Bug, other : Bug, one : BugOccurrence] /\ Unlike(call.one)
  /\ part = "searches"  => call \in Seq(Clause) /\ \A i \in 1 .. Len(call) : Writable(call[i])
  /\ part = "payloads"  =>
       /\ call.device \in Device /\ call.payload \in AnyPayload /\ call.type \in Decoded
       /\ call.device.flushed <= call.device.received
       /\ call.device.flushed + call.device.off # NoTime
       /\ {call.happened, call.other} \subseteq Int
       /\ Timed(call.device, call.happened) /\ Timed(call.device, call.other)
  /\ part = "rules"     =>
       /\ call.request \in RuleRequest /\ call.now \in Int
       /\ IsFiniteSet(call.events) /\ \A s \in call.samples : s.at \in Int

----------------------------------------------------------------------------
(***************************************************************************)
(* The functions' properties, of every call.                               *)
(***************************************************************************)
\* A migration file is cut at the ends of its statements (statements.go:5-12).
FilesAreCutWell == part = "files" => CutsOnlyBetween(call)

\* What the SDK encodes the gateway parses back, and no part of it that was cut off
\* is taken for the whole (parse.go:76-82, 158-181).
EnvelopesArriveWhole ==
  part = "envelopes" =>
    /\ RoundTrip(call)
    /\ \A n \in 0 .. Len(Encode(call)), end \in {"cut", "cap", "eof"} :
         AcceptedIsWhole(SubSeq(Encode(call), 1, n), end)

\* A deploy does not split an issue (grouping.go:8-12).
BugsStayWhole == part = "one bug" => OneBugOneGroup(call.bug, call.one, call.two, Places)

\* Two bugs are not one issue (grouping.go:4-6).
BugsStayApart == part = "two bugs" => TwoBugsTwoGroups(call.bug, call.other, call.one, Places)

\* A search selects what it says (parse.go:76-77, compile.go:20-26).
SearchesAreHonest == part = "searches" => SearchSelectsWhatItSays(call, Mine, Table)

\* A stored row tells when a thing happened, and with what (normalize.go:13-20).
StoredRowsAreTrue ==
  part = "payloads" => RowsAreTrue(call.device, call.happened, call.other, call.payload, call.type)

\* An accepted rule pages for what it asks for, and for nothing else
\* (alert.go:226-241, frequency.go:36-43, metrics.go:151-156).
AcceptedRulesPage ==
  part = "rules" =>
    RulesPageWhenDue(call.request, call.signal, call.events, call.levels, call.samples, call.now)
=============================================================================
