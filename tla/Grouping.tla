------------------------------ MODULE Grouping ------------------------------
(***************************************************************************)
(* Which issue an error belongs to: internal/symbolicate, which maps the   *)
(* frames of a built bundle back to the source, and internal/grouping,     *)
(* which makes a fingerprint of what it left.                              *)
(*                                                                         *)
(* A file is its path taken apart: host, directories, base name, the part  *)
(* between the last separator and the extension, and the extension.  A     *)
(* position in a file is one number.  A message is a sequence of words,    *)
(* each with the kinds of variable part it looks like.  The hash of a      *)
(* sequence of components is taken to tell any two apart.                  *)
(***************************************************************************)
EXTENDS Integers, Sequences, SequencesExt

NoFile == [host |-> "", dirs |-> <<>>, base |-> "", suffix |-> "", ext |-> ""]

\* Of the parts in front of an extension, those that bundleHash takes for the hash
\* of a build: four hex digits, or any eight letters and digits, words among them.
BundleHash == {"a3f9", "b7c2", "checkout", "payments"}

\* normalizeFilename, of the base name alone.
normalizeFilename(file) ==
  CASE file.base = ""                                  -> <<>>
    [] file.suffix = "" \/ file.suffix \in BundleHash  -> <<file.base, file.ext>>
    [] OTHER                                           -> <<file.base, file.suffix, file.ext>>

\* Parameterize: the first kind of the table that a word matches replaces it.
replacements == <<"uuid", "email", "url", "hex", "path", "quoted", "number">>

Parameterize(message) ==
  [i \in DOMAIN message |->
     LET matches == {n \in DOMAIN replacements : replacements[n] \in message[i].looks}
     IN  IF matches = {} THEN message[i].text
         ELSE replacements[CHOOSE n \in matches : \A o \in matches : n <= o]]

\* The elements of s at the positions in P, in their order.
Only(s, P) ==
  LET upTo[n \in 0 .. Len(s)] ==
        IF n = 0 THEN <<>>
        ELSE IF n \in P THEN Append(upTo[n - 1], s[n]) ELSE upTo[n - 1]
  IN  upTo[Len(s)]

----------------------------------------------------------------------------
(***************************************************************************)
(* Symbolicate.  An artifact is a pattern, which is a file with any host,  *)
(* and its source map, a function from positions to places in the source.  *)
(***************************************************************************)
\* matchScore: the base name and the directories above it that agree.
matchScore(file, pattern) ==
  LET agree(n) == \A i \in 1 .. n :
                    file.dirs[Len(file.dirs) + 1 - i] = pattern.dirs[Len(pattern.dirs) + 1 - i]
      shorter  == IF Len(file.dirs) <= Len(pattern.dirs) THEN Len(file.dirs) ELSE Len(pattern.dirs)
      name(f)  == <<f.base, f.suffix, f.ext>>
  IN  IF name(file) # name(pattern) THEN 0
      ELSE 1 + CHOOSE n \in 0 .. shorter : agree(n) /\ (n < shorter => ~agree(n + 1))

\* matchArtifact: the first of the best; 0 for none.  The artifacts come in the
\* order of a query that has none.
matchArtifact(file, artifacts) ==
  LET score == [i \in DOMAIN artifacts |-> matchScore(file, artifacts[i].pattern)]
      best  == {i \in DOMAIN artifacts : score[i] > 0 /\ \A j \in DOMAIN artifacts : score[j] <= score[i]}
  IN  IF best = {} \/ file = NoFile THEN 0 ELSE CHOOSE i \in best : \A j \in best : i <= j

Vendor == {"node_modules", "deps", ".pnpm", "vendor"}
isInApp(source)   == \A i \in DOMAIN source.dirs : source.dirs[i] \notin Vendor
moduleFor(source) == <<source.dirs, source.base, source.suffix>>

\* A frame that cannot be mapped, for whatever reason, stays as it is.
symbolicateFrame(frame, artifacts) ==
  LET i == IF frame.position > 0 THEN matchArtifact(frame.file, artifacts) ELSE 0
  IN  IF i = 0 \/ ~artifacts[i].fetched \/ frame.position \notin DOMAIN artifacts[i].map
      THEN frame
      ELSE LET place == artifacts[i].map[frame.position]
           IN  [file     |-> place.source,
                module   |-> moduleFor(place.source),
                function |-> IF place.function # "" THEN place.function ELSE frame.function,
                inApp    |-> isInApp(place.source),
                position |-> place.position]

symbolicateException(x, artifacts) ==
  [x EXCEPT !.frames = [j \in DOMAIN @ |-> symbolicateFrame(@[j], artifacts)]]

Symbolicate(event, artifacts) ==
  [event EXCEPT !.exceptions = [i \in DOMAIN @ |-> symbolicateException(@[i], artifacts)]]

----------------------------------------------------------------------------
(***************************************************************************)
(* Fingerprint.                                                            *)
(***************************************************************************)
\* The exceptions that say anything; the last of them.
Telling(event) ==
  {i \in DOMAIN event.exceptions :
     LET x == event.exceptions[i]  IN  x.frames # <<>> \/ x.type # "" \/ x.value # <<>>}

innermost(event) ==
  IF Telling(event) = {} THEN [type |-> "", value |-> <<>>, frames |-> <<>>]
  ELSE event.exceptions[CHOOSE i \in Telling(event) : \A j \in Telling(event) : j <= i]

\* Any default among the components, and all of them are put aside.
customComponents(event) ==
  LET given == event.fingerprint
      own   == Only(given, {i \in DOMAIN given : given[i] # ""})
  IN  IF "default" \in Range(event.fingerprint) THEN <<>>
      ELSE [i \in DOMAIN own |-> <<"custom", own[i]>>]

\* Mutant: a frame is its file.
fileComponent(f) ==
  <<"frame", IF f.module # <<>> THEN f.module ELSE normalizeFilename(f.file), "">>

frameComponent(f) ==
  <<"frame", IF f.module # <<>> THEN f.module ELSE normalizeFilename(f.file), f.function>>

stackComponents(event) ==
  LET x      == innermost(event)
      inApp  == Only(x.frames, {i \in DOMAIN x.frames : x.frames[i].inApp})
      frames == IF inApp # <<>> THEN inApp ELSE x.frames
      all    == [i \in DOMAIN frames |-> frameComponent(frames[i])]
      placed == Only(all, {i \in DOMAIN all : all[i][2] # <<>> \/ all[i][3] # ""})
  IN  IF placed = <<>> THEN <<>>
      ELSE (IF x.type # "" THEN <<<<"type", x.type>>>> ELSE <<>>) \o placed

messageComponents(event) ==
  LET message == IF event.message # <<>> THEN event.message ELSE innermost(event).value
  IN  IF message = <<>> THEN <<>> ELSE <<<<"message", Parameterize(message)>>>>

fallbackComponents(event) ==
  LET x == innermost(event)  IN
  IF Telling(event) = {} THEN <<<<"empty">>>>
  ELSE <<<<"type", x.type>>, <<"value", Parameterize(x.value)>>>>

Fingerprint(event) ==
  CASE customComponents(event) # <<>>  -> customComponents(event)
    [] customComponents(event) = <<>> /\ stackComponents(event) # <<>> -> stackComponents(event)
    [] OTHER -> IF messageComponents(event) # <<>> THEN messageComponents(event)
                ELSE fallbackComponents(event)

\* Mutant: the fingerprint is of the event as it came.
ProcessUnmapped(event, artifacts) == Fingerprint(event)

\* Process: a fingerprint of what symbolication left.
Process(event, artifacts) == Fingerprint(Symbolicate(event, artifacts))

----------------------------------------------------------------------------
(***************************************************************************)
(* A bug and its occurrences.  A bug is a type, a message, and the places  *)
(* of its stack in the source; it occurs in a build, which moves every     *)
(* place and has a hash of its own, on some host, with some library frames *)
(* and some ids, and wrapped or not in another exception.  A bundle hides  *)
(* names and files, until its map was uploaded.                            *)
(***************************************************************************)
IdOf(n) == [looks |-> {"number", "hex"}, text |-> n]

BundleFile(host, dirs, hash) ==
  [host |-> host, dirs |-> dirs, base |-> "main", suffix |-> hash, ext |-> "js"]

FrameIn(place, o) ==
  IF o.bundled
  THEN [file |-> BundleFile(o.host, <<"static", "js">>, o.build.hash),
        module |-> <<>>, function |-> o.build.hash, inApp |-> TRUE,
        position |-> place.position + o.build.shift]
  ELSE [file |-> [place.source EXCEPT !.host = o.host], module |-> <<>>,
        function |-> place.function, inApp |-> isInApp(place.source),
        position |-> place.position + o.build.shift]

LibraryFile  == [host |-> "", dirs |-> <<"node_modules">>, base |-> "lib", suffix |-> "", ext |-> "js"]
LibraryPlace == [source |-> LibraryFile, function |-> "call", position |-> 9]

EventOf(bug, o) ==
  LET stack == bug.stack \o (IF o.library /\ bug.stack # <<>> THEN <<LibraryPlace>> ELSE <<>>)
      says  == bug.message \o <<IdOf(o.id)>>
      x     == [type |-> bug.type, value |-> says,
                frames |-> [i \in DOMAIN stack |-> FrameIn(stack[i], o)]]
      outer == [type |-> "Wrapped", value |-> <<>>, frames |-> <<>>]
  IN  [fingerprint |-> o.fingerprint, message |-> <<>>,
       exceptions  |-> IF o.wrapped THEN <<outer, x>> ELSE <<x>>]

\* What was uploaded for the occurrence's release: the map of its bundle, behind an
\* older one of the same base name.
ArtifactsOf(o, places) ==
  LET all   == places \cup {LibraryPlace}
      at(p) == CHOOSE place \in all : place.position + o.build.shift = p
      map   == [p \in {place.position + o.build.shift : place \in all} |-> at(p)]
      wrong == [p \in DOMAIN map |-> LibraryPlace]
  IN  <<[pattern |-> BundleFile("", <<"js">>, "0old"), fetched |-> TRUE, map |-> wrong],
        [pattern |-> BundleFile("", <<"admin", "js">>, o.build.hash), fetched |-> TRUE, map |-> wrong],
        [pattern |-> BundleFile("", <<"dist", "static", "js">>, o.build.hash), fetched |-> o.mapped, map |-> map]>>

GroupOf(bug, o, places) ==
  Process(EventOf(bug, o), IF o.bundled THEN ArtifactsOf(o, places) ELSE <<>>)

\* Names are as the developer wrote them.
Readable(o) == ~o.bundled \/ o.mapped
Named(bug)  == \A i \in DOMAIN bug.stack : bug.stack[i].function # ""

\* What tells a bug from another, for a reader of the source: its type and the
\* functions of its own code, or failing them of the library; or the words of its
\* message that do not vary.
Told(place) == <<place.source.dirs, place.source.base, place.source.suffix, place.function>>
Essence(bug) ==
  LET own     == Only(bug.stack, {i \in DOMAIN bug.stack : isInApp(bug.stack[i].source)})
      stack   == IF own = <<>> THEN bug.stack ELSE own
      said(w) == IF w.looks = {} THEN w.text ELSE ""
  IN  IF stack = <<>> THEN <<"message", [i \in DOMAIN bug.message |-> said(bug.message[i])]>>
      ELSE <<"stack", bug.type, [i \in DOMAIN stack |-> Told(stack[i])]>>

----------------------------------------------------------------------------
(***************************************************************************)
(* Properties, of two occurrences.                                         *)
(***************************************************************************)
\* What the caller gives besides a default; blanks are nothing.
Extras(o) == Only(o.fingerprint, {i \in DOMAIN o.fingerprint : o.fingerprint[i] \notin {"", "default"}})

\* A deploy does not split an issue (grouping.go:8-12, 118-129, parameterize.go:89-93):
\* two occurrences of a bug are of one group whatever the builds, hosts, ids and
\* wrappings, as long as both are bundles or neither is, and their maps were read and
\* name the functions: where one does not, the bundle's own name for it stays, which
\* the next build changes (symbolicate.go:141-143).  Without maps, or without names, one
\* build still has one group.  An occurrence of a bug whose own
\* code has no frame may be set apart by its library frame, and any by a fingerprint
\* of its own or by extras next to a default (see the next property); blank ones are
\* none.
OneBugOneGroup(bug, o, p, places) ==
  LET alike == /\ o.bundled = p.bundled
               /\ \/ Readable(o) /\ Readable(p) /\ (o.bundled => Named(bug))
                  \/ o.mapped = p.mapped /\ o.build = p.build
      library == \/ o.library = p.library
                 \/ /\ \E i \in DOMAIN bug.stack : isInApp(bug.stack[i].source)
                    /\ Readable(o) /\ Readable(p)
      given(x) == Only(x.fingerprint, {i \in DOMAIN x.fingerprint : x.fingerprint[i] # ""})
      own(x)   == IF "default" \in Range(x.fingerprint) THEN <<>> ELSE given(x)
  IN
  /\ own(o) = own(p) /\ own(o) # <<>> => GroupOf(bug, o, places) = GroupOf(bug, p, places)
  /\ own(o) = <<>> /\ own(p) = <<>> /\ Extras(o) = Extras(p) /\ alike /\ library
       => GroupOf(bug, o, places) = GroupOf(bug, p, places)

\* A default next to extras asks for "our algorithm plus their extras"
\* (grouping.go:96-97, 52-56): extras set an occurrence apart.
ExtrasTellApart(bug, o, p, places) ==
  LET default(x) == "default" \in Range(x.fingerprint)  IN
  default(o) /\ (default(p) \/ Extras(p) = <<>>) /\ Extras(o) # Extras(p)
    => GroupOf(bug, o, places) # GroupOf(bug, p, places)

\* Two bugs are not one issue (grouping.go:4-6) where names are readable and no
\* fingerprint of the user's says so.  Only code that ran unbundled, of which the
\* base name is all that is kept, may merge: files of one name in two directories,
\* and files told apart by a last word of eight letters, which is taken for a hash.
TwoBugsTwoGroups(bug, other, o, places) ==
  LET merged(x, y) == /\ Told(x) # Told(y)
                      /\ x.function = y.function /\ x.source.base = y.source.base
                      /\ \/ x.source.dirs # y.source.dirs
                         \/ {x.source.suffix, y.source.suffix} \subseteq BundleHash \cup {""}
      blurred == \E i \in DOMAIN bug.stack, j \in DOMAIN other.stack : merged(bug.stack[i], other.stack[j])
  IN
  Readable(o) /\ o.fingerprint = <<>> /\ ~o.library /\ Essence(bug) # Essence(other)
    => \/ GroupOf(bug, o, places) # GroupOf(other, o, places)
       \/ ~o.bundled /\ blurred
=============================================================================
