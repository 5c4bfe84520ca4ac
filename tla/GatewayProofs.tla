--------------------------- MODULE GatewayProofs ---------------------------
(***************************************************************************)
(* What the gateways promise, for every number of gateways, requests, keys *)
(* and customers, every lifetime of a cache entry and every delay between  *)
(* the database's answer and the cache; what the parser and the SDK's      *)
(* encoder do, for every body and every limit; and that the limiter's      *)
(* buckets keep their budget and a refusal's Retry-After is honest, for    *)
(* every rate, burst, number of callers and delay on the way to Redis.     *)
(***************************************************************************)
EXTENDS Gateway, Calls, FiniteSetTheorems, SequenceTheorems, TLAPS

----------------------------------------------------------------------------
(***************************************************************************)
(* The parser and the encoder.  Both read and write on from a position, so *)
(* what they give is shown position by position, from the end of the body  *)
(* on: of the positions at which it failed there would be a greatest, and  *)
(* behind that one it holds.                                               *)
(***************************************************************************)
\* The least of a set of naturals.
LEMMA LeastNatural ==
  ASSUME NEW T \in SUBSET Nat, T # {}
  PROVE  \E m \in T : \A k \in T : m <= k
<1> DEFINE below(k) == 1 .. k
           R == StrictSubsetOrdering(Nat)
           B == {below(k) : k \in T}
<1>1. IsWellFoundedOn(R, FiniteSubsetsOf(Nat))
  BY FS_StrictSubsetOrderingWellFounded
<1>2. \A k \in T : below(k) \in FiniteSubsetsOf(Nat)
  <2> SUFFICES ASSUME NEW k \in T PROVE IsFiniteSet(below(k)) /\ below(k) \subseteq Nat
    BY DEF FiniteSubsetsOf
  <2>1. k \in Int /\ 1 \in Int /\ k \in Nat
    OBVIOUS
  <2> QED BY <2>1, FS_Interval
<1>3. B \subseteq FiniteSubsetsOf(Nat) /\ B # {}
  BY <1>2
<1>4. PICK x \in B : \A y \in B : ~(<<y, x>> \in R)
  <2> HIDE DEF B, R
  <2> QED BY <1>1, <1>3, WFMin
<1>5. PICK m \in T : x = below(m)
  BY <1>4
<1>6. ASSUME NEW k \in T, k < m PROVE FALSE
  <2>1. below(k) \subseteq below(m) /\ below(k) # below(m)
    <3>1. m \in below(m) /\ m \notin below(k)
      BY <1>6
    <3> QED BY <1>6, <3>1
  <2>2. <<below(k), below(m)>> \in R
    BY <1>2, <2>1 DEF StrictSubsetOrdering, FiniteSubsetsOf
  <2> QED BY <1>4, <1>5, <2>2
<1> QED BY <1>6

\* The greatest of a set of positions.
LEMMA GreatestBelow ==
  ASSUME NEW N \in Nat, NEW T \in SUBSET (1 .. N), T # {}
  PROVE  \E m \in T : \A k \in T : k <= m
<1> DEFINE U == {N - k : k \in T}
<1>1. U \in SUBSET Nat /\ U # {}
  <2>1. \A k \in T : N - k \in Nat
    OBVIOUS
  <2> QED BY <2>1
<1>2. PICK u \in U : \A v \in U : u <= v
  BY <1>1, LeastNatural
<1>3. PICK m \in T : u = N - m
  BY <1>2
<1>4. \A k \in T : N - m <= N - k /\ k \in Int
  BY <1>2, <1>3
<1> QED BY <1>3, <1>4

\* A line ends where it begins at the earliest, and reading goes on behind it.
LEMMA LinesEnd ==
  ASSUME NEW body \in Seq(Unit), NEW i \in 1 .. Len(body)
  PROVE  /\ LineEnd(body, i) \in i .. Len(body) + 1
         /\ AfterLine(body, i) \in i + 1 .. Len(body) + 1
<1> DEFINE breaks == {j \in i .. Len(body) : body[j] = NewLine}
<1>1. CASE breaks = {}
  BY <1>1 DEF LineEnd, AfterLine
<1>2. CASE breaks # {}
  <2>1. breaks \in SUBSET Nat /\ breaks \subseteq i .. Len(body)
    OBVIOUS
  <2>2. \E j \in breaks : \A k \in breaks : j <= k
    BY <1>2, <2>1, LeastNatural
  <2>3. LineEnd(body, i) = CHOOSE j \in breaks : \A k \in breaks : j <= k
    BY <1>2 DEF LineEnd
  <2> HIDE DEF breaks
  <2>4. LineEnd(body, i) \in breaks
    BY <2>2, <2>3
  <2>5. LineEnd(body, i) \in i .. Len(body)
    BY <2>1, <2>4
  <2>6. i \in Nat /\ Len(body) \in Nat
    OBVIOUS
  <2> QED BY <2>5, <2>6 DEF AfterLine
<1> QED BY <1>1, <1>2

\* A header line is an object, with a type and a length.
LEMMA HeadersAreObjects ==
  ASSUME NEW body \in Seq(Unit), NEW i \in 1 .. Len(body),
         ParseHeaderLine(body, i).verdict = "ok"
  PROVE  /\ Line(body, i)[1] \in [is : {"object"}, type : HeaderType, length : Int]
         /\ Len(Line(body, i)) <= MaxHeaderLine
<1>1. LineEnd(body, i) \in i .. Len(body) + 1
  BY LinesEnd
<1>2. Line(body, i) \in Seq(Unit)
  BY <1>1 DEF Line
<1> DEFINE line == Line(body, i)
<1> HIDE DEF line
<1>3. Len(line) \in Nat /\ MaxHeaderLine \in Nat
  BY <1>2, EnvelopeAssumption DEF line
<1>4. ParseHeaderLine(body, i) =
        IF Len(line) > MaxHeaderLine THEN TooLarge
        ELSE IF ~IsObject(line) THEN Malformed ELSE Parsed(<<>>, 0)
  BY DEF ParseHeaderLine, line
<1>5. TooLarge.verdict # "ok" /\ Malformed.verdict # "ok"
  BY DEF TooLarge, Malformed, Refused
<1>6. Len(line) <= MaxHeaderLine /\ IsObject(line)
  BY <1>3, <1>4, <1>5
<1>7. line[1] \in Unit /\ line[1].is = "object"
  <2>1. Len(line) = 1 /\ line[1].is = "object"
    BY <1>6 DEF IsObject
  <2>2. line \in Seq(Unit)
    BY <1>2 DEF line
  <2>3. 1 \in 1 .. Len(line)
    BY <2>1
  <2> QED BY <2>1, <2>2, <2>3, ElementOfSeq
<1> QED BY <1>6, <1>7 DEF Unit, NewLine, Value, Junk, line

\* What the loop makes of a position depends on what follows it only.
LEMMA ItemsAhead ==
  ASSUME NEW body \in Seq(Unit), NEW end, NEW i \in 1 .. Len(body) + 1,
         NEW n \in 0 .. MaxEnvelopeItems, NEW f, NEW g,
         \A j \in i + 1 .. Len(body) + 1 : f[j] = g[j]
  PROVE  ItemAt(body, end, f, i, n) = ItemAt(body, end, g, i, n)
<1>1. CASE i > Len(body)
  BY <1>1 DEF ItemAt
<1>2. CASE i <= Len(body)
  <2>1. i \in 1 .. Len(body) /\ AfterLine(body, i) \in i + 1 .. Len(body) + 1
    BY <1>2, LinesEnd
  <2>2. f[AfterLine(body, i)] = g[AfterLine(body, i)]
    BY <2>1
  <2>3. ASSUME ParseHeaderLine(body, i).verdict = "ok"
        PROVE  PayloadAt(body, end, f, i, n) = PayloadAt(body, end, g, i, n)
    <3> DEFINE header == Line(body, i)[1]
               past == AfterLine(body, i) + header.length
               next == AfterPayload(body, past)
    <3>1. header.length \in Int
      BY <2>1, <2>3, HeadersAreObjects
    <3>2. ASSUME header.length >= 0, past <= Len(body) + 1 PROVE f[next] = g[next]
      <4>1. past \in i + 1 .. Len(body) + 1
        BY <2>1, <3>1, <3>2
      <4> HIDE DEF past
      <4>2. next \in i + 1 .. Len(body) + 1
        BY <4>1 DEF AfterPayload
      <4> QED BY <4>2
    <3>3. past \in Int /\ Len(body) \in Nat
      BY <2>1, <3>1
    <3> HIDE DEF next
    <3> QED BY <3>1, <3>2, <3>3 DEF PayloadAt, next
  <2> QED BY <1>2, <2>2, <2>3 DEF ItemAt
<1> QED BY <1>1, <1>2

\* So the loop is well defined: what it gives from the end on is extended unit by unit.
LEMMA ItemsAreDefined ==
  ASSUME NEW body \in Seq(Unit), NEW end
  PROVE  ItemsFrom(body, end) =
           [i \in 1 .. Len(body) + 1 |->
              [n \in 0 .. MaxEnvelopeItems |-> ItemAt(body, end, ItemsFrom(body, end), i, n)]]
<1> DEFINE N == Len(body)
           at(f, i) == [n \in 0 .. MaxEnvelopeItems |-> ItemAt(body, end, f, i, n)]
           from(f) == [i \in 1 .. N + 1 |-> at(f, i)]
           Whole(f) == f = [i \in 1 .. N + 1 |-> f[i]]
           solved(k) == \E f : Whole(f) /\ \A i \in k .. N + 1 : f[i] = at(f, i)
<1>1. N \in Nat
  OBVIOUS
<1>2. ASSUME NEW k \in 1 .. N + 1, solved(k + 1) PROVE solved(k)
  <2>1. PICK f : Whole(f) /\ \A i \in k + 1 .. N + 1 : f[i] = at(f, i)
    BY <1>2
  <2> DEFINE g == [i \in 1 .. N + 1 |-> IF i = k THEN at(f, k) ELSE f[i]]
  <2>2. \A j \in k + 1 .. N + 1 : j \in 1 .. N + 1 /\ j # k /\ f[j] = g[j]
    BY <1>1
  <2>3. ASSUME NEW i \in k .. N + 1 PROVE at(f, i) = at(g, i)
    <3> HIDE DEF g
    <3>1. i \in 1 .. N + 1 /\ \A j \in i + 1 .. N + 1 : f[j] = g[j]
      <4>1. i \in 1 .. N + 1 /\ \A j \in i + 1 .. N + 1 : j \in k + 1 .. N + 1
        BY <1>1
      <4> QED BY <2>2, <4>1
    <3>2. \A n \in 0 .. MaxEnvelopeItems : ItemAt(body, end, f, i, n) = ItemAt(body, end, g, i, n)
      BY <3>1, ItemsAhead
    <3> QED BY <3>2
  <2>4. \A i \in k .. N + 1 : g[i] = at(f, i)
    <3> HIDE DEF at
    <3> QED BY <1>1, <2>1
  <2>5. Whole(g)
    OBVIOUS
  <2> HIDE DEF g, at
  <2> QED BY <2>3, <2>4, <2>5
<1>3. solved(N + 2)
  <2> DEFINE f == [i \in 1 .. N + 1 |-> 0]
  <2>1. Whole(f)
    OBVIOUS
  <2>2. \A i \in N + 2 .. N + 1 : FALSE
    BY <1>1
  <2> HIDE DEF f, at
  <2> QED BY <2>1, <2>2
<1> HIDE DEF solved
<1>4. solved(1)
  <2> SUFFICES ASSUME ~solved(1) PROVE FALSE
    OBVIOUS
  <2> DEFINE T == {k \in 1 .. N + 1 : ~solved(k)}
  <2>1. T # {} /\ T \in SUBSET (1 .. N + 1) /\ N + 1 \in Nat
    BY <1>1
  <2>2. PICK m \in T : \A k \in T : k <= m
    BY <2>1, GreatestBelow
  <2>3. CASE m = N + 1
    <3>1. solved(m + 1)
      BY <1>1, <1>3, <2>3
    <3> QED BY <1>2, <3>1
  <2>4. CASE m # N + 1
    <3>1. m + 1 \in 1 .. N + 1 /\ ~(m + 1 <= m)
      BY <1>1, <2>4
    <3>2. solved(m + 1)
      BY <2>2, <3>1
    <3> QED BY <1>2, <3>2
  <2> QED BY <2>3, <2>4
<1>5. PICK f : f = from(f)
  <2>1. PICK f : Whole(f) /\ \A i \in 1 .. N + 1 : f[i] = at(f, i)
    BY <1>4 DEF solved
  <2>2. f = from(f)
    <3> HIDE DEF at
    <3> QED BY <2>1
  <2> QED BY <2>2
<1>6. ItemsFrom(body, end) = CHOOSE g : g = from(g)
  BY DEF ItemsFrom
<1> HIDE DEF from
<1>7. ItemsFrom(body, end) = from(ItemsFrom(body, end))
  BY <1>5, <1>6
<1> QED BY <1>7 DEF from

\* Items and results of whatever body.
Taken == Seq(AnyItem)
Verdicts == {"ok", "malformed", "too large", "unreadable"}
Result == [verdict : Verdicts, items : Taken, skipped : Nat]

\* What is read on from a position: when it is accepted, the body ended properly, and
\* what was taken, with the n items before it, is within the limits.
Whole(end, n, result) ==
  /\ result \in Result
  /\ result.verdict = "ok" =>
       /\ end = "eof"
       /\ n + Len(result.items) <= MaxEnvelopeItems
       /\ \A j \in 1 .. Len(result.items) : Len(result.items[j].payload) <= MaxItemBytes

\* The fields of a result.
LEMMA ResultIs ==
  ASSUME NEW verdict \in Verdicts, NEW items \in Taken, NEW skipped \in Nat,
         NEW r, r = [verdict |-> verdict, items |-> items, skipped |-> skipped]
  PROVE  r \in Result /\ r.verdict = verdict /\ r.items = items /\ r.skipped = skipped
BY DEF Result

\* What refuses a body, and its end, keep the limits.
LEMMA RefusedIsWhole ==
  ASSUME NEW end, NEW n \in 0 .. MaxEnvelopeItems
  PROVE  /\ Whole(end, n, Malformed) /\ Whole(end, n, TooLarge)
         /\ Whole(end, n, Unreadable) /\ Whole(end, n, ShortPayload(end))
         /\ Whole(end, n, AtEnd(end, TRUE)) /\ Whole(end, n, AtEnd(end, FALSE))
<1>1. <<>> \in Taken /\ Len(<<>>) = 0 /\ n \in Nat /\ n <= MaxEnvelopeItems
  BY EnvelopeAssumption DEF Taken
<1>2. ASSUME NEW why \in Verdicts, why # "ok" PROVE Whole(end, n, Refused(why))
  <2>1. Refused(why) = [verdict |-> why, items |-> <<>>, skipped |-> 0] /\ 0 \in Nat
    BY DEF Refused
  <2>2. Refused(why) \in Result /\ Refused(why).verdict = why
    BY <1>1, <1>2, <2>1, ResultIs
  <2> QED BY <1>2, <2>2 DEF Whole
<1>3. Whole(end, n, Malformed) /\ Whole(end, n, TooLarge) /\ Whole(end, n, Unreadable)
  <2>1. \A why \in {"malformed", "too large", "unreadable"} : why \in Verdicts /\ why # "ok"
    BY DEF Verdicts
  <2> QED BY <1>2, <2>1 DEF Malformed, TooLarge, Unreadable
<1>4. end = "eof" => Whole(end, n, Parsed(<<>>, 0))
  <2>1. Parsed(<<>>, 0) = [verdict |-> "ok", items |-> <<>>, skipped |-> 0]
    BY DEF Parsed
  <2>2. Parsed(<<>>, 0) \in Result /\ Parsed(<<>>, 0).items = <<>>
    <3>1. "ok" \in Verdicts /\ 0 \in Nat
      BY DEF Verdicts
    <3> QED BY <1>1, <2>1, <3>1, ResultIs
  <2>3. n + 0 <= MaxEnvelopeItems /\ 1 .. 0 = {}
    BY <1>1
  <2> QED BY <1>1, <2>2, <2>3 DEF Whole
<1>5. ASSUME NEW atItem \in BOOLEAN PROVE Whole(end, n, AtEnd(end, atItem))
  BY <1>3, <1>4 DEF AtEnd
<1>6. Whole(end, n, ShortPayload(end))
  BY <1>3 DEF ShortPayload
<1> QED BY <1>3, <1>5, <1>6

\* So does an item in front, as long as it is not too long, and one that is skipped.
LEMMA ItemsKeepLimits ==
  ASSUME NEW end, NEW n \in 0 .. MaxEnvelopeItems, NEW rest
  PROVE  /\ Whole(end, n, rest) => Whole(end, n, WithSkipped(rest))
         /\ \A item \in AnyItem :
              Len(item.payload) <= MaxItemBytes /\ Whole(end, n + 1, rest)
                => Whole(end, n, WithItem(item, rest))
<1>1. ASSUME Whole(end, n, rest) PROVE Whole(end, n, WithSkipped(rest))
  <2>1. CASE rest.verdict = "ok"
    <3>1. WithSkipped(rest) = [verdict |-> "ok", items |-> rest.items, skipped |-> rest.skipped + 1]
      BY <1>1, <2>1 DEF WithSkipped, Whole, Result
    <3>2. rest \in Result
      BY <1>1 DEF Whole
    <3>3. "ok" \in Verdicts /\ rest.items \in Taken /\ rest.skipped + 1 \in Nat
      <4>1. rest.items \in Taken /\ rest.skipped \in Nat
        BY <3>2 DEF Result
      <4>2. "ok" \in Verdicts
        BY DEF Verdicts
      <4> QED BY <4>1, <4>2
    <3>4. WithSkipped(rest) \in Result /\ WithSkipped(rest).items = rest.items
      BY <3>1, <3>3, ResultIs
    <3> QED BY <1>1, <2>1, <3>4 DEF Whole
  <2>2. CASE rest.verdict # "ok"
    BY <1>1, <2>2 DEF WithSkipped
  <2> QED BY <2>1, <2>2
<1>2. ASSUME NEW item \in AnyItem, Len(item.payload) <= MaxItemBytes, Whole(end, n + 1, rest)
      PROVE  Whole(end, n, WithItem(item, rest))
  <2>1. CASE rest.verdict = "ok"
    <3>0. PICK items : items = <<item>> \o rest.items
      OBVIOUS
    <3>1. WithItem(item, rest) = [verdict |-> "ok", items |-> items, skipped |-> rest.skipped]
      BY <1>2, <2>1, <3>0 DEF WithItem, Whole, Result
    <3>2. <<item>> \in Seq(AnyItem) /\ Len(<<item>>) = 1 /\ rest.items \in Seq(AnyItem)
      <4>1. rest.items \in Taken
        BY <1>2 DEF Whole, Result
      <4> QED BY <1>2, <4>1 DEF Taken
    <3>3. /\ items \in Seq(AnyItem) /\ Len(items) = 1 + Len(rest.items)
          /\ \A j \in 1 .. Len(items) : items[j] = IF j = 1 THEN item ELSE rest.items[j - 1]
      BY <3>0, <3>2, ConcatProperties
    <3>4. \A j \in 1 .. Len(items) : Len(items[j].payload) <= MaxItemBytes
      <4>1. \A j \in 1 .. Len(rest.items) : Len(rest.items[j].payload) <= MaxItemBytes
        BY <1>2, <2>1 DEF Whole
      <4>2. SUFFICES ASSUME NEW j \in 1 .. Len(items) PROVE Len(items[j].payload) <= MaxItemBytes
        OBVIOUS
      <4>3. j # 1 => j - 1 \in 1 .. Len(rest.items)
        BY <3>2, <3>3
      <4> QED BY <1>2, <3>3, <4>1, <4>3
    <3>5. /\ end = "eof" /\ n + 1 + Len(rest.items) <= MaxEnvelopeItems /\ rest.skipped \in Nat
          /\ Len(rest.items) \in Nat /\ n \in Nat /\ MaxEnvelopeItems \in Nat
      <4>1. rest \in Result /\ end = "eof" /\ n + 1 + Len(rest.items) <= MaxEnvelopeItems
        BY <1>2, <2>1 DEF Whole
      <4>2. rest.skipped \in Nat
        BY <4>1 DEF Result
      <4>3. Len(rest.items) \in Nat /\ n \in Nat /\ MaxEnvelopeItems \in Nat
        BY <3>2, EnvelopeAssumption
      <4> QED BY <4>1, <4>2, <4>3
    <3>6. n + Len(items) <= MaxEnvelopeItems
      <4>1. PICK k \in Nat : k = Len(rest.items)
        BY <3>5
      <4>2. n + 1 + k <= MaxEnvelopeItems /\ n \in Nat /\ MaxEnvelopeItems \in Nat
        BY <3>5, <4>1
      <4>3. n + (1 + k) <= MaxEnvelopeItems
        BY <4>2
      <4>4. Len(items) = 1 + k
        BY <3>3, <4>1
      <4> QED BY <4>3, <4>4
    <3>7. [verdict |-> "ok", items |-> items, skipped |-> rest.skipped] \in Result
      BY <3>3, <3>5 DEF Result, Taken, Verdicts
    <3> QED BY <3>1, <3>4, <3>5, <3>6, <3>7 DEF Whole
  <2>2. CASE rest.verdict # "ok"
    BY <1>2, <2>2 DEF WithItem, Whole
  <2> QED BY <2>1, <2>2
<1> QED BY <1>1, <1>2

\* One turn of the loop keeps the limits, if what it reads on does.
LEMMA TurnsKeepLimits ==
  ASSUME NEW body \in Seq(Unit), NEW end, NEW i \in 1 .. Len(body) + 1,
         NEW n \in 0 .. MaxEnvelopeItems, NEW rest,
         \A j \in i + 1 .. Len(body) + 1, m \in 0 .. MaxEnvelopeItems : Whole(end, m, rest[j][m])
  PROVE  Whole(end, n, ItemAt(body, end, rest, i, n))
<1>1. CASE i > Len(body)
  BY <1>1, RefusedIsWhole DEF ItemAt
<1>2. CASE i <= Len(body)
  <2>0. ~(i > Len(body))
    BY <1>2
  <2>1. i \in 1 .. Len(body) /\ AfterLine(body, i) \in i + 1 .. Len(body) + 1
    BY <1>2, LinesEnd
  <2>2. CASE Line(body, i) = <<>>
    <3>1. Whole(end, n, rest[AfterLine(body, i)][n])
      BY <2>1
    <3>2. ItemAt(body, end, rest, i, n) = rest[AfterLine(body, i)][n]
      BY <2>0, <2>2 DEF ItemAt
    <3> QED BY <3>1, <3>2
  <2>3. ASSUME n < MaxEnvelopeItems, ParseHeaderLine(body, i).verdict = "ok"
        PROVE  Whole(end, n, PayloadAt(body, end, rest, i, n))
    <3> DEFINE header == Line(body, i)[1]
               from == AfterLine(body, i)
               past == from + header.length
               next == AfterPayload(body, past)
               item == [type |-> header.type, payload |-> SubSeq(body, from, past - 1)]
    <3>1. header.length \in Int /\ header.type \in HeaderType
      BY <2>1, <2>3, HeadersAreObjects
    <3>2. from \in Int /\ past \in Int /\ Len(body) \in Nat /\ i \in Nat /\ MaxItemBytes \in Nat
      BY <2>1, <3>1, EnvelopeAssumption
    <3>3. ASSUME header.length >= 0, header.length <= MaxItemBytes, past <= Len(body) + 1
          PROVE  /\ Whole(end, n, rest[next][n]) /\ Whole(end, n + 1, rest[next][n + 1])
                 /\ item \in AnyItem /\ Len(item.payload) <= MaxItemBytes
      <4>1. past \in i + 1 .. Len(body) + 1 /\ from \in 1 .. Len(body) + 1
        BY <2>1, <3>1, <3>2, <3>3
      <4>2. past - 1 \in 0 .. Len(body) /\ past - 1 <= from + MaxItemBytes - 1
        <5>1. past = from + header.length
          OBVIOUS
        <5> HIDE DEF past, from, header
        <5>2. past - 1 \in 0 .. Len(body)
          BY <3>2, <4>1
        <5>3. past - 1 <= from + MaxItemBytes - 1
          BY <3>1, <3>2, <3>3, <5>1
        <5> QED BY <5>2, <5>3
      <4>3. /\ SubSeq(body, from, past - 1) \in Seq(Unit)
            /\ Len(SubSeq(body, from, past - 1)) =
                 IF from <= past - 1 THEN past - 1 - from + 1 ELSE 0
        <5> HIDE DEF from, past
        <5> QED BY <4>1, <4>2, SubSeqProperties
      <4>4. next \in i + 1 .. Len(body) + 1
        <5> HIDE DEF past
        <5> QED BY <3>2, <4>1 DEF AfterPayload
      <4>5. n \in 0 .. MaxEnvelopeItems /\ n + 1 \in 0 .. MaxEnvelopeItems
        BY <2>3, EnvelopeAssumption
      <4>6. Whole(end, n, rest[next][n]) /\ Whole(end, n + 1, rest[next][n + 1])
        BY <4>4, <4>5
      <4>7. item \in AnyItem
        BY <3>1, <4>3 DEF AnyItem
      <4>8. Len(item.payload) <= MaxItemBytes
        BY <3>2, <4>2, <4>3
      <4> QED BY <4>6, <4>7, <4>8
    <3>4. PayloadAt(body, end, rest, i, n) =
            IF header.length < 0 THEN Malformed
            ELSE IF header.length > MaxItemBytes THEN TooLarge
            ELSE IF past > Len(body) + 1 THEN ShortPayload(end)
            ELSE IF item.type \in Kinds THEN WithItem(item, rest[next][n + 1])
            ELSE WithSkipped(rest[next][n])
      BY DEF PayloadAt
    <3> HIDE DEF header, past, next, item
    <3>5. CASE header.length < 0 \/ header.length > MaxItemBytes \/ past > Len(body) + 1
      BY <3>4, <3>5, RefusedIsWhole
    <3>6. CASE ~(header.length < 0 \/ header.length > MaxItemBytes \/ past > Len(body) + 1)
      <4>1. header.length >= 0 /\ header.length <= MaxItemBytes /\ past <= Len(body) + 1
        BY <3>1, <3>2, <3>6
      <4>2. /\ Whole(end, n, WithSkipped(rest[next][n]))
            /\ Whole(end, n, WithItem(item, rest[next][n + 1]))
        BY <3>3, <4>1, ItemsKeepLimits
      <4> QED BY <3>4, <3>6, <4>2
    <3> QED BY <3>5, <3>6
  <2>4. CASE Line(body, i) # <<>>
    <3>1. n \in Int /\ MaxEnvelopeItems \in Int
      BY EnvelopeAssumption
    <3>2. ParseHeaderLine(body, i).verdict # "ok"
            => ParseHeaderLine(body, i) \in {TooLarge, Malformed}
      BY DEF ParseHeaderLine, Parsed
    <3>3. ItemAt(body, end, rest, i, n) =
            IF n >= MaxEnvelopeItems THEN TooLarge
            ELSE IF ParseHeaderLine(body, i).verdict # "ok" THEN ParseHeaderLine(body, i)
            ELSE PayloadAt(body, end, rest, i, n)
      BY <2>0, <2>4 DEF ItemAt
    <3>4. CASE n >= MaxEnvelopeItems
      BY <3>3, <3>4, RefusedIsWhole
    <3>5. CASE n < MaxEnvelopeItems /\ ParseHeaderLine(body, i).verdict # "ok"
      <4>1. ~(n >= MaxEnvelopeItems)
        BY <3>1, <3>5
      <4> QED BY <3>2, <3>3, <3>5, <4>1, RefusedIsWhole
    <3>6. CASE n < MaxEnvelopeItems /\ ParseHeaderLine(body, i).verdict = "ok"
      <4>1. ~(n >= MaxEnvelopeItems)
        BY <3>1, <3>6
      <4> QED BY <2>3, <3>3, <3>6, <4>1
    <3> QED BY <3>1, <3>4, <3>5, <3>6
  <2> QED BY <2>2, <2>4
<1> QED BY <1>1, <1>2

\* Whatever is read: what the loop gives from a position on.
LEMMA ItemsAreWhole ==
  ASSUME NEW body \in Seq(Unit), NEW end
  PROVE  \A i \in 1 .. Len(body) + 1, n \in 0 .. MaxEnvelopeItems :
           Whole(end, n, ItemsFrom(body, end)[i][n])
<1> DEFINE N == Len(body)
           from == ItemsFrom(body, end)
           whole(i) == \A n \in 0 .. MaxEnvelopeItems : Whole(end, n, from[i][n])
           T == {i \in 1 .. N + 1 : ~whole(i)}
<1>1. \A i \in 1 .. N + 1, n \in 0 .. MaxEnvelopeItems : from[i][n] = ItemAt(body, end, from, i, n)
  <2> DEFINE at(i) == [n \in 0 .. MaxEnvelopeItems |-> ItemAt(body, end, from, i, n)]
  <2>1. from = [i \in 1 .. N + 1 |-> at(i)]
    BY ItemsAreDefined
  <2> HIDE DEF from
  <2>2. \A i \in 1 .. N + 1 : from[i] = at(i)
    <3> HIDE DEF at
    <3> QED BY <2>1
  <2> QED BY <2>2
<1> HIDE DEF from
<1>2. ASSUME NEW i \in 1 .. N + 1, \A j \in i + 1 .. N + 1 : whole(j) PROVE whole(i)
  <2>1. \A j \in i + 1 .. N + 1, m \in 0 .. MaxEnvelopeItems : Whole(end, m, from[j][m])
    BY <1>2
  <2> QED BY <1>1, <2>1, TurnsKeepLimits
<1> HIDE DEF whole
<1>3. T = {}
  <2> SUFFICES ASSUME T # {} PROVE FALSE
    OBVIOUS
  <2>1. N + 1 \in Nat /\ T \in SUBSET (1 .. N + 1)
    OBVIOUS
  <2>2. PICK i \in T : \A k \in T : k <= i
    BY <2>1, GreatestBelow
  <2>3. \A j \in i + 1 .. N + 1 : j \in 1 .. N + 1 /\ ~(j <= i)
    OBVIOUS
  <2>4. \A j \in i + 1 .. N + 1 : whole(j)
    BY <2>2, <2>3
  <2> QED BY <1>2, <2>4
<1>4. \A i \in 1 .. N + 1 : whole(i)
  BY <1>3
<1> QED BY <1>4 DEF whole, from

\* Whatever is parsed: an accepted body is whole, and within its limits.
LEMMA ParsesAreWhole ==
  ASSUME NEW body \in Seq(Unit), NEW end
  PROVE  Whole(end, 0, Parse(body, end))
<1>1. 0 \in 0 .. MaxEnvelopeItems
  BY EnvelopeAssumption
<1>2. CASE body = <<>>
  BY <1>1, <1>2, RefusedIsWhole DEF Parse
<1>3. CASE body # <<>>
  <2>1. 1 \in 1 .. Len(body)
    BY <1>3
  <2>2. AfterLine(body, 1) \in 1 .. Len(body) + 1
    BY <2>1, LinesEnd
  <2>3. Whole(end, 0, ItemsFrom(body, end)[AfterLine(body, 1)][0])
    BY <1>1, <2>2, ItemsAreWhole
  <2>4. ParseHeaderLine(body, 1).verdict # "ok"
          => ParseHeaderLine(body, 1) \in {TooLarge, Malformed}
    BY DEF ParseHeaderLine, Parsed
  <2> QED BY <1>1, <1>3, <2>3, <2>4, RefusedIsWhole DEF Parse
<1> QED BY <1>2, <1>3

\* AcceptedIsWhole of every body, of every end and of all limits (parse.go:45-100).
THEOREM AcceptedBodiesAreWhole ==
  ASSUME NEW body \in Seq(Unit), NEW end
  PROVE  AcceptedIsWhole(body, end)
<1>1. Whole(end, 0, Parse(body, end))
  BY ParsesAreWhole
<1>2. /\ Len(Parse(body, end).items) \in Nat
      /\ DOMAIN Parse(body, end).items = 1 .. Len(Parse(body, end).items)
  BY <1>1 DEF Whole, Result, Taken
<1> QED BY <1>1, <1>2 DEF AcceptedIsWhole, Whole

\* One sequence behind another.
LEMMA Joined ==
  ASSUME NEW S, NEW a \in Seq(S), NEW b \in Seq(S), NEW c, c = a \o b
  PROVE  /\ c \in Seq(S) /\ Len(a) \in Nat /\ Len(b) \in Nat /\ Len(c) = Len(a) + Len(b)
         /\ \A j \in 1 .. Len(a) : c[j] = a[j]
         /\ \A j \in 1 .. Len(b) : c[Len(a) + j] = b[j]
<1>1. Len(a) \in Nat /\ Len(b) \in Nat
  OBVIOUS
<1>2. c \in Seq(S) /\ Len(c) = Len(a) + Len(b)
  BY ConcatProperties
<1>3. \A j \in 1 .. Len(a) + Len(b) : c[j] = IF j <= Len(a) THEN a[j] ELSE b[j - Len(a)]
  BY ConcatProperties
<1>4. \A j \in 1 .. Len(a) : j \in 1 .. Len(a) + Len(b) /\ j <= Len(a)
  BY <1>1
<1>5. \A j \in 1 .. Len(b) : /\ Len(a) + j \in 1 .. Len(a) + Len(b)
                            /\ ~(Len(a) + j <= Len(a)) /\ Len(a) + j - Len(a) = j
  BY <1>1
<1> QED BY <1>1, <1>2, <1>3, <1>4, <1>5

\* An encoded item: its header, its payload and a newline.
LEMMA EncodedItemIs ==
  ASSUME NEW item \in AnyItem, NEW e, e = EncodedItem(item)
  PROVE  /\ e \in Seq(Unit) /\ Len(item.payload) \in Nat /\ Len(e) = Len(item.payload) + 3
         /\ e[1] = Object(item.type, Len(item.payload)) /\ e[2] = NewLine
         /\ \A j \in 1 .. Len(item.payload) : e[j + 2] = item.payload[j]
         /\ e[Len(item.payload) + 3] = NewLine
<1>1. PICK n : n = Len(item.payload)
  OBVIOUS
<1>2. item.payload \in Seq(Unit) /\ item.type \in HeaderType /\ n \in Nat
  BY <1>1 DEF AnyItem
<1>3. Object(item.type, n) \in Unit /\ NewLine \in Unit
  BY <1>2 DEF Object, Unit
<1>4. PICK head : head = <<Object(item.type, n), NewLine>>
  OBVIOUS
<1>5. head \in Seq(Unit) /\ Len(head) = 2 /\ head[1] = Object(item.type, n) /\ head[2] = NewLine
  BY <1>3, <1>4
<1>6. PICK body : body = head \o item.payload
  OBVIOUS
<1>7. /\ body \in Seq(Unit) /\ Len(body) = 2 + n
      /\ \A j \in 1 .. 2 : body[j] = head[j]
      /\ \A j \in 1 .. n : body[2 + j] = item.payload[j]
  <2> head \in Seq(Unit) /\ item.payload \in Seq(Unit)
    BY <1>2, <1>5
  <2>1. /\ body \in Seq(Unit) /\ Len(body) = Len(head) + Len(item.payload)
        /\ \A j \in 1 .. Len(head) : body[j] = head[j]
        /\ \A j \in 1 .. Len(item.payload) : body[Len(head) + j] = item.payload[j]
    BY <1>6, Joined
  <2> QED BY <1>1, <1>5, <2>1
<1>8. PICK last : last = <<NewLine>>
  OBVIOUS
<1>9. last \in Seq(Unit) /\ Len(last) = 1 /\ last[1] = NewLine
  BY <1>3, <1>8
<1>10. e = body \o last
  BY <1>1, <1>4, <1>6, <1>8 DEF EncodedItem
<1>11. /\ e \in Seq(Unit) /\ Len(e) = 2 + n + 1
       /\ \A j \in 1 .. 2 + n : e[j] = body[j]
       /\ \A j \in 1 .. 1 : e[2 + n + j] = last[j]
  <2> body \in Seq(Unit) /\ last \in Seq(Unit)
    BY <1>7, <1>9
  <2>1. /\ e \in Seq(Unit) /\ Len(e) = Len(body) + Len(last)
        /\ \A j \in 1 .. Len(body) : e[j] = body[j]
        /\ \A j \in 1 .. Len(last) : e[Len(body) + j] = last[j]
    BY <1>10, Joined
  <2> QED BY <1>7, <1>9, <2>1
<1>12. 1 \in 1 .. 2 + n /\ 2 \in 1 .. 2 + n /\ 2 + n + 1 = n + 3
  BY <1>2
<1>13. e[1] = Object(item.type, n) /\ e[2] = NewLine
  BY <1>5, <1>7, <1>11, <1>12
<1>14. e[n + 3] = NewLine
  BY <1>9, <1>11, <1>12
<1>15. ASSUME NEW j \in 1 .. n PROVE e[j + 2] = item.payload[j]
  <2>1. 2 + j \in 1 .. 2 + n /\ j + 2 = 2 + j
    BY <1>2
  <2> QED BY <1>7, <1>11, <2>1
<1> QED BY <1>1, <1>2, <1>11, <1>12, <1>13, <1>14, <1>15

\* The encoding is well defined, item by item from the end on.
LEMMA EncodingIsDefined ==
  ASSUME NEW items \in Seq(AnyItem)
  PROVE  EncodedFrom(items) =
           [i \in 1 .. Len(items) + 1 |-> EncodedAt(items, EncodedFrom(items), i)]
<1> DEFINE N == Len(items)
           at(f, i) == EncodedAt(items, f, i)
           from(f) == [i \in 1 .. N + 1 |-> at(f, i)]
           Sound(f) == f = [i \in 1 .. N + 1 |-> f[i]]
           solved(k) == \E f : Sound(f) /\ \A i \in k .. N + 1 : f[i] = at(f, i)
<1>1. N \in Nat
  OBVIOUS
<1>2. ASSUME NEW k \in 1 .. N + 1, solved(k + 1) PROVE solved(k)
  <2>1. PICK f : Sound(f) /\ \A i \in k + 1 .. N + 1 : f[i] = at(f, i)
    BY <1>2
  <2> DEFINE g == [i \in 1 .. N + 1 |-> IF i = k THEN at(f, k) ELSE f[i]]
  <2>2. \A j \in k + 1 .. N + 1 : j \in 1 .. N + 1 /\ j # k /\ f[j] = g[j]
    BY <1>1
  <2>3. ASSUME NEW i \in k .. N + 1 PROVE at(f, i) = at(g, i)
    <3> HIDE DEF g
    <3>1. i \in Int /\ (i <= N => i + 1 \in k + 1 .. N + 1) /\ (~(i > N) => i <= N)
      BY <1>1
    <3>2. ~(i > N) => f[i + 1] = g[i + 1]
      BY <2>2, <3>1
    <3> QED BY <3>2 DEF EncodedAt
  <2>4. \A i \in k .. N + 1 : g[i] = at(f, i)
    <3> HIDE DEF at
    <3> QED BY <1>1, <2>1
  <2>5. Sound(g)
    OBVIOUS
  <2> HIDE DEF g, at
  <2> QED BY <2>3, <2>4, <2>5
<1>3. solved(N + 2)
  <2> DEFINE f == [i \in 1 .. N + 1 |-> 0]
  <2>1. Sound(f)
    OBVIOUS
  <2>2. \A i \in N + 2 .. N + 1 : FALSE
    BY <1>1
  <2> HIDE DEF f, at
  <2> QED BY <2>1, <2>2
<1> HIDE DEF solved
<1>4. solved(1)
  <2> SUFFICES ASSUME ~solved(1) PROVE FALSE
    OBVIOUS
  <2> DEFINE T == {k \in 1 .. N + 1 : ~solved(k)}
  <2>1. T # {} /\ T \in SUBSET (1 .. N + 1) /\ N + 1 \in Nat
    BY <1>1
  <2>2. PICK m \in T : \A k \in T : k <= m
    BY <2>1, GreatestBelow
  <2>3. CASE m = N + 1
    <3>1. solved(m + 1)
      BY <1>1, <1>3, <2>3
    <3> QED BY <1>2, <3>1
  <2>4. CASE m # N + 1
    <3>1. m + 1 \in 1 .. N + 1 /\ ~(m + 1 <= m)
      BY <1>1, <2>4
    <3>2. solved(m + 1)
      BY <2>2, <3>1
    <3> QED BY <1>2, <3>2
  <2> QED BY <2>3, <2>4
<1>5. PICK f : f = from(f)
  <2>1. PICK f : Sound(f) /\ \A i \in 1 .. N + 1 : f[i] = at(f, i)
    BY <1>4 DEF solved
  <2>2. f = from(f)
    <3> HIDE DEF at
    <3> QED BY <2>1
  <2> QED BY <2>2
<1>6. EncodedFrom(items) = CHOOSE g : g = from(g)
  BY DEF EncodedFrom
<1> HIDE DEF from
<1>7. EncodedFrom(items) = from(EncodedFrom(items))
  BY <1>5, <1>6
<1> QED BY <1>7 DEF from

\* What is encoded of the items from one on.
LEMMA EncodingsAre ==
  ASSUME NEW items \in Seq(AnyItem)
  PROVE  /\ EncodedFrom(items)[Len(items) + 1] = <<>>
         /\ \A i \in 1 .. Len(items) :
              EncodedFrom(items)[i] = EncodedItem(items[i]) \o EncodedFrom(items)[i + 1]
         /\ \A i \in 1 .. Len(items) + 1 : EncodedFrom(items)[i] \in Seq(Unit)
<1> DEFINE N == Len(items)
           from == EncodedFrom(items)
           T == {i \in 1 .. N + 1 : from[i] \notin Seq(Unit)}
<1>1. N \in Nat
  OBVIOUS
<1>2. \A i \in 1 .. N + 1 : from[i] = EncodedAt(items, from, i)
  <2> DEFINE at(i) == EncodedAt(items, from, i)
  <2>1. from = [i \in 1 .. N + 1 |-> at(i)]
    BY EncodingIsDefined
  <2> HIDE DEF from
  <2>2. \A i \in 1 .. N + 1 : from[i] = at(i)
    <3> HIDE DEF at
    <3> QED BY <2>1
  <2> QED BY <2>2
<1> HIDE DEF from
<1>3. from[N + 1] = <<>>
  <2>1. N + 1 \in 1 .. N + 1 /\ N + 1 > N
    BY <1>1
  <2> QED BY <1>2, <2>1 DEF EncodedAt
<1>4. \A i \in 1 .. N : from[i] = EncodedItem(items[i]) \o from[i + 1]
  <2> TAKE i \in 1 .. N
  <2>1. i \in 1 .. N + 1 /\ ~(i > N)
    BY <1>1
  <2> QED BY <1>2, <2>1 DEF EncodedAt
<1>5. T = {}
  <2> SUFFICES ASSUME T # {} PROVE FALSE
    OBVIOUS
  <2>1. N + 1 \in Nat /\ T \in SUBSET (1 .. N + 1)
    BY <1>1
  <2>2. PICK i \in T : \A k \in T : k <= i
    BY <2>1, GreatestBelow
  <2>3. i # N + 1
    <3>1. <<>> \in Seq(Unit)
      OBVIOUS
    <3> QED BY <1>3, <2>2, <3>1
  <2>4. i \in 1 .. N /\ i + 1 \in 1 .. N + 1 /\ ~(i + 1 <= i)
    BY <1>1, <2>3
  <2>5. items[i] \in AnyItem
    BY <2>4, ElementOfSeq
  <2>6. PICK e : e = EncodedItem(items[i])
    OBVIOUS
  <2>7. e \in Seq(Unit)
    BY <2>5, <2>6, EncodedItemIs
  <2>8. from[i + 1] \in Seq(Unit)
    BY <2>2, <2>4
  <2>9. e \o from[i + 1] \in Seq(Unit)
    BY <2>7, <2>8
  <2> QED BY <1>4, <2>4, <2>6, <2>9
<1>6. \A i \in 1 .. N + 1 : from[i] \in Seq(Unit)
  BY <1>5
<1> QED BY <1>3, <1>4, <1>6 DEF from

\* A header is a unit.
LEMMA ObjectsAreUnits ==
  ASSUME NEW type \in HeaderType, NEW length \in Int
  PROVE  Object(type, length) \in Unit
BY DEF Object, Unit

\* Where each of the items is in a body, and what stands there.
Holds(body, items, at) ==
  /\ Len(body) >= 2 /\ body[1] = Object("none", 0) /\ body[2] = NewLine
  /\ at[1] = 3 /\ at[Len(items) + 1] = Len(body) + 1
  /\ \A i \in 1 .. Len(items) + 1 : at[i] \in Int
  /\ \A i \in 1 .. Len(items) :
       LET n == Len(items[i].payload)
       IN  /\ at[i] >= 3 /\ at[i + 1] = at[i] + n + 3 /\ at[i + 1] <= Len(body) + 1
           /\ body[at[i]] = Object(items[i].type, n) /\ body[at[i] + 1] = NewLine
           /\ \A j \in 1 .. n : body[at[i] + 1 + j] = items[i].payload[j]
           /\ body[at[i] + n + 2] = NewLine

\* An encoding holds its items, one behind the other.
LEMMA EncodingHolds ==
  ASSUME NEW items \in Seq(AnyItem)
  PROVE  /\ Encode(items) \in Seq(Unit)
         /\ \E at : Holds(Encode(items), items, at)
<1>1. PICK L : L = Len(items) /\ L \in Nat
  OBVIOUS
<1>2. PICK from : from = EncodedFrom(items)
  OBVIOUS
<1>3. /\ from[L + 1] = <<>>
      /\ \A i \in 1 .. L : from[i] = EncodedItem(items[i]) \o from[i + 1]
      /\ \A i \in 1 .. L + 1 : from[i] \in Seq(Unit) /\ Len(from[i]) \in Nat
  <2>1. /\ from[L + 1] = <<>>
        /\ \A i \in 1 .. L : from[i] = EncodedItem(items[i]) \o from[i + 1]
        /\ \A i \in 1 .. L + 1 : from[i] \in Seq(Unit)
    BY <1>1, <1>2, EncodingsAre
  <2>2. \A i \in 1 .. L + 1 : Len(from[i]) \in Nat
    BY <2>1
  <2> QED BY <2>1, <2>2
<1>4. PICK body : body = Encode(items)
  OBVIOUS
<1>5. PICK head : head = <<Object("none", 0), NewLine>>
  OBVIOUS
<1>6. head \in Seq(Unit)
  <2>1. Object("none", 0) \in Unit /\ NewLine \in Unit
    <3>1. "none" \in HeaderType
      BY DEF HeaderType
    <3>2. 0 \in Int
      OBVIOUS
    <3> QED BY <3>1, <3>2, ObjectsAreUnits DEF Unit
  <2> QED BY <1>5, <2>1
<1>7. Len(head) = 2 /\ head[1] = Object("none", 0) /\ head[2] = NewLine
  BY <1>5
<1>8. from[1] \in Seq(Unit) /\ 1 \in 1 .. L + 1
  BY <1>1, <1>3
<1>9. body = head \o from[1]
  BY <1>2, <1>4, <1>5 DEF Encode
<1>10. /\ body \in Seq(Unit) /\ Len(body) = 2 + Len(from[1])
       /\ \A j \in 1 .. 2 : body[j] = head[j]
       /\ \A j \in 1 .. Len(from[1]) : body[2 + j] = from[1][j]
  <2> head \in Seq(Unit) /\ from[1] \in Seq(Unit)
    BY <1>6, <1>8
  <2>1. /\ body \in Seq(Unit) /\ Len(body) = Len(head) + Len(from[1])
        /\ \A j \in 1 .. Len(head) : body[j] = head[j]
        /\ \A j \in 1 .. Len(from[1]) : body[Len(head) + j] = from[1][j]
    BY <1>9, Joined
  <2> QED BY <1>7, <2>1
<1>11. PICK N : N = Len(body) /\ N \in Nat
  BY <1>10
<1>12. PICK at : at = [i \in 1 .. L + 1 |-> N - Len(from[i]) + 1]
  OBVIOUS
<1> DEFINE placed(i) == /\ at[i] >= 3 /\ at[i] \in Int
                        /\ \A j \in 1 .. Len(from[i]) : body[at[i] - 1 + j] = from[i][j]
           T == {i \in 1 .. L + 1 : ~placed(i)}
<1>13. \A i \in 1 .. L + 1 : at[i] = N - Len(from[i]) + 1 /\ at[i] \in Int
  <2>1. \A i \in 1 .. L + 1 : N - Len(from[i]) + 1 \in Int
    BY <1>3, <1>11
  <2> QED BY <1>12, <2>1
<1>14. placed(1)
  <2>1. at[1] = 3
    <3>1. at[1] = N - Len(from[1]) + 1 /\ N = 2 + Len(from[1]) /\ Len(from[1]) \in Nat
      BY <1>3, <1>8, <1>10, <1>11, <1>13
    <3> QED BY <3>1
  <2>2. \A j \in 1 .. Len(from[1]) : at[1] - 1 + j = 2 + j
    BY <1>3, <1>8, <2>1
  <2> QED BY <1>10, <2>1, <2>2
\* One item further on.
<1>15. ASSUME NEW i \in 1 .. L, placed(i)
       PROVE  LET n == Len(items[i].payload)
              IN  /\ at[i + 1] = at[i] + n + 3 /\ n \in Nat /\ placed(i + 1)
                  /\ body[at[i]] = Object(items[i].type, n) /\ body[at[i] + 1] = NewLine
                  /\ \A j \in 1 .. n : body[at[i] + 1 + j] = items[i].payload[j]
                  /\ body[at[i] + n + 2] = NewLine
  <2>1. i \in 1 .. L + 1 /\ i + 1 \in 1 .. L + 1
    BY <1>1
  <2>2. items[i] \in AnyItem
    BY <1>1, <1>15, ElementOfSeq
  <2>3. PICK e : e = EncodedItem(items[i])
    OBVIOUS
  <2>4. PICK n : n = Len(items[i].payload)
    OBVIOUS
  <2>5. /\ e \in Seq(Unit) /\ n \in Nat /\ Len(e) = n + 3
        /\ e[1] = Object(items[i].type, n) /\ e[2] = NewLine /\ e[n + 3] = NewLine
        /\ \A j \in 1 .. n : e[j + 2] = items[i].payload[j]
    BY <2>2, <2>3, <2>4, EncodedItemIs
  <2>6. PICK more : more = from[i + 1]
    OBVIOUS
  <2>7. PICK here : here = from[i]
    OBVIOUS
  <2>8. here = e \o more /\ more \in Seq(Unit)
    BY <1>3, <2>1, <2>3, <2>6, <2>7
  <2>9. /\ Len(here) = n + 3 + Len(more) /\ Len(more) \in Nat
        /\ \A j \in 1 .. n + 3 : here[j] = e[j]
        /\ \A j \in 1 .. Len(more) : here[n + 3 + j] = more[j]
    <3> e \in Seq(Unit) /\ more \in Seq(Unit)
      BY <2>5, <2>8
    <3>1. /\ Len(here) = Len(e) + Len(more) /\ Len(more) \in Nat
          /\ \A j \in 1 .. Len(e) : here[j] = e[j]
          /\ \A j \in 1 .. Len(more) : here[Len(e) + j] = more[j]
      BY <2>8, Joined
    <3> QED BY <2>5, <3>1
  <2>10. PICK s : s = at[i] /\ s \in Int
    BY <1>13, <2>1
  <2>11. s >= 3 /\ \A j \in 1 .. n + 3 + Len(more) : body[s - 1 + j] = here[j]
    BY <1>15, <2>7, <2>9, <2>10
  <2>12. at[i + 1] = s + n + 3
    <3>1. at[i + 1] = N - Len(more) + 1 /\ s = N - Len(here) + 1
      BY <1>13, <2>1, <2>6, <2>7, <2>10
    <3>2. Len(here) = n + 3 + Len(more) /\ Len(more) \in Nat
      BY <2>9
    <3> QED BY <1>11, <2>5, <2>10, <3>1, <3>2
  <2>13. \A j \in 1 .. n + 3 : body[s - 1 + j] = e[j]
    <3>1. \A j \in 1 .. n + 3 : j \in 1 .. n + 3 + Len(more)
      BY <2>5, <2>9
    <3> QED BY <2>9, <2>11, <3>1
  <2>14. body[s] = Object(items[i].type, n) /\ body[s + 1] = NewLine /\ body[s + n + 2] = NewLine
    <3>1. /\ 1 \in 1 .. n + 3 /\ 2 \in 1 .. n + 3 /\ n + 3 \in 1 .. n + 3
          /\ s - 1 + 1 = s /\ s - 1 + 2 = s + 1 /\ s - 1 + (n + 3) = s + n + 2
      BY <2>5, <2>10
    <3> QED BY <2>5, <2>13, <3>1
  <2>15. \A j \in 1 .. n : body[s + 1 + j] = items[i].payload[j]
    <3>0. n \in Nat /\ s \in Int
      BY <2>5, <2>10
    <3>1. \A j \in 1 .. n : j + 2 \in 1 .. n + 3 /\ s - 1 + (j + 2) = s + 1 + j
      BY <3>0
    <3> QED BY <2>5, <2>13, <3>1
  <2>16. placed(i + 1)
    <3>1. at[i + 1] >= 3 /\ at[i + 1] \in Int
      BY <2>5, <2>10, <2>11, <2>12
    <3>2. ASSUME NEW j \in 1 .. Len(more) PROVE body[at[i + 1] - 1 + j] = more[j]
      <4>1. n + 3 + j \in 1 .. n + 3 + Len(more) /\ s - 1 + (n + 3 + j) = at[i + 1] - 1 + j
        <5>1. n \in Nat /\ s \in Int /\ Len(more) \in Nat /\ j \in 1 .. Len(more)
          BY <2>5, <2>9, <2>10
        <5> QED BY <2>12, <5>1
      <4> QED BY <2>9, <2>11, <4>1
    <3> QED BY <2>6, <3>1, <3>2
  <2> HIDE DEF placed
  <2> QED BY <2>4, <2>5, <2>10, <2>12, <2>14, <2>15, <2>16
<1> HIDE DEF placed
<1>16. T = {}
  <2> SUFFICES ASSUME T # {} PROVE FALSE
    OBVIOUS
  <2>1. T \in SUBSET Nat
    OBVIOUS
  <2>2. PICK i \in T : \A k \in T : i <= k
    BY <2>1, LeastNatural
  <2>3. i # 1
    BY <1>14
  <2>4. i - 1 \in 1 .. L /\ i - 1 \in 1 .. L + 1 /\ ~(i <= i - 1) /\ (i - 1) + 1 = i
    BY <1>1, <2>3
  <2>5. placed(i - 1)
    BY <2>2, <2>4
  <2>6. placed((i - 1) + 1)
    BY <1>15, <2>4, <2>5
  <2> QED BY <2>4, <2>6
<1>17. \A i \in 1 .. L + 1 : placed(i)
  BY <1>16
<1>18. Len(body) >= 2 /\ body[1] = Object("none", 0) /\ body[2] = NewLine
  <2>1. 1 \in 1 .. 2 /\ 2 \in 1 .. 2
    OBVIOUS
  <2> QED BY <1>3, <1>7, <1>8, <1>10, <2>1
<1>19. at[1] = 3 /\ at[L + 1] = Len(body) + 1
  <2>1. L + 1 \in 1 .. L + 1 /\ Len(from[L + 1]) = 0
    BY <1>1, <1>3
  <2>2. at[L + 1] = N - Len(from[L + 1]) + 1
    BY <1>13, <2>1
  <2>3. at[1] = N - Len(from[1]) + 1 /\ N = 2 + Len(from[1]) /\ Len(from[1]) \in Nat
    BY <1>3, <1>8, <1>10, <1>11, <1>13
  <2> QED BY <1>11, <2>1, <2>2, <2>3
<1>20. ASSUME NEW i \in 1 .. L PROVE at[i] >= 3 /\ at[i + 1] <= Len(body) + 1
  <2>1. i \in 1 .. L + 1 /\ i + 1 \in 1 .. L + 1
    BY <1>1
  <2>2. at[i] >= 3
    BY <1>17, <2>1 DEF placed
  <2>3. at[i + 1] = N - Len(from[i + 1]) + 1 /\ Len(from[i + 1]) \in Nat
    BY <1>3, <1>13, <2>1
  <2>4. at[i + 1] <= N + 1
    <3>1. \A k \in Nat : N - k + 1 <= N + 1
      BY <1>11
    <3> QED BY <2>3, <3>1
  <2> QED BY <1>11, <2>2, <2>4
<1>21. \A i \in 1 .. L : placed(i)
  BY <1>1, <1>17
<1>22. Holds(body, items, at)
  BY <1>1, <1>13, <1>15, <1>18, <1>19, <1>20, <1>21 DEF Holds
<1> QED BY <1>1, <1>4, <1>10, <1>22

\* A line of one unit.
LEMMA LineOfOne ==
  ASSUME NEW body \in Seq(Unit), NEW p \in Int, 1 <= p, p + 1 <= Len(body),
         body[p] # NewLine, body[p + 1] = NewLine
  PROVE  /\ Len(Line(body, p)) = 1 /\ Line(body, p)[1] = body[p] /\ Line(body, p) # <<>>
         /\ AfterLine(body, p) = p + 2
<1> DEFINE breaks == {j \in p .. Len(body) : body[j] = NewLine}
<1>0. Len(body) \in Nat
  OBVIOUS
<1>1. p + 1 \in breaks /\ \A k \in breaks : p + 1 <= k
  <2>1. p + 1 \in p .. Len(body)
    BY <1>0
  <2>2. ASSUME NEW k \in breaks PROVE p + 1 <= k
    <3>1. k \in Int /\ p <= k /\ k # p
      OBVIOUS
    <3> QED BY <3>1
  <2> QED BY <2>1, <2>2
<1>2. \A j \in breaks : j \in Int
  OBVIOUS
<1>3. LineEnd(body, p) = CHOOSE j \in breaks : \A k \in breaks : j <= k
  BY <1>1 DEF LineEnd
<1> HIDE DEF breaks
<1>4. LineEnd(body, p) \in breaks /\ \A k \in breaks : LineEnd(body, p) <= k
  BY <1>1, <1>3
<1>5. LineEnd(body, p) = p + 1
  BY <1>1, <1>2, <1>4
<1>6. AfterLine(body, p) = p + 2
  BY <1>0, <1>5 DEF AfterLine
<1>7. Line(body, p) = SubSeq(body, p, p)
  BY <1>5 DEF Line
<1>8. Len(SubSeq(body, p, p)) = 1 /\ SubSeq(body, p, p)[1] = body[p]
  <2>1. \A i \in p .. p : body[i] \in Unit
    BY <1>0
  <2>2. /\ Len(SubSeq(body, p, p)) = IF p <= p THEN p - p + 1 ELSE 0
        /\ \A i \in 1 .. p - p + 1 : SubSeq(body, p, p)[i] = body[p + i - 1]
    BY <2>1, SubSeqProperties
  <2>3. p <= p /\ p - p + 1 = 1 /\ p + 1 - 1 = p /\ 1 \in 1 .. p - p + 1
    OBVIOUS
  <2> QED BY <2>2, <2>3
<1>9. Line(body, p) # <<>>
  BY <1>7, <1>8
<1> QED BY <1>6, <1>7, <1>8, <1>9

\* A line of one object is a header line.
LEMMA HeaderOfOne ==
  ASSUME NEW body \in Seq(Unit), NEW p \in Int, 1 <= p, p + 1 <= Len(body),
         NEW type, NEW length, body[p] = Object(type, length), body[p + 1] = NewLine
  PROVE  /\ ParseHeaderLine(body, p).verdict = "ok" /\ Line(body, p) # <<>>
         /\ Line(body, p)[1] = Object(type, length) /\ AfterLine(body, p) = p + 2
<1>1. Object(type, length).is = "object" /\ Object(type, length) # NewLine
  BY DEF Object, NewLine
<1>2. /\ Len(Line(body, p)) = 1 /\ Line(body, p)[1] = body[p] /\ Line(body, p) # <<>>
      /\ AfterLine(body, p) = p + 2
  BY <1>1, LineOfOne
<1>3. IsObject(Line(body, p))
  BY <1>1, <1>2 DEF IsObject
<1>4. ~(Len(Line(body, p)) > MaxHeaderLine)
  BY <1>2, EnvelopeAssumption
<1>5. ParseHeaderLine(body, p).verdict = "ok"
  BY <1>3, <1>4 DEF ParseHeaderLine, Parsed
<1> QED BY <1>2, <1>5

\* What the loop makes of an encoded item.
LEMMA EncodedIsTaken ==
  ASSUME NEW items \in Seq(AnyItem), NEW body \in Seq(Unit), NEW at,
         Holds(body, items, at), NEW i \in 1 .. Len(items), NEW n \in 0 .. MaxEnvelopeItems,
         NEW end, NEW rest
  PROVE  ItemAt(body, end, rest, at[i], n) =
           IF n >= MaxEnvelopeItems \/ Len(items[i].payload) > MaxItemBytes THEN TooLarge
           ELSE IF items[i].type \in Kinds THEN WithItem(items[i], rest[at[i + 1]][n + 1])
           ELSE WithSkipped(rest[at[i + 1]][n])
<1>1. PICK payload, type : items[i].payload = payload /\ items[i].type = type
  OBVIOUS
<1>2. /\ items[i] \in AnyItem /\ payload \in Seq(Unit)
      /\ items[i] = [type |-> type, payload |-> payload]
  <2>1. items[i] \in AnyItem
    BY ElementOfSeq
  <2> QED BY <1>1, <2>1 DEF AnyItem
<1>3. PICK l \in Nat : l = Len(payload)
  BY <1>2
<1>4. PICK p \in Int : p = at[i]
  <2>1. i \in 1 .. Len(items) + 1
    OBVIOUS
  <2> QED BY <2>1 DEF Holds
<1>5. /\ p >= 3 /\ at[i + 1] = p + l + 3 /\ p + l + 2 <= Len(body) /\ Len(body) \in Nat
      /\ body[p] = Object(type, l) /\ body[p + 1] = NewLine
      /\ \A j \in 1 .. l : body[p + 1 + j] = payload[j]
      /\ body[p + l + 2] = NewLine
  <2>1. /\ p >= 3 /\ at[i + 1] = p + l + 3 /\ at[i + 1] <= Len(body) + 1
        /\ body[p] = Object(type, l) /\ body[p + 1] = NewLine
        /\ \A j \in 1 .. l : body[p + 1 + j] = payload[j]
        /\ body[p + l + 2] = NewLine
    BY <1>1, <1>3, <1>4 DEF Holds
  <2>2. p + l + 2 <= Len(body) /\ Len(body) \in Nat
    <3>1. PICK N \in Nat : N = Len(body)
      OBVIOUS
    <3>2. p + l + 3 <= N + 1
      BY <2>1, <3>1
    <3>3. p + l + 2 <= N
      BY <3>2
    <3> QED BY <3>1, <3>3
  <2> QED BY <2>1, <2>2
<1>12. PICK N \in Nat : N = Len(body) /\ p >= 3 /\ p + l + 2 <= N
  BY <1>5
<1>6. /\ ParseHeaderLine(body, p).verdict = "ok" /\ Line(body, p) # <<>>
      /\ Line(body, p)[1] = Object(type, l) /\ AfterLine(body, p) = p + 2
  <2>1. 1 <= p /\ p + 1 <= Len(body)
    BY <1>12
  <2>2. body[p] = Object(type, l) /\ body[p + 1] = NewLine
    BY <1>5
  <2> QED BY <2>1, <2>2, HeaderOfOne
<1>7. SubSeq(body, p + 2, p + 2 + l - 1) = payload
  <2>1. PICK s : s = SubSeq(body, p + 2, p + 1 + l)
    OBVIOUS
  <2>2. \A j \in p + 2 .. p + 1 + l : body[j] \in Unit
    <3>1. \A j \in p + 2 .. p + 1 + l : j \in 1 .. N
      BY <1>12
    <3>2. \A j \in p + 2 .. p + 1 + l : j \in 1 .. Len(body)
      BY <1>12, <3>1
    <3> QED BY <3>2, ElementOfSeq
  <2>3. /\ s \in Seq(Unit) /\ Len(s) = IF p + 2 <= p + 1 + l THEN (p + 1 + l) - (p + 2) + 1 ELSE 0
        /\ \A j \in 1 .. (p + 1 + l) - (p + 2) + 1 : s[j] = body[(p + 2) + j - 1]
    <3>1. PICK a \in Int, b \in Int : a = p + 2 /\ b = p + 1 + l
      BY <1>3, <1>4
    <3>2. s = SubSeq(body, a, b) /\ \A j \in a .. b : body[j] \in Unit
      BY <2>1, <2>2, <3>1
    <3>3. /\ s \in Seq(Unit) /\ Len(s) = IF a <= b THEN b - a + 1 ELSE 0
          /\ \A j \in 1 .. b - a + 1 : s[j] = body[a + j - 1]
      BY <3>2, SubSeqProperties
    <3> QED BY <3>1, <3>3
  <2>4. Len(s) = l /\ (p + 1 + l) - (p + 2) + 1 = l
    <3>1. (p + 1 + l) - (p + 2) + 1 = l /\ (~(p + 2 <= p + 1 + l) => l = 0)
      BY <1>3, <1>4
    <3> QED BY <2>3, <3>1
  <2>5. \A j \in 1 .. l : s[j] = payload[j]
    <3>1. \A j \in 1 .. l : (p + 2) + j - 1 = p + 1 + j
      BY <1>4
    <3> QED BY <1>5, <2>3, <2>4, <3>1
  <2>6. s = payload
    <3> s \in Seq(Unit) /\ payload \in Seq(Unit)
      BY <1>2, <2>3
    <3> QED BY <1>3, <2>4, <2>5, SeqEqual
  <2>7. p + 2 + l - 1 = p + 1 + l
    OBVIOUS
  <2> QED BY <2>1, <2>6, <2>7
<1>8. AfterPayload(body, p + 2 + l) = at[i + 1]
  <2>1. p + 2 + l = p + l + 2 /\ p + 2 + l <= Len(body) /\ p + 2 + l + 1 = p + l + 3
    BY <1>12
  <2> QED BY <1>5, <2>1 DEF AfterPayload
<1>9. PayloadAt(body, end, rest, p, n) =
        IF l > MaxItemBytes THEN TooLarge
        ELSE IF type \in Kinds THEN WithItem(items[i], rest[at[i + 1]][n + 1])
        ELSE WithSkipped(rest[at[i + 1]][n])
  <2>1. Object(type, l).type = type /\ Object(type, l).length = l
    BY DEF Object
  <2>2. ~(l < 0) /\ ~(p + 2 + l > Len(body) + 1)
    BY <1>12
  <2> DEFINE header == Line(body, p)[1]
             from == AfterLine(body, p)
             past == from + header.length
             next == AfterPayload(body, past)
             item == [type |-> header.type, payload |-> SubSeq(body, from, past - 1)]
  <2>3. PayloadAt(body, end, rest, p, n) =
          IF header.length < 0 THEN Malformed
          ELSE IF header.length > MaxItemBytes THEN TooLarge
          ELSE IF past > Len(body) + 1 THEN ShortPayload(end)
          ELSE IF item.type \in Kinds THEN WithItem(item, rest[next][n + 1])
          ELSE WithSkipped(rest[next][n])
    BY DEF PayloadAt
  <2>4. header.type = type /\ header.length = l /\ past = p + 2 + l
    BY <1>6, <2>1
  <2>5. next = at[i + 1]
    <3> HIDE DEF past
    <3> QED BY <1>8, <2>4
  <2>6. item = items[i] /\ item.type = type
    <3>1. from = p + 2
      BY <1>6
    <3> HIDE DEF header, from, past
    <3>2. SubSeq(body, from, past - 1) = payload
      BY <1>7, <2>4, <3>1
    <3> QED BY <1>2, <2>4, <3>2
  <2> HIDE DEF header, from, past, next, item
  <2> QED BY <2>2, <2>3, <2>4, <2>5, <2>6
<1>10. ~(p > Len(body))
  BY <1>12
<1>11. ItemAt(body, end, rest, p, n) =
         IF n >= MaxEnvelopeItems THEN TooLarge ELSE PayloadAt(body, end, rest, p, n)
  BY <1>6, <1>10 DEF ItemAt
<1>13. ItemAt(body, end, rest, p, n) =
         IF n >= MaxEnvelopeItems \/ l > MaxItemBytes THEN TooLarge
         ELSE IF type \in Kinds THEN WithItem(items[i], rest[at[i + 1]][n + 1])
         ELSE WithSkipped(rest[at[i + 1]][n])
  BY <1>9, <1>11
<1>14. p = at[i] /\ type = items[i].type /\ l = Len(items[i].payload)
  BY <1>1, <1>3, <1>4
<1> QED BY <1>13, <1>14

\* The items of known types from one on, and those of them before another.
KnownFrom(items, k) == {i \in Known(items) : i >= k}
Between(items, k, i) == {j \in Known(items) : k <= j /\ j < i}
NumberOf(items, k) == Cardinality(KnownFrom(items, k))
Gap(items, k, i) == Cardinality(Between(items, k, i))

\* What is read on from an item, when n were taken before it.
FitsFrom(items, k, n) ==
  \A i \in k .. Len(items) :
    Len(items[i].payload) <= MaxItemBytes /\ n + Gap(items, k, i) < MaxEnvelopeItems

Expected(items, k, n, result) ==
  IF FitsFrom(items, k, n)
  THEN /\ result \in Result /\ result.verdict = "ok"
       /\ Len(result.items) = NumberOf(items, k)
       /\ result.skipped = Len(items) + 1 - k - NumberOf(items, k)
       /\ \A i \in KnownFrom(items, k) : result.items[Gap(items, k, i) + 1] = items[i]
  ELSE result = TooLarge

\* Both are counted by a natural number.
LEMMA KnownCount ==
  ASSUME NEW items \in Seq(AnyItem), NEW k \in 1 .. Len(items) + 1
  PROVE  /\ NumberOf(items, k) \in Nat
         /\ \A i \in Nat : Gap(items, k, i) \in Nat
<1>1. Known(items) \subseteq 1 .. Len(items)
  BY DEF Known
<1>2. IsFiniteSet(1 .. Len(items))
  BY FS_Interval
<1>3. IsFiniteSet(Known(items))
  BY <1>1, <1>2, FS_Subset
<1>4. IsFiniteSet(KnownFrom(items, k))
  BY <1>3, FS_Subset DEF KnownFrom
<1>5. \A i \in Nat : IsFiniteSet(Between(items, k, i))
  BY <1>3, FS_Subset DEF Between
<1> QED BY <1>4, <1>5, FS_CardinalityType DEF NumberOf, Gap

\* One item more in front: one more is known, or none.
LEMMA KnownCounts ==
  ASSUME NEW items \in Seq(AnyItem), NEW k \in 1 .. Len(items)
  PROVE  /\ items[k].type \in Kinds =>
              /\ NumberOf(items, k) = NumberOf(items, k + 1) + 1
              /\ KnownFrom(items, k) = KnownFrom(items, k + 1) \cup {k}
              /\ \A i \in k + 1 .. Len(items) : Gap(items, k, i) = Gap(items, k + 1, i) + 1
         /\ items[k].type \notin Kinds =>
              /\ NumberOf(items, k) = NumberOf(items, k + 1)
              /\ KnownFrom(items, k) = KnownFrom(items, k + 1)
              /\ \A i \in k + 1 .. Len(items) : Gap(items, k, i) = Gap(items, k + 1, i)
         /\ Gap(items, k, k) = 0
<1>1. Known(items) \subseteq 1 .. Len(items) /\ (k \in Known(items) <=> items[k].type \in Kinds)
  BY DEF Known
<1>2. IsFiniteSet(1 .. Len(items))
  BY FS_Interval
<1>3. IsFiniteSet(Known(items))
  BY <1>1, <1>2, FS_Subset
<1>4. \A j \in Known(items) : j \in Int
  BY <1>1
<1>5. ASSUME items[k].type \in Kinds
      PROVE  /\ NumberOf(items, k) = NumberOf(items, k + 1) + 1
             /\ KnownFrom(items, k) = KnownFrom(items, k + 1) \cup {k}
             /\ \A i \in k + 1 .. Len(items) : Gap(items, k, i) = Gap(items, k + 1, i) + 1
  <2>1. KnownFrom(items, k) = KnownFrom(items, k + 1) \cup {k} /\ k \notin KnownFrom(items, k + 1)
    BY <1>1, <1>4, <1>5 DEF KnownFrom
  <2>2. IsFiniteSet(KnownFrom(items, k + 1))
    BY <1>3, FS_Subset DEF KnownFrom
  <2>3. NumberOf(items, k) = NumberOf(items, k + 1) + 1
    BY <2>1, <2>2, FS_AddElement DEF NumberOf
  <2>4. ASSUME NEW i \in k + 1 .. Len(items) PROVE Gap(items, k, i) = Gap(items, k + 1, i) + 1
    <3>1. /\ Between(items, k, i) = Between(items, k + 1, i) \cup {k}
          /\ k \notin Between(items, k + 1, i)
      BY <1>1, <1>4, <1>5 DEF Between
    <3>2. IsFiniteSet(Between(items, k + 1, i))
      BY <1>3, FS_Subset DEF Between
    <3> QED BY <3>1, <3>2, FS_AddElement DEF Gap
  <2> QED BY <2>1, <2>3, <2>4
<1>6. ASSUME items[k].type \notin Kinds
      PROVE  /\ KnownFrom(items, k) = KnownFrom(items, k + 1)
             /\ \A i \in k + 1 .. Len(items) : Between(items, k, i) = Between(items, k + 1, i)
  <2>1. \A j \in Known(items) : k <= j <=> k + 1 <= j
    BY <1>1, <1>4, <1>6
  <2> QED BY <1>4, <2>1 DEF KnownFrom, Between
<1>7. Between(items, k, k) = {}
  BY <1>4 DEF Between
<1>8. Gap(items, k, k) = 0
  BY <1>7, FS_EmptySet DEF Gap
<1> QED BY <1>5, <1>6, <1>8 DEF NumberOf, Gap

\* From an item on all fits, if it does and all behind it.
LEMMA FitsOnward ==
  ASSUME NEW items \in Seq(AnyItem), NEW k \in 1 .. Len(items), NEW n \in Nat
  PROVE  FitsFrom(items, k, n) <=>
           /\ Len(items[k].payload) <= MaxItemBytes /\ n < MaxEnvelopeItems
           /\ FitsFrom(items, k + 1, IF items[k].type \in Kinds THEN n + 1 ELSE n)
<1> DEFINE L == Len(items)
           m == IF items[k].type \in Kinds THEN n + 1 ELSE n
<1>1. L \in Nat /\ MaxEnvelopeItems \in Nat /\ k + 1 \in 1 .. L + 1
  BY EnvelopeAssumption
<1>2. \A i \in k + 1 .. L : i \in Nat /\ Gap(items, k + 1, i) \in Nat
  <2>1. \A i \in k + 1 .. L : i \in Nat
    BY <1>1
  <2> QED BY <1>1, <2>1, KnownCount
<1>3. \A i \in k + 1 .. L : n + Gap(items, k, i) = m + Gap(items, k + 1, i)
  BY <1>2, KnownCounts
<1>4. n + Gap(items, k, k) = n
  BY KnownCounts
<1>5. \A i \in k .. L : i = k \/ i \in k + 1 .. L
  BY <1>1
<1>6. k \in k .. L /\ \A i \in k + 1 .. L : i \in k .. L
  BY <1>1
<1> HIDE DEF m, L
<1>7. FitsFrom(items, k, n) <=>
        \A i \in k .. L :
          Len(items[i].payload) <= MaxItemBytes /\ n + Gap(items, k, i) < MaxEnvelopeItems
  BY DEF FitsFrom, L
<1>8. FitsFrom(items, k + 1, m) <=>
        \A i \in k + 1 .. L :
          Len(items[i].payload) <= MaxItemBytes /\ m + Gap(items, k + 1, i) < MaxEnvelopeItems
  BY DEF FitsFrom, L
<1>9. FitsFrom(items, k, n) <=>
        Len(items[k].payload) <= MaxItemBytes /\ n < MaxEnvelopeItems /\ FitsFrom(items, k + 1, m)
  BY <1>3, <1>4, <1>5, <1>6, <1>7, <1>8
<1> QED BY <1>9 DEF m

\* Fewer are before a known item than there are.
LEMMA GapsAreSmaller ==
  ASSUME NEW items \in Seq(AnyItem), NEW k \in 1 .. Len(items) + 1, NEW i \in KnownFrom(items, k)
  PROVE  Gap(items, k, i) < NumberOf(items, k)
<1>1. Known(items) \subseteq 1 .. Len(items)
  BY DEF Known
<1>2. IsFiniteSet(1 .. Len(items))
  BY FS_Interval
<1>3. IsFiniteSet(Known(items))
  BY <1>1, <1>2, FS_Subset
<1>4. IsFiniteSet(KnownFrom(items, k))
  BY <1>3, FS_Subset DEF KnownFrom
<1>5. /\ Between(items, k, i) \in SUBSET KnownFrom(items, k)
      /\ i \in KnownFrom(items, k) /\ i \notin Between(items, k, i)
  BY <1>1 DEF KnownFrom, Between
<1>6. /\ Gap(items, k, i) <= NumberOf(items, k)
      /\ NumberOf(items, k) = Gap(items, k, i) => KnownFrom(items, k) = Between(items, k, i)
  BY <1>4, <1>5, FS_Subset DEF Gap, NumberOf
<1>7. Gap(items, k, i) # NumberOf(items, k)
  BY <1>5, <1>6
<1>8. Gap(items, k, i) \in Nat /\ NumberOf(items, k) \in Nat
  <2>1. i \in Nat
    BY <1>1 DEF KnownFrom
  <2> QED BY <2>1, KnownCount
<1> QED BY <1>6, <1>7, <1>8

\* An item in front of what is expected of those behind it.
LEMMA TurnsGiveItems ==
  ASSUME NEW items \in Seq(AnyItem), NEW k \in 1 .. Len(items), NEW n \in 0 .. MaxEnvelopeItems,
         NEW known, NEW unknown,
         n < MaxEnvelopeItems => Expected(items, k + 1, n + 1, known),
         Expected(items, k + 1, n, unknown)
  PROVE  Expected(items, k, n,
           IF n >= MaxEnvelopeItems \/ Len(items[k].payload) > MaxItemBytes THEN TooLarge
           ELSE IF items[k].type \in Kinds THEN WithItem(items[k], known)
           ELSE WithSkipped(unknown))
<1>1. /\ items[k] \in AnyItem /\ Len(items[k].payload) \in Nat /\ MaxItemBytes \in Nat
      /\ MaxEnvelopeItems \in Nat /\ n \in Nat /\ k \in Nat /\ Len(items) \in Nat
  <2>1. items[k] \in AnyItem
    BY ElementOfSeq
  <2> QED BY <2>1, EnvelopeAssumption DEF AnyItem
<1>2. FitsFrom(items, k, n) <=>
        /\ Len(items[k].payload) <= MaxItemBytes /\ n < MaxEnvelopeItems
        /\ FitsFrom(items, k + 1, IF items[k].type \in Kinds THEN n + 1 ELSE n)
  BY <1>1, FitsOnward
<1>3. CASE n >= MaxEnvelopeItems \/ Len(items[k].payload) > MaxItemBytes
  <2>1. ~FitsFrom(items, k, n)
    BY <1>1, <1>2, <1>3
  <2> QED BY <1>3, <2>1 DEF Expected
<1>4. CASE /\ ~(n >= MaxEnvelopeItems \/ Len(items[k].payload) > MaxItemBytes)
           /\ items[k].type \in Kinds
  <2>1. FitsFrom(items, k, n) <=> FitsFrom(items, k + 1, n + 1)
    BY <1>1, <1>2, <1>4
  <2>2. Expected(items, k + 1, n + 1, known)
    BY <1>1, <1>4
  <2>3. PICK r : r = WithItem(items[k], known)
    OBVIOUS
  <2>4. Expected(items, k, n, r)
    <3>1. CASE ~FitsFrom(items, k + 1, n + 1)
      <4>1. known = TooLarge
        BY <2>2, <3>1 DEF Expected
      <4>2. r = TooLarge
        BY <2>3, <4>1 DEF WithItem, TooLarge, Refused
      <4> QED BY <2>1, <3>1, <4>2 DEF Expected
    <3>2. CASE FitsFrom(items, k + 1, n + 1)
      <4>1. /\ known \in Result /\ known.verdict = "ok"
            /\ Len(known.items) = NumberOf(items, k + 1)
            /\ known.skipped = Len(items) + 1 - (k + 1) - NumberOf(items, k + 1)
            /\ \A i \in KnownFrom(items, k + 1) : known.items[Gap(items, k + 1, i) + 1] = items[i]
        BY <2>2, <3>2 DEF Expected
      <4>2. PICK more : more = known.items
        OBVIOUS
      <4>3. PICK one : one = <<items[k]>>
        OBVIOUS
      <4>4. PICK all : all = one \o more
        OBVIOUS
      <4>5. more \in Seq(AnyItem) /\ known.skipped \in Nat
        BY <4>1, <4>2 DEF Result, Taken
      <4>6. one \in Seq(AnyItem) /\ Len(one) = 1 /\ one[1] = items[k]
        BY <1>1, <4>3
      <4>7. r = [verdict |-> "ok", items |-> all, skipped |-> known.skipped]
        BY <2>3, <4>1, <4>2, <4>3, <4>4 DEF WithItem, Result
      <4>8. /\ all \in Seq(AnyItem) /\ Len(all) = 1 + Len(more) /\ Len(more) \in Nat
            /\ all[1] = items[k] /\ \A j \in 1 .. Len(more) : all[1 + j] = more[j]
        <5> one \in Seq(AnyItem) /\ more \in Seq(AnyItem)
          BY <4>5, <4>6
        <5>1. /\ all \in Seq(AnyItem) /\ Len(all) = Len(one) + Len(more) /\ Len(more) \in Nat
              /\ \A j \in 1 .. Len(one) : all[j] = one[j]
              /\ \A j \in 1 .. Len(more) : all[Len(one) + j] = more[j]
          BY <4>4, Joined
        <5>2. 1 \in 1 .. 1
          OBVIOUS
        <5> QED BY <4>6, <5>1, <5>2
      <4>9. r \in Result /\ r.verdict = "ok" /\ r.items = all /\ r.skipped = known.skipped
        <5>1. "ok" \in Verdicts
          BY DEF Verdicts
        <5>2. all \in Taken
          BY <4>8 DEF Taken
        <5> QED BY <4>5, <4>7, <5>1, <5>2, ResultIs
      <4>10. /\ NumberOf(items, k) = NumberOf(items, k + 1) + 1
             /\ KnownFrom(items, k) = KnownFrom(items, k + 1) \cup {k}
             /\ \A i \in k + 1 .. Len(items) : Gap(items, k, i) = Gap(items, k + 1, i) + 1
             /\ Gap(items, k, k) = 0
        BY <1>4, KnownCounts
      <4>11. k + 1 \in 1 .. Len(items) + 1
        BY <1>1
      <4>12. NumberOf(items, k + 1) \in Nat
        BY <4>11, KnownCount
      <4>13. Len(all) = NumberOf(items, k)
        BY <4>1, <4>2, <4>8, <4>10, <4>12
      <4>14. known.skipped = Len(items) + 1 - k - NumberOf(items, k)
        BY <1>1, <4>1, <4>10, <4>12
      <4>15. ASSUME NEW i \in KnownFrom(items, k) PROVE all[Gap(items, k, i) + 1] = items[i]
        <5>1. CASE i = k
          BY <4>8, <4>10, <5>1
        <5>2. CASE i \in KnownFrom(items, k + 1)
          <6>1. i \in k + 1 .. Len(items)
            BY <5>2 DEF KnownFrom, Known
          <6>2. PICK g \in Nat : g = Gap(items, k + 1, i)
            <7>1. i \in Nat
              BY <1>1, <6>1
            <7> QED BY <4>11, <7>1, KnownCount
          <6>3. Gap(items, k, i) = g + 1 /\ more[g + 1] = items[i]
            BY <4>1, <4>2, <4>10, <5>2, <6>1, <6>2
          <6>4. g + 1 \in 1 .. Len(more)
            <7>1. g < NumberOf(items, k + 1)
              BY <4>11, <5>2, <6>2, GapsAreSmaller
            <7> QED BY <4>1, <4>2, <4>12, <7>1
          <6>5. all[1 + (g + 1)] = more[g + 1]
            BY <4>8, <6>4
          <6>6. (g + 1) + 1 = 1 + (g + 1)
            OBVIOUS
          <6> QED BY <6>3, <6>5, <6>6
        <5> QED BY <4>10, <5>1, <5>2
      <4> QED BY <2>1, <3>2, <4>9, <4>13, <4>14, <4>15 DEF Expected
    <3> QED BY <3>1, <3>2
  <2> QED BY <1>4, <2>3, <2>4
<1>5. CASE /\ ~(n >= MaxEnvelopeItems \/ Len(items[k].payload) > MaxItemBytes)
           /\ items[k].type \notin Kinds
  <2>1. FitsFrom(items, k, n) <=> FitsFrom(items, k + 1, n)
    BY <1>1, <1>2, <1>5
  <2>2. PICK r : r = WithSkipped(unknown)
    OBVIOUS
  <2>3. Expected(items, k, n, r)
    <3>1. CASE ~FitsFrom(items, k + 1, n)
      <4>1. unknown = TooLarge
        BY <3>1 DEF Expected
      <4>2. r = TooLarge
        BY <2>2, <4>1 DEF WithSkipped, TooLarge, Refused
      <4> QED BY <2>1, <3>1, <4>2 DEF Expected
    <3>2. CASE FitsFrom(items, k + 1, n)
      <4>1. /\ unknown \in Result /\ unknown.verdict = "ok"
            /\ Len(unknown.items) = NumberOf(items, k + 1)
            /\ unknown.skipped = Len(items) + 1 - (k + 1) - NumberOf(items, k + 1)
            /\ \A i \in KnownFrom(items, k + 1) : unknown.items[Gap(items, k + 1, i) + 1] = items[i]
        BY <3>2 DEF Expected
      <4>2. unknown.items \in Taken /\ unknown.skipped \in Nat
        BY <4>1 DEF Result
      <4>3. r = [verdict |-> "ok", items |-> unknown.items, skipped |-> unknown.skipped + 1]
        BY <2>2, <4>1 DEF WithSkipped, Result
      <4>4. /\ r \in Result /\ r.verdict = "ok" /\ r.items = unknown.items
            /\ r.skipped = unknown.skipped + 1
        <5>1. "ok" \in Verdicts /\ unknown.skipped + 1 \in Nat
          BY <4>2 DEF Verdicts
        <5> QED BY <4>2, <4>3, <5>1, ResultIs
      <4>5. /\ NumberOf(items, k) = NumberOf(items, k + 1)
            /\ KnownFrom(items, k) = KnownFrom(items, k + 1)
            /\ \A i \in k + 1 .. Len(items) : Gap(items, k, i) = Gap(items, k + 1, i)
        BY <1>5, KnownCounts
      <4>6. NumberOf(items, k + 1) \in Nat
        <5>1. k + 1 \in 1 .. Len(items) + 1
          BY <1>1
        <5> QED BY <5>1, KnownCount
      <4>7. r.skipped = Len(items) + 1 - k - NumberOf(items, k)
        BY <1>1, <4>1, <4>4, <4>5, <4>6
      <4>8. \A i \in KnownFrom(items, k) : r.items[Gap(items, k, i) + 1] = items[i]
        <5>1. \A i \in KnownFrom(items, k + 1) : i \in k + 1 .. Len(items)
          BY DEF KnownFrom, Known
        <5> QED BY <4>1, <4>4, <4>5, <5>1
      <4> QED BY <2>1, <3>2, <4>1, <4>4, <4>5, <4>7, <4>8 DEF Expected
    <3> QED BY <3>1, <3>2
  <2> QED BY <1>5, <2>2, <2>3
<1> QED BY <1>3, <1>4, <1>5

\* One turn of the loop, at an encoded item of a body.
LEMMA TurnsAreExpected ==
  ASSUME NEW items \in Seq(AnyItem), NEW body \in Seq(Unit), NEW at, Holds(body, items, at),
         NEW k \in 1 .. Len(items), NEW n \in 0 .. MaxEnvelopeItems, NEW end, NEW rest,
         n < MaxEnvelopeItems => Expected(items, k + 1, n + 1, rest[at[k + 1]][n + 1]),
         Expected(items, k + 1, n, rest[at[k + 1]][n])
  PROVE  Expected(items, k, n, ItemAt(body, end, rest, at[k], n))
<1>1. PICK known : known = rest[at[k + 1]][n + 1]
  OBVIOUS
<1>2. PICK unknown : unknown = rest[at[k + 1]][n]
  OBVIOUS
<1>3. ItemAt(body, end, rest, at[k], n) =
        IF n >= MaxEnvelopeItems \/ Len(items[k].payload) > MaxItemBytes THEN TooLarge
        ELSE IF items[k].type \in Kinds THEN WithItem(items[k], rest[at[k + 1]][n + 1])
        ELSE WithSkipped(rest[at[k + 1]][n])
  BY EncodedIsTaken, SMTT(60)
<1>4. n < MaxEnvelopeItems => Expected(items, k + 1, n + 1, known)
  BY <1>1
<1>5. Expected(items, k + 1, n, unknown)
  BY <1>2
<1>6. Expected(items, k, n,
        IF n >= MaxEnvelopeItems \/ Len(items[k].payload) > MaxItemBytes THEN TooLarge
        ELSE IF items[k].type \in Kinds THEN WithItem(items[k], known)
        ELSE WithSkipped(unknown))
  BY <1>4, <1>5, TurnsGiveItems
<1> QED BY <1>1, <1>2, <1>3, <1>6

\* What the loop gives from each of the encoded items on.
LEMMA EncodingsGiveItems ==
  ASSUME NEW items \in Seq(AnyItem), NEW body \in Seq(Unit), NEW at, Holds(body, items, at),
         NEW end, AtEnd(end, TRUE) = Parsed(<<>>, 0)
  PROVE  \A k \in 1 .. Len(items) + 1, n \in 0 .. MaxEnvelopeItems :
           Expected(items, k, n, ItemsFrom(body, end)[at[k]][n])
<1> DEFINE from == ItemsFrom(body, end)
           given(k) == \A n \in 0 .. MaxEnvelopeItems : Expected(items, k, n, from[at[k]][n])
<1>1. PICK L \in Nat : L = Len(items)
  OBVIOUS
<1>2. PICK N \in Nat : N = Len(body)
  OBVIOUS
<1>3. \A i \in 1 .. N + 1, n \in 0 .. MaxEnvelopeItems :
        from[i][n] = ItemAt(body, end, from, i, n)
  <2> DEFINE turn(i) == [n \in 0 .. MaxEnvelopeItems |-> ItemAt(body, end, from, i, n)]
  <2>1. from = [i \in 1 .. N + 1 |-> turn(i)]
    BY <1>2, ItemsAreDefined
  <2> HIDE DEF from
  <2>2. \A i \in 1 .. N + 1 : from[i] = turn(i)
    <3> HIDE DEF turn
    <3> QED BY <2>1
  <2> QED BY <2>2
<1> HIDE DEF from
<1>4. at[L + 1] = N + 1 /\ L + 1 \in 1 .. L + 1
  BY <1>1, <1>2 DEF Holds
<1>5. \A k \in 1 .. L : at[k] \in 1 .. N + 1
  <2> TAKE k \in 1 .. L
  <2>1. PICK l \in Nat : l = Len(items[k].payload)
    <3>1. items[k] \in AnyItem
      BY <1>1, ElementOfSeq
    <3>2. items[k].payload \in Seq(Unit)
      BY <3>1 DEF AnyItem
    <3>3. Len(items[k].payload) \in Nat
      BY <3>2
    <3> QED BY <3>3
  <2>2. PICK p \in Int : p = at[k]
    <3>1. k \in 1 .. Len(items) + 1
      BY <1>1
    <3> QED BY <3>1 DEF Holds
  <2>3. p >= 3 /\ at[k + 1] = p + l + 3 /\ at[k + 1] <= N + 1
    BY <1>1, <1>2, <2>1, <2>2 DEF Holds
  <2>4. p \in 1 .. N + 1
    <3>1. p + l + 3 <= N + 1
      BY <2>3
    <3> QED BY <2>3, <3>1
  <2> QED BY <2>2, <2>4
<1>6. given(L + 1)
  <2> TAKE n \in 0 .. MaxEnvelopeItems
  <2>1. N + 1 \in 1 .. N + 1 /\ N + 1 > N
    OBVIOUS
  <2>2. from[N + 1][n] = Parsed(<<>>, 0)
    BY <1>2, <1>3, <2>1 DEF ItemAt
  <2>3. PICK r : r = from[N + 1][n]
    OBVIOUS
  <2>4. r = [verdict |-> "ok", items |-> <<>>, skipped |-> 0]
    BY <2>2, <2>3 DEF Parsed
  <2>5. r \in Result /\ r.verdict = "ok" /\ r.items = <<>> /\ r.skipped = 0
    <3>1. "ok" \in Verdicts /\ 0 \in Nat
      BY DEF Verdicts
    <3>2. <<>> \in Taken
      BY DEF Taken
    <3> QED BY <2>4, <3>1, <3>2, ResultIs
  <2>6. KnownFrom(items, L + 1) = {}
    <3>1. \A i \in Known(items) : i \in 1 .. L
      BY <1>1 DEF Known
    <3>2. \A i \in 1 .. L : ~(i >= L + 1)
      OBVIOUS
    <3> QED BY <3>1, <3>2 DEF KnownFrom
  <2>7. NumberOf(items, L + 1) = 0
    BY <2>6, FS_EmptySet DEF NumberOf
  <2>8. FitsFrom(items, L + 1, n)
    <3>1. L + 1 .. L = {}
      OBVIOUS
    <3> QED BY <1>1, <3>1 DEF FitsFrom
  <2>9. Len(r.items) = 0 /\ Len(items) + 1 - (L + 1) - 0 = 0
    BY <1>1, <2>5
  <2>10. Expected(items, L + 1, n, r)
    BY <2>5, <2>6, <2>7, <2>8, <2>9 DEF Expected
  <2> QED BY <1>4, <2>3, <2>10
<1>7. ASSUME NEW k \in 1 .. Len(items), given(k + 1) PROVE given(k)
  <2> TAKE n \in 0 .. MaxEnvelopeItems
  <2>1. k \in 1 .. Len(items)
    OBVIOUS
  <2>2. n < MaxEnvelopeItems => Expected(items, k + 1, n + 1, from[at[k + 1]][n + 1])
    <3>1. n < MaxEnvelopeItems => n + 1 \in 0 .. MaxEnvelopeItems
      BY EnvelopeAssumption
    <3> QED BY <1>7, <3>1
  <2>3. Expected(items, k + 1, n, from[at[k + 1]][n])
    BY <1>7
  <2>4. Expected(items, k, n, ItemAt(body, end, from, at[k], n))
    <3>1. PICK rest : rest = from
      OBVIOUS
    <3> QED BY <2>1, <2>2, <2>3, <3>1, TurnsAreExpected
  <2>5. at[k] \in 1 .. N + 1
    BY <1>1, <1>5
  <2> QED BY <1>3, <2>4, <2>5
<1> HIDE DEF given
<1>8. \A k \in 1 .. L + 1 : given(k)
  <2> SUFFICES ASSUME NEW k0 \in 1 .. L + 1, ~given(k0) PROVE FALSE
    OBVIOUS
  <2> DEFINE T == {k \in 1 .. L + 1 : ~given(k)}
  <2>1. T # {} /\ T \in SUBSET (1 .. L + 1) /\ L + 1 \in Nat
    OBVIOUS
  <2>2. PICK m \in T : \A k \in T : k <= m
    BY <2>1, GreatestBelow
  <2>3. m # L + 1
    BY <1>6, <2>2
  <2>4. m \in 1 .. L /\ m + 1 \in 1 .. L + 1 /\ ~(m + 1 <= m)
    BY <2>3
  <2>5. given(m + 1)
    BY <2>2, <2>4
  <2> QED BY <1>1, <1>7, <2>2, <2>4, <2>5
<1> QED BY <1>1, <1>8 DEF given, from

\* RoundTrip of all items, whatever their payloads and of all limits: what
\* transport.ts:166-197 encodes, parse.go:45-100 gives back.
THEOREM EncodedItemsArrive ==
  ASSUME NEW items \in Seq(AnyItem)
  PROVE  RoundTrip(items)
<1>1. PICK body : body = Encode(items)
  OBVIOUS
<1>2. body \in Seq(Unit)
  BY <1>1, EncodingHolds
<1>3. PICK at : Holds(body, items, at)
  BY <1>1, EncodingHolds
<1>4. PICK r : r = Parse(body, "eof")
  OBVIOUS
<1>5. PICK L \in Nat : L = Len(items)
  OBVIOUS
<1>6. Expected(items, 1, 0, r)
  <2>1. Len(body) >= 2 /\ body[1] = Object("none", 0) /\ body[2] = NewLine /\ at[1] = 3
    BY <1>3 DEF Holds
  <2>2. PICK N \in Nat : N = Len(body) /\ N >= 2
    BY <1>2, <2>1
  <2>3. ParseHeaderLine(body, 1).verdict = "ok" /\ AfterLine(body, 1) = 3
    <3>1. 1 \in Int /\ 1 <= 1 /\ 1 + 1 <= Len(body) /\ body[1 + 1] = NewLine
      BY <2>1, <2>2
    <3>2. ParseHeaderLine(body, 1).verdict = "ok" /\ AfterLine(body, 1) = 1 + 2
      BY <1>2, <2>1, <3>1, HeaderOfOne
    <3> QED BY <3>2
  <2>4. body # <<>>
    BY <2>2
  <2>5. PICK end : end = "eof"
    OBVIOUS
  <2>6. r = ItemsFrom(body, end)[at[1]][0]
    BY <1>4, <2>1, <2>3, <2>4, <2>5 DEF Parse
  <2>7. 1 \in 1 .. Len(items) + 1 /\ 0 \in 0 .. MaxEnvelopeItems
    BY <1>5, EnvelopeAssumption
  <2>8. AtEnd(end, TRUE) = Parsed(<<>>, 0)
    BY <2>5 DEF AtEnd
  <2>9. Expected(items, 1, 0, ItemsFrom(body, end)[at[1]][0])
    BY <1>2, <1>3, <2>7, <2>8, EncodingsGiveItems
  <2> QED BY <2>6, <2>9
<1>7. DOMAIN items = 1 .. L /\ Known(items) \subseteq 1 .. L
  BY <1>5 DEF Known
<1>8. KnownFrom(items, 1) = Known(items)
  <2>1. \A i \in 1 .. L : i >= 1
    OBVIOUS
  <2> QED BY <1>7, <2>1 DEF KnownFrom
<1>9. \A i \in 1 .. L :
        /\ Gap(items, 1, i) = Before(items, i)
        /\ 0 + Gap(items, 1, i) = Before(items, i)
  <2> TAKE i \in 1 .. L
  <2>1. Between(items, 1, i) = {j \in Known(items) : j < i}
    <3>1. \A j \in 1 .. L : 1 <= j
      OBVIOUS
    <3> QED BY <1>7, <3>1 DEF Between
  <2>2. Gap(items, 1, i) = Before(items, i)
    BY <2>1 DEF Gap, Before
  <2>3. Gap(items, 1, i) \in Nat
    <3>1. i \in Nat /\ 1 \in 1 .. Len(items) + 1
      BY <1>5
    <3> QED BY <3>1, KnownCount
  <2> QED BY <2>2, <2>3
<1>10. Fits(items) <=> FitsFrom(items, 1, 0)
  BY <1>5, <1>7, <1>9 DEF Fits, FitsFrom
<1>11. CASE ~Fits(items)
  <2>1. r = TooLarge
    BY <1>6, <1>10, <1>11 DEF Expected
  <2> QED BY <1>1, <1>4, <1>11, <2>1 DEF RoundTrip
<1>12. CASE Fits(items)
  <2>1. /\ r.verdict = "ok" /\ Len(r.items) = NumberOf(items, 1)
        /\ r.skipped = L + 1 - 1 - NumberOf(items, 1)
        /\ \A i \in Known(items) : r.items[Gap(items, 1, i) + 1] = items[i]
    BY <1>5, <1>6, <1>8, <1>10, <1>12 DEF Expected
  <2>2. NumberOf(items, 1) = Cardinality(Known(items))
    BY <1>8 DEF NumberOf
  <2>3. r.skipped = L - NumberOf(items, 1)
    <3>1. NumberOf(items, 1) \in Nat
      <4>1. 1 \in 1 .. Len(items) + 1
        BY <1>5
      <4> QED BY <4>1, KnownCount
    <3> QED BY <2>1, <3>1
  <2>4. \A i \in Known(items) : r.items[Before(items, i) + 1] = items[i]
    BY <1>7, <1>9, <2>1
  <2> QED BY <1>1, <1>4, <1>5, <1>12, <2>1, <2>2, <2>3, <2>4 DEF RoundTrip
<1> QED BY <1>11, <1>12

\* The SDK's envelopes arrive (parse.go:76-82), and nothing that was cut off is taken for
\* the whole of one (parse.go:158-181), whatever items were sent.
THEOREM EnvelopesArrive == CallTypes => EnvelopesArriveWhole
<1> SUFFICES ASSUME CallTypes, part = "envelopes"
             PROVE  /\ RoundTrip(call)
                    /\ \A n \in 0 .. Len(Encode(call)), end \in {"cut", "cap", "eof"} :
                         AcceptedIsWhole(SubSeq(Encode(call), 1, n), end)
  BY DEF EnvelopesArriveWhole
<1>1. call \in Seq(AnyItem)
  BY DEF CallTypes
<1>2. RoundTrip(call)
  BY <1>1, EncodedItemsArrive
<1>3. ASSUME NEW n \in 0 .. Len(Encode(call)), NEW end
      PROVE  AcceptedIsWhole(SubSeq(Encode(call), 1, n), end)
  <2>1. Encode(call) \in Seq(Unit)
    BY <1>1, EncodingHolds
  <2>2. SubSeq(Encode(call), 1, n) \in Seq(Unit)
    <3> DEFINE s == Encode(call)
    <3>1. \A i \in 1 .. n : s[i] \in Unit
      BY <2>1
    <3> HIDE DEF s
    <3> QED BY <2>1, <3>1, SubSeqProperties DEF s
  <2> QED BY <2>2, AcceptedBodiesAreWhole
<1> QED BY <1>2, <1>3

\* What the parser takes from a body that a client sends is a sequence.
LEMMA BodiesGiveItems ==
  ASSUME NEW body \in Bodies
  PROVE  Len(Read(body).items) \in Nat
<1>1. PICK units, end : units = body.units /\ end = body.end
  OBVIOUS
<1>2. units \in Seq(Unit)
  BY <1>1, BodiesAssumption
<1>3. Whole(end, 0, Parse(units, end))
  BY <1>2, ParsesAreWhole
<1>4. Parse(units, end).items \in Taken
  BY <1>3 DEF Whole, Result
<1>5. Len(Parse(units, end).items) \in Nat
  BY <1>4 DEF Taken
<1> QED BY <1>1, <1>5 DEF Read, Readings

----------------------------------------------------------------------------
(***************************************************************************)
(* The invariant of the keys and of what is remembered of them.  A key is  *)
(* minted and revoked once, so a cache that once saw it live is wrong of   *)
(* it only after it has changed for the last time, and the answer a lookup *)
(* still holds is at most MaxLookup old.                                   *)
(***************************************************************************)
KeyRow == [project : Project \cup {NoProject},
           state : {"unminted", "live", "revoked", "deleted"}]
CacheEntry == [held : BOOLEAN, found : BOOLEAN, project : Project \cup {NoProject},
               expires : Nat]
LookupState == [at : {"none", "query", "put", "found", "denied", "down"},
           gateway : Gateway \cup {"none"}, key : Key \cup {NoKey},
           found : BOOLEAN, project : Project \cup {NoProject}, since : Nat]

KeysOK ==
  /\ clock \in Nat
  /\ key \in [Key -> KeyRow]
  /\ \A k \in Key : key[k].state # "unminted" => key[k].project \in Project
  /\ DOMAIN admin = Admin
  /\ \A a \in Admin : admin[a].op = "mint" => admin[a].project \in Project
  /\ changed \in [Key -> Nat]
  /\ \A k \in Key : changed[k] <= clock

\* What was found is, or was, a key of that project.
Genuine(found, p, row) == found => row.state # "unminted" /\ p = row.project

\* Found or not found, and no longer so.
Outdated(found, row) ==
  \/ found /\ row.state # "live"
  \/ ~found /\ row.state = "live"

CachesOK ==
  /\ cache \in [Gateway -> [Key -> CacheEntry]]
  /\ \A g \in Gateway, k \in Key :
       LET entry == cache[g][k] IN
       /\ entry.found => entry.held
       /\ Genuine(entry.found, entry.project, key[k])
       /\ entry.held => entry.expires <= clock + Lifetime(entry.found)
       /\ entry.held /\ Outdated(entry.found, key[k])
            => entry.expires <= changed[k] + MaxLookup + Lifetime(entry.found)

LookupsOK ==
  /\ lookup \in [Caller -> LookupState]
  /\ \A c \in Caller :
       LET l == lookup[c] IN
       /\ l.at \in {"query", "put"} => l.gateway \in Gateway /\ l.key \in Key
       /\ l.at = "found" => l.project \in Project
       /\ l.at = "put" =>
            /\ l.since <= clock /\ clock <= l.since + MaxLookup
            /\ Genuine(l.found, l.project, key[l.key])
            /\ Outdated(l.found, key[l.key]) => l.since <= changed[l.key]

CacheInv == KeysOK /\ CachesOK /\ LookupsOK

LEMMA LifetimesAreNat == TTL \in Nat /\ NegativeTTL \in Nat /\ MaxLookup \in Nat
                         /\ \A found \in BOOLEAN : Lifetime(found) \in Nat
BY IngestKeysAssumption DEF Lifetime

LEMMA CacheInvSuffices == CacheInv => StaleEntriesDie
<1> SUFFICES ASSUME CacheInv, NEW g \in Gateway, NEW k \in Key
             PROVE  LET entry == cache[g][k]  live == key[k].state = "live"  IN
    /\ entry.found /\ ~live => entry.expires <= changed[k] + MaxLookup + TTL
    /\ entry.held /\ ~entry.found /\ live
         => entry.expires <= changed[k] + MaxLookup + NegativeTTL
    /\ entry.found /\ live => entry.project = key[k].project
  BY DEF StaleEntriesDie
<1>1. cache[g][k].found \in BOOLEAN /\ cache[g][k].held \in BOOLEAN
  BY DEF CacheInv, CachesOK, CacheEntry
<1> QED BY <1>1 DEF CacheInv, CachesOK, Genuine, Outdated, Lifetime

LEMMA InitCacheInv == GatewayInit => CacheInv
<1> SUFFICES ASSUME GatewayInit PROVE CacheInv
  OBVIOUS
<1>1. clock = 0 /\ FirstProject \in Project
  BY GatewayAssumption DEF GatewayInit, LimiterInit
<1>2. KeysOK
  BY <1>1 DEF GatewayInit, IngestKeysInit, KeysOK, KeyRow, Idle
<1>3. CachesOK
  BY DEF GatewayInit, IngestKeysInit, CachesOK, CacheEntry, NoEntry, Genuine, Outdated
<1>4. LookupsOK
  BY DEF GatewayInit, IngestKeysInit, LookupsOK, LookupState, NoLookup
<1> QED BY <1>2, <1>3, <1>4 DEF CacheInv

----------------------------------------------------------------------------
(***************************************************************************)
(* The steps of a lookup.                                                  *)
(***************************************************************************)
LEMMA StartLookupKeepsCacheInv ==
  ASSUME CacheInv, NEW c \in Caller, NEW g \in Gateway, NEW k \in Key,
         StartLookup(c, g, k), UNCHANGED <<clock, projectVars>>
  PROVE  CacheInv'
<1>1. KeysOK' /\ CachesOK'
  BY DEF CacheInv, KeysOK, CachesOK, Genuine, Outdated, StartLookup, projectVars
<1>2. /\ lookup'[c] \in LookupState /\ lookup'[c].at \in {"query", "found", "denied"}
      /\ lookup'[c].gateway = g /\ lookup'[c].key = k
      /\ lookup'[c].at = "found" => lookup'[c].project \in Project
  <2> DEFINE entry == cache[g][k]
  <2>1. entry \in CacheEntry /\ (entry.found => entry.project \in Project)
    BY DEF CacheInv, KeysOK, CachesOK, Genuine
  <2> HIDE DEF entry
  <2>2. PICK at \in {"query", "found", "denied"}, p \in Project \cup {NoProject} :
          /\ lookup'[c] = [at |-> at, gateway |-> g, key |-> k,
                            found |-> FALSE, project |-> p, since |-> 0]
          /\ at = "found" => p \in Project
    <3>1. lookup'[c] = IF ~Fresh(entry)
                     THEN [[NoLookup EXCEPT !.gateway = g, !.key = k] EXCEPT !.at = "query"]
                     ELSE IF entry.found
                     THEN [[NoLookup EXCEPT !.gateway = g, !.key = k]
                             EXCEPT !.at = "found", !.project = entry.project]
                     ELSE [[NoLookup EXCEPT !.gateway = g, !.key = k] EXCEPT !.at = "denied"]
      BY DEF CacheInv, LookupsOK, StartLookup, entry
    <3>2. CASE ~Fresh(entry)
      BY <3>1, <3>2 DEF NoLookup
    <3>3. CASE Fresh(entry) /\ entry.found
      BY <2>1, <3>1, <3>3 DEF NoLookup
    <3>4. CASE Fresh(entry) /\ ~entry.found
      BY <3>1, <3>4 DEF NoLookup
    <3> QED BY <3>2, <3>3, <3>4
  <2> QED BY <2>2 DEF LookupState
<1>3. \A d \in Caller : d # c => lookup'[d] = lookup[d]
  BY DEF CacheInv, LookupsOK, StartLookup
<1>4. lookup' \in [Caller -> LookupState]
  BY <1>2 DEF CacheInv, LookupsOK, StartLookup
<1>5. LookupsOK'
  BY <1>2, <1>3, <1>4
  DEF CacheInv, LookupsOK, Genuine, Outdated, StartLookup, projectVars
<1> QED BY <1>1, <1>5 DEF CacheInv

LEMMA ProjectByIngestKeyKeepsCacheInv ==
  ASSUME CacheInv, NEW c \in Caller, ProjectByIngestKey(c), UNCHANGED <<clock, projectVars>>
  PROVE  CacheInv'
<1> DEFINE k == lookup[c].key
           live == key[k].state = "live"
<1>1. KeysOK' /\ CachesOK'
  BY DEF CacheInv, KeysOK, CachesOK, Genuine, Outdated, ProjectByIngestKey, projectVars
<1>2. lookup[c] \in LookupState /\ k \in Key /\ lookup[c].gateway \in Gateway
  BY DEF CacheInv, LookupsOK, ProjectByIngestKey
<1>3. clock \in Nat /\ key[k] \in KeyRow /\ (live => key[k].project \in Project)
  BY <1>2 DEF CacheInv, KeysOK
<1>4. lookup' = [lookup EXCEPT ![c] = [lookup[c] EXCEPT
                   !.at = "put", !.found = live, !.since = clock,
                   !.project = IF live THEN key[k].project ELSE NoProject]]
  BY <1>2 DEF CacheInv, LookupsOK, ProjectByIngestKey
<1>5. /\ lookup'[c] \in LookupState /\ lookup'[c].at = "put"
      /\ lookup'[c].gateway = lookup[c].gateway /\ lookup'[c].key = k
      /\ lookup'[c].found = live /\ lookup'[c].since = clock
      /\ live => lookup'[c].project = key[k].project
  BY <1>2, <1>3, <1>4 DEF CacheInv, LookupsOK, LookupState, KeyRow
<1>6. \A d \in Caller : d # c => lookup'[d] = lookup[d]
  BY <1>4 DEF CacheInv, LookupsOK
<1>7. lookup' \in [Caller -> LookupState]
  BY <1>4, <1>5 DEF CacheInv, LookupsOK
<1>8. MaxLookup \in Nat /\ ~Outdated(live, key[k]) /\ Genuine(live, key[k].project, key[k])
  BY LifetimesAreNat DEF Outdated, Genuine
<1> HIDE DEF live, k
<1>9. LookupsOK'
  <2>1. key' = key /\ clock' = clock /\ changed' = changed
    BY DEF ProjectByIngestKey, projectVars
  <2> SUFFICES ASSUME NEW d \in Caller
               PROVE  /\ lookup'[d].at \in {"query", "put"}
                           => lookup'[d].gateway \in Gateway /\ lookup'[d].key \in Key
                      /\ lookup'[d].at = "found" => lookup'[d].project \in Project
                      /\ lookup'[d].at = "put" =>
                           /\ lookup'[d].since <= clock
                           /\ clock <= lookup'[d].since + MaxLookup
                           /\ Genuine(lookup'[d].found, lookup'[d].project, key[lookup'[d].key])
                           /\ Outdated(lookup'[d].found, key[lookup'[d].key])
                                => lookup'[d].since <= changed[lookup'[d].key]
    BY <1>7, <2>1 DEF LookupsOK, Genuine, Outdated
  <2>2. CASE d # c
    BY <1>6, <2>2 DEF CacheInv, LookupsOK
  <2>3. CASE d = c
    BY <1>2, <1>3, <1>5, <1>8, <2>3 DEF Genuine
  <2> QED BY <2>2, <2>3
<1> QED BY <1>1, <1>9 DEF CacheInv

LEMMA LookupFailsKeepsCacheInv ==
  ASSUME CacheInv, NEW c \in Caller, LookupFails(c), UNCHANGED <<clock, projectVars>>
  PROVE  CacheInv'
<1>1. KeysOK' /\ CachesOK'
  BY DEF CacheInv, KeysOK, CachesOK, Genuine, Outdated, LookupFails, projectVars
<1>2. lookup'[c] \in LookupState /\ lookup'[c].at = "down"
  BY DEF CacheInv, LookupsOK, LookupFails, LookupState
<1>3. \A d \in Caller : d # c => lookup'[d] = lookup[d]
  BY DEF CacheInv, LookupsOK, LookupFails
<1>4. lookup' \in [Caller -> LookupState]
  BY <1>2 DEF CacheInv, LookupsOK, LookupFails
<1>5. LookupsOK'
  BY <1>2, <1>3, <1>4
  DEF CacheInv, LookupsOK, Genuine, Outdated, LookupFails, projectVars
<1> QED BY <1>1, <1>5 DEF CacheInv

\* The entry is at most MaxLookup younger than the database's answer.
LEMMA PutKeepsCacheInv ==
  ASSUME CacheInv, NEW c \in Caller, Put(c), UNCHANGED <<clock, projectVars>>
  PROVE  CacheInv'
<1> DEFINE l == lookup[c]
           new == Entry(l.found, l.project, clock + Lifetime(l.found))
<1>1. KeysOK'
  BY DEF CacheInv, KeysOK, Put, projectVars
<1>2. /\ l \in LookupState /\ l.gateway \in Gateway /\ l.key \in Key
      /\ l.since <= clock /\ clock <= l.since + MaxLookup
      /\ Genuine(l.found, l.project, key[l.key])
      /\ Outdated(l.found, key[l.key]) => l.since <= changed[l.key]
  BY DEF CacheInv, LookupsOK, Put
<1>3. /\ l.found \in BOOLEAN /\ l.since \in Nat /\ clock \in Nat /\ changed[l.key] \in Nat
      /\ l.found => l.project \in Project
  BY <1>2 DEF CacheInv, KeysOK, LookupState, Genuine
<1>4. /\ Lifetime(l.found) \in Nat /\ MaxLookup \in Nat
  BY <1>3, LifetimesAreNat
<1>5. /\ new \in CacheEntry /\ new.found = l.found /\ new.project = l.project
      /\ new.expires = clock + Lifetime(l.found)
      /\ Outdated(new.found, key[l.key])
           => new.expires <= changed[l.key] + MaxLookup + Lifetime(new.found)
      /\ new.held
  <2>1. new = [held |-> TRUE, found |-> l.found, project |-> l.project,
               expires |-> clock + Lifetime(l.found)]
    BY DEF Entry
  <2> HIDE DEF new
  <2>2. new.found = l.found /\ new.project = l.project
        /\ new.expires = clock + Lifetime(l.found) /\ new.held
    BY <2>1
  <2>3. clock + Lifetime(l.found) \in Nat /\ l.project \in Project \cup {NoProject}
    BY <1>2, <1>3, <1>4 DEF LookupState
  <2>4. new \in CacheEntry
    BY <1>3, <2>1, <2>3 DEF CacheEntry
  <2> QED BY <1>2, <1>3, <1>4, <2>2, <2>4
<1>6. /\ cache' \in [Gateway -> [Key -> CacheEntry]]
      /\ cache'[l.gateway][l.key] = new
      /\ \A g \in Gateway, k \in Key :
           ~(g = l.gateway /\ k = l.key) => cache'[g][k] = cache[g][k]
  BY <1>2, <1>5 DEF CacheInv, CachesOK, Put
<1> HIDE DEF new
<1>7. CachesOK'
  <2> SUFFICES ASSUME NEW g \in Gateway, NEW k \in Key
               PROVE  /\ cache'[g][k].found => cache'[g][k].held
                      /\ Genuine(cache'[g][k].found, cache'[g][k].project, key[k])
                      /\ cache'[g][k].held =>
                           cache'[g][k].expires <= clock + Lifetime(cache'[g][k].found)
                      /\ cache'[g][k].held /\ Outdated(cache'[g][k].found, key[k]) =>
                           cache'[g][k].expires
                             <= changed[k] + MaxLookup + Lifetime(cache'[g][k].found)
    BY <1>6 DEF CachesOK, Genuine, Outdated, Lifetime, Put, projectVars
  <2>1. CASE g = l.gateway /\ k = l.key
    <3>1. cache'[g][k] = new /\ new.expires <= clock + Lifetime(new.found)
      BY <1>3, <1>4, <1>5, <1>6, <2>1
    <3> QED BY <1>2, <1>5, <2>1, <3>1
  <2>2. CASE ~(g = l.gateway /\ k = l.key)
    BY <1>6, <2>2 DEF CacheInv, CachesOK
  <2> QED BY <2>1, <2>2
<1>8. /\ lookup'[c] \in LookupState /\ lookup'[c].at \in {"found", "denied"}
      /\ lookup'[c].at = "found" => lookup'[c].project \in Project
  <2>1. lookup'[c] = [l EXCEPT !.at = IF l.found THEN "found" ELSE "denied",
                               !.project = l.project]
    BY <1>2 DEF CacheInv, LookupsOK, Put, Answered
  <2> QED BY <1>2, <1>3, <2>1 DEF LookupState
<1>9. \A d \in Caller : d # c => lookup'[d] = lookup[d]
  BY DEF CacheInv, LookupsOK, Put, Answered
<1>10. lookup' \in [Caller -> LookupState]
  BY <1>8 DEF CacheInv, LookupsOK, Put, Answered
<1>11. LookupsOK'
  BY <1>8, <1>9, <1>10
  DEF CacheInv, LookupsOK, Genuine, Outdated, Put, projectVars
<1> QED BY <1>1, <1>7, <1>11 DEF CacheInv

\* Lookups that are over, and a gateway that starts anew.
LEMMA ForgettingKeepsCacheInv ==
  ASSUME CacheInv, UNCHANGED <<clock, projectVars, changed>>,
         DOMAIN lookup' = Caller, lookup' = [d \in Caller |-> lookup'[d]],
         \A d \in Caller : lookup'[d] \in {lookup[d], NoLookup},
         cache' = cache \/ \E g \in Gateway : EmptyCache(g)
  PROVE  CacheInv'
<1>1. KeysOK'
  BY DEF CacheInv, KeysOK, projectVars
<1>2. key' = key /\ clock' = clock /\ changed' = changed
  BY DEF projectVars
<1>3. NoLookup \in LookupState /\ NoLookup.at = "none" /\ NoEntry \in CacheEntry
      /\ ~NoEntry.held /\ ~NoEntry.found
  BY DEF NoLookup, LookupState, NoEntry, CacheEntry
<1>4. LookupsOK'
  <2>1. lookup' \in [Caller -> LookupState]
    BY <1>3 DEF CacheInv, LookupsOK
  <2>2. \A d \in Caller : lookup'[d] = lookup[d] \/ lookup'[d].at = "none"
    BY <1>3
  <2> QED BY <1>2, <2>1, <2>2 DEF CacheInv, LookupsOK, Genuine, Outdated
<1>5. CachesOK'
  <2>1. CASE cache' = cache
    BY <1>2, <2>1 DEF CacheInv, CachesOK, Genuine, Outdated, Lifetime
  <2>2. CASE \E g \in Gateway : EmptyCache(g)
    <3>1. cache' \in [Gateway -> [Key -> CacheEntry]]
      BY <1>3, <2>2 DEF CacheInv, CachesOK, EmptyCache
    <3>2. \A g \in Gateway, k \in Key : cache'[g][k] = cache[g][k] \/ cache'[g][k] = NoEntry
      BY <2>2 DEF CacheInv, CachesOK, EmptyCache
    <3> SUFFICES ASSUME NEW g \in Gateway, NEW k \in Key
                 PROVE  /\ cache'[g][k].found => cache'[g][k].held
                        /\ Genuine(cache'[g][k].found, cache'[g][k].project, key[k])
                        /\ cache'[g][k].held =>
                             cache'[g][k].expires <= clock + Lifetime(cache'[g][k].found)
                        /\ cache'[g][k].held /\ Outdated(cache'[g][k].found, key[k]) =>
                             cache'[g][k].expires
                               <= changed[k] + MaxLookup + Lifetime(cache'[g][k].found)
      BY <1>2, <3>1 DEF CachesOK, Genuine, Outdated, Lifetime
    <3>3. CASE cache'[g][k] = cache[g][k]
      BY <3>3 DEF CacheInv, CachesOK
    <3>4. CASE cache'[g][k] = NoEntry
      BY <1>3, <3>4 DEF Genuine
    <3> QED BY <3>2, <3>3, <3>4
  <2> QED BY <2>1, <2>2
<1> QED BY <1>1, <1>4, <1>5 DEF CacheInv

----------------------------------------------------------------------------
(***************************************************************************)
(* Keys that change, and time.                                             *)
(***************************************************************************)
MintedTo(k, p) == key[k].state = "unminted" /\ key'[k] = [project |-> p, state |-> "live"]
RevokedNow(k) ==
  key[k].state = "live" /\ key'[k] = [project |-> key[k].project, state |-> "revoked"]

\* What the handlers do to a key.
LEMMA KeysChangeOnce ==
  ASSUME KeysOK, KeysNext, NEW k \in Key
  PROVE  key'[k] = key[k] \/ (\E p \in Project : MintedTo(k, p)) \/ RevokedNow(k)
<1>1. key[k] \in KeyRow
  BY DEF KeysOK
<1>2. ASSUME NEW a \in Admin, NEW m \in Key, MintFirstKey(a, m)
      PROVE  key'[k] = key[k] \/ \E p \in Project : MintedTo(k, p)
  BY <1>2 DEF KeysOK, MintFirstKey, Mint, MintedTo
<1>3. ASSUME NEW p \in Project, NEW m \in Key, CreateKey(p, m)
      PROVE  key'[k] = key[k] \/ \E q \in Project : MintedTo(k, q)
  BY <1>3 DEF KeysOK, CreateKey, Mint, MintedTo
<1>4. ASSUME NEW a \in Admin, Revoke(a)
      PROVE  key'[k] = key[k] \/ RevokedNow(k)
  <2>1. CASE admin[a].key \in LiveKeys(admin[a].project) /\ admin[a].key = k
    <3>1. key[k].state = "live" /\ key'[k] = [key[k] EXCEPT !.state = "revoked"]
      BY <1>4, <2>1 DEF KeysOK, Revoke, LiveKeys
    <3> QED BY <1>1, <3>1 DEF RevokedNow, KeyRow
  <2>2. CASE ~(admin[a].key \in LiveKeys(admin[a].project) /\ admin[a].key = k)
    BY <1>4, <2>2 DEF KeysOK, Revoke
  <2> QED BY <2>1, <2>2
<1>5. ASSUME \/ \E a \in Admin, p \in Project : CreateProject(a, p)
             \/ \E a \in Admin : MintFails(a)
             \/ \E a \in Admin, p \in Project, m \in Key : CountKeys(a, p, m)
      PROVE  key'[k] = key[k]
  BY <1>5 DEF CreateProject, MintFails, CountKeys
<1> QED BY <1>2, <1>3, <1>4, <1>5 DEF KeysNext

\* A slot that is about to mint knows a project.
LEMMA HandlersKnowProjects ==
  ASSUME KeysOK, KeysNext
  PROVE  /\ DOMAIN admin' = Admin
         /\ \A a \in Admin : admin'[a].op = "mint" => admin'[a].project \in Project
<1>1. ASSUME NEW a \in Admin, NEW p \in Project, CreateProject(a, p)
      PROVE  /\ DOMAIN admin' = Admin
             /\ \A b \in Admin : admin'[b].op = "mint" => admin'[b].project \in Project
  BY <1>1 DEF KeysOK, CreateProject, Busy
<1>2. ASSUME NEW a \in Admin, NEW p \in Project, NEW k \in Key, CountKeys(a, p, k)
      PROVE  /\ DOMAIN admin' = Admin
             /\ \A b \in Admin : admin'[b].op = "mint" => admin'[b].project \in Project
  BY <1>2 DEF KeysOK, CountKeys, Busy
<1>3. ASSUME \/ \E a \in Admin, k \in Key : MintFirstKey(a, k)
             \/ \E a \in Admin : MintFails(a) \/ Revoke(a)
      PROVE  /\ DOMAIN admin' = Admin
             /\ \A b \in Admin : admin'[b].op = "mint" => admin'[b].project \in Project
  <2>1. PICK a \in Admin : Done(a)
    BY <1>3 DEF MintFirstKey, MintFails, Revoke
  <2> QED BY <2>1 DEF KeysOK, Done, Idle
<1>4. ASSUME \E p \in Project, k \in Key : CreateKey(p, k)
      PROVE  admin' = admin
  BY <1>4 DEF CreateKey
<1> QED BY <1>1, <1>2, <1>3, <1>4 DEF KeysOK, KeysNext

LEMMA ControlPlaneKeepsCacheInv ==
  ASSUME CacheInv, ControlPlane
  PROVE  CacheInv'
<1> USE LifetimesAreNat
<1>1. KeysOK /\ KeysNext /\ clock \in Nat /\ clock' = clock
      /\ cache' = cache /\ lookup' = lookup
  BY DEF CacheInv, KeysOK, ControlPlane
<1>2. \A k \in Key : key'[k] = key[k] \/ (\E p \in Project : MintedTo(k, p)) \/ RevokedNow(k)
  BY <1>1, KeysChangeOnce
<1> DEFINE Same(k) == key'[k] = key[k]
           Minted(k) == /\ key[k].state = "unminted" /\ key'[k].state = "live"
                        /\ key'[k].project \in Project /\ key'[k] \in KeyRow
           Revoked(k) == /\ key[k].state = "live" /\ key'[k].state = "revoked"
                         /\ key'[k].project = key[k].project /\ key'[k] \in KeyRow
<1>2a. ASSUME NEW k \in Key PROVE Same(k) \/ Minted(k) \/ Revoked(k)
  <2>1. CASE Same(k)
    BY <2>1
  <2>2. CASE \E p \in Project : MintedTo(k, p)
    BY <2>2 DEF MintedTo, KeyRow
  <2>3. CASE RevokedNow(k)
    <3>1. key[k] \in KeyRow
      BY <1>1 DEF KeysOK
    <3> QED BY <2>3, <3>1 DEF RevokedNow, KeyRow
  <2> QED BY <1>2, <2>1, <2>2, <2>3
<1>3. /\ changed' \in [Key -> Nat]
      /\ \A k \in Key : changed'[k] = changed[k] \/ changed'[k] = clock
      /\ \A k \in Key : key'[k] # key[k] => changed'[k] = clock
      /\ \A k \in Key : key'[k] = key[k] => changed'[k] = changed[k]
  BY <1>1 DEF KeysOK, ControlPlane
<1>4. key' \in [Key -> KeyRow]
  <2>1. \A k \in Key : key'[k] \in KeyRow
    BY <1>1, <1>2a DEF KeysOK
  <2>2. key' = [k \in Key |-> key'[k]]
    <3>1. \A a \in Admin : DOMAIN [key EXCEPT ![admin[a].key].state = "revoked"] = Key
      BY <1>1 DEF KeysOK
    <3>2. KeysNext => key' = [k \in Key |-> key'[k]]
      BY <1>1, <3>1 DEF KeysOK, KeysNext, CreateProject, MintFirstKey, MintFails, Revoke,
                        CreateKey, CountKeys, Mint
    <3> QED BY <1>1, <3>2
  <2> QED BY <2>1, <2>2
<1>5. KeysOK'
  <2>1. \A k \in Key : key'[k].state # "unminted" => key'[k].project \in Project
    BY <1>1, <1>2a DEF KeysOK
  <2>2. \A k \in Key : changed'[k] <= clock
    BY <1>1, <1>3 DEF KeysOK
  <2> QED BY <1>1, <1>3, <1>4, <2>1, <2>2, HandlersKnowProjects DEF KeysOK
<1>6. ASSUME NEW k \in Key, NEW found \in BOOLEAN, NEW p, Genuine(found, p, key[k])
      PROVE  /\ Genuine(found, p, key'[k])
             /\ Outdated(found, key'[k]) => Outdated(found, key[k]) \/ changed'[k] = clock
             /\ Outdated(found, key[k]) => changed'[k] = changed[k] \/ changed'[k] = clock
  <2>1. CASE Same(k)
    BY <1>3, <1>6, <2>1
  <2>2. CASE Minted(k)
    BY <1>3, <1>6, <2>2 DEF Genuine, Outdated
  <2>3. CASE Revoked(k)
    BY <1>3, <1>6, <2>3 DEF Genuine, Outdated
  <2> QED BY <1>2a, <2>1, <2>2, <2>3
<1>7. CachesOK'
  <2> SUFFICES ASSUME NEW g \in Gateway, NEW k \in Key
               PROVE  /\ cache[g][k].found => cache[g][k].held
                      /\ Genuine(cache[g][k].found, cache[g][k].project, key'[k])
                      /\ cache[g][k].held =>
                           cache[g][k].expires <= clock + Lifetime(cache[g][k].found)
                      /\ cache[g][k].held /\ Outdated(cache[g][k].found, key'[k]) =>
                           cache[g][k].expires
                             <= changed'[k] + MaxLookup + Lifetime(cache[g][k].found)
    BY <1>1 DEF CacheInv, CachesOK, Genuine, Outdated, Lifetime
  <2> DEFINE entry == cache[g][k]
  <2>1. /\ entry.held \in BOOLEAN /\ entry.found \in BOOLEAN /\ entry.expires \in Nat
        /\ entry.found => entry.held
        /\ Genuine(entry.found, entry.project, key[k])
        /\ entry.held => entry.expires <= clock + Lifetime(entry.found)
        /\ entry.held /\ Outdated(entry.found, key[k])
             => entry.expires <= changed[k] + MaxLookup + Lifetime(entry.found)
    BY DEF CacheInv, CachesOK, CacheEntry
  <2>2. /\ Genuine(entry.found, entry.project, key'[k])
        /\ Outdated(entry.found, key'[k]) => Outdated(entry.found, key[k]) \/ changed'[k] = clock
        /\ Outdated(entry.found, key[k]) => changed'[k] = changed[k] \/ changed'[k] = clock
    BY <1>6, <2>1
  <2>3. changed[k] \in Nat /\ changed'[k] \in Nat /\ Lifetime(entry.found) \in Nat
    BY <1>1, <1>3, <2>1 DEF KeysOK
  <2>4. cache'[g][k] = entry
    BY <1>1
  <2> QED BY <1>1, <2>1, <2>2, <2>3, <2>4
<1>8. LookupsOK'
  <2> SUFFICES ASSUME NEW c \in Caller, lookup[c].at = "put"
               PROVE  LET l == lookup[c] IN
                      /\ Genuine(l.found, l.project, key'[l.key])
                      /\ Outdated(l.found, key'[l.key]) => l.since <= changed'[l.key]
    BY <1>1 DEF CacheInv, LookupsOK
  <2> DEFINE l == lookup[c]
  <2>1. /\ l.found \in BOOLEAN /\ l.since \in Nat /\ l.key \in Key /\ l.since <= clock
        /\ Genuine(l.found, l.project, key[l.key])
        /\ Outdated(l.found, key[l.key]) => l.since <= changed[l.key]
    BY DEF CacheInv, LookupsOK, LookupState
  <2> HIDE DEF l
  <2>2. /\ Genuine(l.found, l.project, key'[l.key])
        /\ Outdated(l.found, key'[l.key]) => Outdated(l.found, key[l.key]) \/ changed'[l.key] = clock
        /\ Outdated(l.found, key[l.key]) => changed'[l.key] = changed[l.key] \/ changed'[l.key] = clock
    BY <1>6, <2>1
  <2>3. /\ Genuine(l.found, l.project, key'[l.key])
        /\ Outdated(l.found, key'[l.key]) => l.since <= changed'[l.key]
    BY <1>1, <2>1, <2>2
  <2> QED BY <2>3 DEF l
<1> QED BY <1>5, <1>7, <1>8 DEF CacheInv

LEMMA TimeKeepsCacheInv ==
  ASSUME CacheInv, GatewayTick
  PROVE  CacheInv'
<1>1. /\ clock \in Nat /\ clock' = clock + 1
      /\ key' = key /\ admin' = admin /\ changed' = changed
      /\ cache' = cache /\ lookup' = lookup
      /\ MaxLookup \in Nat
  BY LifetimesAreNat
  DEF CacheInv, KeysOK, GatewayTick, Tick, TimePasses, projectVars, cacheVars
<1>2. KeysOK'
  BY <1>1 DEF CacheInv, KeysOK
<1>3. CachesOK'
  <2>1. \A g \in Gateway, k \in Key :
          /\ cache[g][k].expires \in Nat
          /\ Lifetime(cache[g][k].found) \in Nat
    BY LifetimesAreNat DEF CacheInv, CachesOK, CacheEntry
  <2>2. \A g \in Gateway, k \in Key : cache[g][k].held =>
          cache[g][k].expires <= clock + 1 + Lifetime(cache[g][k].found)
    BY <1>1, <2>1 DEF CacheInv, CachesOK
  <2> QED BY <1>1, <2>2 DEF CacheInv, CachesOK, Lifetime
<1>4. LookupsOK'
  <2>1. \A c \in Caller : lookup[c].at = "put" =>
          lookup[c].since \in Nat /\ clock < lookup[c].since + MaxLookup
    BY DEF GatewayTick, LookupsInTime, CacheInv, LookupsOK, LookupState
  <2> QED BY <1>1, <2>1 DEF CacheInv, LookupsOK
<1> QED BY <1>2, <1>3, <1>4 DEF CacheInv

----------------------------------------------------------------------------
(***************************************************************************)
(* The gateways' steps.                                                    *)
(***************************************************************************)
\* Steps of a handler that leave the caches as they are, and its lookup as it
\* is or forgotten.
LeavesCaches ==
  /\ UNCHANGED <<clock, projectVars, changed, cache>>
  /\ lookup' = lookup \/ \E c \in Caller : Forget(c)

LEMMA LeavingKeepsCacheInv ==
  ASSUME CacheInv, LeavesCaches PROVE CacheInv'
<1>1. /\ lookup' = [d \in Caller |-> lookup'[d]] /\ DOMAIN lookup' = Caller
      /\ \A d \in Caller : lookup'[d] \in {lookup[d], NoLookup}
  <2>1. CASE lookup' = lookup
    BY <2>1 DEF CacheInv, LookupsOK
  <2>2. CASE \E c \in Caller : Forget(c)
    BY <2>2 DEF CacheInv, LookupsOK, Forget
  <2> QED BY <2>1, <2>2 DEF LeavesCaches
<1>2. UNCHANGED <<clock, projectVars, changed>> /\ cache' = cache
  BY DEF LeavesCaches
<1> QED BY <1>1, <1>2, ForgettingKeepsCacheInv

LEMMA HandlersLeaveCaches ==
  ASSUME NEW c \in Caller,
         \/ Maladdressed(c) \/ TurnAway(c)
         \/ \E body \in Bodies : NothingToDo(c, body) \/ AskLimiter(c, body)
         \/ Limited(c) \/ LimiterDown(c) \/ Publish(c) \/ PublishFails(c)
  PROVE  LeavesCaches
<1>1. CASE Maladdressed(c)
  BY <1>1 DEF Maladdressed, LeavesCaches, cacheVars
<1>2. CASE TurnAway(c)
  BY <1>2 DEF TurnAway, LeavesCaches
<1>3. ASSUME NEW body \in Bodies, NothingToDo(c, body) PROVE LeavesCaches
  BY <1>3 DEF NothingToDo, LeavesCaches
<1>4. ASSUME NEW body \in Bodies, AskLimiter(c, body) PROVE LeavesCaches
  BY <1>4 DEF AskLimiter, ReadClock, LeavesCaches, cacheVars
<1>5. CASE Limited(c)
  BY <1>5 DEF Limited, RunScript, KeepsLookup, LeavesCaches
<1>6. CASE LimiterDown(c)
  BY <1>6 DEF LimiterDown, ScriptFails, KeepsLookup, LeavesCaches
<1>7. CASE Publish(c)
  BY <1>7 DEF Publish, KeepsLookup, LeavesCaches
<1>8. CASE PublishFails(c)
  BY <1>8 DEF PublishFails, KeepsLookup, LeavesCaches
<1> QED BY <1>1, <1>2, <1>3, <1>4, <1>5, <1>6, <1>7, <1>8

LEMMA RestartKeepsCacheInv ==
  ASSUME CacheInv, NEW g \in Gateway, Restart(g) PROVE CacheInv'
<1>1. UNCHANGED <<clock, projectVars, changed>> /\ EmptyCache(g)
  BY DEF Restart, GiveUp
<1>2. /\ lookup' = [d \in Caller |-> lookup'[d]] /\ DOMAIN lookup' = Caller
      /\ \A d \in Caller : lookup'[d] \in {lookup[d], NoLookup}
  BY DEF Restart
<1> QED BY <1>1, <1>2, ForgettingKeepsCacheInv

LEMMA NextKeepsCacheInv == CacheInv /\ [GatewayNext]_gatewayVars => CacheInv'
<1> SUFFICES ASSUME CacheInv, [GatewayNext]_gatewayVars PROVE CacheInv'
  OBVIOUS
<1>1. ASSUME NEW c \in Caller, NEW g \in Gateway, NEW k \in Key, NEW path \in Project,
             Receive(c, g, k, path)
      PROVE  CacheInv'
  BY <1>1, StartLookupKeepsCacheInv DEF Receive
<1>2. ASSUME NEW c \in Caller, Maladdressed(c) PROVE CacheInv'
  BY <1>2, HandlersLeaveCaches, LeavingKeepsCacheInv
<1>3. ASSUME NEW c \in Caller, HandlerStep(c) PROVE CacheInv'
  <2>1. CASE LookUp(c)
    BY <2>1, ProjectByIngestKeyKeepsCacheInv, LookupFailsKeepsCacheInv, PutKeepsCacheInv
    DEF LookUp
  <2>2. CASE ~LookUp(c)
    BY <1>3, <2>2, HandlersLeaveCaches, LeavingKeepsCacheInv DEF HandlerStep
  <2> QED BY <2>1, <2>2
<1>4. ASSUME NEW g \in Gateway, Restart(g) PROVE CacheInv'
  BY <1>4, RestartKeepsCacheInv
<1>5. CASE KeyChange
  BY <1>5, ControlPlaneKeepsCacheInv DEF KeyChange
<1>6. CASE GatewayTick
  BY <1>6, TimeKeepsCacheInv
<1>7. CASE UNCHANGED gatewayVars
  <2>1. LeavesCaches
    BY <1>7 DEF LeavesCaches, gatewayVars, cacheVars
  <2> QED BY <2>1, LeavingKeepsCacheInv
<1> QED BY <1>1, <1>2, <1>3, <1>4, <1>5, <1>6, <1>7 DEF GatewayNext

THEOREM CacheInvariant == GatewaySpec => []CacheInv
BY InitCacheInv, NextKeepsCacheInv, PTL DEF GatewaySpec

\* What a cache remembers of a key, and is no longer so, is gone after its
\* lifetime and the time a lookup takes.
THEOREM GatewaysForget == GatewaySpec => []StaleEntriesDie
BY CacheInvariant, CacheInvSuffices, PTL

----------------------------------------------------------------------------
(***************************************************************************)
(* Arithmetic.                                                             *)
(***************************************************************************)
LEMMA Distributes ==
  ASSUME NEW r \in Int, NEW x \in Int, NEW y \in Int
  PROVE  r * (x + y) = r * x + r * y
  OBVIOUS

LEMMA Monotone ==
  ASSUME NEW r \in Nat, NEW x \in Int, NEW y \in Int, x <= y
  PROVE  r * x <= r * y
<1>1. PICK d \in Nat : y = x + d
  <2>1. y - x \in Nat /\ y = x + (y - x)
    OBVIOUS
  <2> QED BY <2>1
<1>2. r * y = r * x + r * d
  BY <1>1, Distributes
<1>3. r * d >= 0
  OBVIOUS
<1>4. r * x \in Int /\ r * y \in Int /\ r * d \in Int
  OBVIOUS
<1> QED BY <1>2, <1>3, <1>4

\* A ceiling division rounds up.
LEMMA RoundsUp ==
  ASSUME NEW a \in Int, NEW b \in Nat \ {0}
  PROVE  CeilDiv(a, b) \in Int /\ a <= b * CeilDiv(a, b)
<1> DEFINE n == a + b - 1
<1>1. n \in Int
  OBVIOUS
<1>2. n \div b \in Int /\ n % b \in 0 .. (b - 1) /\ n = b * (n \div b) + (n % b)
  BY <1>1
<1>3. b * (n \div b) \in Int
  BY <1>2
<1> QED BY <1>2, <1>3 DEF CeilDiv

LEMMA KeyTTLIsAnInteger == KeyTTL \in Int
<1>1. Rate * Second \in Nat \ {0}
  BY LimiterAssumption
<1>2. 2 * Burst \in Int
  BY LimiterAssumption
<1>3. CeilDiv(2 * Burst, Rate * Second) \in Int
  BY <1>1, <1>2, RoundsUp
<1>4. CeilDiv(2 * Burst, Rate * Second) * Second \in Int
  BY <1>3, LimiterAssumption
<1> QED BY <1>4, LimiterAssumption DEF KeyTTL
----------------------------------------------------------------------------
(***************************************************************************)
(* The invariant.  What makes a forgotten bucket harmless is that a bucket *)
(* lives until it would be full again: at is never before ts, and a        *)
(* reading is at most MaxFlight old.                                       *)
(***************************************************************************)
Bucket == [seen : BOOLEAN, tokens : Nat, ts : Nat, at : Nat]
Stamp  == [project : Tenant, now : Nat, cost : Nat]

TablesOK ==
  /\ clock \in Nat
  /\ bucket \in [Tenant -> Bucket]
  /\ admitted \in [Tenant -> Nat]
  /\ opened \in [Tenant -> Nat]
  /\ setback \in [Tenant -> Nat]
  /\ promise \in [Tenant -> [cost : Nat, due : Nat]]

\* A call under way has a tenant, a cost, and a reading of the recent past.
StampsOK ==
  /\ DOMAIN stamp = Caller
  /\ \A c \in Caller : stamp[c] # NoStamp =>
       /\ stamp[c] \in Stamp
       /\ stamp[c].now <= clock /\ clock <= stamp[c].now + MaxFlight

BucketsOK ==
  \A p \in Tenant :
    /\ ~bucket[p].seen => admitted[p] = 0
    /\ bucket[p].ts <= bucket[p].at

\* By the time that was told, the refill makes up for what was missing.
PromisesOK ==
  \A p \in Tenant : promise[p] # NoPromise =>
    /\ bucket[p].ts <= promise[p].due
    /\ promise[p].cost <= bucket[p].tokens + Rate * (promise[p].due - bucket[p].ts)

LimiterInv == TablesOK /\ StampsOK /\ BucketsOK /\ PromisesOK /\ BudgetHolds

LEMMA InitLimiterInv == LimiterInit => LimiterInv
BY LimiterAssumption
DEF LimiterInit, LimiterInv, TablesOK, StampsOK, BucketsOK, PromisesOK, BudgetHolds,
    Bucket, Stamp, NoPromise

----------------------------------------------------------------------------
(***************************************************************************)
(* The script.                                                             *)
(***************************************************************************)
\* What the script finds for a call: between nothing and a full bucket, and no
\* more than the time since ts has brought; a full one if Redis has dropped it,
\* but then the time since ts was enough for that.
LEMMA RefillIsEarned ==
  ASSUME TablesOK, BucketsOK, NEW p \in Tenant, NEW now \in Nat,
         now <= clock, clock <= now + MaxFlight, bucket[p].seen
  PROVE  /\ Refilled(p, now) \in 0 .. Burst
         /\ Found(p) => Refilled(p, now) <= bucket[p].tokens
                          + Rate * Larger(0, now - bucket[p].ts)
         /\ ~Found(p) => /\ Refilled(p, now) = Burst
                         /\ Burst <= Rate * (now - bucket[p].ts)
<1> DEFINE more == Larger(0, now - bucket[p].ts)
<1>1. /\ bucket[p].tokens \in Nat /\ bucket[p].ts \in Nat /\ bucket[p].at \in Nat
      /\ bucket[p].ts <= bucket[p].at /\ clock \in Nat
  BY DEF TablesOK, BucketsOK, Bucket
<1>2. more \in Nat
  BY <1>1 DEF Larger
<1>3. Rate \in Nat /\ Burst \in Nat /\ MaxFlight \in Nat /\ Burst <= Rate * (KeyTTL - MaxFlight)
  BY LimiterAssumption
<1>4. more * Rate = Rate * more /\ more * Rate \in Nat
  BY <1>2, <1>3
<1>5. Refilled(p, now) \in 0 .. Burst
  BY <1>1, <1>3, <1>4 DEF Refilled, Smaller
<1>6. Found(p) => Refilled(p, now) <= bucket[p].tokens + Rate * more
  BY <1>1, <1>3, <1>4 DEF Refilled, Smaller
<1>7. ASSUME ~Found(p)
      PROVE  Refilled(p, now) = Burst /\ Burst <= Rate * (now - bucket[p].ts)
  <2>1. KeyTTL - MaxFlight <= now - bucket[p].ts
    BY <1>1, <1>3, <1>7, KeyTTLIsAnInteger DEF Found
  <2>2. KeyTTL - MaxFlight \in Int /\ now - bucket[p].ts \in Int
    BY <1>1, <1>3, KeyTTLIsAnInteger
  <2>3. Rate * (KeyTTL - MaxFlight) <= Rate * (now - bucket[p].ts)
    BY <2>1, <2>2, <1>3, Monotone
  <2>4. Rate * (KeyTTL - MaxFlight) \in Int /\ Rate * (now - bucket[p].ts) \in Int
    BY <2>2, <1>3
  <2>5. Burst <= Rate * (now - bucket[p].ts)
    BY <2>3, <2>4, <1>3
  <2> QED BY <1>7, <2>5 DEF Refilled
<1> QED BY <1>5, <1>6, <1>7

\* One run of the script for a call, seen from the call's bucket.
LEMMA ScriptKeepsBudget ==
  ASSUME LimiterInv, NEW c \in Caller, RunScript(c)
  PROVE  LET p == stamp[c].project IN
         admitted'[p] + bucket'[p].tokens
           <= Burst + Rate * ((bucket'[p].ts - opened'[p]) + setback'[p])
<1> DEFINE p == stamp[c].project
           now == stamp[c].now
           cost == stamp[c].cost
           more == Larger(0, now - bucket[p].ts)
           back == Larger(0, bucket[p].ts - now)
           old == (bucket[p].ts - opened[p]) + setback[p]
<1>1. /\ p \in Tenant /\ now \in Nat /\ cost \in Nat
      /\ now <= clock /\ clock <= now + MaxFlight
      /\ TablesOK /\ BucketsOK
  BY DEF LimiterInv, StampsOK, Stamp, RunScript
<1>2. /\ bucket[p].tokens \in Nat /\ bucket[p].ts \in Nat /\ bucket[p].seen \in BOOLEAN
      /\ admitted[p] \in Nat /\ opened[p] \in Nat /\ setback[p] \in Nat
      /\ Rate \in Nat /\ Burst \in Nat
  BY <1>1, LimiterAssumption DEF TablesOK, Bucket
<1>3. /\ bucket'[p] = Written(p, now, cost)
      /\ admitted'[p] = admitted[p] + (IF Allows(p, now, cost) THEN cost ELSE 0)
      /\ opened'[p] = (IF bucket[p].seen THEN opened[p] ELSE now)
      /\ setback'[p] = setback[p] + (IF Found(p) THEN back ELSE 0)
  BY <1>1 DEF RunScript, TablesOK
<1>4. bucket'[p].ts = now
      /\ bucket'[p].tokens = Refilled(p, now) - (IF Allows(p, now, cost) THEN cost ELSE 0)
  BY <1>3 DEF Written
<1>5. CASE ~bucket[p].seen
  <2>1. Refilled(p, now) = Burst /\ ~Found(p)
    BY <1>5 DEF Refilled, Found
  <2>2. admitted[p] = 0
    BY <1>1, <1>5 DEF BucketsOK
  <2>3. admitted'[p] + bucket'[p].tokens = Burst
    BY <1>1, <1>2, <1>3, <1>4, <2>1, <2>2
  <2>4. (bucket'[p].ts - opened'[p]) + setback'[p] = setback[p]
    BY <1>1, <1>2, <1>3, <1>4, <1>5, <2>1
  <2>5. Rate * setback[p] \in Nat
    BY <1>2
  <2> QED BY <1>2, <2>3, <2>4, <2>5
<1>6. CASE bucket[p].seen
  <2>1. Refilled(p, now) \in 0 .. Burst
    BY <1>1, <1>6, RefillIsEarned
  <2>2. admitted'[p] + bucket'[p].tokens = admitted[p] + Refilled(p, now)
    BY <1>1, <1>2, <1>3, <1>4, <2>1
  <2>3. admitted[p] + bucket[p].tokens <= Burst + Rate * old
    BY <1>1, <1>6 DEF LimiterInv, BudgetHolds
  <2>4. old \in Int /\ Rate * old \in Int
    BY <1>2
  <2>5. CASE Found(p)
    <3>1. more \in Nat /\ back \in Nat /\ more - back = now - bucket[p].ts
      BY <1>1, <1>2 DEF Larger
    <3>2. (bucket'[p].ts - opened'[p]) + setback'[p] = old + more
      <4>1. bucket'[p].ts = now /\ opened'[p] = opened[p] /\ setback'[p] = setback[p] + back
        BY <1>3, <1>4, <1>6, <2>5
      <4>2. (now - opened[p]) + (setback[p] + back) = old + more
        <5>1. /\ now \in Int /\ opened[p] \in Int /\ setback[p] \in Int
              /\ bucket[p].ts \in Int
          BY <1>1, <1>2
        <5> HIDE DEF more, back
        <5> QED BY ONLY <5>1, <3>1 DEF old
      <4> QED BY ONLY <4>1, <4>2
    <3>3. Rate * (old + more) = Rate * old + Rate * more
      BY <1>2, <2>4, <3>1, Distributes
    <3>4. Refilled(p, now) <= bucket[p].tokens + Rate * more
      BY <1>1, <1>6, <2>5, RefillIsEarned
    <3>5. Rate * more \in Nat
      BY <1>2, <3>1
    <3> HIDE DEF old, more
    <3> QED BY <1>2, <2>1, <2>2, <2>3, <2>4, <3>2, <3>3, <3>4, <3>5
  <2>6. CASE ~Found(p)
    <3> DEFINE gap == now - bucket[p].ts
    <3>1. gap \in Int /\ Rate * gap \in Int
      BY <1>1, <1>2
    <3>2. (bucket'[p].ts - opened'[p]) + setback'[p] = old + gap
      BY <1>1, <1>2, <1>3, <1>4, <1>6, <2>6
    <3>3. Rate * (old + gap) = Rate * old + Rate * gap
      BY <1>2, <2>4, <3>1, Distributes
    <3>4. Refilled(p, now) = Burst /\ Burst <= Rate * gap
      BY <1>1, <1>6, <2>6, RefillIsEarned
    <3> HIDE DEF old, gap
    <3> QED BY <1>2, <2>1, <2>2, <2>3, <2>4, <3>1, <3>2, <3>3, <3>4
  <2> QED BY <2>5, <2>6
<1> QED BY <1>5, <1>6

\* A refusal's due time is late enough for the rate to make up what is missing.
LEMMA RefusalIsDue ==
  ASSUME LimiterInv, NEW c \in Caller, RunScript(c),
         ~Allows(stamp[c].project, stamp[c].now, stamp[c].cost)
  PROVE  LET p == stamp[c].project IN
         /\ promise'[p].due \in Nat /\ promise'[p].cost = stamp[c].cost
         /\ bucket'[p].ts <= promise'[p].due
         /\ promise'[p].cost
              <= bucket'[p].tokens + Rate * (promise'[p].due - bucket'[p].ts)
<1> DEFINE p == stamp[c].project
           now == stamp[c].now
           cost == stamp[c].cost
           missing == cost - Refilled(p, now)
           ticks == CeilDiv(missing, Rate)
           seconds == RetryAfterSeconds(ticks)
<1>1. /\ p \in Tenant /\ now \in Nat /\ cost \in Nat
      /\ now <= clock /\ clock <= now + MaxFlight
      /\ TablesOK /\ BucketsOK
  BY DEF LimiterInv, StampsOK, Stamp, RunScript
<1>2. Rate \in Nat \ {0} /\ Second \in Nat \ {0} /\ Burst \in Nat
  BY LimiterAssumption
<1>3. Refilled(p, now) \in 0 .. Burst
  <2>1. bucket[p].seen => Refilled(p, now) \in 0 .. Burst
    BY <1>1, RefillIsEarned
  <2>2. ~bucket[p].seen => Refilled(p, now) = Burst
    BY DEF Refilled, Found
  <2> QED BY <1>2, <2>1, <2>2
<1>4. /\ bucket'[p].ts = now /\ bucket'[p].tokens = Refilled(p, now)
      /\ promise'[p] = [cost |-> cost, due |-> now + Second * seconds]
  BY <1>1, <1>3 DEF RunScript, TablesOK, Written, RetryIn
<1>5. missing \in Int
  BY <1>1, <1>2, <1>3
<1>6. ticks \in Int /\ missing <= Rate * ticks
  BY <1>2, <1>5, RoundsUp
<1>7. CeilDiv(ticks, Second) \in Int /\ ticks <= Second * CeilDiv(ticks, Second)
  BY <1>2, <1>6, RoundsUp
<1>8. seconds \in Nat /\ CeilDiv(ticks, Second) <= seconds
  BY <1>7 DEF RetryAfterSeconds, Larger
<1>9. Second * CeilDiv(ticks, Second) <= Second * seconds
      /\ Second * CeilDiv(ticks, Second) \in Int /\ Second * seconds \in Nat
  BY <1>2, <1>7, <1>8, Monotone
<1>10. ticks <= Second * seconds
  BY <1>6, <1>7, <1>9
<1>11. Rate * ticks <= Rate * (Second * seconds)
       /\ Rate * ticks \in Int /\ Rate * (Second * seconds) \in Int
  BY <1>2, <1>6, <1>9, <1>10, Monotone
<1> DEFINE wait == Second * seconds
<1>12. promise'[p].due - bucket'[p].ts = wait /\ wait \in Nat
  BY <1>1, <1>4, <1>9
<1>13. cost <= Refilled(p, now) + Rate * wait
  <2> DEFINE x == Rate * ticks
             y == Rate * wait
  <2>1. missing <= x /\ x <= y /\ x \in Int /\ y \in Int
    BY <1>6, <1>11
  <2> SUFFICES cost <= Refilled(p, now) + y
    OBVIOUS
  <2> HIDE DEF x, y, ticks, seconds
  <2>2. cost - Refilled(p, now) <= y
    BY <2>1, <1>5
  <2> QED BY <2>1, <2>2, <1>1, <1>2, <1>3
<1> HIDE DEF wait
<1>14. promise'[p].cost <= bucket'[p].tokens + Rate * (promise'[p].due - bucket'[p].ts)
  BY <1>4, <1>12, <1>13
<1>15. promise'[p].due \in Nat /\ promise'[p].cost = cost
  BY <1>1, <1>4, <1>9
<1>16. bucket'[p].ts <= promise'[p].due
  BY <1>1, <1>4, <1>12, <1>15
<1> QED BY <1>14, <1>15, <1>16

----------------------------------------------------------------------------
(***************************************************************************)
(* The steps.                                                              *)
(***************************************************************************)
LEMMA ReadClockKeepsInv ==
  ASSUME LimiterInv, NEW c \in Caller, NEW p \in Tenant, NEW cost \in Nat,
         ReadClock(c, p, cost)
  PROVE  LimiterInv'
<1>1. StampsOK'
  <2>1. clock \in Nat /\ MaxFlight \in Nat
    BY LimiterAssumption DEF LimiterInv, TablesOK
  <2>2. [project |-> p, now |-> clock, cost |-> cost] \in Stamp
    BY <2>1 DEF Stamp
  <2> QED BY <2>1, <2>2 DEF LimiterInv, StampsOK, ReadClock
<1>2. TablesOK' /\ BucketsOK' /\ PromisesOK' /\ BudgetHolds'
  BY DEF LimiterInv, TablesOK, BucketsOK, PromisesOK, BudgetHolds, ReadClock
<1> QED BY <1>1, <1>2 DEF LimiterInv

LEMMA RunScriptKeepsInv ==
  ASSUME LimiterInv, NEW c \in Caller, RunScript(c)
  PROVE  LimiterInv'
<1> DEFINE p == stamp[c].project
           now == stamp[c].now
           cost == stamp[c].cost
           yes == Allows(p, now, cost)
<1>1. /\ p \in Tenant /\ now \in Nat /\ cost \in Nat
      /\ now <= clock /\ clock <= now + MaxFlight
      /\ TablesOK /\ BucketsOK
  BY DEF LimiterInv, StampsOK, Stamp, RunScript
<1>2. Refilled(p, now) \in 0 .. Burst /\ Burst \in Nat
  <2>1. bucket[p].seen => Refilled(p, now) \in 0 .. Burst
    BY <1>1, RefillIsEarned
  <2>2. ~bucket[p].seen => Refilled(p, now) = Burst
    BY DEF Refilled, Found
  <2> QED BY LimiterAssumption, <2>1, <2>2
<1>3. Refilled(p, now) - (IF yes THEN cost ELSE 0) \in Nat
  BY <1>1, <1>2 DEF Allows
<1>4. bucket'[p] = Written(p, now, cost) /\ Written(p, now, cost) \in Bucket
  BY <1>1, <1>3 DEF RunScript, TablesOK, Written, Bucket
<1>5. TablesOK'
  <2>1. bucket' \in [Tenant -> Bucket]
    BY <1>1, <1>4 DEF RunScript, TablesOK
  <2>2. admitted' \in [Tenant -> Nat] /\ opened' \in [Tenant -> Nat]
    BY <1>1 DEF RunScript, TablesOK
  <2>3. setback' \in [Tenant -> Nat]
    <3>1. bucket[p].ts \in Nat
      BY <1>1 DEF TablesOK, Bucket
    <3>2. (IF Found(p) THEN Larger(0, bucket[p].ts - now) ELSE 0) \in Nat
      BY <1>1, <3>1 DEF Larger
    <3> QED BY <1>1, <3>2 DEF RunScript, TablesOK
  <2>4. promise' \in [Tenant -> [cost : Nat, due : Nat]]
    <3>1. promise'[p] \in [cost : Nat, due : Nat]
      <4>1. CASE yes
        BY <1>1, <4>1 DEF RunScript, TablesOK, NoPromise
      <4>2. CASE ~yes
        <5>1. promise'[p].due \in Nat /\ promise'[p].cost = cost
          BY <4>2, RefusalIsDue
        <5>2. promise'[p] = [cost |-> cost, due |-> promise'[p].due]
          BY <1>1, <4>2 DEF RunScript, TablesOK
        <5> QED BY <1>1, <5>1, <5>2
      <4> QED BY <4>1, <4>2
    <3>2. promise' = [promise EXCEPT ![p] = promise'[p]]
      BY <1>1 DEF RunScript, TablesOK
    <3> QED BY <1>1, <3>1, <3>2 DEF TablesOK
  <2>5. clock' \in Nat
    BY <1>1 DEF RunScript, TablesOK
  <2> QED BY <2>1, <2>2, <2>3, <2>4, <2>5 DEF TablesOK
<1>6. StampsOK'
  BY DEF LimiterInv, StampsOK, RunScript
<1>7. \A q \in Tenant : q # p =>
        /\ bucket'[q] = bucket[q] /\ admitted'[q] = admitted[q]
        /\ opened'[q] = opened[q] /\ setback'[q] = setback[q]
        /\ promise'[q] = promise[q]
  BY <1>1 DEF RunScript, TablesOK
<1>8. bucket'[p].seen /\ bucket'[p].ts = now /\ bucket'[p].at = clock
  BY <1>4 DEF Written
<1>9. BucketsOK'
  BY <1>1, <1>7, <1>8 DEF BucketsOK
<1>10. PromisesOK'
  <2> SUFFICES ASSUME NEW q \in Tenant, promise'[q] # NoPromise
               PROVE  /\ bucket'[q].ts <= promise'[q].due
                      /\ promise'[q].cost
                           <= bucket'[q].tokens + Rate * (promise'[q].due - bucket'[q].ts)
    BY DEF PromisesOK
  <2>1. CASE q # p
    BY <1>7, <2>1 DEF LimiterInv, PromisesOK
  <2>2. CASE q = p
    <3>1. ~yes
      BY <1>1, <2>2 DEF RunScript, TablesOK
    <3> QED BY <2>2, <3>1, RefusalIsDue
  <2> QED BY <2>1, <2>2
<1>11. BudgetHolds'
  <2> SUFFICES ASSUME NEW q \in Tenant, bucket'[q].seen
               PROVE  admitted'[q] + bucket'[q].tokens
                        <= Burst + Rate * ((bucket'[q].ts - opened'[q]) + setback'[q])
    BY DEF BudgetHolds
  <2>1. CASE q # p
    BY <1>7, <2>1 DEF LimiterInv, BudgetHolds
  <2>2. CASE q = p
    BY <2>2, ScriptKeepsBudget
  <2> QED BY <2>1, <2>2
<1> QED BY <1>5, <1>6, <1>9, <1>10, <1>11 DEF LimiterInv

LEMMA OthersKeepInv ==
  ASSUME LimiterInv,
         \/ \E c \in Caller : ScriptFails(c)
         \/ \E callers \in SUBSET Caller : GiveUp(callers)
         \/ Tick
         \/ UNCHANGED limiterVars
  PROVE  LimiterInv'
<1>1. CASE \E c \in Caller : ScriptFails(c)
  <2>1. StampsOK'
    BY <1>1 DEF LimiterInv, StampsOK, ScriptFails
  <2>2. TablesOK' /\ BucketsOK' /\ PromisesOK' /\ BudgetHolds'
    BY <1>1 DEF LimiterInv, TablesOK, BucketsOK, PromisesOK, BudgetHolds, ScriptFails
  <2> QED BY <2>1, <2>2 DEF LimiterInv
<1>2. CASE \E callers \in SUBSET Caller : GiveUp(callers)
  <2>1. StampsOK'
    BY <1>2 DEF LimiterInv, StampsOK, GiveUp
  <2>2. TablesOK' /\ BucketsOK' /\ PromisesOK' /\ BudgetHolds'
    BY <1>2 DEF LimiterInv, TablesOK, BucketsOK, PromisesOK, BudgetHolds, GiveUp
  <2> QED BY <2>1, <2>2 DEF LimiterInv
<1>3. CASE Tick
  <2>1. clock \in Nat /\ MaxFlight \in Nat /\ clock' = clock + 1
    BY <1>3, LimiterAssumption DEF LimiterInv, TablesOK, Tick, TimePasses
  <2>2. StampsOK'
    BY <1>3, <2>1 DEF LimiterInv, StampsOK, Stamp, Tick
  <2>3. TablesOK' /\ BucketsOK' /\ PromisesOK' /\ BudgetHolds'
    BY <1>3, <2>1 DEF LimiterInv, TablesOK, BucketsOK, PromisesOK, BudgetHolds, Tick
  <2> QED BY <2>2, <2>3 DEF LimiterInv
<1>4. CASE UNCHANGED limiterVars
  BY <1>4 DEF LimiterInv, TablesOK, StampsOK, BucketsOK, PromisesOK, BudgetHolds,
              limiterVars
<1> QED BY <1>1, <1>2, <1>3, <1>4

LEMMA NextKeepsLimiterInv ==
  LimiterInv /\ [LimiterNext]_limiterVars => LimiterInv'
<1> SUFFICES ASSUME LimiterInv, [LimiterNext]_limiterVars PROVE LimiterInv'
  OBVIOUS
<1>1. ASSUME NEW c \in Caller, NEW p \in Tenant, NEW cost \in Nat, ReadClock(c, p, cost)
      PROVE  LimiterInv'
  BY <1>1, ReadClockKeepsInv
<1>2. ASSUME NEW c \in Caller, RunScript(c) PROVE LimiterInv'
  BY <1>2, RunScriptKeepsInv
<1> QED BY <1>1, <1>2, OthersKeepInv DEF LimiterNext

----------------------------------------------------------------------------
(***************************************************************************)
(* The theorems.                                                           *)
(***************************************************************************)
\* With the refill on its side a refusal is good when it said it would be, and
\* a bucket Redis has dropped by then is a full one.
LEMMA PromisesAreKept == LimiterInv => RetryAfterIsHonest
<1> SUFFICES ASSUME LimiterInv, NEW p \in Tenant, promise[p] # NoPromise
             PROVE  Allows(p, promise[p].due, promise[p].cost) <=> promise[p].cost <= Burst
  BY DEF RetryAfterIsHonest
<1> DEFINE due == promise[p].due
           cost == promise[p].cost
           more == due - bucket[p].ts
<1>1. /\ due \in Nat /\ cost \in Nat /\ bucket[p].tokens \in Nat /\ bucket[p].ts \in Nat
      /\ Rate \in Nat /\ Burst \in Nat
  BY LimiterAssumption DEF LimiterInv, TablesOK, Bucket
<1>2. bucket[p].ts <= due /\ cost <= bucket[p].tokens + Rate * more
  BY DEF LimiterInv, PromisesOK
<1>3. Larger(0, more) = more /\ more * Rate = Rate * more /\ Rate * more \in Nat
  BY <1>1, <1>2 DEF Larger
<1>4. CASE Found(p)
  <2>1. Refilled(p, due) = Smaller(Burst, bucket[p].tokens + Rate * more)
    BY <1>3, <1>4 DEF Refilled
  <2> HIDE DEF due, cost, more
  <2>2. cost <= Refilled(p, due) <=> cost <= Burst
    BY <1>1, <1>2, <1>3, <2>1 DEF Smaller
  <2> QED BY <2>2 DEF Allows, due, cost
<1>5. CASE ~Found(p)
  BY <1>5 DEF Refilled, Allows
<1> QED BY <1>4, <1>5

THEOREM LimiterInvariant == LimiterSpec => []LimiterInv
<1>1. LimiterInv /\ [LimiterNext]_limiterVars => LimiterInv'
  BY NextKeepsLimiterInv
<1> QED BY InitLimiterInv, <1>1, PTL DEF LimiterSpec

\* A project is never given more than its burst and its rate allow, but for the
\* refills that readings of the clock overtaken on the way to Redis pay twice.
THEOREM LimiterKeepsBudget == LimiterSpec => []BudgetHolds
<1>1. LimiterInv => BudgetHolds
  BY DEF LimiterInv
<1> QED BY LimiterInvariant, <1>1, PTL

\* A refused request that waits as it was told is allowed, if it ever can be
\* and nobody spends in between.
THEOREM LimiterKeepsPromises == LimiterSpec => []RetryAfterIsHonest
BY LimiterInvariant, PromisesAreKept, PTL

----------------------------------------------------------------------------
(***************************************************************************)
(* The gateways use the limiter as its own specification says: the         *)
(* theorems of the limiter hold of them      .                             *)
(***************************************************************************)
LEMMA AskingReadsTheClock ==
  ASSUME CacheInv, NEW c \in Caller, NEW body \in Bodies, AskLimiter(c, body)
  PROVE  LimiterNext
<1>1. lookup[c].project \in Tenant
  BY GatewayAssumption DEF AskLimiter, Authenticated, CacheInv, LookupsOK
<1>2. Len(Read(body).items) \in Nat
  BY BodiesGiveItems
<1> QED BY <1>1, <1>2 DEF AskLimiter, LimiterNext

LEMMA StepsOfTheLimiter ==
  CacheInv /\ [GatewayNext]_gatewayVars => [LimiterNext]_limiterVars
<1> SUFFICES ASSUME CacheInv, [GatewayNext]_gatewayVars
             PROVE  LimiterNext \/ UNCHANGED limiterVars
  OBVIOUS
<1>1. ASSUME NEW c \in Caller, NEW g \in Gateway, NEW k \in Key, NEW path \in Project,
             Receive(c, g, k, path)
      PROVE  UNCHANGED limiterVars
  BY <1>1 DEF Receive, limiterVars, limiterTables
<1>2. ASSUME NEW c \in Caller,
             \/ Maladdressed(c) \/ LookUp(c) \/ TurnAway(c)
             \/ \E body \in Bodies : NothingToDo(c, body)
             \/ Publish(c) \/ PublishFails(c)
      PROVE  UNCHANGED limiterVars
  BY <1>2 DEF Maladdressed, LookUp, TurnAway, NothingToDo, Publish, PublishFails,
              limiterVars, limiterTables
<1>3. ASSUME NEW c \in Caller, NEW body \in Bodies, AskLimiter(c, body)
      PROVE  LimiterNext
  BY <1>3, AskingReadsTheClock
<1>4. ASSUME NEW c \in Caller, Limited(c) \/ LimiterDown(c)
      PROVE  LimiterNext
  BY <1>4 DEF Limited, LimiterDown, LimiterNext
<1>5. ASSUME NEW g \in Gateway, Restart(g) PROVE LimiterNext
  <2>1. {c \in Caller : UnderWay(c, g)} \in SUBSET Caller
    OBVIOUS
  <2> QED BY <1>5, <2>1 DEF Restart, LimiterNext
<1>6. CASE KeyChange
  BY <1>6 DEF KeyChange, ControlPlane, limiterVars, limiterTables
<1>7. CASE GatewayTick
  BY <1>7 DEF GatewayTick, LimiterNext
<1>8. CASE UNCHANGED gatewayVars
  BY <1>8 DEF gatewayVars, limiterVars
<1> QED BY <1>1, <1>2, <1>3, <1>4, <1>5, <1>6, <1>7, <1>8 DEF GatewayNext, HandlerStep

THEOREM GatewaysUseTheLimiter == GatewaySpec => LimiterSpec
<1>1. GatewayInit => LimiterInit
  BY DEF GatewayInit
<1> QED BY <1>1, CacheInvariant, StepsOfTheLimiter, PTL DEF GatewaySpec, LimiterSpec

\* However many gateways share Redis, a project's requests are let through
\* within its burst and rate, and a 429 tells a time that will do.
THEOREM GatewaysKeepBudget == GatewaySpec => []BudgetHolds
BY GatewaysUseTheLimiter, LimiterKeepsBudget, PTL

THEOREM GatewaysKeepPromises == GatewaySpec => []RetryAfterIsHonest
BY GatewaysUseTheLimiter, LimiterKeepsPromises, PTL

----------------------------------------------------------------------------
(***************************************************************************)
(* The answers.  A request's jobs are published in one step, which also    *)
(* answers it; until then it has none in the stream.                       *)
(***************************************************************************)
Status == {200, 400, 401, 413, 429, 500, 503}
Skips  == {0} \cup {Read(body).skipped : body \in Bodies}

Request == [at : {"unsent", "auth", "limit", "publish", "answered", "cut"},
            path : Project \cup {NoProject}, body : Bodies \cup {NoBody},
            status : {0} \cup Status, accepted : Nat, skipped : Skips]

LEMMA SkipsAreSkips == 0 \in Skips /\ \A body \in Bodies : Read(body).skipped \in Skips
BY DEF Skips

AnswerInv ==
  /\ request \in [Caller -> Request]
  /\ DOMAIN queued = Caller
  /\ \A c \in Caller :
       /\ request[c].at # "answered" => queued[c] = {}
       /\ request[c].at \in {"limit", "publish"} => request[c].body \in Bodies
  /\ AnswersAreTrue

LEMMA JobsAreCounted ==
  ASSUME NEW c, NEW n \in Nat
  PROVE  IsFiniteSet(JobsUpTo(c, n)) /\ Cardinality(JobsUpTo(c, n)) = n
<1> DEFINE job == [i \in 1 .. n |-> [project |-> lookup[c].project, item |-> i]]
<1>1. job \in Bijection(1 .. n, JobsUpTo(c, n))
  <2>1. job \in [1 .. n -> JobsUpTo(c, n)]
    BY DEF JobsUpTo
  <2>2. \A i, j \in 1 .. n : job[i] = job[j] => i = j
    OBVIOUS
  <2>3. \A x \in JobsUpTo(c, n) : \E i \in 1 .. n : job[i] = x
    BY DEF JobsUpTo
  <2> QED BY <2>1, <2>2, <2>3 DEF Bijection, Injection, Surjection, IsInjective
<1>2. IsFiniteSet(1 .. n) /\ Cardinality(1 .. n) = n
  BY FS_Interval
<1> QED BY <1>1, <1>2, FS_Bijection DEF ExistsBijection

LEMMA InitAnswerInv == GatewayInit => AnswerInv
BY SkipsAreSkips DEF GatewayInit, AnswerInv, AnswersAreTrue, Request, Unsent

\* A request moves on, and nothing is published.
LEMMA QuietMoveKeepsAnswerInv ==
  ASSUME AnswerInv, NEW c \in Caller, NEW r \in Request, queued[c] = {},
         request' = [request EXCEPT ![c] = r], queued' = queued,
         r.at \in {"limit", "publish"} => r.body \in Bodies,
         r.at = "answered" /\ r.status = 200 => r.accepted = 0
  PROVE  AnswerInv'
<1>1. Cardinality({}) = 0
  BY FS_EmptySet
<1>2. request'[c] = r /\ \A d \in Caller : d # c => request'[d] = request[d]
  BY DEF AnswerInv
<1>3. request' \in [Caller -> Request]
  BY DEF AnswerInv
<1>4. AnswersAreTrue'
  <2> SUFFICES ASSUME NEW d \in Caller, request'[d].at = "answered"
               PROVE  /\ request'[d].status = 200 => Cardinality(queued[d]) = request'[d].accepted
                      /\ queued[d] # {} => request'[d].status \in {200, 503}
    BY DEF AnswersAreTrue
  <2>1. CASE d = c
    BY <1>1, <1>2, <2>1
  <2>2. CASE d # c
    BY <1>2, <2>2 DEF AnswerInv, AnswersAreTrue
  <2> QED BY <2>1, <2>2
<1> QED BY <1>2, <1>3, <1>4 DEF AnswerInv

LEMMA RepliesAreRequests ==
  ASSUME NEW status \in Status, NEW accepted \in Nat,
         NEW skipped \in Skips
  PROVE  /\ Reply(status, accepted, skipped) \in Request
         /\ Reply(status, accepted, skipped).at = "answered"
         /\ Reply(status, accepted, skipped).status = status
         /\ Reply(status, accepted, skipped).accepted = accepted
<1>1. NoBody \in Bodies \cup {NoBody} /\ NoProject \in Project \cup {NoProject}
  OBVIOUS
<1> QED BY <1>1 DEF Reply, Request

\* An answer while nothing is in the stream, if it does not count anything.
LEMMA AnsweringKeepsAnswerInv ==
  ASSUME AnswerInv, NEW c \in Caller, queued[c] = {}, queued' = queued,
         NEW status \in Status,
         NEW skipped \in Skips,
         AnswerCounts(c, status, 0, skipped)
  PROVE  AnswerInv'
<1>1. PICK r \in Request : /\ r.at = "answered" /\ r.accepted = 0
                          /\ request' = [request EXCEPT ![c] = r]
  <2>1. /\ Reply(status, 0, skipped) \in Request
        /\ Reply(status, 0, skipped).at = "answered"
        /\ Reply(status, 0, skipped).accepted = 0
    BY RepliesAreRequests
  <2>2. request' = [request EXCEPT ![c] = Reply(status, 0, skipped)]
    BY DEF AnswerCounts
  <2> QED BY <2>1, <2>2
<1>2. r.at \in {"limit", "publish"} => r.body \in Bodies
  BY <1>1
<1>3. r.at = "answered" /\ r.status = 200 => r.accepted = 0
  BY <1>1
<1> QED BY <1>1, <1>2, <1>3, QuietMoveKeepsAnswerInv

LEMMA ProceedingKeepsAnswerInv ==
  ASSUME AnswerInv, NEW c \in Caller, request[c].at = "limit", queued' = queued, Proceed(c)
  PROVE  AnswerInv'
<1>1. request[c] \in Request /\ request[c].body \in Bodies /\ queued[c] = {}
  BY DEF AnswerInv
<1>2. CASE AllEncodable(c)
  <2> DEFINE r == [request[c] EXCEPT !.at = "publish"]
  <2>1. request' = [request EXCEPT ![c] = r]
    BY <1>2 DEF AnswerInv, Proceed
  <2>2. r \in Request /\ r.at = "publish" /\ r.body \in Bodies
        /\ r.status = request[c].status /\ r.accepted = request[c].accepted
    BY <1>1 DEF Request
  <2> HIDE DEF r
  <2> QED BY <2>1, <2>2, <1>1, QuietMoveKeepsAnswerInv
<1>3. CASE ~AllEncodable(c)
  BY <1>1, <1>3, SkipsAreSkips, AnsweringKeepsAnswerInv DEF Proceed, Answer, Status
<1> QED BY <1>2, <1>3

LEMMA ReceivingKeepsAnswerInv ==
  ASSUME AnswerInv, NEW c \in Caller, NEW g \in Gateway, NEW k \in Key,
         NEW path \in Project, Receive(c, g, k, path)
  PROVE  AnswerInv'
<1> DEFINE r == [at |-> "auth", path |-> path, body |-> NoBody,
                 status |-> 0, accepted |-> 0, skipped |-> 0]
<1>1. request' = [request EXCEPT ![c] = r] /\ queued' = queued
  <2>1. request[c] = Unsent /\ queued' = queued
        /\ request' = [request EXCEPT ![c] = [request[c] EXCEPT !.at = "auth", !.path = path]]
    BY DEF AnswerInv, Receive
  <2>2. [Unsent EXCEPT !.at = "auth", !.path = path] = r
    <3> DEFINE first == [at |-> "auth", path |-> NoProject, body |-> NoBody,
                         status |-> 0, accepted |-> 0, skipped |-> 0]
    <3>1. [Unsent EXCEPT !.at = "auth"] = first
      BY DEF Unsent
    <3>2. [first EXCEPT !.path = path] = r
      OBVIOUS
    <3> QED BY <3>1, <3>2
  <2> QED BY <2>1, <2>2
<1>2. r \in Request /\ r.at = "auth"
  <2>1. NoBody \in Bodies \cup {NoBody}
    OBVIOUS
  <2> QED BY <2>1, SkipsAreSkips DEF Request
<1>3. queued[c] = {}
  BY DEF AnswerInv, Receive, Unsent
<1> HIDE DEF r
<1>4. /\ r.at \in {"limit", "publish"} => r.body \in Bodies
      /\ r.at = "answered" /\ r.status = 200 => r.accepted = 0
  BY <1>2
<1> QED BY <1>1, <1>2, <1>3, <1>4, QuietMoveKeepsAnswerInv

LEMMA AskingKeepsAnswerInv ==
  ASSUME AnswerInv, NEW c \in Caller, NEW body \in Bodies, AskLimiter(c, body)
  PROVE  AnswerInv'
<1>1. request[c] \in Request /\ request[c].at = "auth" /\ queued[c] = {}
  BY DEF AnswerInv, AskLimiter, Authenticated
<1> DEFINE r == [request[c] EXCEPT !.at = "limit", !.body = body]
<1>2. request' = [request EXCEPT ![c] = r] /\ queued' = queued
  BY DEF AnswerInv, AskLimiter
<1>3. r \in Request /\ r.at = "limit" /\ r.body = body
  <2> DEFINE first == [request[c] EXCEPT !.at = "limit"]
  <2>1. first \in Request /\ first.at = "limit"
    BY <1>1 DEF Request
  <2>2. r = [first EXCEPT !.body = body]
    OBVIOUS
  <2> HIDE DEF first, r
  <2> QED BY <2>1, <2>2 DEF Request
<1> HIDE DEF r
<1>4. /\ r.at \in {"limit", "publish"} => r.body \in Bodies
      /\ r.at = "answered" /\ r.status = 200 => r.accepted = 0
  BY <1>3
<1> QED BY <1>1, <1>2, <1>3, <1>4, QuietMoveKeepsAnswerInv

\* The pipeline's step: an answer, and the jobs it speaks of.
LEMMA PublishingKeepsAnswerInv ==
  ASSUME AnswerInv, NEW c \in Caller, Publish(c) \/ PublishFails(c)
  PROVE  AnswerInv'
<1>1. request[c] \in Request /\ request[c].body \in Bodies
  BY DEF AnswerInv, Publish, PublishFails
<1>2. Len(Items(c)) \in Nat
  BY <1>1, BodiesGiveItems DEF Items
<1> DEFINE Replied(r) == /\ r \in Request /\ r.at = "answered"
                         /\ request' = [request EXCEPT ![c] = r]
                         /\ r.status \in {200, 503}
                         /\ r.status = 200 => Cardinality(queued'[c]) = r.accepted
<1>3. \E r : Replied(r)
  <2>1. CASE Publish(c)
    <3> DEFINE n == Len(Items(c))
               skipped == Read(request[c].body).skipped
    <3>1. n \in Nat /\ skipped \in Skips /\ 200 \in Status
      BY <1>1, <1>2, SkipsAreSkips DEF Status
    <3>2. /\ Reply(200, n, skipped) \in Request
          /\ Reply(200, n, skipped).at = "answered"
          /\ Reply(200, n, skipped).status = 200
          /\ Reply(200, n, skipped).accepted = n
      BY <3>1, RepliesAreRequests
    <3>3. request' = [request EXCEPT ![c] = Reply(200, n, skipped)]
      BY <2>1 DEF Publish, AnswerCounts
    <3>4. Cardinality(queued'[c]) = n
      BY <2>1, <3>1, JobsAreCounted DEF Publish, AnswerInv
    <3> HIDE DEF n, skipped
    <3>5. Replied(Reply(200, n, skipped))
      BY <3>2, <3>3, <3>4
    <3> HIDE DEF Replied
    <3> QED BY <3>5
  <2>2. CASE PublishFails(c)
    <3>1. /\ Reply(503, 0, 0) \in Request
          /\ Reply(503, 0, 0).at = "answered"
          /\ Reply(503, 0, 0).status = 503
      BY RepliesAreRequests, SkipsAreSkips DEF Status
    <3>2. request' = [request EXCEPT ![c] = Reply(503, 0, 0)]
      BY <2>2 DEF PublishFails, Answer, AnswerCounts
    <3>3. /\ Reply(503, 0, 0).status \in {200, 503}
          /\ ~(Reply(503, 0, 0).status = 200)
      BY <3>1
    <3>4. Replied(Reply(503, 0, 0))
      BY <3>1, <3>2, <3>3
    <3> HIDE DEF Replied
    <3> QED BY <3>4
  <2> QED BY <2>1, <2>2
<1>3a. PICK r : Replied(r)
  <2> HIDE DEF Replied
  <2> QED BY <1>3
<1>4. /\ DOMAIN queued' = Caller
      /\ \A d \in Caller : d # c => queued'[d] = queued[d]
  BY DEF AnswerInv, Publish, PublishFails
<1>5. /\ request' \in [Caller -> Request] /\ request'[c] = r
      /\ \A d \in Caller : d # c => request'[d] = request[d]
  BY <1>3a DEF AnswerInv
<1>6. AnswersAreTrue'
  <2> SUFFICES ASSUME NEW d \in Caller, request'[d].at = "answered"
               PROVE  /\ request'[d].status = 200
                           => Cardinality(queued'[d]) = request'[d].accepted
                      /\ queued'[d] # {} => request'[d].status \in {200, 503}
    BY DEF AnswersAreTrue
  <2>1. CASE d = c
    BY <1>3a, <1>5, <2>1
  <2>2. CASE d # c
    BY <1>4, <1>5, <2>2 DEF AnswerInv, AnswersAreTrue
  <2> QED BY <2>1, <2>2
<1> QED BY <1>3a, <1>4, <1>5, <1>6 DEF AnswerInv

LEMMA RestartKeepsAnswerInv ==
  ASSUME AnswerInv, NEW g \in Gateway, Restart(g) PROVE AnswerInv'
<1> DEFINE cut == [at |-> "cut", path |-> NoProject, body |-> NoBody,
                   status |-> 0, accepted |-> 0, skipped |-> 0]
<1>1. [Unsent EXCEPT !.at = "cut"] = cut
  BY DEF Unsent
<1>2. cut \in Request /\ cut.at = "cut"
  <2>1. NoBody \in Bodies \cup {NoBody} /\ NoProject \in Project \cup {NoProject}
    OBVIOUS
  <2> QED BY <2>1, SkipsAreSkips DEF Request
<1>3. request' = [c \in Caller |-> IF UnderWay(c, g) THEN cut ELSE request[c]]
      /\ queued' = queued
  BY <1>1 DEF Restart
<1>4. \A c \in Caller : UnderWay(c, g) => queued[c] = {}
  BY DEF AnswerInv, UnderWay
<1> HIDE DEF cut
<1>5. request' \in [Caller -> Request]
  BY <1>2, <1>3 DEF AnswerInv
<1>6. \A c \in Caller : request'[c] = request[c] \/ (request'[c] = cut /\ queued[c] = {})
  BY <1>3, <1>4
<1>7. AnswersAreTrue'
  BY <1>2, <1>3, <1>6 DEF AnswerInv, AnswersAreTrue
<1> QED BY <1>2, <1>3, <1>5, <1>6, <1>7 DEF AnswerInv

LEMMA NextKeepsAnswerInv == AnswerInv /\ [GatewayNext]_gatewayVars => AnswerInv'
<1> SUFFICES ASSUME AnswerInv, [GatewayNext]_gatewayVars PROVE AnswerInv'
  OBVIOUS
<1>1. ASSUME UNCHANGED requestVars PROVE AnswerInv'
  BY <1>1 DEF AnswerInv, AnswersAreTrue, requestVars
<1>2. ASSUME NEW c \in Caller, NEW status \in {400, 401, 413, 429, 503},
             request[c].at # "answered", Answer(c, status), queued' = queued
      PROVE  AnswerInv'
  <2>1. queued[c] = {}
    BY <1>2 DEF AnswerInv
  <2> QED BY <1>2, <2>1, SkipsAreSkips, AnsweringKeepsAnswerInv DEF Answer, Status
<1>3. ASSUME NEW c \in Caller, Maladdressed(c) \/ TurnAway(c) PROVE AnswerInv'
  BY <1>2, <1>3 DEF Maladdressed, TurnAway, Unsent
<1>4. ASSUME NEW c \in Caller, NEW body \in Bodies, NothingToDo(c, body) PROVE AnswerInv'
  <2>1. request[c].at = "auth" /\ queued' = queued /\ queued[c] = {}
    BY <1>4 DEF NothingToDo, Authenticated, AnswerInv
  <2>2. CASE Answer(c, StatusOf(Read(body).verdict))
    <3>1. StatusOf(Read(body).verdict) \in {400, 401, 413, 429, 503}
      BY DEF StatusOf
    <3> QED BY <1>2, <2>1, <2>2, <3>1
  <2>3. CASE AnswerCounts(c, 200, 0, Read(body).skipped)
    <3>1. Read(body).skipped \in Skips
      BY SkipsAreSkips
    <3>2. 200 \in Status
      BY DEF Status
    <3> QED BY <2>1, <2>3, <3>1, <3>2, AnsweringKeepsAnswerInv
  <2> QED BY <1>4, <2>2, <2>3 DEF NothingToDo
<1>5. ASSUME NEW c \in Caller, Limited(c) \/ LimiterDown(c) PROVE AnswerInv'
  <2>1. request[c].at = "limit" /\ queued' = queued
    BY <1>5 DEF Limited, LimiterDown
  <2>2. CASE Proceed(c)
    BY <2>1, <2>2, ProceedingKeepsAnswerInv
  <2>3. CASE Answer(c, 429)
    BY <1>2, <2>1, <2>3
  <2> QED BY <1>5, <2>2, <2>3 DEF Limited, LimiterDown
<1>6. ASSUME \/ \E c \in Caller : LookUp(c)
             \/ KeyChange \/ GatewayTick \/ UNCHANGED gatewayVars
      PROVE  UNCHANGED requestVars
  BY <1>6 DEF LookUp, KeyChange, GatewayTick, gatewayVars
<1> QED BY <1>1, <1>3, <1>4, <1>5, <1>6, ReceivingKeepsAnswerInv, AskingKeepsAnswerInv,
           PublishingKeepsAnswerInv, RestartKeepsAnswerInv
        DEF GatewayNext, HandlerStep

\* Whatever happens to the pipeline, a client that is told 200 has its items in
\* the stream, and one that is told of an error of its own has none.
THEOREM GatewaysAnswerTruly == GatewaySpec => []AnswersAreTrue
<1>1. AnswerInv => AnswersAreTrue
  BY DEF AnswerInv
<1> QED BY <1>1, InitAnswerInv, NextKeepsAnswerInv, PTL DEF GatewaySpec

----------------------------------------------------------------------------
(***************************************************************************)
(* What is charged.  A request the limiter let through is owed its jobs    *)
(* until the pipeline has taken them, or failed to; what the bucket handed *)
(* out covers what is owed and what is in the stream.                      *)
(***************************************************************************)
\* The jobs a request has in the stream, or may still put there.
Owed(c)  == IF request[c].at = "publish" THEN JobsUpTo(c, Len(Items(c))) ELSE queued[c]
AllOwed  == [c \in Caller |-> Owed(c)]

From(c, p, its)  == {c} \X {j \in its : j.project = p}
Of(p, jobsOf)    == UNION {From(c, p, jobsOf[c]) : c \in Caller}

\* A call of the limiter is made for the request's own project and items.
StampsMatch ==
  /\ DOMAIN stamp = Caller
  /\ \A c \in Caller : request[c].at = "limit" =>
       /\ lookup[c].project \in Project
       /\ stamp[c].project = lookup[c].project
       /\ stamp[c].cost = Len(Items(c))

Covered(p, jobsOf, paid) == IsFiniteSet(Of(p, jobsOf)) /\ Cardinality(Of(p, jobsOf)) <= paid

ChargeInv ==
  /\ admitted \in [Project -> Nat] /\ uncharged \in [Project -> Nat]
  /\ StampsMatch
  /\ \A p \in Project : Covered(p, AllOwed, admitted[p] + uncharged[p])

LEMMA OfMembers ==
  ASSUME NEW p, NEW jobsOf
  PROVE  \A x : x \in Of(p, jobsOf) <=>
           \E c \in Caller : \E j \in jobsOf[c] : j.project = p /\ x = <<c, j>>
<1> SUFFICES ASSUME NEW x
             PROVE  x \in Of(p, jobsOf) <=>
                      \E c \in Caller : \E j \in jobsOf[c] : j.project = p /\ x = <<c, j>>
  OBVIOUS
<1>1. ASSUME x \in Of(p, jobsOf)
      PROVE  \E c \in Caller : \E j \in jobsOf[c] : j.project = p /\ x = <<c, j>>
  <2>1. PICK c \in Caller : x \in From(c, p, jobsOf[c])
    BY <1>1 DEF Of
  <2>2. x[1] = c /\ x[2] \in jobsOf[c] /\ x[2].project = p /\ x = <<c, x[2]>>
    BY <2>1 DEF From
  <2> QED BY <2>2
<1>2. ASSUME NEW c \in Caller, NEW j \in jobsOf[c], j.project = p, x = <<c, j>>
      PROVE  x \in Of(p, jobsOf)
  <2>1. x \in From(c, p, jobsOf[c])
    BY <1>2 DEF From
  <2> QED BY <2>1 DEF Of
<1> QED BY <1>1, <1>2

\* Fewer jobs are covered by as much.
LEMMA FewerAreCovered ==
  ASSUME NEW p, NEW jobsOf, NEW fewer, NEW paid \in Nat, NEW now \in Nat, paid <= now,
         \A c \in Caller : fewer[c] \subseteq jobsOf[c],
         Covered(p, jobsOf, paid)
  PROVE  Covered(p, fewer, now)
<1>1. Of(p, fewer) \subseteq Of(p, jobsOf)
  BY OfMembers
<1>2. /\ IsFiniteSet(Of(p, fewer))
      /\ Cardinality(Of(p, fewer)) <= Cardinality(Of(p, jobsOf))
  BY <1>1, FS_Subset DEF Covered
<1>3. Cardinality(Of(p, fewer)) \in Nat /\ Cardinality(Of(p, jobsOf)) \in Nat
  BY <1>2, FS_CardinalityType DEF Covered
<1> QED BY <1>2, <1>3 DEF Covered

\* A request that comes to be owed up to n jobs is covered by n more.
LEMMA MoreAreCovered ==
  ASSUME NEW p, NEW jobsOf, NEW more, NEW paid \in Nat, NEW n \in Nat,
         NEW c \in Caller, \A d \in Caller : d # c => more[d] \subseteq jobsOf[d],
         IsFiniteSet(more[c]), Cardinality(more[c]) <= n,
         Covered(p, jobsOf, paid)
  PROVE  Covered(p, more, paid + n)
<1> DEFINE added == {c} \X more[c]
<1>1. IsFiniteSet(added) /\ Cardinality(added) <= n
  <2>1. IsFiniteSet({c}) /\ Cardinality({c}) = 1
    BY FS_Singleton
  <2>2. IsFiniteSet(added) /\ Cardinality(added) = 1 * Cardinality(more[c])
    BY <2>1, FS_Product
  <2>3. Cardinality(more[c]) \in Nat
    BY FS_CardinalityType
  <2> QED BY <2>2, <2>3
<1> HIDE DEF added
<1>2. Of(p, more) \subseteq Of(p, jobsOf) \cup added
  <2>1. ASSUME NEW d \in Caller, NEW j \in more[d], j.project = p
        PROVE  <<d, j>> \in Of(p, jobsOf) \cup added
    BY <2>1, OfMembers DEF added
  <2> QED BY <2>1, OfMembers
<1>3. /\ IsFiniteSet(Of(p, jobsOf) \cup added)
      /\ Cardinality(Of(p, jobsOf) \cup added) <=
           Cardinality(Of(p, jobsOf)) + Cardinality(added)
  <2>1. /\ IsFiniteSet(Of(p, jobsOf) \cup added)
        /\ Cardinality(Of(p, jobsOf) \cup added) =
             Cardinality(Of(p, jobsOf)) + Cardinality(added)
               - Cardinality(Of(p, jobsOf) \cap added)
    BY <1>1, FS_Union DEF Covered
  <2>2. IsFiniteSet(Of(p, jobsOf) \cap added)
    BY <1>1, FS_Intersection
  <2>3. /\ Cardinality(Of(p, jobsOf) \cap added) \in Nat
        /\ Cardinality(Of(p, jobsOf)) \in Nat /\ Cardinality(added) \in Nat
    BY <1>1, <2>2, FS_CardinalityType DEF Covered
  <2> QED BY <2>1, <2>3
<1>4. /\ IsFiniteSet(Of(p, more))
      /\ Cardinality(Of(p, more)) <= Cardinality(Of(p, jobsOf) \cup added)
  BY <1>2, <1>3, FS_Subset
<1>5. /\ Cardinality(Of(p, more)) \in Nat /\ Cardinality(Of(p, jobsOf)) \in Nat
      /\ Cardinality(added) \in Nat /\ Cardinality(Of(p, jobsOf) \cup added) \in Nat
  BY <1>1, <1>3, <1>4, FS_CardinalityType DEF Covered
<1> QED BY <1>1, <1>3, <1>4, <1>5 DEF Covered

----------------------------------------------------------------------------
(***************************************************************************)
(* One request's step.                                                     *)
(***************************************************************************)
OthersStay(c) ==
  \A d \in Caller : d # c =>
    /\ request'[d] = request[d] /\ queued'[d] = queued[d]
    /\ lookup'[d] = lookup[d] /\ stamp'[d] = stamp[d]

LEMMA OthersAreOwedAsMuch ==
  ASSUME NEW c \in Caller, OthersStay(c)
  PROVE  \A d \in Caller : d # c => AllOwed'[d] = AllOwed[d]
<1> SUFFICES ASSUME NEW d \in Caller, d # c PROVE AllOwed'[d] = AllOwed[d]
  OBVIOUS
<1>1. request'[d] = request[d] /\ queued'[d] = queued[d] /\ lookup'[d] = lookup[d]
  BY DEF OthersStay
<1>2. Len(Items(d))' = Len(Items(d))
  BY <1>1 DEF Items
<1>3. JobsUpTo(d, Len(Items(d)))' = JobsUpTo(d, Len(Items(d)))
  BY <1>1, <1>2 DEF JobsUpTo
<1>4. Owed(d)' = Owed(d)
  BY <1>1, <1>3 DEF Owed
<1> QED BY <1>4 DEF AllOwed

LEMMA OthersStampsMatch ==
  ASSUME StampsMatch, NEW c \in Caller, OthersStay(c), DOMAIN stamp' = Caller,
         request'[c].at = "limit" =>
           /\ lookup'[c].project \in Project
           /\ stamp'[c].project = lookup'[c].project
           /\ stamp'[c].cost = Len(Read(request'[c].body).items)
  PROVE  StampsMatch'
<1> SUFFICES ASSUME NEW d \in Caller, request'[d].at = "limit"
             PROVE  /\ lookup'[d].project \in Project
                    /\ stamp'[d].project = lookup'[d].project
                    /\ stamp'[d].cost = Len(Read(request'[d].body).items)
  BY DEF StampsMatch, Items
<1>1. CASE d = c
  BY <1>1
<1>2. CASE d # c
  BY <1>2 DEF OthersStay, StampsMatch, Items
<1> QED BY <1>1, <1>2

\* Nothing is charged, and no request is owed more.
LEMMA QuietStepKeepsChargeInv ==
  ASSUME ChargeInv, StampsMatch', admitted' = admitted, uncharged' = uncharged,
         \A c \in Caller : AllOwed'[c] \subseteq AllOwed[c]
  PROVE  ChargeInv'
<1>1. ASSUME NEW p \in Project
      PROVE  Covered(p, AllOwed', admitted'[p] + uncharged'[p])
  <2>1. admitted[p] + uncharged[p] \in Nat
    BY DEF ChargeInv
  <2>2. Covered(p, AllOwed, admitted[p] + uncharged[p])
    BY DEF ChargeInv
  <2>3. Covered(p, AllOwed', admitted[p] + uncharged[p])
    BY <2>1, <2>2, FewerAreCovered
  <2> QED BY <2>3
<1>2. \A p \in Project : Covered(p, AllOwed, admitted[p] + uncharged[p])'
  BY <1>1 DEF Covered, Of, From
<1> QED BY <1>2 DEF ChargeInv

\* One request is let through, on a project's account or on nobody's.
LEMMA ChargingKeepsChargeInv ==
  ASSUME ChargeInv, StampsMatch', NEW c \in Caller, NEW n \in Nat, NEW p \in Project,
         \A d \in Caller : d # c => AllOwed'[d] \subseteq AllOwed[d],
         IsFiniteSet(AllOwed'[c]), Cardinality(AllOwed'[c]) <= n,
         \A j \in AllOwed'[c] : j.project = p,
         admitted' \in [Project -> Nat], uncharged' \in [Project -> Nat],
         \A q \in Project : q # p => admitted'[q] + uncharged'[q] = admitted[q] + uncharged[q],
         admitted'[p] + uncharged'[p] = admitted[p] + uncharged[p] + n
  PROVE  ChargeInv'
<1>1. ASSUME NEW q \in Project
      PROVE  Covered(q, AllOwed', admitted'[q] + uncharged'[q])
  <2>1. admitted[q] + uncharged[q] \in Nat /\ admitted[p] + uncharged[p] \in Nat
        /\ Covered(q, AllOwed, admitted[q] + uncharged[q])
    BY DEF ChargeInv
  <2>2. CASE q # p
    <3>1. Of(q, AllOwed') \subseteq Of(q, AllOwed)
      BY <2>2, OfMembers
    <3>2. /\ IsFiniteSet(Of(q, AllOwed'))
          /\ Cardinality(Of(q, AllOwed')) <= Cardinality(Of(q, AllOwed))
      BY <2>1, <3>1, FS_Subset DEF Covered
    <3>3. Cardinality(Of(q, AllOwed')) \in Nat /\ Cardinality(Of(q, AllOwed)) \in Nat
      BY <2>1, <3>2, FS_CardinalityType DEF Covered
    <3> QED BY <2>1, <2>2, <3>2, <3>3 DEF Covered
  <2>3. CASE q = p
    <3>1. Covered(p, AllOwed', admitted[p] + uncharged[p] + n)
      BY <2>1, <2>3, MoreAreCovered
    <3> QED BY <2>3, <3>1
  <2> QED BY <2>2, <2>3
<1>2. \A q \in Project : Covered(q, AllOwed, admitted[q] + uncharged[q])'
  BY <1>1 DEF Covered, Of, From
<1> QED BY <1>2 DEF ChargeInv

LEMMA InitChargeInv == GatewayInit => ChargeInv
<1> SUFFICES ASSUME GatewayInit PROVE ChargeInv
  OBVIOUS
<1>1. \A c \in Caller : AllOwed[c] = {} /\ request[c].at = "unsent"
  BY DEF GatewayInit, AllOwed, Owed, Unsent
<1>2. ASSUME NEW p \in Project PROVE Covered(p, AllOwed, admitted[p] + uncharged[p])
  <2>1. Of(p, AllOwed) = {}
    BY <1>1, OfMembers
  <2>2. admitted[p] = 0 /\ uncharged[p] = 0
    BY GatewayAssumption DEF GatewayInit, LimiterInit
  <2> QED BY <2>1, <2>2, FS_EmptySet DEF Covered
<1>3. admitted \in [Project -> Nat] /\ uncharged \in [Project -> Nat] /\ DOMAIN stamp = Caller
  BY GatewayAssumption DEF GatewayInit, LimiterInit
<1> QED BY <1>1, <1>2, <1>3 DEF ChargeInv, StampsMatch

----------------------------------------------------------------------------
(***************************************************************************)
(* The gateways' steps.                                                    *)
(***************************************************************************)
HandlerInv == CacheInv /\ AnswerInv /\ ChargeInv

LEMMA OwedIs ==
  ASSUME AnswerInv, NEW c \in Caller
  PROVE  /\ request[c].at # "publish" => AllOwed[c] = queued[c]
         /\ request[c].at = "publish" => AllOwed[c] = JobsUpTo(c, Len(Items(c)))
BY DEF AllOwed, Owed

\* A request that is not let through, and publishes nothing, is owed no more.
LEMMA UnchargedStepKeepsChargeInv ==
  ASSUME HandlerInv, NEW c \in Caller, OthersStay(c), DOMAIN stamp' = Caller,
         queued'[c] = queued[c], request[c].at # "publish",
         request'[c].at \notin {"limit", "publish"},
         admitted' = admitted, uncharged' = uncharged
  PROVE  ChargeInv'
<1>1. StampsMatch'
  BY OthersStampsMatch DEF HandlerInv, ChargeInv
<1>2. AllOwed[c] = queued[c] /\ AllOwed'[c] = queued'[c]
  BY DEF AllOwed, Owed
<1>3. \A d \in Caller : AllOwed'[d] \subseteq AllOwed[d]
  BY <1>2, OthersAreOwedAsMuch
<1> QED BY <1>1, <1>3, QuietStepKeepsChargeInv DEF HandlerInv

LEMMA ReceivingKeepsChargeInv ==
  ASSUME HandlerInv, NEW c \in Caller, NEW g \in Gateway, NEW k \in Key,
         NEW path \in Project, Receive(c, g, k, path)
  PROVE  ChargeInv'
<1>1. OthersStay(c)
  BY DEF HandlerInv, AnswerInv, CacheInv, LookupsOK, Receive, StartLookup, OthersStay
<1>2. request[c].at = "unsent" /\ request'[c].at = "auth"
  BY DEF HandlerInv, AnswerInv, Receive, Unsent
<1>3. DOMAIN stamp' = Caller /\ queued' = queued /\ admitted' = admitted /\ uncharged' = uncharged
  BY DEF HandlerInv, ChargeInv, StampsMatch, Receive, limiterTables
<1> QED BY <1>1, <1>2, <1>3, UnchargedStepKeepsChargeInv

LEMMA LookingUpKeepsChargeInv ==
  ASSUME HandlerInv, NEW c \in Caller, LookUp(c)
  PROVE  ChargeInv'
<1>1. OthersStay(c)
  BY DEF HandlerInv, CacheInv, LookupsOK, LookUp, ProjectByIngestKey, LookupFails, Put, Answered,
         requestVars, OthersStay
<1>2. request[c].at = "auth" /\ request' = request
  BY DEF LookUp, requestVars
<1>3. DOMAIN stamp' = Caller /\ queued' = queued /\ admitted' = admitted /\ uncharged' = uncharged
  BY DEF HandlerInv, ChargeInv, StampsMatch, LookUp, limiterTables, requestVars
<1> QED BY <1>1, <1>2, <1>3, UnchargedStepKeepsChargeInv

LEMMA RefusingKeepsChargeInv ==
  ASSUME HandlerInv, NEW c \in Caller,
         Maladdressed(c) \/ TurnAway(c) \/ \E body \in Bodies : NothingToDo(c, body)
  PROVE  ChargeInv'
<1>1. PICK status, accepted, skipped : AnswerCounts(c, status, accepted, skipped)
  BY DEF Maladdressed, TurnAway, NothingToDo, Answer
<1>2. request'[c].at = "answered" /\ \A d \in Caller : d # c => request'[d] = request[d]
  BY <1>1 DEF HandlerInv, AnswerInv, AnswerCounts, Reply
<1>3. request[c].at \in {"unsent", "auth"}
  BY DEF Maladdressed, TurnAway, NothingToDo, Authenticated, Unsent
<1>4. /\ queued' = queued /\ admitted' = admitted /\ uncharged' = uncharged
      /\ stamp' = stamp /\ \A d \in Caller : d # c => lookup'[d] = lookup[d]
  BY DEF HandlerInv, CacheInv, LookupsOK, Maladdressed, TurnAway, NothingToDo, Forget, limiterTables,
         cacheVars
<1>5. DOMAIN stamp' = Caller
  BY <1>4 DEF HandlerInv, ChargeInv, StampsMatch
<1>6. OthersStay(c)
  BY <1>2, <1>4 DEF OthersStay
<1> QED BY <1>2, <1>3, <1>4, <1>5, <1>6, UnchargedStepKeepsChargeInv

LEMMA AskingKeepsChargeInv ==
  ASSUME HandlerInv, NEW c \in Caller, NEW body \in Bodies, AskLimiter(c, body)
  PROVE  ChargeInv'
<1>1. /\ request'[c].at = "limit" /\ request'[c].body = body
      /\ request[c].at = "auth"
      /\ \A d \in Caller : d # c => request'[d] = request[d]
  <2>1. request[c] \in Request
    BY DEF HandlerInv, AnswerInv
  <2> QED BY <2>1 DEF HandlerInv, AnswerInv, AskLimiter, Authenticated, Request
<1>2. /\ DOMAIN stamp' = Caller
      /\ stamp'[c].project = lookup[c].project
      /\ stamp'[c].cost = Len(Read(body).items)
      /\ \A d \in Caller : d # c => stamp'[d] = stamp[d]
  BY DEF HandlerInv, ChargeInv, StampsMatch, AskLimiter, ReadClock
<1>3. lookup[c].project \in Project
  BY DEF HandlerInv, CacheInv, LookupsOK, AskLimiter, Authenticated
<1>4. lookup' = lookup /\ queued' = queued /\ admitted' = admitted /\ uncharged' = uncharged
  BY DEF AskLimiter, ReadClock, cacheVars
<1>5. OthersStay(c)
  BY <1>1, <1>2, <1>4 DEF OthersStay
<1>6. StampsMatch'
  BY <1>1, <1>2, <1>3, <1>4, <1>5, OthersStampsMatch DEF HandlerInv, ChargeInv
<1>7. AllOwed[c] = queued[c] /\ AllOwed'[c] = queued'[c]
  BY <1>1 DEF AllOwed, Owed
<1>8. \A d \in Caller : AllOwed'[d] \subseteq AllOwed[d]
  BY <1>4, <1>5, <1>7, OthersAreOwedAsMuch
<1> QED BY <1>4, <1>6, <1>8, QuietStepKeepsChargeInv DEF HandlerInv

\* The pipeline takes some of the jobs that are owed, and the rest is not owed
\* any more.
LEMMA PublishingKeepsChargeInv ==
  ASSUME HandlerInv, NEW c \in Caller, Publish(c) \/ PublishFails(c)
  PROVE  ChargeInv'
<1>1. PICK status, accepted, skipped : AnswerCounts(c, status, accepted, skipped)
  BY DEF Publish, PublishFails, Answer
<1>2. request'[c].at = "answered" /\ \A d \in Caller : d # c => request'[d] = request[d]
  BY <1>1 DEF HandlerInv, AnswerInv, AnswerCounts, Reply
<1>3. Len(Items(c)) \in Nat
  BY BodiesGiveItems DEF HandlerInv, AnswerInv, Items, Publish, PublishFails
<1>4. /\ queued'[c] \subseteq JobsUpTo(c, Len(Items(c)))
      /\ \A d \in Caller : d # c => queued'[d] = queued[d]
  <2>1. PICK n \in 0 .. Len(Items(c)) : queued' = [queued EXCEPT ![c] = JobsUpTo(c, n)]
    BY <1>3 DEF Publish, PublishFails
  <2>2. JobsUpTo(c, n) \subseteq JobsUpTo(c, Len(Items(c)))
    BY <1>3, <2>1 DEF JobsUpTo
  <2> QED BY <2>1, <2>2 DEF HandlerInv, AnswerInv
<1>5. /\ admitted' = admitted /\ uncharged' = uncharged /\ stamp' = stamp
      /\ \A d \in Caller : d # c => lookup'[d] = lookup[d]
  BY DEF HandlerInv, CacheInv, LookupsOK, Publish, PublishFails, KeepsLookup, Forget, limiterTables
<1>6. OthersStay(c)
  BY <1>2, <1>4, <1>5 DEF OthersStay
<1>7. StampsMatch'
  BY <1>2, <1>5, <1>6, OthersStampsMatch DEF HandlerInv, ChargeInv, StampsMatch
<1>8. AllOwed[c] = JobsUpTo(c, Len(Items(c))) /\ AllOwed'[c] = queued'[c]
  <2>1. request[c].at = "publish"
    BY DEF Publish, PublishFails
  <2> QED BY <1>2, <2>1 DEF AllOwed, Owed
<1>9. \A d \in Caller : AllOwed'[d] \subseteq AllOwed[d]
  BY <1>4, <1>6, <1>8, OthersAreOwedAsMuch
<1> QED BY <1>5, <1>7, <1>9, QuietStepKeepsChargeInv DEF HandlerInv

----------------------------------------------------------------------------
(***************************************************************************)
(* Letting a request through.                                              *)
(***************************************************************************)
LEMMA ProceedingOwesItems ==
  ASSUME HandlerInv, NEW c \in Caller, request[c].at = "limit", Proceed(c), KeepsLookup(c),
         queued' = queued
  PROVE  /\ request'[c].at # "limit"
         /\ \A d \in Caller : d # c => request'[d] = request[d] /\ lookup'[d] = lookup[d]
         /\ IsFiniteSet(AllOwed'[c]) /\ Cardinality(AllOwed'[c]) <= Len(Items(c))
         /\ \A j \in AllOwed'[c] : j.project = lookup[c].project
<1>1. request[c] \in Request /\ queued[c] = {} /\ Len(Items(c)) \in Nat
  BY BodiesGiveItems DEF HandlerInv, AnswerInv, Items
<1>2. \A d \in Caller : d # c => lookup'[d] = lookup[d]
  BY DEF HandlerInv, CacheInv, LookupsOK, KeepsLookup, Forget
<1>3. CASE AllEncodable(c)
  <2>1. /\ request'[c].at = "publish" /\ request'[c].body = request[c].body
        /\ \A d \in Caller : d # c => request'[d] = request[d]
    BY <1>1, <1>3 DEF HandlerInv, AnswerInv, Proceed, Request
  <2>2. lookup' = lookup
    BY <2>1 DEF KeepsLookup
  <2>3. Len(Items(c))' = Len(Items(c))
    BY <2>1 DEF Items
  <2>4. JobsUpTo(c, Len(Items(c)))' = JobsUpTo(c, Len(Items(c)))
    BY <2>2, <2>3 DEF JobsUpTo
  <2>5. AllOwed'[c] = JobsUpTo(c, Len(Items(c)))
    BY <2>1, <2>4 DEF AllOwed, Owed
  <2>6. IsFiniteSet(AllOwed'[c]) /\ Cardinality(AllOwed'[c]) = Len(Items(c))
    BY <1>1, <2>5, JobsAreCounted
  <2>7. \A j \in AllOwed'[c] : j.project = lookup[c].project
    BY <2>5 DEF JobsUpTo
  <2> QED BY <1>1, <1>2, <2>1, <2>6, <2>7
<1>4. CASE ~AllEncodable(c)
  <2>1. /\ request'[c].at = "answered"
        /\ \A d \in Caller : d # c => request'[d] = request[d]
    BY <1>4 DEF HandlerInv, AnswerInv, Proceed, Answer, AnswerCounts, Reply
  <2>2. AllOwed'[c] = {}
    BY <1>1, <2>1 DEF AllOwed, Owed
  <2>3. IsFiniteSet(AllOwed'[c]) /\ Cardinality(AllOwed'[c]) = 0
    BY <2>2, FS_EmptySet
  <2> QED BY <1>1, <1>2, <2>1, <2>2, <2>3
<1> QED BY <1>3, <1>4

LEMMA LimitingKeepsChargeInv ==
  ASSUME HandlerInv, NEW c \in Caller, Limited(c)
  PROVE  ChargeInv'
<1> DEFINE n == Len(Items(c))
           p == lookup[c].project
<1>1. /\ request[c].at = "limit" /\ queued' = queued /\ uncharged' = uncharged
      /\ KeepsLookup(c) /\ RunScript(c)
  BY DEF Limited
<1>2. n \in Nat
  BY <1>1, BodiesGiveItems DEF HandlerInv, AnswerInv, Items
<1>3. p \in Project /\ stamp[c].project = p /\ stamp[c].cost = n
  BY <1>1 DEF HandlerInv, ChargeInv, StampsMatch
<1>4. /\ DOMAIN stamp' = Caller /\ \A d \in Caller : d # c => stamp'[d] = stamp[d]
  BY <1>1 DEF HandlerInv, ChargeInv, StampsMatch, RunScript
<1>5. CASE Allows(stamp[c].project, stamp[c].now, stamp[c].cost)
  <2>1. Proceed(c)
    BY <1>5 DEF Limited
  <2>2. /\ request'[c].at # "limit"
        /\ \A d \in Caller : d # c => request'[d] = request[d] /\ lookup'[d] = lookup[d]
        /\ IsFiniteSet(AllOwed'[c]) /\ Cardinality(AllOwed'[c]) <= n
        /\ \A j \in AllOwed'[c] : j.project = p
    BY <1>1, <2>1, ProceedingOwesItems
  <2>3. OthersStay(c)
    BY <1>1, <1>4, <2>2 DEF OthersStay
  <2>4. StampsMatch'
    BY <1>4, <2>2, <2>3, OthersStampsMatch DEF HandlerInv, ChargeInv
  <2>5. /\ admitted' = [admitted EXCEPT ![p] = @ + n]
        /\ admitted \in [Project -> Nat] /\ uncharged \in [Project -> Nat]
    BY <1>1, <1>3, <1>5 DEF HandlerInv, ChargeInv, RunScript
  <2> HIDE DEF n, p
  <2>6. /\ admitted' \in [Project -> Nat] /\ uncharged' \in [Project -> Nat]
        /\ \A q \in Project : q # p =>
             admitted'[q] + uncharged'[q] = admitted[q] + uncharged[q]
        /\ admitted'[p] + uncharged'[p] = admitted[p] + uncharged[p] + n
    BY <1>1, <1>2, <1>3, <2>5
  <2>7. \A d \in Caller : d # c => AllOwed'[d] \subseteq AllOwed[d]
    BY <2>3, OthersAreOwedAsMuch
  <2> QED BY <1>2, <1>3, <2>2, <2>4, <2>6, <2>7, ChargingKeepsChargeInv DEF HandlerInv
<1>6. CASE ~Allows(stamp[c].project, stamp[c].now, stamp[c].cost)
  <2>1. /\ request'[c].at = "answered"
        /\ \A d \in Caller : d # c => request'[d] = request[d]
    BY <1>6 DEF HandlerInv, AnswerInv, Limited, Answer, AnswerCounts, Reply
  <2>2. \A d \in Caller : d # c => lookup'[d] = lookup[d]
    BY <1>1 DEF HandlerInv, CacheInv, LookupsOK, KeepsLookup, Forget
  <2>3. OthersStay(c)
    BY <1>1, <1>4, <2>1, <2>2 DEF OthersStay
  <2>4. admitted' = admitted
    <3>1. /\ admitted' = [admitted EXCEPT ![p] = @ + 0]
          /\ admitted \in [Project -> Nat]
      BY <1>1, <1>3, <1>6 DEF HandlerInv, ChargeInv, RunScript
    <3> HIDE DEF p
    <3> QED BY <1>3, <3>1
  <2> QED BY <1>1, <1>4, <2>1, <2>3, <2>4, UnchargedStepKeepsChargeInv
<1> QED BY <1>5, <1>6

LEMMA LettingThroughKeepsChargeInv ==
  ASSUME HandlerInv, NEW c \in Caller, LimiterDown(c)
  PROVE  ChargeInv'
<1> DEFINE n == Len(Items(c))
           p == lookup[c].project
<1>1. /\ request[c].at = "limit" /\ queued' = queued /\ admitted' = admitted
      /\ KeepsLookup(c) /\ Proceed(c) /\ ScriptFails(c)
      /\ uncharged' = [uncharged EXCEPT ![p] = @ + n]
  BY DEF LimiterDown, ScriptFails
<1>2. n \in Nat
  BY <1>1, BodiesGiveItems DEF HandlerInv, AnswerInv, Items
<1>3. p \in Project
  BY <1>1 DEF HandlerInv, ChargeInv, StampsMatch
<1>4. /\ DOMAIN stamp' = Caller /\ \A d \in Caller : d # c => stamp'[d] = stamp[d]
  BY <1>1 DEF HandlerInv, ChargeInv, StampsMatch, ScriptFails
<1>5. /\ request'[c].at # "limit"
      /\ \A d \in Caller : d # c => request'[d] = request[d] /\ lookup'[d] = lookup[d]
      /\ IsFiniteSet(AllOwed'[c]) /\ Cardinality(AllOwed'[c]) <= n
      /\ \A j \in AllOwed'[c] : j.project = p
  BY <1>1, ProceedingOwesItems
<1>6. OthersStay(c)
  BY <1>1, <1>4, <1>5 DEF OthersStay
<1>7. StampsMatch'
  BY <1>4, <1>5, <1>6, OthersStampsMatch DEF HandlerInv, ChargeInv
<1>8. admitted \in [Project -> Nat] /\ uncharged \in [Project -> Nat]
  BY DEF HandlerInv, ChargeInv
<1> HIDE DEF n, p
<1>9. /\ admitted' \in [Project -> Nat] /\ uncharged' \in [Project -> Nat]
      /\ \A q \in Project : q # p =>
           admitted'[q] + uncharged'[q] = admitted[q] + uncharged[q]
      /\ admitted'[p] + uncharged'[p] = admitted[p] + uncharged[p] + n
  BY <1>1, <1>2, <1>3, <1>8
<1>10. \A d \in Caller : d # c => AllOwed'[d] \subseteq AllOwed[d]
  BY <1>6, OthersAreOwedAsMuch
<1> QED BY <1>2, <1>3, <1>5, <1>7, <1>9, <1>10, ChargingKeepsChargeInv DEF HandlerInv

\* What was cut off owes nothing: it had published nothing.
LEMMA RestartKeepsChargeInv ==
  ASSUME HandlerInv, NEW g \in Gateway, Restart(g)
  PROVE  ChargeInv'
<1>1. \A c \in Caller :
        IF UnderWay(c, g)
        THEN request'[c].at = "cut"
        ELSE request'[c] = request[c] /\ lookup'[c] = lookup[c] /\ stamp'[c] = stamp[c]
  BY DEF Restart, GiveUp, Unsent
<1>2. /\ DOMAIN stamp' = Caller /\ admitted' = admitted /\ uncharged' = uncharged
      /\ queued' = queued
  BY DEF Restart, GiveUp
<1>3. ASSUME NEW c \in Caller PROVE AllOwed'[c] \subseteq AllOwed[c]
  <2>1. CASE UnderWay(c, g)
    <3>1. queued[c] = {} /\ AllOwed'[c] = queued'[c]
      BY <1>1, <2>1 DEF HandlerInv, AnswerInv, UnderWay, AllOwed, Owed
    <3> QED BY <1>2, <3>1
  <2>2. CASE ~UnderWay(c, g)
    <3>1. Len(Items(c))' = Len(Items(c))
      BY <1>1, <2>2 DEF Items
    <3>2. JobsUpTo(c, Len(Items(c)))' = JobsUpTo(c, Len(Items(c)))
      BY <1>1, <2>2, <3>1 DEF JobsUpTo
    <3> QED BY <1>1, <1>2, <2>2, <3>2 DEF AllOwed, Owed
  <2> QED BY <2>1, <2>2
<1>4. StampsMatch'
  <2> SUFFICES ASSUME NEW c \in Caller, request'[c].at = "limit"
               PROVE  /\ lookup'[c].project \in Project
                      /\ stamp'[c].project = lookup'[c].project
                      /\ stamp'[c].cost = Len(Read(request'[c].body).items)
    BY <1>2 DEF StampsMatch, Items
  <2> QED BY <1>1 DEF HandlerInv, ChargeInv, StampsMatch, Items
<1> QED BY <1>2, <1>3, <1>4, QuietStepKeepsChargeInv DEF HandlerInv

LEMMA NextKeepsChargeInv == HandlerInv /\ [GatewayNext]_gatewayVars => ChargeInv'
<1> SUFFICES ASSUME HandlerInv, [GatewayNext]_gatewayVars PROVE ChargeInv'
  OBVIOUS
<1>1. ASSUME UNCHANGED <<requestVars, lookup, stamp, admitted>> PROVE ChargeInv'
  <2>1. /\ request' = request /\ queued' = queued /\ uncharged' = uncharged
        /\ lookup' = lookup /\ stamp' = stamp /\ admitted' = admitted
    BY <1>1 DEF requestVars
  <2>2. \A c \in Caller : Items(c)' = Items(c)
    BY <2>1 DEF Items
  <2>3. StampsMatch'
    BY <2>1, <2>2 DEF HandlerInv, ChargeInv, StampsMatch
  <2>4. AllOwed' = AllOwed
    BY <2>1 DEF AllOwed, Owed, Items, JobsUpTo
  <2> QED BY <2>1, <2>3, <2>4, QuietStepKeepsChargeInv DEF HandlerInv
<1>2. ASSUME KeyChange \/ GatewayTick \/ UNCHANGED gatewayVars
      PROVE  UNCHANGED <<requestVars, lookup, stamp, admitted>>
  BY <1>2 DEF KeyChange, ControlPlane, GatewayTick, Tick, gatewayVars, cacheVars, requestVars,
              limiterTables
<1> QED BY <1>1, <1>2, ReceivingKeepsChargeInv, LookingUpKeepsChargeInv,
           RefusingKeepsChargeInv, AskingKeepsChargeInv, LimitingKeepsChargeInv,
           LettingThroughKeepsChargeInv, PublishingKeepsChargeInv, RestartKeepsChargeInv
        DEF GatewayNext, HandlerStep

LEMMA ChargeInvSuffices == HandlerInv => EveryJobIsCharged
<1> SUFFICES ASSUME HandlerInv, NEW p \in Project PROVE JobsOf(p) <= admitted[p] + uncharged[p]
  BY DEF EveryJobIsCharged
<1> DEFINE inStream == UNION {JobsFrom(c, p) : c \in Caller}
<1>1. inStream = Of(p, queued)
  BY DEF Of, From, JobsFrom
<1>2. \A c \in Caller : queued[c] \subseteq AllOwed[c]
  BY DEF HandlerInv, AnswerInv, AllOwed, Owed
<1>3. admitted[p] + uncharged[p] \in Nat /\ Covered(p, AllOwed, admitted[p] + uncharged[p])
  BY DEF HandlerInv, ChargeInv
<1>4. Covered(p, queued, admitted[p] + uncharged[p])
  BY <1>2, <1>3, FewerAreCovered
<1> QED BY <1>1, <1>4 DEF Covered, JobsOf

\* However the requests of a project interleave, at whatever gateways, and
\* whatever fails: no more of its jobs enter the stream than its bucket paid
\* for, and than came while Redis did not answer the limiter.
THEOREM GatewaysChargeEveryJob == GatewaySpec => []EveryJobIsCharged
<1>1. GatewayInit => HandlerInv
  BY InitCacheInv, InitAnswerInv, InitChargeInv DEF HandlerInv
<1>2. HandlerInv /\ [GatewayNext]_gatewayVars => HandlerInv'
  BY NextKeepsCacheInv, NextKeepsAnswerInv, NextKeepsChargeInv DEF HandlerInv
<1> QED BY <1>1, <1>2, ChargeInvSuffices, PTL DEF GatewaySpec
=============================================================================
