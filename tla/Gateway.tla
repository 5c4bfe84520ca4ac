------------------------------ MODULE Gateway ------------------------------
(***************************************************************************)
(* The ingest gateways (internal/gateway, cmd/gateway): handleEnvelope as  *)
(* a request that goes through the key cache, the parser, the rate limiter *)
(* and the queue, each of them shared with every other request, while      *)
(* people mint and revoke keys and a gateway is restarted.                 *)
(*                                                                         *)
(* A Caller is one request.  Headers other than the key, the response body *)
(* beyond its counts, CORS and the routes are left out.                    *)
(***************************************************************************)
EXTENDS IngestKeys, RateLimiter, Envelope

CONSTANTS
  Bodies,       \* the bodies clients send: units, and how the body ends
  FirstProject, \* the customer that has a key from the start,
  FirstKey,     \* and that key
  MaxRestarts   \* bound of the model

ASSUME GatewayAssumption ==
  Tenant = Project /\ FirstProject \in Project /\ FirstKey \in Key

\* A body is whatever bytes a client sends.
ASSUME BodiesAssumption ==
  \A body \in Bodies : body.units \in Seq(Unit)

VARIABLES
  request,    \* per caller: how far the handler is, what was sent, what is answered
  queued,     \* per caller: the jobs that reached the stream
  uncharged,  \* history: jobs of requests let through while Redis did not answer
  restarts    \* gateways restarted

requestVars == <<request, queued, uncharged, restarts>>
gatewayVars == <<clock, projectVars, cacheVars, bucket, stamp, admitted, opened,
                 setback, promise, requestVars>>

NoBody == [units |-> <<>>, end |-> "cut"]
Unsent == [at |-> "unsent", path |-> NoProject, body |-> NoBody,
           status |-> 0, accepted |-> 0, skipped |-> 0]

\* The customers are there, and one of them has a key.
GatewayInit ==
  /\ project = [p \in Project |-> "live"]
  /\ key = [k \in Key |-> IF k = FirstKey THEN [project |-> FirstProject, state |-> "live"]
                          ELSE [project |-> NoProject, state |-> "unminted"]]
  /\ excused = Project \ {FirstProject}
  /\ admin = [a \in Admin |-> Idle]
  /\ jobs = {} /\ rows = [p \in Project |-> {}] /\ purged = {}
  /\ late = {} /\ submitted = {} /\ pending = {}
  /\ IngestKeysInit
  /\ LimiterInit
  /\ request = [c \in Caller |-> Unsent]
  /\ queued = [c \in Caller |-> {}]
  /\ uncharged = [p \in Project |-> 0]
  /\ restarts = 0

limiterTables == <<bucket, admitted, opened, setback, promise>>

----------------------------------------------------------------------------
(***************************************************************************)
(* handleEnvelope.                                                         *)
(***************************************************************************)
Reply(status, accepted, skipped) ==
  [at |-> "answered", path |-> NoProject, body |-> NoBody,
   status |-> status, accepted |-> accepted, skipped |-> skipped]
AnswerCounts(c, status, accepted, skipped) ==
  request' = [request EXCEPT ![c] = Reply(status, accepted, skipped)]
Answer(c, status) == AnswerCounts(c, status, 0, 0)

\* What Authenticate found is kept until the handler is through.
KeepsLookup(c) ==
  /\ IF request'[c].at = "answered" THEN Forget(c) ELSE UNCHANGED lookup
  /\ UNCHANGED <<cache, changed>>

Readings    == [body \in Bodies \cup {NoBody} |-> Parse(body.units, body.end)]
Read(body)  == Readings[body]
Items(c)    == Read(request[c].body).items

\* toHTTPError.
StatusOf(verdict) == IF verdict = "too large" THEN 413 ELSE 400

Receive(c, g, k, path) ==
  /\ request[c] = Unsent
  /\ request' = [request EXCEPT ![c].at = "auth", ![c].path = path]
  /\ StartLookup(c, g, k)
  /\ UNCHANGED <<clock, projectVars, limiterTables, stamp, queued, uncharged, restarts>>

\* A project id that is no number, or a key without its prefix.
Maladdressed(c) ==
  /\ request[c] = Unsent
  /\ Answer(c, 401)
  /\ UNCHANGED <<clock, projectVars, cacheVars, limiterTables, stamp, queued, uncharged, restarts>>

LookUp(c) ==
  /\ request[c].at = "auth"
  /\ ProjectByIngestKey(c) \/ LookupFails(c) \/ Put(c)
  /\ UNCHANGED <<clock, projectVars, limiterTables, stamp, requestVars>>

Denied(c) ==
  \/ lookup[c].at = "denied"
  \/ lookup[c].at = "found" /\ lookup[c].project # request[c].path

\* A key that is none, or of another project; or nobody can tell.
TurnAway(c) ==
  /\ request[c].at = "auth"
  /\ \/ Denied(c) /\ Answer(c, 401)
     \/ lookup[c].at = "down" /\ Answer(c, 503)
  /\ Forget(c)
  /\ UNCHANGED <<clock, projectVars, cache, changed, limiterTables, stamp,
                 queued, uncharged, restarts>>

Authenticated(c) == request[c].at = "auth" /\ lookup[c].at = "found" /\ ~Denied(c)

\* The body, which is read only now, is refused, or holds nothing this build
\* takes.
NothingToDo(c, body) ==
  /\ Authenticated(c)
  /\ \/ /\ Read(body).verdict # "ok"
        /\ Answer(c, StatusOf(Read(body).verdict))
     \/ /\ Read(body).verdict = "ok" /\ Read(body).items = <<>>
        /\ AnswerCounts(c, 200, 0, Read(body).skipped)
  /\ Forget(c)
  /\ UNCHANGED <<clock, projectVars, cache, changed, limiterTables, stamp,
                 queued, uncharged, restarts>>

\* Mutant: an envelope is charged as one item.
AskLimiterForOne(c, body) ==
  /\ Authenticated(c)
  /\ Read(body).items # <<>>
  /\ ReadClock(c, lookup[c].project, 1)
  /\ request' = [request EXCEPT ![c].at = "limit", ![c].body = body]
  /\ UNCHANGED <<projectVars, cacheVars, queued, uncharged, restarts>>

\* The limiter is asked for as many tokens as there are items.
AskLimiter(c, body) ==
  /\ Authenticated(c)
  /\ Read(body).items # <<>>
  /\ ReadClock(c, lookup[c].project, Len(Read(body).items))
  /\ request' = [request EXCEPT ![c].at = "limit", ![c].body = body]
  /\ UNCHANGED <<projectVars, cacheVars, queued, uncharged, restarts>>

AllEncodable(c) == \A i \in DOMAIN Items(c) : Encodable(Items(c)[i].payload)

\* Past the limiter every item is encoded, and one that cannot be ends it all.
Proceed(c) ==
  IF AllEncodable(c)
  THEN request' = [request EXCEPT ![c].at = "publish"]
  ELSE Answer(c, 500)

Limited(c) ==
  /\ request[c].at = "limit"
  /\ IF Allows(stamp[c].project, stamp[c].now, stamp[c].cost)
     THEN Proceed(c) ELSE Answer(c, 429)
  /\ RunScript(c)
  /\ KeepsLookup(c)
  /\ UNCHANGED <<projectVars, queued, uncharged, restarts>>

\* The limiter does not answer: the request is let through.
LimiterDown(c) ==
  /\ request[c].at = "limit"
  /\ ScriptFails(c)
  /\ Proceed(c)
  /\ uncharged' = [uncharged EXCEPT ![lookup[c].project] = @ + Len(Items(c))]
  /\ KeepsLookup(c)
  /\ UNCHANGED <<projectVars, queued, restarts>>

\* A job names the project its key was resolved to, and the item.
JobsUpTo(c, n) ==
  {[project |-> lookup[c].project, item |-> i] : i \in 1 .. n}

Publish(c) ==
  /\ request[c].at = "publish"
  /\ queued' = [queued EXCEPT ![c] = JobsUpTo(c, Len(Items(c)))]
  /\ AnswerCounts(c, 200, Len(Items(c)), Read(request[c].body).skipped)
  /\ KeepsLookup(c)
  /\ UNCHANGED <<clock, projectVars, limiterTables, stamp, uncharged, restarts>>

\* Mutant: the error of the pipeline is not looked at.
PublishFailsUnseen(c) ==
  /\ request[c].at = "publish"
  /\ \E n \in 0 .. Len(Items(c)) : queued' = [queued EXCEPT ![c] = JobsUpTo(c, n)]
  /\ AnswerCounts(c, 200, Len(Items(c)), Read(request[c].body).skipped)
  /\ KeepsLookup(c)
  /\ UNCHANGED <<clock, projectVars, limiterTables, stamp, uncharged, restarts>>

\* The pipeline reports an error; some jobs, or all, may have arrived.
PublishFails(c) ==
  /\ request[c].at = "publish"
  /\ \E n \in 0 .. Len(Items(c)) : queued' = [queued EXCEPT ![c] = JobsUpTo(c, n)]
  /\ Answer(c, 503)
  /\ KeepsLookup(c)
  /\ UNCHANGED <<clock, projectVars, limiterTables, stamp, uncharged, restarts>>

HandlerStep(c) ==
  \/ LookUp(c) \/ TurnAway(c)
  \/ \E body \in Bodies : NothingToDo(c, body) \/ AskLimiter(c, body)
  \/ Limited(c) \/ LimiterDown(c) \/ Publish(c) \/ PublishFails(c)

----------------------------------------------------------------------------
\* A gateway is stopped.  Shutdown waits for its requests; those that take
\* longer are cut off, without an answer.  The cache is gone.
UnderWay(c, g) == lookup[c].gateway = g /\ request[c].at \in {"auth", "limit", "publish"}

Restart(g) ==
  /\ restarts < MaxRestarts
  /\ restarts' = restarts + 1
  /\ EmptyCache(g)
  /\ request' = [c \in Caller |-> IF UnderWay(c, g) THEN [Unsent EXCEPT !.at = "cut"]
                                  ELSE request[c]]
  /\ lookup' = [c \in Caller |-> IF UnderWay(c, g) THEN NoLookup ELSE lookup[c]]
  /\ GiveUp({c \in Caller : UnderWay(c, g)})
  /\ UNCHANGED <<projectVars, changed, queued, uncharged>>

KeyChange == ControlPlane /\ UNCHANGED <<limiterTables, stamp, requestVars>>

GatewayTick ==
  /\ LookupsInTime
  /\ Tick
  /\ UNCHANGED <<projectVars, cacheVars, requestVars>>

GatewayNext ==
  \/ \E c \in Caller :
       \/ \E g \in Gateway, k \in Key, path \in Project : Receive(c, g, k, path)
       \/ Maladdressed(c)
       \/ HandlerStep(c)
  \/ \E g \in Gateway : Restart(g)
  \/ KeyChange
  \/ GatewayTick

GatewaySpec == GatewayInit /\ [][GatewayNext]_gatewayVars

----------------------------------------------------------------------------
(***************************************************************************)
(* Properties.                                                             *)
(***************************************************************************)
\* The jobs of a project in the stream, whosever requests they came with.
JobsFrom(c, p) == {c} \X {j \in queued[c] : j.project = p}
JobsOf(p)      == Cardinality(UNION {JobsFrom(c, p) : c \in Caller})

\* What the client is told is what happened (gateway.go:207-219): under a 200
\* every item the count names is in the stream, and under any other answer but
\* 503 nothing is.
AnswersAreTrue ==
  \A c \in Caller : request[c].at = "answered" =>
    /\ request[c].status = 200 => Cardinality(queued[c]) = request[c].accepted
    /\ queued[c] # {} => request[c].status \in {200, 503}

\* Nothing enters the stream beyond what the bucket handed out, but for the
\* requests let through while Redis did not answer (gateway.go:164-183).
EveryJobIsCharged ==
  \A p \in Project : JobsOf(p) <= admitted[p] + uncharged[p]

\* The answer to a body that can never be taken is 4xx (envelope/errors.go:8-11).
NeverServerError == \A c \in Caller : request[c].status # 500
=============================================================================
