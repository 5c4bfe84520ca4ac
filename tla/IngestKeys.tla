----------------------------- MODULE IngestKeys -----------------------------
(***************************************************************************)
(* The gateways' caches of ingest keys (internal/auth/ingestkey.go) over   *)
(* the keys of Projects.  A lookup reads the cache, the database and the   *)
(* clock in three steps, without a lock around them, and nobody outside    *)
(* the tests calls Invalidate, so an entry ends by its expiry alone.       *)
(***************************************************************************)
EXTENDS Projects, Clock

CONSTANTS
  Gateway,
  TTL,         \* cacheTTL
  NegativeTTL, \* negativeCacheTTL
  MaxLookup    \* bound of the model: ticks from the database's answer to put

ASSUME IngestKeysAssumption == TTL \in Nat /\ NegativeTTL \in Nat /\ MaxLookup \in Nat

VARIABLES
  cache,      \* per gateway and key: found, whose, until when
  lookup,     \* per request: how far Authenticate is, and what it found
  changed     \* history: per key, when its state last changed

cacheVars == <<cache, lookup, changed>>

NoEntry  == [held |-> FALSE, found |-> FALSE, project |-> NoProject, expires |-> 0]
Entry(found, p, expires) ==
  [held |-> TRUE, found |-> found, project |-> p, expires |-> expires]

NoLookup == [at |-> "none", gateway |-> "none", key |-> NoKey,
             found |-> FALSE, project |-> NoProject, since |-> 0]

IngestKeysInit ==
  /\ cache = [g \in Gateway |-> [k \in Key |-> NoEntry]]
  /\ lookup = [c \in Caller |-> NoLookup]
  /\ changed = [k \in Key |-> 0]

----------------------------------------------------------------------------
\* lookupCache: an entry is good up to and including its expiry.
Fresh(entry) == entry.held /\ clock <= entry.expires

Answered(c, found, p) ==
  lookup' = [lookup EXCEPT ![c].at = IF found THEN "found" ELSE "denied", ![c].project = p]

StartLookup(c, g, k) ==
  /\ lookup[c] = NoLookup
  /\ LET entry == cache[g][k]
         asked == [NoLookup EXCEPT !.gateway = g, !.key = k]
     IN  lookup' = [lookup EXCEPT ![c] =
           IF ~Fresh(entry) THEN [asked EXCEPT !.at = "query"]
           ELSE IF entry.found
                THEN [asked EXCEPT !.at = "found", !.project = entry.project]
                ELSE [asked EXCEPT !.at = "denied"]]
  /\ UNCHANGED <<cache, changed>>

\* ProjectByIngestKey: a live key and its project, or no row.
ProjectByIngestKey(c) ==
  LET row == key[lookup[c].key]  live == row.state = "live"  IN
  /\ lookup[c].at = "query"
  /\ lookup' = [lookup EXCEPT ![c].at = "put", ![c].found = live, ![c].since = clock,
                              ![c].project = IF live THEN row.project ELSE NoProject]
  /\ UNCHANGED <<cache, changed>>

\* The database is down: an error of its own, and nothing is cached.
LookupFails(c) ==
  /\ lookup[c].at = "query"
  /\ lookup' = [lookup EXCEPT ![c].at = "down"]
  /\ UNCHANGED <<cache, changed>>

\* Mutant: a refusal is cached for as long as a key.
OneLifetime(found) == TTL

Lifetime(found) == IF found THEN TTL ELSE NegativeTTL

\* put reads the clock anew: the entry lives from now, not from the answer.
Put(c) ==
  LET l == lookup[c]  IN
  /\ l.at = "put"
  /\ cache' = [cache EXCEPT ![l.gateway][l.key] =
                 Entry(l.found, l.project, clock + Lifetime(l.found))]
  /\ Answered(c, l.found, l.project)
  /\ UNCHANGED changed

\* The request is through with Authenticate's answer.
Forget(c) == lookup' = [lookup EXCEPT ![c] = NoLookup]

\* A restarted gateway starts with an empty cache.
EmptyCache(g) == cache' = [cache EXCEPT ![g] = [k \in Key |-> NoEntry]]

\* Steps of the control plane, with the time at which a key changed.
ControlPlane ==
  /\ KeysNext
  /\ changed' = [k \in Key |-> IF key'[k] # key[k] THEN clock ELSE changed[k]]
  /\ UNCHANGED <<cache, lookup, clock>>

LookupsInTime == \A c \in Caller : lookup[c].at = "put" => clock < lookup[c].since + MaxLookup

CacheTick ==
  /\ LookupsInTime
  /\ TimePasses
  /\ UNCHANGED <<projectVars, cacheVars>>

----------------------------------------------------------------------------
(***************************************************************************)
(* Property.                                                               *)
(***************************************************************************)
\* What a cache says of a key and is no longer true dies in time
\* (ingestkey.go:47-60, 139): a key that is not live any more is good for at most
\* TTL after that, and a key that went live is refused for at most NegativeTTL,
\* both longer by the time a lookup takes from the database's answer to put.
StaleEntriesDie ==
  \A g \in Gateway, k \in Key :
    LET entry == cache[g][k]  live == key[k].state = "live"  IN
    /\ entry.found /\ ~live => entry.expires <= changed[k] + MaxLookup + TTL
    /\ entry.held /\ ~entry.found /\ live
         => entry.expires <= changed[k] + MaxLookup + NegativeTTL
    /\ entry.found /\ live => entry.project = key[k].project
=============================================================================
