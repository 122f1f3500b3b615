-------------------------------- MODULE Gateway --------------------------------
(***************************************************************************)
(* The api-gateway: the chain of middlewares every HTTP request passes (a   *)
(* bearer token validated by the auth service and cached, the rules on      *)
(* roles, the rate limit of the caller's identity), the routes behind it    *)
(* and the call of a service each makes, with the two background sweeps.    *)
(*                                                                          *)
(* A tick is coarse: time does not pass between two accesses of one         *)
(* goroutine to the limiter, only while it waits for a service.  The auth   *)
(* service is seen from here, with its interceptors in front of it as the   *)
(* repository configures it (guarded), or without them.                     *)
(***************************************************************************)
EXTENDS Naturals, FiniteSetsExt

CONSTANTS
    Slot,       \* requests in progress at once
    Requests,   \* what clients send: [method, path, token, address]
    Token,
    NoToken,    \* a request without a bearer token
    ExpiresAt,  \* of a token; 0 for one that does not parse
    RolesOf,    \* the roles a token carries
    Rate, Burst,\* of the limiter: tokens in a tick, and at most
    Ttl,        \* idle ticks after which a limiter is dropped
    MaxTime     \* bound of the clock

ASSUME RequestsAssumption ==
    \A q \in Requests : q.token \in Token \cup {NoToken}
ASSUME TokenAssumption ==
    NoToken \notin Token /\ ExpiresAt \in [Token -> Nat]
ASSUME TimeAssumption == MaxTime \in Nat
ASSUME LimiterAssumption ==
    /\ Rate \in Nat /\ Burst \in Nat \ {0} /\ Ttl \in Nat
    /\ 2 * Burst <= Rate * (Ttl + 1)

Address == {q.address : q \in Requests}
ASSUME FiniteAssumption == IsFiniteSet(Slot) /\ IsFiniteSet(Address)

Time == 0 .. MaxTime
NoEntry == 0
Entry == 1 .. Cardinality(Slot) + Cardinality(Address)

VARIABLES
    guarded,   \* the auth service demands a bearer token of every call
    now,
    slot,      \* the requests in progress
    cache,     \* JWTCache: the time until which a token's validation is used
    limiters,  \* the limiter entry of an identity, or NoEntry
    entries,   \* the limiter entries: tokens, when refilled and last seen
    sweep,     \* the sweep of the limiters: its time, identities to look at,
               \* and those it is about to delete
    admitted   \* how many requests an identity was let through before a tick

vars == <<guarded, now, slot, cache, limiters, entries, sweep, admitted>>

-----------------------------------------------------------------------------
(* The routes and the rules.                                                *)

\* The handlers: where a route leads, and the status a failed call gives.
LoginHandler == [method |-> "POST", path |-> "/v1/login",
                 calls |-> "AuthService/Login", failure |-> 401]
RegisterHandler == [method |-> "POST", path |-> "/v1/register",
                    calls |-> "AuthService/Register", failure |-> 400]
RefreshHandler == [method |-> "POST", path |-> "/v1/refresh",
                   calls |-> "AuthService/RefreshToken", failure |-> 401]
GetCandlesHandler == [method |-> "GET", path |-> "/v1/candles",
                      calls |-> "AnalyticsService/GetCandles", failure |-> 500]

Routes == {LoginHandler, RegisterHandler, RefreshHandler, GetCandlesHandler}
HandlersOf(q) == {h \in Routes : h.method = q.method /\ h.path = q.path}

\* findMatchingRoles with the rules of app.go: the rule on candles names a
\* path without the /v1 of the routes.
RequiredRoles(q) ==
    CASE q.method = "POST" /\ q.path = "/admin/users" -> {"admin"}
      [] q.method = "GET" /\ q.path = "/candles" -> {"user", "admin", "viewer"}
      [] OTHER -> {}

HasAnyRole(roles, required) == roles \cap required # {}

\* Parse and the cache differ in the instant of expiry.
Parses(t) == t \in Token /\ now < ExpiresAt[t]

\* UnaryJWTInterceptor: a call passes with a valid token in its metadata.
JWTInterceptorPasses(forwarded) == guarded => Parses(forwarded)

RequireRoles(roles, allowed) == \E r \in allowed : r \in roles

\* methodRoles: what is not listed there is open to everyone.
RBACInterceptorPasses(method, forwarded) ==
    guarded /\ method = "AuthService/Register" =>
        RequireRoles(RolesOf[forwarded], {"admin"})

CallPasses(method, forwarded) ==
    /\ JWTInterceptorPasses(forwarded)
    /\ RBACInterceptorPasses(method, forwarded)

(* GetCandles: the gateway turns the name of the interval into the value of the *)
(* protocol, and the analytics-api asks for the duration of that value's name.  *)

Interval == {"1m", "5m", "15m", "1h", "4h", "1d"}

ToProto(i) == CASE i = "1m" -> "AGG_INTERVAL_1_MINUTE"
                [] i = "5m" -> "AGG_INTERVAL_5_MINUTES"
                [] i = "15m" -> "AGG_INTERVAL_15_MINUTES"
                [] i = "1h" -> "AGG_INTERVAL_1_HOUR"
                [] i = "4h" -> "AGG_INTERVAL_4_HOURS"
                [] i = "1d" -> "AGG_INTERVAL_1_DAY"

HasDuration(name) == name \in Interval

\* QueryCandles refuses an interval it has no duration for.
QueryCandlesAnswers(name) == HasDuration(name)

\* The handler passes on the name as the protocol prints it.
GetCandlesAnswers == \E i \in Interval : QueryCandlesAnswers(ToProto(i))

\* A service answers a call the gateway forwards with a token.
Answers(h, forwarded) ==
    IF h.calls = "AnalyticsService/GetCandles" THEN GetCandlesAnswers
    ELSE CallPasses(h.calls, forwarded)

-----------------------------------------------------------------------------

Idle == [at |-> "idle", status |-> 0]

InProgress(q) == [at |-> "jwt", q |-> q, authAt |-> 0, entry |-> NoEntry]

Done == [at : {"idle"}, status : {0, 200, 400, 401, 403, 404, 429, 500}]
Served == [at : {"jwt", "validate", "rbac", "load", "allow", "route", "call"},
           q : Requests, authAt : Time, entry : Entry \cup {NoEntry}]

TypeOK ==
    /\ now \in Time /\ guarded \in BOOLEAN
    /\ slot \in [Slot -> Done \cup Served]
    /\ \A s \in Slot : slot[s].at = "allow" => slot[s].entry \in Entry
    /\ cache \in [Token -> Nat]
    /\ limiters \in [Address -> Entry \cup {NoEntry}]
    /\ entries \in [Entry -> [tokens : 0 .. Burst, last : Time, lastSeen : Time]]
    /\ \A e \in Entry : entries[e].last <= now /\ entries[e].lastSeen <= now
    /\ sweep \in [at : Time, todo : SUBSET Address, doomed : SUBSET Address]
    /\ admitted \in [Address -> [0 .. MaxTime + 1 -> Nat]]

Fresh == [tokens |-> Burst, last |-> now, lastSeen |-> now]

Init ==
    /\ guarded \in BOOLEAN /\ now = 0
    /\ slot = [s \in Slot |-> Idle] /\ cache = [t \in Token |-> 0]
    /\ limiters = [a \in Address |-> NoEntry]
    /\ entries = [e \in Entry |-> [tokens |-> 0, last |-> 0, lastSeen |-> 0]]
    /\ sweep = [at |-> 0, todo |-> {}, doomed |-> {}]
    /\ admitted = [a \in Address |-> [t \in 0 .. MaxTime + 1 |-> 0]]

Step(s, from, to) ==
    slot[s].at = from /\ slot' = [slot EXCEPT ![s].at = to]

Respond(s, code) == slot' = [slot EXCEPT ![s] = [at |-> "idle", status |-> code]]

\* Time passes while nothing but a service is waited for.
Tick ==
    /\ now < MaxTime
    /\ \A s \in Slot : slot[s].at \in {"idle", "validate", "call"}
    /\ sweep.doomed = {}
    /\ now' = now + 1
    /\ UNCHANGED <<slot, cache, limiters, entries, sweep, admitted>>

Arrive(s, q) ==
    /\ slot[s].at = "idle"
    /\ slot' = [slot EXCEPT ![s] = InProgress(q)]
    /\ UNCHANGED <<now, cache, limiters, entries, sweep, admitted>>

-----------------------------------------------------------------------------
(* JWTMiddleware and the cache.                                             *)

NoBearer(s) ==
    /\ slot[s].at = "jwt" /\ slot[s].q.token = NoToken
    /\ Respond(s, 401)
    /\ UNCHANGED <<now, cache, limiters, entries, sweep, admitted>>

\* Get of the cache.
\* Mutant: an entry is used until the sweep takes it out.
HitAnyAge(t) == cache[t] # 0
Hit(t) == cache[t] # 0 /\ now <= cache[t]

LookUp(s) ==
    /\ slot[s].at = "jwt" /\ slot[s].q.token \in Token
    /\ slot' = IF Hit(slot[s].q.token)
               THEN [slot EXCEPT ![s].at = "rbac", ![s].authAt = now]
               ELSE [slot EXCEPT ![s].at = "validate"]
    /\ UNCHANGED <<now, cache, limiters, entries, sweep, admitted>>

\* Put keeps the claims to their expiry.
CachedUntil(t) == ExpiresAt[t]

\* JWTMiddleware calls with the context of the request: only the routes behind
\* it put the token into the metadata (WithContext).
\* Mutant: they do so before it.
ForwardedByRoutes(s) == slot[s].q.token
Forwarded(s) == NoToken

\* The use case of ValidateToken, which no interceptor kept the call from.
ValidateAnswers(s) == JWTInterceptorPasses(Forwarded(s)) /\ Parses(slot[s].q.token)

Validated(s) ==
    /\ slot[s].at = "validate" /\ ValidateAnswers(s)
    /\ slot' = [slot EXCEPT ![s].at = "rbac", ![s].authAt = now]
    /\ cache' = [cache EXCEPT ![slot[s].q.token] = CachedUntil(slot[s].q.token)]
    /\ UNCHANGED <<now, limiters, entries, sweep, admitted>>

\* The token is not valid, or the call fails.
ValidationFails(s) ==
    /\ slot[s].at = "validate"
    /\ Respond(s, 401)
    /\ UNCHANGED <<now, cache, limiters, entries, sweep, admitted>>

\* cleanupLoop of the cache, under its lock.
SweepCache ==
    LET old == {t \in Token : cache[t] # 0 /\ now > cache[t]}
    IN  /\ old # {}
        /\ cache' = [t \in Token |-> IF t \in old THEN 0 ELSE cache[t]]
        /\ UNCHANGED <<now, slot, limiters, entries, sweep, admitted>>

-----------------------------------------------------------------------------
(* RBACMiddleware and RateLimitMiddleware.                                  *)

RBACPasses(s) ==
    /\ Step(s, "rbac", "load")
    /\ \/ RequiredRoles(slot[s].q) = {}
       \/ HasAnyRole(RolesOf[slot[s].q.token], RequiredRoles(slot[s].q))
    /\ UNCHANGED <<now, cache, limiters, entries, sweep, admitted>>

Forbidden(s) ==
    /\ slot[s].at = "rbac" /\ RequiredRoles(slot[s].q) # {}
    /\ ~HasAnyRole(RolesOf[slot[s].q.token], RequiredRoles(slot[s].q))
    /\ Respond(s, 403)
    /\ UNCHANGED <<now, cache, limiters, entries, sweep, admitted>>

\* The user id of the context is empty for every token the auth service
\* signs, so that the identity is the address.
ExtractIdentity(q) == q.address

InUse(e) == (\E a \in Address : limiters[a] = e)
            \/ (\E s \in Slot : slot[s].at = "allow" /\ slot[s].entry = e)

\* There is one, because a request that has still to load an entry holds none.
Unused == CHOOSE e \in Entry : ~InUse(e)

\* LoadOrStore: the entry of the identity, or a new one with a full bucket.
LoadEntry(s) ==
    LET a == ExtractIdentity(slot[s].q)
        e == IF limiters[a] = NoEntry THEN Unused ELSE limiters[a]
    IN  /\ slot[s].at = "load"
        /\ slot' = [slot EXCEPT ![s].at = "allow", ![s].entry = e]
        /\ limiters' = [limiters EXCEPT ![a] = e]
        /\ entries' = IF limiters[a] = NoEntry
                      THEN [entries EXCEPT ![e] = Fresh] ELSE entries
        /\ UNCHANGED <<now, cache, sweep, admitted>>

\* Allow of the limiter, which fills up with time.
Tokens(e) == Min({Burst, entries[e].tokens + Rate * (now - entries[e].last)})

\* lastSeen and the bucket of the entry it holds, deleted meanwhile or not.
Taken(e) ==
    [entries EXCEPT ![e] = [tokens |-> Tokens(e) - 1, last |-> now,
                            lastSeen |-> now]]

CountedNow(counts) ==
    [t \in DOMAIN counts |-> IF t > now THEN counts[t] + 1 ELSE counts[t]]

Admit(s) ==
    /\ slot[s].at = "allow" /\ Tokens(slot[s].entry) > 0
    /\ slot' = [slot EXCEPT ![s].at = "route", ![s].entry = NoEntry]
    /\ entries' = Taken(slot[s].entry)
    /\ admitted' = [admitted EXCEPT ![ExtractIdentity(slot[s].q)] = CountedNow(@)]
    /\ UNCHANGED <<now, cache, limiters, sweep>>

TooMany(s) ==
    /\ slot[s].at = "allow" /\ Tokens(slot[s].entry) = 0
    /\ Respond(s, 429)
    /\ entries' = [entries EXCEPT ![slot[s].entry].lastSeen = now]
    /\ UNCHANGED <<now, cache, limiters, sweep, admitted>>

\* The background sweep looks at one entry after the other ...
SweepBegins ==
    /\ sweep.todo = {} /\ sweep.doomed = {} /\ sweep.at < now
    /\ sweep' = [at |-> now, todo |-> Address, doomed |-> {}]
    /\ UNCHANGED <<now, slot, cache, limiters, entries, admitted>>

\* The cleanup drops what has been idle for longer than the ttl.
\* Mutant: it drops every entry.
ExpiredAlways(a) == limiters[a] # NoEntry
Expired(a) ==
    limiters[a] # NoEntry /\ sweep.at > entries[limiters[a]].lastSeen + Ttl

\* ... reads lastSeen without a lock (the time it began may be older) ...
SweepLooks(a) ==
    /\ a \in sweep.todo /\ sweep.doomed = {}
    /\ sweep' = [sweep EXCEPT
          !.todo = @ \ {a},
          !.doomed = IF Expired(a) THEN {a} ELSE {}]
    /\ UNCHANGED <<now, slot, cache, limiters, entries, admitted>>

\* ... and deletes the key, whatever a request has done with it since.
SweepDeletes(a) ==
    /\ a \in sweep.doomed
    /\ limiters' = [limiters EXCEPT ![a] = NoEntry]
    /\ sweep' = [sweep EXCEPT !.doomed = {}]
    /\ UNCHANGED <<now, slot, cache, entries, admitted>>

-----------------------------------------------------------------------------
(* The routes.                                                              *)

\* No route: not found.  A body or a parameter that does not parse: bad request.
Unserved(s) ==
    /\ slot[s].at = "route"
    /\ Respond(s, IF HandlersOf(slot[s].q) = {} THEN 404 ELSE 400)
    /\ UNCHANGED <<now, cache, limiters, entries, sweep, admitted>>

CallService(s) ==
    /\ Step(s, "route", "call") /\ HandlersOf(slot[s].q) # {}
    /\ UNCHANGED <<now, cache, limiters, entries, sweep, admitted>>

CallSucceeds(s, h) ==
    /\ slot[s].at = "call" /\ h \in HandlersOf(slot[s].q)
    /\ Answers(h, slot[s].q.token)
    /\ Respond(s, 200)
    /\ UNCHANGED <<now, cache, limiters, entries, sweep, admitted>>

CallFails(s, h) ==
    /\ slot[s].at = "call" /\ h \in HandlersOf(slot[s].q)
    /\ Respond(s, h.failure)
    /\ UNCHANGED <<now, cache, limiters, entries, sweep, admitted>>

Next ==
    /\ UNCHANGED guarded
    /\ \/ Tick \/ SweepCache \/ SweepBegins
       \/ \E a \in Address : SweepLooks(a) \/ SweepDeletes(a)
       \/ \E s \in Slot :
             \/ \E q \in Requests : Arrive(s, q)
             \/ NoBearer(s) \/ LookUp(s) \/ Validated(s) \/ ValidationFails(s)
             \/ RBACPasses(s) \/ Forbidden(s)
             \/ LoadEntry(s) \/ Admit(s) \/ TooMany(s)
             \/ Unserved(s) \/ CallService(s)
             \/ \E h \in Routes : CallSucceeds(s, h) \/ CallFails(s, h)

Spec == Init /\ [][Next]_vars

-----------------------------------------------------------------------------

\* Over any stretch of time an identity gets no more than two full buckets and
\* what drips in meanwhile: the sweep, which may delete the entry a request has
\* just used (ratelimit.go), costs the limit one bucket and not more.
RateBound ==
    \A a \in Address : \A from, to \in Time :
        from <= to => admitted[a][to + 1] - admitted[a][from]
                          <= 2 * Burst + Rate * (to - from)

\* Behind JWTMiddleware a request carries a token that was valid when it was
\* let in, whether the auth service or the cache said so.
AuthorisedWhileValid ==
    \A s \in Slot : slot[s].at \in {"rbac", "load", "allow", "route", "call"} =>
        slot[s].q.token \in Token /\ slot[s].authAt <= ExpiresAt[slot[s].q.token]

\* Behind a guarded auth service no request gets past JWTMiddleware, with
\* whatever token: its own call of ValidateToken is refused, and the cache, which
\* only an answer fills, stays empty.  The routes that routes.go calls public
\* endpoints are no exception.
GuardedLetsNobodyIn ==
    guarded => /\ \A t \in Token : cache[t] = 0
               /\ \A s \in Slot : slot[s].at \in {"idle", "jwt", "validate"}
=============================================================================
