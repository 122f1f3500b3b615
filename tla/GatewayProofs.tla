----------------------------- MODULE GatewayProofs -----------------------------
(***************************************************************************)
(* Proofs about Gateway, for any requests, tokens, expiries and limits and  *)
(* any number of requests in progress.  IInv is the inductive invariant:    *)
(* the types, the two properties of JWTMiddleware, and what the second of   *)
(* them rests on, namely that the cache says no more than the token.        *)
(***************************************************************************)
EXTENDS Gateway, FiniteSetTheorems, TLAPS

\* A cached validation is used until the expiry of its token at most.
CacheHonest == \A t \in Token : cache[t] # 0 => cache[t] = ExpiresAt[t]

IInv == TypeOK /\ CacheHonest /\ AuthorisedWhileValid /\ GuardedLetsNobodyIn

SlotOK == /\ slot \in [Slot -> Done \cup Served]
          /\ \A s \in Slot : slot[s].at = "allow" => slot[s].entry \in Entry

Statuses == {0, 200, 400, 401, 403, 404, 429, 500}

-----------------------------------------------------------------------------
(* Helpers.                                                                 *)

LEMMA Product == ASSUME NEW a \in Nat, NEW b \in Nat PROVE a * b \in Nat
OBVIOUS

\* Min of two numbers is one of them and not above the other.
LEMMA MinOfTwo ==
  ASSUME NEW a \in Nat, NEW b \in Nat
  PROVE  Min({a, b}) \in Nat /\ Min({a, b}) <= a
<1>1. \E x \in {a, b} : \A y \in {a, b} : x <= y
  <2>1. CASE a <= b
    BY <2>1
  <2>2. CASE ~(a <= b)
    <3>1. b <= a
      BY <2>2
    <3> QED
      BY <3>1
  <2> QED
    BY <2>1, <2>2
<1>2. Min({a, b}) \in {a, b} /\ \A y \in {a, b} : Min({a, b}) <= y
  BY <1>1 DEF Min
<1> QED
  BY <1>2

LEMMA MinIs ==
  ASSUME NEW a \in Nat, NEW b \in Nat
  PROVE  Min({a, b}) = IF a <= b THEN a ELSE b
<1>1. CASE a <= b
  <2>1. \A x \in {a, b} : (\A y \in {a, b} : x <= y) => x = a
    BY <1>1
  <2>2. \A y \in {a, b} : a <= y
    BY <1>1
  <2> QED
    BY <1>1, <2>1, <2>2 DEF Min
<1>2. CASE ~(a <= b)
  <2>1. \A x \in {a, b} : (\A y \in {a, b} : x <= y) => x = b
    BY <1>2
  <2>2. \A y \in {a, b} : b <= y
    BY <1>2
  <2> QED
    BY <1>2, <2>1, <2>2 DEF Min
<1> QED
  BY <1>1, <1>2

\* A bucket holds between none and Burst tokens.
LEMMA TokensBounded ==
  ASSUME TypeOK, NEW e \in Entry
  PROVE  Tokens(e) \in 0 .. Burst
<1>1. /\ entries[e].tokens \in 0 .. Burst /\ entries[e].last \in Nat
      /\ entries[e].last <= now /\ now \in Nat
  BY TimeAssumption DEF TypeOK, Time
<1>2. Rate \in Nat /\ Burst \in Nat
  BY LimiterAssumption
<1>3. now - entries[e].last \in Nat
  BY <1>1
<1>4. Rate * (now - entries[e].last) \in Nat
  BY <1>2, <1>3, Product
<1>5. entries[e].tokens + Rate * (now - entries[e].last) \in Nat
  BY <1>1, <1>4
<1> QED
  BY <1>2, <1>5, MinOfTwo DEF Tokens

\* A request that is not done is being served.
LEMMA ServedNow ==
  ASSUME TypeOK, NEW s \in Slot, slot[s].at # "idle"
  PROVE  slot[s] \in Served
BY DEF TypeOK, Done

\* An answer ends a request ...
LEMMA Responds ==
  ASSUME TypeOK, NEW s \in Slot, NEW code \in Statuses, Respond(s, code)
  PROVE  SlotOK'
<1>1. [at |-> "idle", status |-> code] \in Done
  BY DEF Done, Statuses
<1>2. slot' \in [Slot -> Done \cup Served]
  BY <1>1 DEF TypeOK, Respond
<1>3. ASSUME NEW r \in Slot, slot'[r].at = "allow"
      PROVE  slot'[r].entry \in Entry
  <2>1. r # s
    BY <1>3 DEF Respond, TypeOK
  <2>2. slot'[r] = slot[r]
    BY <2>1 DEF Respond, TypeOK
  <2> QED
    BY <1>3, <2>2 DEF TypeOK
<1> QED
  BY <1>2, <1>3 DEF SlotOK

\* ... and a step on takes it to its next stage.
LEMMA Moves ==
  ASSUME TypeOK, NEW s \in Slot, NEW r \in Served,
         slot' = [slot EXCEPT ![s] = r], r.at = "allow" => r.entry \in Entry
  PROVE  SlotOK'
<1>1. slot' \in [Slot -> Done \cup Served]
  BY DEF TypeOK
<1>2. ASSUME NEW q \in Slot, slot'[q].at = "allow"
      PROVE  slot'[q].entry \in Entry
  <2>1. CASE q = s
    BY <1>2, <2>1 DEF TypeOK
  <2>2. CASE q # s
    <3>1. slot'[q] = slot[q]
      BY <2>2 DEF TypeOK
    <3> QED
      BY <1>2, <3>1 DEF TypeOK
  <2> QED
    BY <2>1, <2>2
<1> QED
  BY <1>1, <1>2 DEF SlotOK

-----------------------------------------------------------------------------
(* Types.                                                                   *)

LEMMA InitType == Init => TypeOK
<1> SUFFICES ASSUME Init PROVE TypeOK
  OBVIOUS
<1>1. now \in Time /\ 0 \in Time
  BY TimeAssumption DEF Init, Time
<1>2. Idle \in Done
  BY DEF Idle, Done
<1>3. slot \in [Slot -> Done \cup Served] /\ \A s \in Slot : slot[s].at # "allow"
  BY <1>2 DEF Init, Idle
<1>4. /\ cache \in [Token -> Nat] /\ limiters \in [Address -> Entry \cup {NoEntry}]
      /\ sweep \in [at : Time, todo : SUBSET Address, doomed : SUBSET Address]
      /\ admitted \in [Address -> [0 .. MaxTime + 1 -> Nat]]
  BY <1>1 DEF Init
<1>5. /\ entries \in [Entry -> [tokens : 0 .. Burst, last : Time, lastSeen : Time]]
      /\ \A e \in Entry : entries[e].last <= now /\ entries[e].lastSeen <= now
  BY <1>1, LimiterAssumption DEF Init
<1>6. guarded \in BOOLEAN
  BY DEF Init
<1> QED
  BY <1>1, <1>3, <1>4, <1>5, <1>6 DEF TypeOK

\* What the limiter's entries must be, and the rest but the slots.
EntriesOK ==
  /\ entries \in [Entry -> [tokens : 0 .. Burst, last : Time, lastSeen : Time]]
  /\ \A e \in Entry : entries[e].last <= now /\ entries[e].lastSeen <= now
RestOK ==
  /\ now \in Time
  /\ cache \in [Token -> Nat]
  /\ limiters \in [Address -> Entry \cup {NoEntry}]
  /\ sweep \in [at : Time, todo : SUBSET Address, doomed : SUBSET Address]
  /\ admitted \in [Address -> [0 .. MaxTime + 1 -> Nat]]

LEMMA TypeParts == TypeOK <=> guarded \in BOOLEAN /\ SlotOK /\ EntriesOK /\ RestOK
BY DEF TypeOK, SlotOK, EntriesOK, RestOK

LEMMA AddressType == \A q \in Requests : q.address \in Address
BY DEF Address

\* A step of JWTMiddleware or of the routes changes the slot and at most the cache.
LEMMA SlotSteps ==
  ASSUME TypeOK, NEW s \in Slot,
         \/ \E q \in Requests : Arrive(s, q)
         \/ NoBearer(s) \/ LookUp(s) \/ Validated(s) \/ ValidationFails(s)
         \/ RBACPasses(s) \/ Forbidden(s) \/ Unserved(s) \/ CallService(s)
         \/ \E h \in Routes : CallSucceeds(s, h) \/ CallFails(s, h)
  PROVE  SlotOK' /\ EntriesOK' /\ RestOK'
<1>1. EntriesOK /\ RestOK /\ now \in Time
  BY TypeParts DEF RestOK
<1>2. ASSUME NEW q \in Requests, Arrive(s, q)
      PROVE  SlotOK'
  <2>1. InProgress(q) \in Served /\ InProgress(q).at = "jwt"
    BY TimeAssumption DEF InProgress, Served, Time
  <2> QED
    BY <1>2, <2>1, Moves DEF Arrive
<1>3. ASSUME NEW code \in Statuses, Respond(s, code)
      PROVE  SlotOK'
  BY <1>3, Responds
<1>4. ASSUME NEW to \in {"rbac", "validate", "load", "call"}, NEW t \in Time,
             slot[s].at # "idle",
             \/ slot' = [slot EXCEPT ![s].at = to]
             \/ slot' = [slot EXCEPT ![s].at = to, ![s].authAt = t]
      PROVE  SlotOK'
  <2>1. slot[s] \in Served
    BY <1>4, ServedNow
  <2>2. /\ [slot[s] EXCEPT !.at = to] \in Served
        /\ [slot[s] EXCEPT !.at = to, !.authAt = t] \in Served
        /\ [slot[s] EXCEPT !.at = to].at # "allow"
        /\ [slot[s] EXCEPT !.at = to, !.authAt = t].at # "allow"
    BY <2>1, <1>4 DEF Served
  <2>3. \/ slot' = [slot EXCEPT ![s] = [slot[s] EXCEPT !.at = to]]
        \/ slot' = [slot EXCEPT ![s] = [slot[s] EXCEPT !.at = to, !.authAt = t]]
    BY <1>4 DEF TypeOK
  <2> QED
    BY <2>2, <2>3, Moves
<1>5. SlotOK'
  <2>1. CASE \E q \in Requests : Arrive(s, q)
    BY <2>1, <1>2
  <2>2. CASE NoBearer(s) \/ ValidationFails(s) \/ Forbidden(s) \/ Unserved(s)
    BY <2>2, <1>3 DEF NoBearer, ValidationFails, Forbidden, Unserved, Statuses
  <2>3. CASE LookUp(s)
    BY <2>3, <1>1, <1>4 DEF LookUp
  <2>4. CASE Validated(s)
    BY <2>4, <1>1, <1>4 DEF Validated
  <2>5. CASE RBACPasses(s) \/ CallService(s)
    BY <2>5, <1>1, <1>4 DEF RBACPasses, CallService, Step
  <2>6. CASE \E h \in Routes : CallSucceeds(s, h) \/ CallFails(s, h)
    <3>1. \A h \in Routes : h.failure \in Statuses
      BY DEF Routes, LoginHandler, RegisterHandler, RefreshHandler,
             GetCandlesHandler, Statuses
    <3> QED
      BY <2>6, <3>1, <1>3 DEF CallSucceeds, CallFails, Statuses
  <2> QED
    BY <2>1, <2>2, <2>3, <2>4, <2>5, <2>6
<1>6. UNCHANGED <<now, limiters, entries, sweep, admitted>>
  BY DEF Arrive, NoBearer, LookUp, Validated, ValidationFails, RBACPasses,
         Forbidden, Unserved, CallService, CallSucceeds, CallFails
<1>7. cache' \in [Token -> Nat]
  <2>1. CASE Validated(s)
    BY <2>1, TokenAssumption DEF Validated, ValidateAnswers, Parses, CachedUntil, TypeOK
  <2>2. CASE ~Validated(s)
    <3>1. cache' = cache
      BY <2>2 DEF Arrive, NoBearer, LookUp, ValidationFails, RBACPasses,
         Forbidden, Unserved, CallService, CallSucceeds, CallFails
    <3> QED
      BY <3>1 DEF TypeOK
  <2> QED
    BY <2>1, <2>2
<1> QED
  BY <1>1, <1>5, <1>6, <1>7 DEF EntriesOK, RestOK

\* An entry is replaced by one that is not from the future.
LEMMA EntryKept ==
  ASSUME TypeOK, NEW e \in Entry,
         NEW r \in [tokens : 0 .. Burst, last : Time, lastSeen : Time],
         r.last <= now, r.lastSeen <= now,
         entries' = [entries EXCEPT ![e] = r], now' = now
  PROVE  EntriesOK'
<1>1. entries' \in [Entry -> [tokens : 0 .. Burst, last : Time, lastSeen : Time]]
  BY DEF TypeOK
<1>2. ASSUME NEW d \in Entry
      PROVE  entries'[d].last <= now' /\ entries'[d].lastSeen <= now'
  <2>1. CASE d = e
    BY <2>1 DEF TypeOK
  <2>2. CASE d # e
    BY <2>2 DEF TypeOK
  <2> QED
    BY <2>1, <2>2
<1> QED
  BY <1>1, <1>2 DEF EntriesOK

\* A request that is to load an entry finds one: every other identity and
\* every other request needs one at most.
LEMMA UnusedExists ==
  ASSUME TypeOK, NEW s \in Slot, slot[s].at = "load",
         NEW a \in Address, limiters[a] = NoEntry
  PROVE  Unused \in Entry /\ ~InUse(Unused)
<1> DEFINE others == Slot \ {s}
           rest == Address \ {a}
           f == [r \in others |-> slot[r].entry]
           g == [b \in rest |-> limiters[b]]
           F == {f[r] : r \in others}
           G == {g[b] : b \in rest}
<1>1. /\ IsFiniteSet(Slot) /\ IsFiniteSet(Address)
      /\ Cardinality(Slot) \in Nat /\ Cardinality(Address) \in Nat
  BY FiniteAssumption, FS_CardinalityType
<1>2. /\ IsFiniteSet(others) /\ Cardinality(others) = Cardinality(Slot) - 1
      /\ IsFiniteSet(rest) /\ Cardinality(rest) = Cardinality(Address) - 1
  BY <1>1, FS_RemoveElement
<1>3. IsFiniteSet(F) /\ Cardinality(F) <= Cardinality(Slot) - 1
  <2>1. f \in Surjection(others, F)
    BY DEF Surjection
  <2> QED
    BY <1>2, <2>1, FS_Surjection
<1>4. IsFiniteSet(G) /\ Cardinality(G) <= Cardinality(Address) - 1
  <2>1. g \in Surjection(rest, G)
    BY DEF Surjection
  <2> QED
    BY <1>2, <2>1, FS_Surjection
<1>5. IsFiniteSet(F \cup G) /\ Cardinality(F \cup G) <= Cardinality(F) + Cardinality(G)
  <2>1. IsFiniteSet(F \cap G)
    BY <1>3, FS_Intersection
  <2>2. Cardinality(F \cap G) \in Nat /\ Cardinality(F) \in Nat /\ Cardinality(G) \in Nat
    BY <1>3, <1>4, <2>1, FS_CardinalityType
  <2> HIDE DEF F, G
  <2>3. /\ IsFiniteSet(F \cup G)
        /\ Cardinality(F \cup G) = Cardinality(F) + Cardinality(G) - Cardinality(F \cap G)
    BY <1>3, <1>4, FS_Union
  <2> QED
    BY <2>2, <2>3
<1>6. Cardinality(Entry) = Cardinality(Slot) + Cardinality(Address)
  BY <1>1, FS_Interval DEF Entry
<1>7. Cardinality(F \cup G) < Cardinality(Entry)
  <2>1. Cardinality(F) \in Nat /\ Cardinality(G) \in Nat /\ Cardinality(F \cup G) \in Nat
    BY <1>3, <1>4, <1>5, FS_CardinalityType
  <2> QED
    BY <1>1, <1>3, <1>4, <1>5, <1>6, <2>1
<1>8. ASSUME \A e \in Entry : InUse(e) PROVE FALSE
  <2>1. Entry \subseteq F \cup G
    <3>1. ASSUME NEW e \in Entry PROVE e \in F \cup G
      <4>1. e # NoEntry
        BY <1>1 DEF Entry, NoEntry
      <4>2. CASE \E b \in Address : limiters[b] = e
        <5>1. PICK b \in rest : limiters[b] = e
          BY <4>1, <4>2
        <5>2. g[b] = e
          BY <5>1
        <5> QED
          BY <5>2
      <4>3. CASE \E r \in Slot : slot[r].at = "allow" /\ slot[r].entry = e
        <5>1. PICK r \in others : slot[r].entry = e
          BY <4>3
        <5>2. f[r] = e
          BY <5>1
        <5> QED
          BY <5>2
      <4> QED
        BY <1>8, <4>2, <4>3 DEF InUse
    <3> QED
      BY <3>1
  <2>2. Cardinality(Entry) <= Cardinality(F \cup G)
    BY <1>5, <2>1, FS_Subset
  <2>3. Cardinality(F \cup G) \in Nat
    BY <1>5, FS_CardinalityType
  <2> QED
    BY <1>1, <1>6, <1>7, <2>2, <2>3
<1> QED
  BY <1>8 DEF Unused

\* LoadOrStore.
LEMMA LoadType ==
  ASSUME TypeOK, NEW s \in Slot, LoadEntry(s)
  PROVE  SlotOK' /\ EntriesOK' /\ RestOK'
<1> DEFINE a == ExtractIdentity(slot[s].q)
           e == IF limiters[a] = NoEntry THEN Unused ELSE limiters[a]
<1>1. /\ slot[s].at = "load" /\ UNCHANGED <<now, cache, sweep, admitted>>
      /\ slot' = [slot EXCEPT ![s].at = "allow", ![s].entry = e]
      /\ limiters' = [limiters EXCEPT ![a] = e]
      /\ entries' = IF limiters[a] = NoEntry
                    THEN [entries EXCEPT ![e] = Fresh] ELSE entries
  BY DEF LoadEntry
<1>2. e \in Entry
  <2>1. slot[s] \in Served
    BY <1>1, ServedNow
  <2>2. a \in Address
    BY <2>1, AddressType DEF ExtractIdentity, Served
  <2> QED
    BY <1>1, <2>2, UnusedExists DEF TypeOK
<1> HIDE DEF e
<1>3. slot[s] \in Served
  BY <1>1, ServedNow
<1>4. SlotOK'
  <2> DEFINE r == [slot[s] EXCEPT !.at = "allow", !.entry = e]
  <2>1. r \in Served /\ r.at = "allow" /\ r.entry = e
    BY <1>2, <1>3 DEF Served
  <2>2. slot' = [slot EXCEPT ![s] = r]
    BY <1>1 DEF TypeOK
  <2> HIDE DEF r
  <2> QED
    BY <1>2, <2>1, <2>2, Moves
<1>5. EntriesOK'
  <2>1. CASE limiters[a] = NoEntry
    <3>1. /\ Fresh \in [tokens : 0 .. Burst, last : Time, lastSeen : Time]
          /\ Fresh.last <= now /\ Fresh.lastSeen <= now
      BY LimiterAssumption, TimeAssumption DEF Fresh, TypeOK, Time
    <3>2. entries' = [entries EXCEPT ![e] = Fresh] /\ now' = now
      BY <1>1, <1>2, <2>1
    <3> QED
      BY <1>2, <3>1, <3>2, EntryKept
  <2>2. CASE limiters[a] # NoEntry
    BY <1>1, <1>2, <2>2, TypeParts DEF EntriesOK
  <2> QED
    BY <2>1, <2>2
<1>6. limiters' \in [Address -> Entry \cup {NoEntry}]
  BY <1>1, <1>2 DEF TypeOK
<1> QED
  BY <1>1, <1>4, <1>5, <1>6, TypeParts DEF RestOK

\* Allow of the limiter, with either answer.
LEMMA AllowType ==
  ASSUME TypeOK, NEW s \in Slot, Admit(s) \/ TooMany(s)
  PROVE  SlotOK' /\ EntriesOK' /\ RestOK'
<1> DEFINE e == slot[s].entry
<1>1. /\ slot[s].at = "allow" /\ UNCHANGED <<now, cache, limiters, sweep>>
  BY DEF Admit, TooMany
<1>2. slot[s] \in Served /\ e \in Entry
  BY <1>1, ServedNow DEF TypeOK
<1>3. now \in Time /\ now \in Nat
  BY TimeAssumption DEF TypeOK, Time
<1>4. ExtractIdentity(slot[s].q) \in Address
  BY <1>2, AddressType DEF ExtractIdentity, Served
<1>5. CASE Admit(s)
  <2>1. Tokens(e) \in 0 .. Burst /\ Tokens(e) > 0
    BY <1>2, <1>5, TokensBounded DEF Admit
  <2> DEFINE r == [tokens |-> Tokens(e) - 1, last |-> now, lastSeen |-> now]
             q == [slot[s] EXCEPT !.at = "route", !.entry = NoEntry]
  <2>2. Tokens(e) - 1 \in 0 .. Burst
    BY <2>1, LimiterAssumption
  <2>3. /\ r \in [tokens : 0 .. Burst, last : Time, lastSeen : Time]
        /\ r.last <= now /\ r.lastSeen <= now
    BY <2>2, <1>3
  <2>4. entries' = [entries EXCEPT ![e] = r]
    BY <1>5 DEF Admit, Taken
  <2>5. EntriesOK'
    <3> HIDE DEF r
    <3> QED
      BY <1>1, <1>2, <2>3, <2>4, EntryKept
  <2>6. SlotOK'
    <3>1. q \in Served /\ q.at # "allow"
      BY <1>2 DEF Served
    <3>2. slot' = [slot EXCEPT ![s] = q]
      BY <1>5 DEF Admit, TypeOK
    <3> HIDE DEF q
    <3> QED
      BY <3>1, <3>2, Moves
  <2>7. admitted' \in [Address -> [0 .. MaxTime + 1 -> Nat]]
    <3>1. \A c \in [0 .. MaxTime + 1 -> Nat] : CountedNow(c) \in [0 .. MaxTime + 1 -> Nat]
      BY DEF CountedNow
    <3> QED
      BY <1>4, <1>5, <3>1 DEF Admit, TypeOK
  <2> QED
    BY <1>1, <2>5, <2>6, <2>7, TypeParts DEF RestOK
<1>6. CASE TooMany(s)
  <2> DEFINE r == [entries[e] EXCEPT !.lastSeen = now]
  <2>1. SlotOK'
    BY <1>6, Responds DEF TooMany, Statuses
  <2>2. /\ r \in [tokens : 0 .. Burst, last : Time, lastSeen : Time]
        /\ r.last <= now /\ r.lastSeen <= now
    <3>1. /\ entries[e] \in [tokens : 0 .. Burst, last : Time, lastSeen : Time]
          /\ entries[e].last <= now
      BY <1>2 DEF TypeOK
    <3>2. /\ r \in [tokens : 0 .. Burst, last : Time, lastSeen : Time]
          /\ r.last = entries[e].last /\ r.lastSeen = now
      BY <1>3, <3>1
    <3> QED
      BY <1>3, <3>1, <3>2
  <2>3. entries' = [entries EXCEPT ![e] = r]
    BY <1>2, <1>6 DEF TooMany, TypeOK
  <2>4. EntriesOK'
    <3> HIDE DEF r
    <3> QED
      BY <1>1, <1>2, <2>2, <2>3, EntryKept
  <2> QED
    BY <1>1, <1>6, <2>1, <2>4, TypeParts DEF RestOK, TooMany
<1> QED
  BY <1>5, <1>6

\* The clock and the two sweeps.
LEMMA SweepType ==
  ASSUME TypeOK, \/ Tick \/ SweepCache \/ SweepBegins
                 \/ \E a \in Address : SweepLooks(a) \/ SweepDeletes(a)
  PROVE  SlotOK' /\ EntriesOK' /\ RestOK'
<1>1. SlotOK /\ EntriesOK /\ RestOK
  BY TypeParts
<1>2. slot' = slot /\ entries' = entries /\ admitted' = admitted
  BY DEF Tick, SweepCache, SweepBegins, SweepLooks, SweepDeletes
<1>3. SlotOK'
  BY <1>1, <1>2 DEF SlotOK
<1>4. now' \in Time /\ now <= now'
  <2>1. CASE Tick
    BY <1>1, <2>1, TimeAssumption DEF Tick, RestOK, Time
  <2>2. CASE ~Tick
    <3>1. now' = now
      BY <2>2 DEF SweepCache, SweepBegins, SweepLooks, SweepDeletes
    <3> QED
      BY <1>1, <3>1, TimeAssumption DEF RestOK, Time
  <2> QED
    BY <2>1, <2>2
<1>5. EntriesOK'
  <2>1. ASSUME NEW e \in Entry
        PROVE  entries'[e].last <= now' /\ entries'[e].lastSeen <= now'
    <3>1. /\ entries[e].last \in Nat /\ entries[e].last <= now
          /\ entries[e].lastSeen \in Nat /\ entries[e].lastSeen <= now
          /\ now \in Nat /\ now' \in Nat
      BY <1>1, <1>4, TimeAssumption DEF EntriesOK, RestOK, Time
    <3> QED
      BY <1>2, <1>4, <3>1
  <2> QED
    BY <1>1, <1>2, <2>1 DEF EntriesOK
<1>6. cache' \in [Token -> Nat]
  <2>1. CASE SweepCache
    BY <1>1, <2>1 DEF SweepCache, RestOK
  <2>2. CASE ~SweepCache
    BY <1>1, <2>2 DEF Tick, SweepBegins, SweepLooks, SweepDeletes, RestOK
  <2> QED
    BY <2>1, <2>2
<1>7. limiters' \in [Address -> Entry \cup {NoEntry}]
  BY <1>1 DEF Tick, SweepCache, SweepBegins, SweepLooks, SweepDeletes, RestOK
<1>8. sweep' \in [at : Time, todo : SUBSET Address, doomed : SUBSET Address]
  <2>1. CASE SweepBegins
    BY <1>1, <2>1 DEF SweepBegins, RestOK
  <2>2. CASE Tick \/ SweepCache
    BY <1>1, <2>2 DEF Tick, SweepCache, RestOK
  <2>3. CASE \E a \in Address : SweepLooks(a) \/ SweepDeletes(a)
    <3>1. PICK a \in Address : SweepLooks(a) \/ SweepDeletes(a)
      BY <2>3
    <3>2. CASE SweepLooks(a)
      <4> DEFINE d == IF Expired(a) THEN {a} ELSE {}
      <4>1. d \in SUBSET Address /\ sweep.todo \ {a} \in SUBSET Address
        BY <1>1 DEF RestOK
      <4>2. sweep' = [sweep EXCEPT !.todo = sweep.todo \ {a}, !.doomed = d]
        BY <1>1, <3>2 DEF SweepLooks, RestOK
      <4> HIDE DEF d
      <4> QED
        BY <1>1, <4>1, <4>2 DEF RestOK
    <3>3. CASE SweepDeletes(a)
      BY <1>1, <3>3 DEF SweepDeletes, RestOK
    <3> QED
      BY <3>1, <3>2, <3>3
  <2> QED
    BY <2>1, <2>2, <2>3
<1> QED
  BY <1>1, <1>2, <1>3, <1>4, <1>5, <1>6, <1>7, <1>8 DEF RestOK

LEMMA TypeStep == TypeOK /\ [Next]_vars => TypeOK'
<1> SUFFICES ASSUME TypeOK, [Next]_vars PROVE TypeOK'
  OBVIOUS
<1>1. CASE Next
  <2>1. guarded' \in BOOLEAN
    BY <1>1 DEF Next, TypeOK
  <2>2. SlotOK' /\ EntriesOK' /\ RestOK'
    <3>1. CASE \/ Tick \/ SweepCache \/ SweepBegins
               \/ \E a \in Address : SweepLooks(a) \/ SweepDeletes(a)
      BY <3>1, SweepType
    <3>2. ASSUME NEW s \in Slot, LoadEntry(s)
          PROVE  SlotOK' /\ EntriesOK' /\ RestOK'
      BY <3>2, LoadType
    <3>3. ASSUME NEW s \in Slot, Admit(s) \/ TooMany(s)
          PROVE  SlotOK' /\ EntriesOK' /\ RestOK'
      BY <3>3, AllowType
    <3>4. ASSUME NEW s \in Slot,
                 \/ \E q \in Requests : Arrive(s, q)
                 \/ NoBearer(s) \/ LookUp(s) \/ Validated(s) \/ ValidationFails(s)
                 \/ RBACPasses(s) \/ Forbidden(s) \/ Unserved(s) \/ CallService(s)
                 \/ \E h \in Routes : CallSucceeds(s, h) \/ CallFails(s, h)
          PROVE  SlotOK' /\ EntriesOK' /\ RestOK'
      BY <3>4, SlotSteps
    <3> QED
      BY <1>1, <3>1, <3>2, <3>3, <3>4 DEF Next
  <2>3. (SlotOK /\ EntriesOK /\ RestOK)'
    BY <2>2
  <2> QED
    BY <2>1, <2>3 DEF TypeOK, SlotOK, EntriesOK, RestOK
<1>2. CASE UNCHANGED vars
  BY <1>2 DEF vars, TypeOK
<1> QED
  BY <1>1, <1>2

-----------------------------------------------------------------------------
(* The inductive invariant.                                                 *)

Behind == {"rbac", "load", "allow", "route", "call"}

\* A step that leaves the cache to the auth service's word keeps it honest.
LEMMA CacheStep ==
  ASSUME TypeOK, CacheHonest, [Next]_vars
  PROVE  CacheHonest'
<1>1. CASE \E s \in Slot : Validated(s)
  <2>1. PICK s \in Slot : Validated(s)
    BY <1>1
  <2>2. cache' = [cache EXCEPT ![slot[s].q.token] = ExpiresAt[slot[s].q.token]]
    BY <2>1 DEF Validated, CachedUntil
  <2> QED
    BY <2>2 DEF CacheHonest, TypeOK
<1>2. CASE SweepCache
  BY <1>2 DEF CacheHonest, TypeOK, SweepCache
<1>3. CASE ~SweepCache /\ ~ \E s \in Slot : Validated(s)
  <2>1. cache' = cache
    BY <1>3 DEF Next, vars, Tick, SweepBegins, SweepLooks, SweepDeletes, Arrive,
       NoBearer, LookUp, ValidationFails, RBACPasses, Forbidden, LoadEntry, Admit,
       TooMany, Unserved, CallService, CallSucceeds, CallFails
  <2> QED
    BY <2>1 DEF CacheHonest
<1> QED
  BY <1>1, <1>2, <1>3

\* What a step does to a slot: nothing, an answer, a new request, ...
\* a request let in by the cache or the service, or a step on behind that.
SlotStays(s) == slot'[s] = slot[s]
SlotAnswers(s) == slot'[s].at = "idle"
SlotBegins(s) == slot'[s].at \in {"jwt", "validate"}
SlotLetIn(s) == /\ slot[s].at \in {"jwt", "validate"} /\ slot'[s].at = "rbac"
                /\ slot'[s].q = slot[s].q /\ slot'[s].authAt = now
                /\ slot[s].q.token \in Token /\ now <= ExpiresAt[slot[s].q.token]
                /\ guarded => cache[slot[s].q.token] # 0
SlotGoesOn(s) == /\ slot[s].at \in Behind /\ slot'[s].at \in Behind
                 /\ slot'[s].q = slot[s].q /\ slot'[s].authAt = slot[s].authAt

\* An answer of the auth service lets nobody in when it is guarded.
LEMMA NoAnswerWhenGuarded == ASSUME NEW s \in Slot, Validated(s) PROVE ~guarded
BY TokenAssumption DEF Validated, ValidateAnswers, JWTInterceptorPasses, Forwarded, Parses

LEMMA SlotCases ==
  ASSUME TypeOK, CacheHonest, NEW r \in Slot, [Next]_vars
  PROVE  SlotStays(r) \/ SlotAnswers(r) \/ SlotBegins(r) \/ SlotLetIn(r) \/ SlotGoesOn(r)
<1>1. CASE slot' = slot
  BY <1>1 DEF SlotStays
<1>2. ASSUME NEW s \in Slot, NEW code, Respond(s, code)
      PROVE  SlotStays(r) \/ SlotAnswers(r)
  BY <1>2 DEF Respond, SlotStays, SlotAnswers, TypeOK
<1>3. ASSUME NEW s \in Slot, NEW q \in Requests, Arrive(s, q)
      PROVE  SlotStays(r) \/ SlotBegins(r)
  BY <1>3 DEF Arrive, InProgress, SlotStays, SlotBegins, TypeOK
<1>4. ASSUME NEW s \in Slot, LookUp(s)
      PROVE  SlotStays(r) \/ SlotBegins(r) \/ SlotLetIn(r)
  <2>1. slot[s] \in Served /\ slot[s].at = "jwt" /\ slot[s].q.token \in Token
    BY <1>4, ServedNow DEF LookUp
  <2>2. CASE r # s
    BY <1>4, <2>2 DEF LookUp, SlotStays, TypeOK
  <2>3. CASE r = s /\ Hit(slot[s].q.token)
    <3> DEFINE p == [slot[s] EXCEPT !.at = "rbac", !.authAt = now]
    <3>1. p.at = "rbac" /\ p.q = slot[s].q /\ p.authAt = now
      BY <2>1 DEF Served
    <3>2. slot'[s] = p
      BY <1>4, <2>3 DEF LookUp, TypeOK
    <3> HIDE DEF p
    <3>3. now <= ExpiresAt[slot[s].q.token] /\ cache[slot[s].q.token] # 0
      BY <2>1, <2>3 DEF Hit, CacheHonest
    <3> QED
      BY <2>1, <2>3, <3>1, <3>2, <3>3 DEF SlotLetIn
  <2>4. CASE r = s /\ ~Hit(slot[s].q.token)
    <3>1. slot' = [slot EXCEPT ![s].at = "validate"]
      BY <1>4, <2>4 DEF LookUp
    <3>2. slot'[s].at = "validate"
      BY <2>1, <3>1 DEF TypeOK, Served
    <3> QED
      BY <2>4, <3>2 DEF SlotBegins
  <2> QED
    BY <2>2, <2>3, <2>4
<1>5. ASSUME NEW s \in Slot, Validated(s)
      PROVE  SlotStays(r) \/ SlotLetIn(r)
  <2>1. slot[s] \in Served /\ slot[s].at = "validate" /\ slot[s].q.token \in Token
    BY <1>5, ServedNow DEF Validated, ValidateAnswers, Parses
  <2>2. CASE r # s
    BY <1>5, <2>2 DEF Validated, SlotStays, TypeOK
  <2>3. CASE r = s
    <3> DEFINE p == [slot[s] EXCEPT !.at = "rbac", !.authAt = now]
    <3>1. p.at = "rbac" /\ p.q = slot[s].q /\ p.authAt = now
      BY <2>1 DEF Served
    <3>2. slot'[s] = p
      BY <1>5 DEF Validated, TypeOK
    <3> HIDE DEF p
    <3>3. now <= ExpiresAt[slot[s].q.token]
      <4>1. now < ExpiresAt[slot[s].q.token]
        BY <1>5 DEF Validated, ValidateAnswers, Parses
      <4>2. now \in Nat /\ ExpiresAt[slot[s].q.token] \in Nat
        BY <2>1, TokenAssumption, TimeAssumption DEF TypeOK, Time
      <4> QED
        BY <4>1, <4>2
    <3> QED
      BY <1>5, <2>1, <2>3, <3>1, <3>2, <3>3, NoAnswerWhenGuarded DEF SlotLetIn
  <2> QED
    BY <2>2, <2>3
<1>6. ASSUME NEW s \in Slot, RBACPasses(s) \/ CallService(s)
      PROVE  SlotStays(r) \/ SlotGoesOn(r)
  <2>1. PICK to \in Behind : /\ slot[s].at \in Behind
                             /\ slot' = [slot EXCEPT ![s].at = to]
    BY <1>6 DEF RBACPasses, CallService, Step, Behind
  <2>2. slot[s] \in Served
    BY <2>1, ServedNow DEF Behind
  <2>3. CASE r # s
    BY <2>1, <2>3 DEF SlotStays, TypeOK
  <2>4. CASE r = s
    <3> DEFINE p == [slot[s] EXCEPT !.at = to]
    <3>1. p.at = to /\ p.q = slot[s].q /\ p.authAt = slot[s].authAt
      BY <2>2 DEF Served
    <3>2. slot'[s] = p
      BY <2>1 DEF TypeOK
    <3> HIDE DEF p
    <3> QED
      BY <2>1, <2>4, <3>1, <3>2 DEF SlotGoesOn
  <2> QED
    BY <2>3, <2>4
<1>7. ASSUME NEW s \in Slot, NEW p, slot' = [slot EXCEPT ![s] = p],
             slot[s].at \in Behind, p.at \in Behind,
             p.q = slot[s].q, p.authAt = slot[s].authAt
      PROVE  SlotStays(r) \/ SlotGoesOn(r)
  BY <1>7 DEF SlotStays, SlotGoesOn, TypeOK
<1>8. ASSUME NEW s \in Slot, LoadEntry(s) \/ Admit(s)
      PROVE  SlotStays(r) \/ SlotGoesOn(r)
  <2>1. slot[s] \in Served /\ slot[s].at \in {"load", "allow"}
    BY <1>8, ServedNow DEF LoadEntry, Admit
  <2>2. CASE LoadEntry(s)
    <3>1. PICK e : slot' = [slot EXCEPT ![s].at = "allow", ![s].entry = e]
      BY <2>2 DEF LoadEntry
    <3> DEFINE p == [slot[s] EXCEPT !.at = "allow", !.entry = e]
    <3>3. p.at \in Behind /\ p.q = slot[s].q /\ p.authAt = slot[s].authAt
      BY <2>1 DEF Served, Behind
    <3>4. slot' = [slot EXCEPT ![s] = p]
      BY <3>1 DEF TypeOK
    <3> HIDE DEF p
    <3> QED
      BY <2>1, <3>3, <3>4, <1>7 DEF Behind
  <2>3. CASE Admit(s)
    <3> DEFINE p == [slot[s] EXCEPT !.at = "route", !.entry = NoEntry]
    <3>3. p.at \in Behind /\ p.q = slot[s].q /\ p.authAt = slot[s].authAt
      BY <2>1 DEF Served, Behind
    <3>4. slot' = [slot EXCEPT ![s] = p]
      BY <2>3 DEF Admit, TypeOK
    <3> HIDE DEF p
    <3> QED
      BY <2>1, <3>3, <3>4, <1>7 DEF Behind
  <2> QED
    BY <1>8, <2>2, <2>3
<1>9. CASE Next
  <2>1. CASE \E s \in Slot : \/ NoBearer(s) \/ ValidationFails(s) \/ Forbidden(s)
                             \/ TooMany(s) \/ Unserved(s)
                             \/ \E h \in Routes : CallSucceeds(s, h) \/ CallFails(s, h)
    BY <2>1, <1>2 DEF NoBearer, ValidationFails, Forbidden, TooMany, Unserved,
       CallSucceeds, CallFails
  <2>2. CASE Tick \/ SweepCache \/ SweepBegins
             \/ \E a \in Address : SweepLooks(a) \/ SweepDeletes(a)
    BY <2>2, <1>1 DEF Tick, SweepCache, SweepBegins, SweepLooks, SweepDeletes
  <2> QED
    BY <1>9, <1>3, <1>4, <1>5, <1>6, <1>8, <2>1, <2>2 DEF Next
<1>10. CASE UNCHANGED vars
  BY <1>10, <1>1 DEF vars
<1> QED
  BY <1>9, <1>10

LEMMA AuthorisedStep ==
  ASSUME TypeOK, CacheHonest, AuthorisedWhileValid, [Next]_vars
  PROVE  AuthorisedWhileValid'
<1> SUFFICES ASSUME NEW r \in Slot, slot'[r].at \in Behind
             PROVE  /\ slot'[r].q.token \in Token
                    /\ slot'[r].authAt <= ExpiresAt[slot'[r].q.token]
  BY DEF AuthorisedWhileValid, Behind
<1>1. SlotStays(r) \/ SlotLetIn(r) \/ SlotGoesOn(r)
  BY SlotCases DEF SlotAnswers, SlotBegins, Behind
<1>2. CASE SlotStays(r) \/ SlotGoesOn(r)
  BY <1>2 DEF SlotStays, SlotGoesOn, AuthorisedWhileValid, Behind
<1>3. CASE SlotLetIn(r)
  BY <1>3 DEF SlotLetIn
<1> QED
  BY <1>1, <1>2, <1>3

LEMMA GuardedStep ==
  ASSUME TypeOK, CacheHonest, GuardedLetsNobodyIn, [Next]_vars
  PROVE  GuardedLetsNobodyIn'
<1> SUFFICES ASSUME guarded'
             PROVE  /\ \A t \in Token : cache'[t] = 0
                    /\ \A s \in Slot : slot'[s].at \in {"idle", "jwt", "validate"}
  BY DEF GuardedLetsNobodyIn
<1>1. guarded
  BY DEF Next, vars
<1>2. /\ \A t \in Token : cache[t] = 0
      /\ \A s \in Slot : slot[s].at \in {"idle", "jwt", "validate"}
  BY <1>1 DEF GuardedLetsNobodyIn
<1>3. \A s \in Slot : ~Validated(s)
  BY <1>1, NoAnswerWhenGuarded
<1>4. ~SweepCache
  BY <1>2 DEF SweepCache
<1>5. cache' = cache
  BY <1>3, <1>4 DEF Next, vars, Tick, SweepBegins, SweepLooks, SweepDeletes, Arrive,
     NoBearer, LookUp, ValidationFails, RBACPasses, Forbidden, LoadEntry, Admit,
     TooMany, Unserved, CallService, CallSucceeds, CallFails
<1>6. ASSUME NEW s \in Slot
      PROVE  slot'[s].at \in {"idle", "jwt", "validate"}
  <2>1. ~SlotLetIn(s) /\ ~SlotGoesOn(s)
    BY <1>1, <1>2 DEF SlotLetIn, SlotGoesOn, Behind
  <2>2. SlotStays(s) \/ SlotAnswers(s) \/ SlotBegins(s)
    BY <2>1, SlotCases
  <2> QED
    BY <1>2, <2>2 DEF SlotStays, SlotAnswers, SlotBegins
<1> QED
  BY <1>2, <1>5, <1>6

LEMMA InitIInv == Init => IInv
<1> SUFFICES ASSUME Init PROVE IInv
  OBVIOUS
<1>1. TypeOK
  BY InitType
<1>2. (\A t \in Token : cache[t] = 0) /\ (\A s \in Slot : slot[s].at = "idle")
  BY DEF Init, Idle
<1> QED
  BY <1>1, <1>2 DEF IInv, CacheHonest, AuthorisedWhileValid, GuardedLetsNobodyIn

LEMMA Inductive == Spec => []IInv
<1>1. IInv /\ [Next]_vars => IInv'
  <2> SUFFICES ASSUME IInv, [Next]_vars PROVE IInv'
    OBVIOUS
  <2>1. TypeOK'
    BY TypeStep DEF IInv
  <2>2. CacheHonest'
    BY CacheStep DEF IInv
  <2>3. AuthorisedWhileValid'
    BY AuthorisedStep DEF IInv
  <2>4. GuardedLetsNobodyIn'
    BY GuardedStep DEF IInv
  <2> QED
    BY <2>1, <2>2, <2>3, <2>4 DEF IInv
<1> QED
  BY InitIInv, <1>1, PTL DEF Spec

-----------------------------------------------------------------------------
(***************************************************************************)
(* The rate limit.  What an identity has been let through, and what it may *)
(* still spend at once, together stay under two full buckets and what      *)
(* drips in; the parts of RateOK say so of one identity.                   *)
(***************************************************************************)

Drip(n) == Rate * n

\* The requests of a let through since a tick.
Passed(a, from) == admitted[a][now + 1] - admitted[a][from]

Identity(s) == ExtractIdentity(slot[s].q)
Holds(s) == slot[s].at = "allow"

\* The request holds an entry that the sweep has deleted since.
Stale(s) == Holds(s) /\ slot[s].entry # limiters[Identity(s)]

\* A deletion that has been decided on, or done, promises a full bucket.
InHand(a) ==
  IF limiters[a] = NoEntry THEN Burst
  ELSE Tokens(limiters[a]) + (IF a \in sweep.doomed THEN Burst ELSE 0)

\* No two identities share an entry.
Owned ==
  /\ \A a, b \in Address : limiters[a] # NoEntry /\ limiters[a] = limiters[b] => a = b
  /\ \A s \in Slot : \A b \in Address :
        Holds(s) /\ limiters[b] = slot[s].entry => Identity(s) = b
  /\ \A s, r \in Slot :
        Holds(s) /\ Holds(r) /\ slot[s].entry = slot[r].entry => Identity(s) = Identity(r)

Sweeping == sweep.at <= now /\ \A a \in sweep.doomed : limiters[a] # NoEntry

\* A deleted entry is still in use only in the tick of its deletion, when the
\* entry that came in its place cannot be deleted in its turn.
StaleOK(a) ==
  \A s \in Slot : Stale(s) /\ Identity(s) = a =>
     /\ a \notin sweep.doomed
     /\ limiters[a] # NoEntry => entries[limiters[a]].lastSeen = now
     /\ \A r \in Slot : Stale(r) /\ Identity(r) = a => slot[r].entry = slot[s].entry

\* Nothing is counted before its time, and the past keeps the bound.
CountedOK(a) ==
  \A t \in 0 .. MaxTime + 1 : t > now => admitted[a][t] = admitted[a][now + 1]
PastOK(a) ==
  \A from, to \in Time : from <= to /\ to < now =>
     admitted[a][to + 1] - admitted[a][from] <= 2 * Burst + Drip(to - from)

\* What may be spent at once, from the entry and from a deleted one, fits in.
SpendOK(a) ==
  \A from \in 0 .. now :
     /\ Passed(a, from) + InHand(a) <= 2 * Burst + Drip(now - from)
     /\ \A s \in Slot : Stale(s) /\ Identity(s) = a =>
           Passed(a, from) + Tokens(slot[s].entry) + InHand(a)
              <= 2 * Burst + Drip(now - from)

\* Since the entry was last seen nothing was let through.
SeenOK(a) ==
  limiters[a] # NoEntry =>
    \A from \in 0 .. now :
       /\ from <= entries[limiters[a]].lastSeen =>
             Passed(a, from) <= 2 * Burst + Drip(entries[limiters[a]].lastSeen - from)
       /\ from > entries[limiters[a]].lastSeen => Passed(a, from) = 0

RateOK(a) == StaleOK(a) /\ CountedOK(a) /\ PastOK(a) /\ SpendOK(a) /\ SeenOK(a)

RateInv == Owned /\ Sweeping /\ \A a \in Address : RateOK(a)

LEMMA Drips ==
  /\ Drip(0) = 0 /\ Drip(1) = Rate /\ Rate \in Nat
  /\ \A n \in Nat : Drip(n) \in Nat
  /\ \A n, m \in Nat : Drip(n + m) = Drip(n) + Drip(m)
  /\ \A n, m \in Nat : n <= m => Drip(n) <= Drip(m)
<1>1. Rate \in Nat
  BY LimiterAssumption
<1>2. Drip(0) = 0 /\ Drip(1) = Rate
  BY <1>1 DEF Drip
<1>3. \A n \in Nat : Drip(n) \in Nat
  BY <1>1, Product DEF Drip
<1>4. \A n, m \in Nat : Drip(n + m) = Drip(n) + Drip(m)
  BY <1>1 DEF Drip
<1>5. ASSUME NEW n \in Nat, NEW m \in Nat, n <= m
      PROVE  Drip(n) <= Drip(m)
  <2>1. PICK k \in Nat : m = n + k
    <3>1. m - n \in Nat /\ m = n + (m - n)
      BY <1>5
    <3> QED
      BY <3>1
  <2>2. Drip(m) = Drip(n) + Drip(k)
    BY <1>4, <2>1
  <2> QED
    BY <1>3, <2>2
<1> QED
  BY <1>1, <1>2, <1>3, <1>4, <1>5

\* Two full buckets drip in during the time after which an entry is dropped.
LEMMA DripsBack == 2 * Burst <= Drip(Ttl + 1)
BY LimiterAssumption DEF Drip

\* The numbers of the limiter, in one place.
LEMMA RateTypes ==
  ASSUME TypeOK
  PROVE  /\ now \in Nat /\ now <= MaxTime /\ MaxTime \in Nat
         /\ Burst \in Nat /\ Burst > 0 /\ Ttl \in Nat
         /\ NoEntry \notin Entry
         /\ \A a \in Address : /\ limiters[a] \in Entry \cup {NoEntry}
                               /\ \A t \in 0 .. MaxTime + 1 : admitted[a][t] \in Nat
                               /\ InHand(a) \in Nat
         /\ \A e \in Entry : /\ Tokens(e) \in 0 .. Burst
                             /\ entries[e].lastSeen \in 0 .. now
         /\ \A s \in Slot : Holds(s) => slot[s].entry \in Entry /\ Identity(s) \in Address
<1>1. /\ now \in Nat /\ now <= MaxTime /\ MaxTime \in Nat
      /\ Burst \in Nat /\ Burst > 0 /\ Ttl \in Nat
  BY TimeAssumption, LimiterAssumption DEF TypeOK, Time
<1>2. NoEntry \notin Entry
  <2>1. Cardinality(Slot) \in Nat /\ Cardinality(Address) \in Nat
    BY FiniteAssumption, FS_CardinalityType
  <2> QED
    BY <2>1 DEF NoEntry, Entry
<1>3. \A e \in Entry : Tokens(e) \in 0 .. Burst
  BY TokensBounded
<1>4. \A e \in Entry : entries[e].lastSeen \in 0 .. now
  BY <1>1 DEF TypeOK, Time
<1>5. \A s \in Slot : Holds(s) => slot[s].entry \in Entry /\ Identity(s) \in Address
  <2>1. ASSUME NEW s \in Slot, Holds(s) PROVE Identity(s) \in Address
    <3>1. slot[s] \in Served
      BY <2>1, ServedNow DEF Holds
    <3> QED
      BY <3>1, AddressType DEF Identity, ExtractIdentity, Served
  <2> QED
    BY <2>1 DEF TypeOK, Holds
<1>6. \A a \in Address : /\ limiters[a] \in Entry \cup {NoEntry}
                         /\ \A t \in 0 .. MaxTime + 1 : admitted[a][t] \in Nat
  BY DEF TypeOK
<1>7. \A a \in Address : InHand(a) \in Nat
  BY <1>1, <1>3, <1>6 DEF InHand
<1> QED
  BY <1>1, <1>2, <1>3, <1>4, <1>5, <1>6, <1>7

LEMMA PassedTypes ==
  ASSUME TypeOK, NEW a \in Address, NEW from \in 0 .. now
  PROVE  Passed(a, from) \in Int /\ now - from \in Nat /\ Drip(now - from) \in Nat
<1>1. /\ now - from \in Nat /\ from \in 0 .. MaxTime + 1 /\ now + 1 \in 0 .. MaxTime + 1
  BY RateTypes
<1>2. admitted[a][from] \in Nat /\ admitted[a][now + 1] \in Nat
  BY <1>1, RateTypes
<1>3. Drip(now - from) \in Nat
  BY <1>1, Drips
<1> QED
  BY <1>1, <1>2, <1>3 DEF Passed

LEMMA RateInit == Init => RateInv
<1> SUFFICES ASSUME Init PROVE RateInv
  OBVIOUS
<1>1. TypeOK
  BY InitType
<1>2. /\ now = 0 /\ sweep.at = 0 /\ sweep.doomed = {}
      /\ \A s \in Slot : ~Holds(s)
      /\ \A a \in Address : limiters[a] = NoEntry
      /\ \A a \in Address : \A t \in 0 .. MaxTime + 1 : admitted[a][t] = 0
  BY DEF Init, Idle, Holds
<1>3. Owned /\ Sweeping
  BY <1>2 DEF Owned, Sweeping
<1>4. ASSUME NEW a \in Address PROVE RateOK(a)
  <2>1. StaleOK(a) /\ SeenOK(a)
    BY <1>2 DEF StaleOK, Stale, SeenOK
  <2>2. CountedOK(a)
    BY <1>2, TimeAssumption DEF CountedOK
  <2>3. PastOK(a)
    BY <1>2, TimeAssumption DEF PastOK, Time
  <2>4. SpendOK(a)
    <3>1. InHand(a) = Burst /\ Passed(a, 0) = 0
      BY <1>2, TimeAssumption DEF InHand, Passed
    <3>2. Passed(a, 0) + InHand(a) <= 2 * Burst + Drip(0)
      BY <3>1, Drips, LimiterAssumption
    <3> QED
      BY <1>2, <3>2 DEF SpendOK, Stale
  <2> QED
    BY <2>1, <2>2, <2>3, <2>4 DEF RateOK
<1> QED
  BY <1>3, <1>4 DEF RateInv

\* What a step has to leave alone to leave the limits of an identity alone.
LEMMA RateKept ==
  ASSUME TypeOK, NEW a \in Address, RateOK(a), now' = now,
         admitted'[a] = admitted[a], limiters'[a] = limiters[a],
         a \in sweep'.doomed <=> a \in sweep.doomed,
         limiters[a] # NoEntry => entries'[limiters[a]] = entries[limiters[a]],
         \A r \in Slot : Holds(r)' /\ Identity(r)' = a =>
            /\ Holds(r) /\ slot'[r] = slot[r]
            /\ entries'[slot[r].entry] = entries[slot[r].entry]
  PROVE  RateOK(a)'
<1>1. \A r \in Slot : Stale(r)' /\ Identity(r)' = a =>
         /\ Stale(r) /\ Identity(r) = a /\ slot'[r] = slot[r]
         /\ Tokens(slot[r].entry)' = Tokens(slot[r].entry)
  BY DEF Stale, Holds, Identity, Tokens
<1>2. InHand(a)' = InHand(a)
  BY DEF InHand, Tokens
<1>3. \A from : Passed(a, from)' = Passed(a, from)
  BY DEF Passed
<1>4. StaleOK(a)'
  BY <1>1 DEF RateOK, StaleOK
<1>5. CountedOK(a)' /\ PastOK(a)'
  BY DEF RateOK, CountedOK, PastOK
<1>6. SpendOK(a)'
  BY <1>1, <1>2, <1>3 DEF RateOK, SpendOK
<1>7. SeenOK(a)'
  BY <1>3 DEF RateOK, SeenOK
<1> QED
  BY <1>4, <1>5, <1>6, <1>7 DEF RateOK

\* The middlewares before and behind the limiter, the sweep of the cache, and the
\* beginning of the other.
LEMMA RateAside ==
  ASSUME TypeOK, RateInv,
         UNCHANGED <<now, limiters, entries, admitted>>,
         sweep'.at \in {sweep.at, now}, sweep'.doomed = sweep.doomed,
         \A r \in Slot : Holds(r)' => Holds(r) /\ slot'[r] = slot[r]
  PROVE  RateInv'
<1>1. Owned'
  BY DEF RateInv, Owned, Holds, Identity
<1>2. Sweeping'
  BY RateTypes DEF RateInv, Sweeping
<1>3. ASSUME NEW a \in Address PROVE RateOK(a)'
  BY RateKept DEF RateInv
<1> QED
  BY <1>1, <1>2, <1>3 DEF RateInv

LEMMA RateTick ==
  ASSUME TypeOK, RateInv, Tick
  PROVE  RateInv'
<1>1. /\ now < MaxTime /\ now' = now + 1 /\ sweep.doomed = {}
      /\ UNCHANGED <<slot, limiters, entries, sweep, admitted>>
      /\ \A s \in Slot : ~Holds(s) /\ ~Holds(s)'
  BY DEF Tick, Holds
<1>2. Owned' /\ Sweeping'
  <2>1. sweep.at \in Nat
    BY TimeAssumption DEF TypeOK, Time
  <2> QED
    BY <1>1, <2>1, RateTypes DEF RateInv, Owned, Sweeping, Holds, Identity
<1>3. ASSUME NEW a \in Address PROVE RateOK(a)'
  <2>1. /\ now \in Nat /\ MaxTime \in Nat /\ Burst \in Nat
        /\ \A t \in 0 .. MaxTime + 1 : admitted[a][t] \in Nat
        /\ InHand(a) \in Nat
    BY RateTypes
  <2>2. CountedOK(a) /\ PastOK(a) /\ SpendOK(a) /\ SeenOK(a)
    BY DEF RateInv, RateOK
  <2>3. StaleOK(a)' /\ CountedOK(a)'
    BY <1>1, <2>1, <2>2 DEF StaleOK, Stale, CountedOK
  <2>4. /\ \A from \in 0 .. now : Passed(a, from)' = Passed(a, from)
        /\ \A from : from = now + 1 => Passed(a, from)' = 0
    BY <1>1, <2>1, <2>2 DEF Passed, CountedOK
  <2>5. InHand(a)' <= InHand(a) + Rate /\ InHand(a)' <= Burst /\ InHand(a)' \in Nat
    <3>1. Rate \in Nat /\ Burst \in Nat
      BY LimiterAssumption
    <3>2. CASE limiters[a] = NoEntry
      BY <1>1, <3>1, <3>2 DEF InHand
    <3>3. CASE limiters[a] # NoEntry
      <4> DEFINE e == limiters[a]
      <4>1. e \in Entry /\ entries[e].tokens \in Nat /\ entries[e].last \in Nat
            /\ entries[e].last <= now
        BY <3>3, <2>1 DEF TypeOK, Time
      <4> DEFINE k == now - entries[e].last
                 full == entries[e].tokens + Drip(k)
      <4>2. k \in Nat /\ now' - entries[e].last = k + 1
        BY <4>1, <1>1, <2>1
      <4>3. Drip(k) \in Nat /\ Drip(k + 1) = Drip(k) + Rate
        <5> HIDE DEF k
        <5> QED
          BY <4>2, Drips
      <4>4. full \in Nat /\ entries[e].tokens + Drip(k + 1) = full + Rate
        BY <4>1, <4>3, <3>1
      <4>5. Tokens(e) = Min({Burst, full}) /\ Tokens(e)' = Min({Burst, full + Rate})
        BY <1>1, <4>2, <4>4 DEF Tokens, Drip
      <4> HIDE DEF full
      <4>6. /\ Tokens(e) = IF Burst <= full THEN Burst ELSE full
            /\ Tokens(e)' = IF Burst <= full + Rate THEN Burst ELSE full + Rate
        BY <4>4, <4>5, <3>1, MinIs
      <4>7. InHand(a) = Tokens(e) /\ InHand(a)' = Tokens(e)'
        BY <1>1, <2>1, <3>3, <4>6, <4>4, <3>1 DEF InHand
      <4> QED
        BY <3>1, <4>4, <4>6, <4>7
    <3> QED
      BY <3>2, <3>3
  <2>6. SpendOK(a)'
    <3>1. ASSUME NEW from \in 0 .. now
          PROVE  Passed(a, from)' + InHand(a)' <= 2 * Burst + Drip(now' - from)
      <4>1. Passed(a, from) + InHand(a) <= 2 * Burst + Drip(now - from)
        BY <2>2 DEF SpendOK
      <4>2. /\ Drip(now' - from) = Drip(now - from) + Rate /\ Drip(now - from) \in Nat
            /\ Rate \in Nat
        <5>1. now - from \in Nat /\ now' - from = (now - from) + 1
          BY <1>1, <2>1
        <5> QED
          BY <5>1, Drips
      <4>3. Passed(a, from) \in Int
        BY <1>1, <2>1 DEF Passed
      <4> QED
        BY <2>1, <2>4, <2>5, <4>1, <4>2, <4>3
    <3>2. ASSUME NEW from, from = now + 1
          PROVE  Passed(a, from)' + InHand(a)' <= 2 * Burst + Drip(now' - from)
      <4>1. now' - from = 0 /\ Passed(a, from)' = 0
        BY <1>1, <2>1, <2>4, <3>2
      <4> QED
        BY <2>1, <2>4, <2>5, <4>1, Drips
    <3>3. \A from \in 0 .. now' : from \in 0 .. now \/ from = now + 1
      BY <1>1, <2>1
    <3>4. \A s \in Slot : ~Stale(s)'
      BY <1>1 DEF Stale
    <3>5. ASSUME NEW from \in 0 .. now'
          PROVE  Passed(a, from)' + InHand(a)' <= 2 * Burst + Drip(now' - from)
      <4>1. CASE from \in 0 .. now
        BY <3>1, <4>1
      <4>2. CASE from = now + 1
        BY <3>2, <4>2
      <4> QED
        BY <3>3, <4>1, <4>2
    <3> QED
      BY <3>4, <3>5 DEF SpendOK
  <2>7. PastOK(a)'
    <3>1. ASSUME NEW from \in Time, NEW to \in Time, from <= to, to < now'
          PROVE  admitted[a][to + 1] - admitted[a][from] <= 2 * Burst + Drip(to - from)
      <4>1. CASE to < now
        BY <2>2, <3>1, <4>1 DEF PastOK
      <4>2. CASE to = now
        <5>1. Passed(a, from) + InHand(a) <= 2 * Burst + Drip(now - from)
          BY <2>1, <2>2, <3>1, <4>2 DEF SpendOK, Time
        <5>2. /\ Drip(now - from) \in Nat
              /\ admitted[a][from] \in Nat /\ admitted[a][now + 1] \in Nat
          <6>1. /\ now - from \in Nat
                /\ from \in 0 .. MaxTime + 1 /\ now + 1 \in 0 .. MaxTime + 1
            BY <1>1, <2>1, <3>1, <4>2 DEF Time
          <6> QED
            BY <2>1, <6>1, Drips
        <5> QED
          BY <2>1, <4>2, <5>1, <5>2 DEF Passed
      <4> QED
        BY <1>1, <2>1, <3>1, <4>1, <4>2 DEF Time
    <3> QED
      BY <1>1, <3>1 DEF PastOK
  <2>8. SeenOK(a)'
    <3>1. limiters[a] # NoEntry => entries[limiters[a]].lastSeen \in 0 .. now
      BY RateTypes
    <3>2. \A from \in 0 .. now' : from \in 0 .. now \/ from = now + 1
      BY <1>1, <2>1
    <3>3. limiters'[a] = limiters[a] /\ entries' = entries
      BY <1>1
    <3>4. ASSUME limiters[a] # NoEntry, NEW from \in 0 .. now'
          PROVE  /\ from <= entries[limiters[a]].lastSeen => from \in 0 .. now
                 /\ from > entries[limiters[a]].lastSeen =>
                       from \in 0 .. now \/ Passed(a, from)' = 0
      <4>1. CASE from \in 0 .. now
        BY <4>1
      <4>2. CASE from = now + 1
        <5>1. Passed(a, from)' = 0
          BY <2>4, <4>2
        <5> QED
          BY <2>1, <3>1, <3>4, <4>2, <5>1
      <4> QED
        BY <3>2, <4>1, <4>2
    <3> QED
      BY <2>2, <2>4, <3>3, <3>4 DEF SeenOK
  <2> QED
    BY <2>3, <2>6, <2>7, <2>8 DEF RateOK
<1> QED
  BY <1>2, <1>3 DEF RateInv

\* A request gets the entry that is there.
LEMMA RateLoadOld ==
  ASSUME TypeOK, RateInv, NEW s \in Slot, LoadEntry(s),
         NEW a \in Address, a = Identity(s), limiters[a] # NoEntry
  PROVE  RateInv'
<1> DEFINE e == limiters[a]
<1>1. /\ slot[s].at = "load" /\ slot[s] \in Served /\ e \in Entry
  <2>1. slot[s].at = "load" /\ slot[s] \in Served
    BY ServedNow DEF LoadEntry
  <2> QED
    BY <2>1 DEF TypeOK
<1>2. /\ UNCHANGED <<now, entries, sweep, admitted>>
      /\ limiters' = [limiters EXCEPT ![a] = e]
      /\ slot' = [slot EXCEPT ![s].at = "allow", ![s].entry = e]
  BY DEF LoadEntry, Identity
<1>3. limiters' = limiters
  BY <1>1, <1>2 DEF TypeOK
<1>4. slot'[s].entry = e /\ Identity(s)' = a
  <2> DEFINE r == [slot[s] EXCEPT !.at = "allow", !.entry = e]
  <2>1. slot'[s] = r
    BY <1>2 DEF TypeOK
  <2>2. r.entry = e /\ r.q = slot[s].q
    BY <1>1 DEF Served
  <2> HIDE DEF r
  <2> QED
    BY <2>1, <2>2 DEF Identity, ExtractIdentity
<1>5. ASSUME NEW r \in Slot, r # s PROVE slot'[r] = slot[r]
  BY <1>2, <1>5 DEF TypeOK
<1>6. ~Stale(s)'
  BY <1>3, <1>4 DEF Stale
<1>7. Owned'
  <2> HIDE DEF e
  <2>1. ASSUME NEW r \in Slot, Holds(r)'
        PROVE  /\ r # s => Holds(r) /\ slot'[r].entry = slot[r].entry
                                    /\ Identity(r)' = Identity(r)
               /\ r = s => slot'[r].entry = e /\ Identity(r)' = a
    BY <2>1, <1>4, <1>5 DEF Holds, Identity
  <2>2. \A b \in Address : limiters[b] = e => b = a
    BY <1>1, RateTypes DEF RateInv, Owned, e
  <2>3. \A r \in Slot : Holds(r) /\ slot[r].entry = e => Identity(r) = a
    BY <1>1 DEF RateInv, Owned, e
  <2> QED
    BY <1>3, <2>1, <2>2, <2>3 DEF RateInv, Owned
<1>8. Sweeping'
  BY <1>2, <1>3 DEF RateInv, Sweeping
<1>9. ASSUME NEW b \in Address PROVE RateOK(b)'
  <2>1. StaleOK(b) /\ CountedOK(b) /\ PastOK(b) /\ SpendOK(b) /\ SeenOK(b)
    BY DEF RateInv, RateOK
  <2>2. ASSUME NEW r \in Slot, Stale(r)', Identity(r)' = b
        PROVE  /\ Stale(r) /\ Identity(r) = b /\ slot'[r].entry = slot[r].entry
               /\ Tokens(slot[r].entry)' = Tokens(slot[r].entry)
    <3>1. slot'[r] = slot[r]
      BY <2>2, <1>5, <1>6
    <3> QED
      BY <1>2, <1>3, <2>2, <3>1 DEF Stale, Holds, Identity, Tokens
  <2>3. InHand(b)' = InHand(b) /\ \A from : Passed(b, from)' = Passed(b, from)
    BY <1>2, <1>3 DEF InHand, Tokens, Passed
  <2>4. StaleOK(b)'
    BY <1>2, <1>3, <2>1, <2>2 DEF StaleOK
  <2>5. CountedOK(b)' /\ PastOK(b)' /\ SeenOK(b)'
    BY <1>2, <1>3, <2>1, <2>3 DEF CountedOK, PastOK, SeenOK
  <2>6. SpendOK(b)'
    BY <1>2, <2>1, <2>2, <2>3 DEF SpendOK
  <2> QED
    BY <2>4, <2>5, <2>6 DEF RateOK
<1> QED
  BY <1>7, <1>8, <1>9 DEF RateInv

\* A request gets a new entry: the full bucket it holds was reckoned with.
LEMMA RateLoadNew ==
  ASSUME TypeOK, RateInv, NEW s \in Slot, LoadEntry(s),
         NEW a \in Address, a = Identity(s), limiters[a] = NoEntry
  PROVE  RateInv'
<1>0. slot[s].at = "load" /\ slot[s] \in Served
  BY ServedNow DEF LoadEntry
<1>1. PICK e \in Entry : e = Unused /\ ~InUse(e) /\ e # NoEntry
  BY <1>0, UnusedExists, RateTypes
<1>2. /\ UNCHANGED <<now, sweep, admitted>>
      /\ limiters' = [limiters EXCEPT ![a] = e]
      /\ entries' = [entries EXCEPT ![e] = Fresh]
      /\ slot' = [slot EXCEPT ![s].at = "allow", ![s].entry = e]
  BY <1>1 DEF LoadEntry, Identity
<1>3. /\ limiters'[a] = e /\ \A b \in Address : b # a => limiters'[b] = limiters[b]
      /\ \A b \in Address : limiters[b] # e
      /\ \A r \in Slot : Holds(r) => slot[r].entry # e
  BY <1>1, <1>2 DEF TypeOK, InUse, Holds
<1>4. slot'[s].entry = e /\ Identity(s)' = a
  <2> DEFINE r == [slot[s] EXCEPT !.at = "allow", !.entry = e]
  <2>1. slot'[s] = r
    BY <1>2 DEF TypeOK
  <2>2. r.entry = e /\ r.q = slot[s].q
    BY <1>0 DEF Served
  <2> HIDE DEF r
  <2> QED
    BY <2>1, <2>2 DEF Identity, ExtractIdentity
<1>5. ASSUME NEW r \in Slot, r # s PROVE slot'[r] = slot[r]
  BY <1>2, <1>5 DEF TypeOK
<1>6. ~Stale(s)'
  BY <1>3, <1>4 DEF Stale
<1>7. ASSUME NEW d \in Entry, d # e
      PROVE  entries'[d] = entries[d] /\ Tokens(d)' = Tokens(d)
  BY <1>2, <1>7 DEF TypeOK, Tokens
<1>8. entries'[e].lastSeen = now /\ Tokens(e)' = Burst
  <2>1. entries'[e] = Fresh
    BY <1>1, <1>2 DEF TypeOK
  <2>2. entries'[e].tokens = Burst /\ entries'[e].last = now /\ entries'[e].lastSeen = now
    BY <2>1 DEF Fresh
  <2>3. now' - entries'[e].last = 0
    BY <1>2, <2>2, RateTypes
  <2>4. Rate * (now' - entries'[e].last) = 0
    BY <2>3, Drips DEF Drip
  <2>5. entries'[e].tokens + Rate * (now' - entries'[e].last) = Burst
    BY <2>2, <2>4, RateTypes
  <2>6. Tokens(e)' = Min({Burst, Burst})
    BY <2>5 DEF Tokens
  <2> QED
    BY <2>2, <2>6, RateTypes, MinIs
<1>9. Owned'
  <2>1. ASSUME NEW r \in Slot, Holds(r)'
        PROVE  /\ r # s => Holds(r) /\ slot'[r].entry = slot[r].entry
                                    /\ Identity(r)' = Identity(r)
               /\ r = s => slot'[r].entry = e /\ Identity(r)' = a
    BY <2>1, <1>4, <1>5 DEF Holds, Identity
  <2> QED
    BY <1>3, <2>1 DEF RateInv, Owned
<1>10. Sweeping' /\ a \notin sweep.doomed
  BY <1>1, <1>2, <1>3 DEF RateInv, Sweeping, TypeOK
<1>11. ASSUME NEW b \in Address, b # a PROVE RateOK(b)'
  <2>1. ASSUME NEW r \in Slot, Holds(r)', Identity(r)' = b
        PROVE  /\ Holds(r) /\ slot'[r] = slot[r]
               /\ entries'[slot[r].entry] = entries[slot[r].entry]
    <3>1. r # s
      BY <1>4, <1>11, <2>1
    <3>2. slot'[r] = slot[r] /\ Holds(r)
      BY <1>5, <2>1, <3>1 DEF Holds
    <3> QED
      BY <1>3, <1>7, <3>2, RateTypes
  <2>2. limiters[b] # NoEntry => entries'[limiters[b]] = entries[limiters[b]]
    BY <1>3, <1>7, RateTypes
  <2> QED
    BY <1>2, <1>3, <1>11, <2>1, <2>2, RateKept DEF RateInv
<1>12. RateOK(a)'
  <2>1. StaleOK(a) /\ CountedOK(a) /\ PastOK(a) /\ SpendOK(a)
    BY DEF RateInv, RateOK
  <2>2. ASSUME NEW r \in Slot, Stale(r)', Identity(r)' = a
        PROVE  /\ Stale(r) /\ Identity(r) = a /\ slot'[r].entry = slot[r].entry
               /\ Tokens(slot[r].entry)' = Tokens(slot[r].entry)
    <3>1. slot'[r] = slot[r] /\ Holds(r)
      BY <2>2, <1>5, <1>6 DEF Stale, Holds
    <3>2. slot[r].entry \in Entry /\ slot[r].entry # e
      BY <1>3, <3>1, RateTypes
    <3>3. Tokens(slot[r].entry)' = Tokens(slot[r].entry)
      BY <1>2, <3>1, <3>2 DEF TypeOK, Tokens
    <3>4. Identity(r) = a
      BY <2>2, <3>1 DEF Identity
    <3> QED
      BY <3>1, <3>2, <3>3, <3>4, RateTypes DEF Stale
  <2>3. InHand(a)' = InHand(a)
    <3>1. InHand(a) = Burst
      BY DEF InHand
    <3>2. InHand(a)' = Tokens(e)' + 0
      BY <1>1, <1>2, <1>3, <1>10 DEF InHand, Tokens
    <3> QED
      BY <1>8, <3>1, <3>2, RateTypes
  <2>4. \A from : Passed(a, from)' = Passed(a, from)
    BY <1>2 DEF Passed
  <2>5. StaleOK(a)'
    <3>1. entries'[limiters'[a]].lastSeen = now' /\ a \notin sweep'.doomed
      BY <1>2, <1>3, <1>8, <1>10
    <3>2. ASSUME NEW r \in Slot, NEW q \in Slot, Stale(r)', Identity(r)' = a,
                 Stale(q)', Identity(q)' = a
          PROVE  slot'[q].entry = slot'[r].entry
      BY <2>1, <2>2, <3>2 DEF StaleOK
    <3> QED
      BY <3>1, <3>2 DEF StaleOK
  <2>6. CountedOK(a)' /\ PastOK(a)'
    BY <1>2, <2>1 DEF CountedOK, PastOK
  <2>7. SpendOK(a)'
    BY <1>2, <2>1, <2>2, <2>3, <2>4 DEF SpendOK
  <2>8. SeenOK(a)'
    <3>1. ASSUME NEW from \in 0 .. now
          PROVE  Passed(a, from)' <= 2 * Burst + Drip(now - from)
      <4>1. Passed(a, from) + InHand(a) <= 2 * Burst + Drip(now - from)
        BY <2>1 DEF SpendOK
      <4>2. InHand(a) \in Nat /\ Burst \in Nat
        BY RateTypes
      <4> QED
        BY <2>4, <4>1, <4>2, PassedTypes
    <3> QED
      BY <1>2, <1>3, <1>8, <3>1, RateTypes DEF SeenOK
  <2> QED
    BY <2>5, <2>6, <2>7, <2>8 DEF RateOK
<1> QED
  BY <1>9, <1>10, <1>11, <1>12 DEF RateInv

\* A request that leaves the limiter with an answer: what the two answers share.
LEMMA RateLeaves ==
  ASSUME TypeOK, RateInv, NEW s \in Slot, Admit(s) \/ TooMany(s),
         NEW a \in Address, a = Identity(s), NEW e \in Entry, e = slot[s].entry
  PROVE  /\ Holds(s) /\ ~Holds(s)' /\ UNCHANGED <<now, limiters, sweep>>
         /\ \A r \in Slot : Holds(r)' => r # s /\ Holds(r) /\ slot'[r] = slot[r]
         /\ \A d \in Entry : d # e =>
               entries'[d] = entries[d] /\ Tokens(d)' = Tokens(d)
         /\ entries'[e].lastSeen = now
         /\ Owned' /\ Sweeping'
         /\ \A b \in Address : b # a => RateOK(b)'
<1>1. /\ Holds(s) /\ UNCHANGED <<now, limiters, sweep>>
      /\ slot[s] \in Served
  BY ServedNow DEF Admit, TooMany, Holds
<1>2. ASSUME NEW r \in Slot, r # s PROVE slot'[r] = slot[r]
  BY <1>2 DEF Admit, TooMany, Respond, TypeOK
<1>3. ~Holds(s)'
  <2>1. CASE Admit(s)
    BY <2>1, <1>1 DEF Admit, Holds, TypeOK, Served
  <2>2. CASE TooMany(s)
    BY <2>2 DEF TooMany, Respond, Holds, TypeOK
  <2> QED
    BY <2>1, <2>2
<1>4. \A r \in Slot : Holds(r)' => r # s /\ Holds(r) /\ slot'[r] = slot[r]
  BY <1>2, <1>3 DEF Holds
<1>5. ASSUME NEW d \in Entry, d # e
      PROVE  entries'[d] = entries[d] /\ Tokens(d)' = Tokens(d)
  BY <1>1, <1>5 DEF Admit, TooMany, Taken, Tokens, TypeOK
<1>6. entries'[e].lastSeen = now
  <2>1. entries[e] \in [tokens : 0 .. Burst, last : Time, lastSeen : Time]
    BY DEF TypeOK
  <2> QED
    BY <2>1 DEF Admit, TooMany, Taken, TypeOK
<1>7. Owned'
  BY <1>1, <1>4 DEF RateInv, Owned, Holds, Identity
<1>8. Sweeping'
  BY <1>1 DEF RateInv, Sweeping
<1>9. ASSUME NEW b \in Address, b # a PROVE RateOK(b)'
  <2>1. admitted'[b] = admitted[b]
    BY <1>9 DEF Admit, TooMany, Identity, TypeOK
  <2>2. limiters[b] # NoEntry => entries'[limiters[b]] = entries[limiters[b]]
    <3>1. limiters[b] # e
      BY <1>1, <1>9 DEF RateInv, Owned
    <3> QED
      BY <1>5, <3>1, RateTypes
  <2>3. ASSUME NEW r \in Slot, Holds(r)', Identity(r)' = b
        PROVE  /\ Holds(r) /\ slot'[r] = slot[r]
               /\ entries'[slot[r].entry] = entries[slot[r].entry]
    <3>1. Holds(r) /\ slot'[r] = slot[r]
      BY <1>4, <2>3
    <3>2. Identity(r) = b
      BY <2>3, <3>1 DEF Identity
    <3>3. slot[r].entry # e
      BY <1>1, <1>9, <3>1, <3>2 DEF RateInv, Owned
    <3> QED
      BY <1>5, <3>1, <3>3, RateTypes
  <2> QED
    BY <1>1, <2>1, <2>2, <2>3, RateKept DEF RateInv
<1> QED
  BY <1>1, <1>3, <1>4, <1>5, <1>6, <1>7, <1>8, <1>9

\* A request that is let through takes a token from the entry it holds.
LEMMA RateAdmit ==
  ASSUME TypeOK, RateInv, NEW s \in Slot, Admit(s),
         NEW a \in Address, a = Identity(s), NEW e \in Entry, e = slot[s].entry
  PROVE  RateInv'
<1>1. /\ Holds(s) /\ ~Holds(s)' /\ UNCHANGED <<now, limiters, sweep>>
      /\ \A r \in Slot : Holds(r)' => r # s /\ Holds(r) /\ slot'[r] = slot[r]
      /\ \A d \in Entry : d # e => entries'[d] = entries[d] /\ Tokens(d)' = Tokens(d)
      /\ entries'[e].lastSeen = now
      /\ Owned' /\ Sweeping'
      /\ \A b \in Address : b # a => RateOK(b)'
  BY RateLeaves
<1>2. StaleOK(a) /\ CountedOK(a) /\ PastOK(a) /\ SpendOK(a) /\ SeenOK(a)
  BY DEF RateInv, RateOK
<1>3. Tokens(e) > 0 /\ Tokens(e) \in 0 .. Burst /\ Tokens(e)' = Tokens(e) - 1
  <2>1. Tokens(e) > 0 /\ Tokens(e) \in 0 .. Burst
    BY RateTypes DEF Admit
  <2>2. entries'[e].tokens = Tokens(e) - 1 /\ entries'[e].last = now
    BY DEF Admit, Taken, TypeOK
  <2>3. now' - entries'[e].last = 0
    BY <1>1, <2>2, RateTypes
  <2>4. Rate * (now' - entries'[e].last) = 0
    BY <2>3, Drips DEF Drip
  <2>5. entries'[e].tokens + Rate * (now' - entries'[e].last) = Tokens(e) - 1
    BY <2>1, <2>2, <2>4
  <2>6. Tokens(e)' = Min({Burst, Tokens(e) - 1})
    BY <2>5 DEF Tokens
  <2>7. Tokens(e) - 1 \in Nat /\ Tokens(e) - 1 < Burst /\ Burst \in Nat
    BY <2>1, RateTypes
  <2>8. Min({Burst, Tokens(e) - 1}) = Tokens(e) - 1
    BY <2>7, MinIs
  <2> QED
    BY <2>1, <2>6, <2>8
<1>4. \A from \in 0 .. now : Passed(a, from)' = Passed(a, from) + 1
  <2>1. admitted'[a] = CountedNow(admitted[a])
    BY DEF Admit, Identity, TypeOK
  <2>2. admitted[a] \in [0 .. MaxTime + 1 -> Nat]
    BY DEF TypeOK
  <2>3. ASSUME NEW from \in 0 .. now
        PROVE  admitted'[a][from] = admitted[a][from]
               /\ admitted'[a][now + 1] = admitted[a][now + 1] + 1
               /\ admitted[a][from] \in Nat /\ admitted[a][now + 1] \in Nat
    <3>1. from \in 0 .. MaxTime + 1 /\ now + 1 \in 0 .. MaxTime + 1
          /\ ~(from > now) /\ now + 1 > now
      BY RateTypes
    <3> QED
      BY <2>1, <2>2, <3>1 DEF CountedNow
  <2> QED
    BY <1>1, <2>3 DEF Passed
<1>5. CountedOK(a)' /\ PastOK(a)'
  <2>1. admitted'[a] = CountedNow(admitted[a])
    BY DEF Admit, Identity, TypeOK
  <2>2. admitted[a] \in [0 .. MaxTime + 1 -> Nat]
    BY DEF TypeOK
  <2>3. CountedOK(a)'
    <3>1. ASSUME NEW t \in 0 .. MaxTime + 1, t > now
          PROVE  admitted'[a][t] = admitted'[a][now + 1]
      <4>1. now + 1 \in 0 .. MaxTime + 1 /\ now + 1 > now
        BY RateTypes
      <4>2. admitted[a][t] = admitted[a][now + 1]
        BY <1>2, <3>1 DEF CountedOK
      <4>3. \A u \in 0 .. MaxTime + 1 : u > now => admitted'[a][u] = admitted[a][u] + 1
        BY <2>1, <2>2 DEF CountedNow
      <4> QED
        BY <3>1, <4>1, <4>2, <4>3
    <3> QED
      BY <1>1, <3>1 DEF CountedOK
  <2>4. PastOK(a)'
    <3>1. ASSUME NEW t \in 0 .. MaxTime + 1, t <= now
          PROVE  admitted'[a][t] = admitted[a][t]
      <4>1. ~(t > now)
        BY <3>1, RateTypes
      <4> QED
        BY <2>1, <2>2, <4>1 DEF CountedNow
    <3>2. ASSUME NEW from \in Time, NEW to \in Time, from <= to, to < now
          PROVE  /\ from \in 0 .. MaxTime + 1 /\ from <= now
                 /\ to + 1 \in 0 .. MaxTime + 1 /\ to + 1 <= now
      BY <3>2, RateTypes DEF Time
    <3> QED
      BY <1>1, <1>2, <3>1, <3>2 DEF PastOK
  <2> QED
    BY <2>3, <2>4
<1>6. ASSUME NEW r \in Slot, Stale(r)', Identity(r)' = a
      PROVE  Stale(r) /\ Identity(r) = a /\ slot'[r] = slot[r]
  BY <1>1, <1>6 DEF Stale, Holds, Identity
<1>7. RateOK(a)'
  <2>1. CASE e = limiters[a]
    <3>1. e # NoEntry
      BY RateTypes
    <3>2. InHand(a)' = InHand(a) - 1
      <4>1. InHand(a) = Tokens(e) + (IF a \in sweep.doomed THEN Burst ELSE 0)
        BY <2>1, <3>1 DEF InHand
      <4>2. InHand(a)' = Tokens(e)' + (IF a \in sweep.doomed THEN Burst ELSE 0)
        BY <1>1, <2>1, <3>1 DEF InHand, Tokens
      <4> QED
        BY <1>3, <4>1, <4>2, RateTypes
    <3>3. ASSUME NEW r \in Slot, Stale(r)', Identity(r)' = a
          PROVE  /\ Stale(r) /\ Identity(r) = a /\ slot'[r].entry = slot[r].entry
                 /\ Tokens(slot[r].entry)' = Tokens(slot[r].entry)
      <4>1. Stale(r) /\ Identity(r) = a /\ slot'[r] = slot[r]
        BY <1>6, <3>3
      <4>2. slot[r].entry \in Entry /\ slot[r].entry # e
        BY <2>1, <4>1, RateTypes DEF Stale
      <4>3. entries'[slot[r].entry] = entries[slot[r].entry]
        BY <1>1, <4>2
      <4> QED
        BY <1>1, <4>1, <4>3 DEF Tokens
    <3>4. StaleOK(a)'
      BY <1>1, <1>2, <2>1, <3>3 DEF StaleOK
    <3>5. SpendOK(a)'
      <4>1. ASSUME NEW from \in 0 .. now, NEW x \in Int,
                   Passed(a, from) + x + InHand(a) <= 2 * Burst + Drip(now - from)
            PROVE  Passed(a, from)' + x + InHand(a)' <= 2 * Burst + Drip(now - from)
        BY <1>4, <3>2, <4>1, PassedTypes, RateTypes
      <4>2. ASSUME NEW from \in 0 .. now
            PROVE  Passed(a, from)' + InHand(a)' <= 2 * Burst + Drip(now - from)
        <5>1. Passed(a, from) + InHand(a) <= 2 * Burst + Drip(now - from)
          BY <1>2 DEF SpendOK
        <5> QED
          BY <1>4, <3>2, <5>1, PassedTypes, RateTypes
      <4>3. ASSUME NEW from \in 0 .. now, NEW r \in Slot, Stale(r)', Identity(r)' = a
            PROVE  Passed(a, from)' + Tokens(slot[r].entry)' + InHand(a)'
                      <= 2 * Burst + Drip(now - from)
        <5>1. Stale(r) /\ Identity(r) = a /\ Tokens(slot[r].entry)' = Tokens(slot[r].entry)
          BY <3>3, <4>3
        <5>2. Passed(a, from) + Tokens(slot[r].entry) + InHand(a)
                 <= 2 * Burst + Drip(now - from)
          BY <1>2, <5>1 DEF SpendOK
        <5>3. Tokens(slot[r].entry) \in Int
          BY <5>1, RateTypes DEF Stale
        <5> QED
          BY <4>1, <5>1, <5>2, <5>3
      <4> QED
        BY <1>1, <4>2, <4>3 DEF SpendOK
    <3>6. SeenOK(a)'
      <4>1. ASSUME NEW from \in 0 .. now
            PROVE  Passed(a, from)' <= 2 * Burst + Drip(now - from)
        <5>1. Passed(a, from) + InHand(a) <= 2 * Burst + Drip(now - from)
          BY <1>2 DEF SpendOK
        <5>2. InHand(a) >= Tokens(e)
          BY <1>3, <2>1, <3>1, RateTypes DEF InHand
        <5> QED
          BY <1>3, <1>4, <5>1, <5>2, PassedTypes, RateTypes
      <4> QED
        BY <1>1, <2>1, <4>1, RateTypes DEF SeenOK
    <3> QED
      BY <1>5, <3>4, <3>5, <3>6 DEF RateOK
  <2>2. CASE e # limiters[a]
    <3>1. Stale(s)
      BY <1>1, <2>2 DEF Stale
    <3>2. InHand(a)' = InHand(a)
      <4>1. limiters[a] # NoEntry => entries'[limiters[a]] = entries[limiters[a]]
        BY <1>1, <2>2, RateTypes
      <4> QED
        BY <1>1, <4>1 DEF InHand, Tokens
    <3>3. ASSUME NEW r \in Slot, Stale(r)', Identity(r)' = a
          PROVE  /\ Stale(r) /\ Identity(r) = a /\ slot'[r].entry = slot[r].entry
                 /\ slot[r].entry = e /\ Tokens(slot[r].entry)' = Tokens(e) - 1
      <4>1. Stale(r) /\ Identity(r) = a /\ slot'[r] = slot[r]
        BY <1>6, <3>3
      <4>2. slot[r].entry = e /\ slot'[r].entry = e
        BY <1>2, <3>1, <4>1 DEF StaleOK
      <4> QED
        BY <1>3, <4>1, <4>2 DEF Tokens
    <3>4. StaleOK(a)'
      <4>1. limiters[a] # NoEntry => entries'[limiters[a]].lastSeen = now
        BY <1>1, <1>2, <2>2, <3>1, RateTypes DEF StaleOK
      <4>2. a \notin sweep.doomed
        BY <1>2, <3>1 DEF StaleOK
      <4> QED
        BY <1>1, <3>3, <4>1, <4>2 DEF StaleOK
    <3>5. ASSUME NEW from \in 0 .. now
          PROVE  Passed(a, from)' + (Tokens(e) - 1) + InHand(a)'
                    <= 2 * Burst + Drip(now - from)
      <4>1. Passed(a, from) + Tokens(e) + InHand(a) <= 2 * Burst + Drip(now - from)
        BY <1>2, <3>1 DEF SpendOK
      <4> QED
        BY <1>3, <1>4, <3>2, <4>1, PassedTypes, RateTypes
    <3>6. ASSUME NEW from \in 0 .. now
          PROVE  /\ Passed(a, from)' + InHand(a)' <= 2 * Burst + Drip(now - from)
                 /\ Passed(a, from)' <= 2 * Burst + Drip(now - from)
      BY <1>3, <1>4, <3>2, <3>5, PassedTypes, RateTypes
    <3>7. SpendOK(a)'
      BY <1>1, <3>3, <3>5, <3>6 DEF SpendOK
    <3>8. SeenOK(a)'
      <4>1. limiters[a] # NoEntry => entries'[limiters[a]].lastSeen = now
        BY <1>1, <1>2, <2>2, <3>1, RateTypes DEF StaleOK
      <4> QED
        BY <1>1, <3>6, <4>1, RateTypes DEF SeenOK
    <3> QED
      BY <1>5, <3>4, <3>7, <3>8 DEF RateOK
  <2> QED
    BY <2>1, <2>2
<1> QED
  BY <1>1, <1>7 DEF RateInv

\* A request that is refused leaves its mark only in lastSeen.
LEMMA RateTooMany ==
  ASSUME TypeOK, RateInv, NEW s \in Slot, TooMany(s),
         NEW a \in Address, a = Identity(s), NEW e \in Entry, e = slot[s].entry
  PROVE  RateInv'
<1>1. /\ Holds(s) /\ UNCHANGED <<now, limiters, sweep>>
      /\ \A r \in Slot : Holds(r)' => r # s /\ Holds(r) /\ slot'[r] = slot[r]
      /\ \A d \in Entry : d # e => entries'[d] = entries[d]
      /\ entries'[e].lastSeen = now
      /\ Owned' /\ Sweeping'
      /\ \A b \in Address : b # a => RateOK(b)'
  BY RateLeaves
<1>2. StaleOK(a) /\ CountedOK(a) /\ PastOK(a) /\ SpendOK(a) /\ SeenOK(a)
  BY DEF RateInv, RateOK
<1>3. admitted' = admitted /\ \A from : Passed(a, from)' = Passed(a, from)
  BY <1>1 DEF TooMany, Passed
<1>4. \A d \in Entry : Tokens(d)' = Tokens(d)
  <2>1. ASSUME NEW d \in Entry
        PROVE  entries'[d].tokens = entries[d].tokens /\ entries'[d].last = entries[d].last
    <3>1. entries[d] \in [tokens : 0 .. Burst, last : Time, lastSeen : Time]
      BY DEF TypeOK
    <3> QED
      BY <3>1 DEF TooMany, TypeOK
  <2> QED
    BY <1>1, <2>1 DEF Tokens
<1>5. InHand(a)' = InHand(a)
  <2>1. limiters[a] # NoEntry => Tokens(limiters[a])' = Tokens(limiters[a])
    <3>1. \A d \in Entry : limiters[a] = d => Tokens(limiters[a])' = Tokens(d)'
      BY <1>1 DEF Tokens
    <3> QED
      BY <1>4, <3>1, RateTypes
  <2> QED
    BY <1>1, <2>1 DEF InHand
<1>6. ASSUME NEW r \in Slot, Stale(r)', Identity(r)' = a
      PROVE  /\ Stale(r) /\ Identity(r) = a /\ slot'[r].entry = slot[r].entry
             /\ Tokens(slot[r].entry)' = Tokens(slot[r].entry)
  <2>1. Stale(r) /\ Identity(r) = a /\ slot'[r] = slot[r]
    BY <1>1, <1>6 DEF Stale, Holds, Identity
  <2>2. slot[r].entry \in Entry
    BY <2>1, RateTypes DEF Stale
  <2>3. \A d \in Entry : slot[r].entry = d => Tokens(slot[r].entry)' = Tokens(d)'
    BY <2>1 DEF Tokens
  <2> QED
    BY <1>4, <2>1, <2>2, <2>3
<1>7. StaleOK(a)'
  <2>1. limiters[a] # NoEntry /\ (\E r \in Slot : Stale(r)' /\ Identity(r)' = a) =>
           entries'[limiters[a]].lastSeen = now
    BY <1>1, <1>2, <1>6, RateTypes DEF StaleOK
  <2> QED
    BY <1>1, <1>2, <1>6, <2>1 DEF StaleOK
<1>8. CountedOK(a)' /\ PastOK(a)'
  BY <1>1, <1>2, <1>3 DEF CountedOK, PastOK
<1>9. SpendOK(a)'
  BY <1>1, <1>2, <1>3, <1>5, <1>6 DEF SpendOK
<1>10. SeenOK(a)'
  <2>1. CASE limiters[a] = e
    <3>1. ASSUME NEW from \in 0 .. now
          PROVE  Passed(a, from)' <= 2 * Burst + Drip(now - from)
      <4>1. Passed(a, from) + InHand(a) <= 2 * Burst + Drip(now - from)
        BY <1>2 DEF SpendOK
      <4> QED
        BY <1>3, <4>1, PassedTypes, RateTypes
    <3> QED
      BY <1>1, <2>1, <3>1, RateTypes DEF SeenOK
  <2>2. CASE limiters[a] # e
    <3>1. limiters[a] # NoEntry => entries'[limiters[a]] = entries[limiters[a]]
      BY <1>1, <2>2, RateTypes
    <3> QED
      BY <1>1, <1>2, <1>3, <3>1 DEF SeenOK
  <2> QED
    BY <2>1, <2>2
<1> QED
  BY <1>1, <1>2, <1>7, <1>8, <1>9, <1>10 DEF RateInv, RateOK

\* An entry is found expired: it has been idle for so long that what dripped in
\* since makes up for the bucket its deletion will give away.
LEMMA RateLooks ==
  ASSUME TypeOK, RateInv, NEW a \in Address, SweepLooks(a)
  PROVE  RateInv'
<1>1. /\ sweep.doomed = {} /\ UNCHANGED <<now, slot, limiters, entries, admitted>>
      /\ sweep'.at = sweep.at
      /\ sweep'.doomed = IF Expired(a) THEN {a} ELSE {}
  BY DEF SweepLooks, TypeOK
<1>2. Sweeping'
  BY <1>1 DEF RateInv, Sweeping, Expired
<1>3. Owned'
  BY <1>1 DEF RateInv, Owned, Holds, Identity
<1>4. ASSUME NEW b \in Address, ~(b = a /\ Expired(a)) PROVE RateOK(b)'
  <2>1. b \in sweep'.doomed <=> b \in sweep.doomed
    BY <1>1, <1>4
  <2>2. \A r \in Slot : Holds(r)' => Holds(r)
    BY <1>1 DEF Holds
  <2> QED
    BY <1>1, <2>1, <2>2, RateKept DEF RateInv
<1>5. ASSUME Expired(a) PROVE RateOK(a)'
  <2> DEFINE e == limiters[a]
             seen == entries[e].lastSeen
  <2>1. StaleOK(a) /\ CountedOK(a) /\ PastOK(a) /\ SpendOK(a) /\ SeenOK(a)
    BY DEF RateInv, RateOK
  <2>2. /\ e # NoEntry /\ e \in Entry /\ seen \in Nat /\ Tokens(e) \in 0 .. Burst
        /\ Burst \in Nat /\ Ttl \in Nat /\ now \in Nat /\ seen + Ttl + 1 <= now
    <3>1. e # NoEntry /\ sweep.at > seen + Ttl /\ sweep.at <= now
      BY <1>5 DEF Expired, RateInv, Sweeping
    <3>2. sweep.at \in Nat
      BY TimeAssumption DEF TypeOK, Time
    <3> QED
      BY <3>1, <3>2, RateTypes
  <2>3. ASSUME NEW r \in Slot, Identity(r) = a PROVE ~Stale(r)
    BY <2>1, <2>2, <2>3 DEF StaleOK
  <2>4. \A r \in Slot : ~(Stale(r)' /\ Identity(r)' = a)
    BY <1>1, <2>3 DEF Stale, Holds, Identity
  <2>5. \A from : Passed(a, from)' = Passed(a, from)
    BY <1>1 DEF Passed
  <2>6. InHand(a)' = Tokens(e) + Burst
    BY <1>1, <1>5, <2>2 DEF InHand, Tokens
  <2>7. ASSUME NEW from \in 0 .. now
        PROVE  Passed(a, from) + Tokens(e) + Burst <= 2 * Burst + Drip(now - from)
    <3>1. CASE from <= seen
      <4>1. Passed(a, from) <= 2 * Burst + Drip(seen - from)
        BY <2>1, <2>2, <3>1 DEF SeenOK
      <4> DEFINE i == seen - from
                 j == Ttl + 1
                 k == now - from
      <4>2. i \in Nat /\ j \in Nat /\ k \in Nat /\ i + j \in Nat /\ i + j <= k
        BY <2>2, <3>1
      <4>3. Passed(a, from) \in Int /\ Passed(a, from) <= 2 * Burst + Drip(i)
            /\ 2 * Burst <= Drip(j)
        BY <4>1, PassedTypes, DripsBack
      <4> HIDE DEF i, j, k
      <4>4. /\ Drip(i + j) = Drip(i) + Drip(j) /\ Drip(i + j) <= Drip(k)
            /\ Drip(i) \in Nat /\ Drip(j) \in Nat /\ Drip(k) \in Nat
        BY <4>2, Drips
      <4>5. Passed(a, from) + Tokens(e) + Burst <= 2 * Burst + Drip(k)
        BY <2>2, <4>3, <4>4
      <4> QED
        BY <4>5 DEF k
    <3>2. CASE from > seen
      <4>1. Passed(a, from) = 0
        BY <2>1, <2>2, <3>2 DEF SeenOK
      <4> QED
        BY <2>2, <4>1, PassedTypes
    <3> QED
      BY <2>2, <3>1, <3>2
  <2>8. StaleOK(a)'
    BY <2>4 DEF StaleOK
  <2>9. CountedOK(a)' /\ PastOK(a)' /\ SeenOK(a)'
    BY <1>1, <2>1, <2>5 DEF CountedOK, PastOK, SeenOK
  <2>10. SpendOK(a)'
    <3>1. ASSUME NEW from \in 0 .. now
          PROVE  Passed(a, from)' + InHand(a)' <= 2 * Burst + Drip(now - from)
      BY <2>2, <2>5, <2>6, <2>7, PassedTypes
    <3> QED
      BY <1>1, <2>4, <3>1 DEF SpendOK
  <2> QED
    BY <2>8, <2>9, <2>10 DEF RateOK
<1> QED
  BY <1>2, <1>3, <1>4, <1>5 DEF RateInv

\* The deletion leaves the entry to the requests that hold it.
LEMMA RateDeletes ==
  ASSUME TypeOK, RateInv, NEW a \in Address, SweepDeletes(a)
  PROVE  RateInv'
<1>1. /\ a \in sweep.doomed /\ UNCHANGED <<now, slot, entries, admitted>>
      /\ sweep'.at = sweep.at /\ sweep'.doomed = {}
      /\ limiters'[a] = NoEntry
      /\ \A b \in Address : b # a => limiters'[b] = limiters[b]
  BY DEF SweepDeletes, TypeOK
<1>2. Sweeping'
  BY <1>1 DEF RateInv, Sweeping
<1>3. Owned'
  <2>1. \A r \in Slot : (Holds(r)' <=> Holds(r)) /\ Identity(r)' = Identity(r)
    BY <1>1 DEF Holds, Identity
  <2>2. \A r \in Slot : Holds(r) => slot[r].entry # NoEntry
    BY RateTypes
  <2> QED
    BY <1>1, <2>1, <2>2 DEF RateInv, Owned
<1>4. \A b \in Address : \A from : Passed(b, from)' = Passed(b, from)
  BY <1>1 DEF Passed
<1>5. \A d \in Entry : Tokens(d)' = Tokens(d)
  BY <1>1 DEF Tokens
<1>6. ASSUME NEW b \in Address, b # a PROVE RateOK(b)'
  <2>1. StaleOK(b) /\ CountedOK(b) /\ PastOK(b) /\ SpendOK(b) /\ SeenOK(b)
    BY DEF RateInv, RateOK
  <2>2. ASSUME NEW r \in Slot, Stale(r)', Identity(r)' = b
        PROVE  /\ Stale(r) /\ Identity(r) = b /\ slot'[r].entry = slot[r].entry
               /\ Tokens(slot[r].entry)' = Tokens(slot[r].entry)
    BY <1>1, <1>6, <2>2 DEF Stale, Holds, Identity, Tokens
  <2>3. InHand(b)' <= InHand(b) /\ InHand(b)' \in Nat /\ InHand(b) \in Nat
    <3>1. CASE limiters[b] = NoEntry
      BY <1>1, <1>6, <3>1, RateTypes DEF InHand
    <3>2. CASE limiters[b] # NoEntry
      <4>1. PICK d \in Entry : d = limiters[b]
        BY <3>2, RateTypes
      <4>2. InHand(b)' = Tokens(d)' + 0
        BY <1>1, <1>6, <3>2, <4>1 DEF InHand, Tokens
      <4>3. InHand(b) = Tokens(d) + (IF b \in sweep.doomed THEN Burst ELSE 0)
        BY <3>2, <4>1 DEF InHand
      <4> QED
        BY <1>5, <4>2, <4>3, RateTypes
    <3> QED
      BY <3>1, <3>2
  <2>4. StaleOK(b)'
    BY <1>1, <1>6, <2>1, <2>2 DEF StaleOK
  <2>5. CountedOK(b)' /\ PastOK(b)' /\ SeenOK(b)'
    BY <1>1, <1>4, <1>6, <2>1 DEF CountedOK, PastOK, SeenOK
  <2>6. SpendOK(b)'
    <3>1. ASSUME NEW from \in 0 .. now
          PROVE  Passed(b, from)' + InHand(b)' <= 2 * Burst + Drip(now - from)
      <4>1. Passed(b, from) + InHand(b) <= 2 * Burst + Drip(now - from)
        BY <2>1 DEF SpendOK
      <4> QED
        BY <1>4, <2>3, <4>1, PassedTypes, RateTypes
    <3>2. ASSUME NEW from \in 0 .. now, NEW r \in Slot, Stale(r)', Identity(r)' = b
          PROVE  Passed(b, from)' + Tokens(slot[r].entry)' + InHand(b)'
                    <= 2 * Burst + Drip(now - from)
      <4>1. /\ Stale(r) /\ Identity(r) = b
            /\ Tokens(slot[r].entry)' = Tokens(slot[r].entry)
        BY <2>2, <3>2
      <4>2. Passed(b, from) + Tokens(slot[r].entry) + InHand(b)
               <= 2 * Burst + Drip(now - from)
        BY <2>1, <4>1 DEF SpendOK
      <4>3. Tokens(slot[r].entry) \in Int
        BY <4>1, RateTypes DEF Stale
      <4> QED
        BY <1>4, <2>3, <4>1, <4>2, <4>3, PassedTypes, RateTypes
    <3> QED
      BY <1>1, <3>1, <3>2 DEF SpendOK
  <2> QED
    BY <2>4, <2>5, <2>6 DEF RateOK
<1>7. RateOK(a)'
  <2>1. StaleOK(a) /\ CountedOK(a) /\ PastOK(a) /\ SpendOK(a)
    BY DEF RateInv, RateOK
  <2>2. PICK e \in Entry : e = limiters[a]
    BY <1>1, RateTypes DEF RateInv, Sweeping
  <2>3. e # NoEntry /\ InHand(a) = Tokens(e) + Burst /\ InHand(a)' = Burst
    BY <1>1, <2>2, RateTypes DEF InHand
  <2>4. ASSUME NEW r \in Slot, Stale(r)', Identity(r)' = a
        PROVE  slot'[r].entry = e /\ Tokens(slot[r].entry)' = Tokens(e)
    <3>1. Holds(r) /\ Identity(r) = a /\ slot'[r].entry = slot[r].entry
      BY <1>1, <2>4 DEF Stale, Holds, Identity
    <3>2. slot[r].entry = e
      BY <1>1, <2>1, <2>2, <3>1 DEF StaleOK, Stale
    <3> QED
      BY <1>1, <3>1, <3>2 DEF Tokens
  <2>5. StaleOK(a)'
    BY <1>1, <2>4 DEF StaleOK
  <2>6. CountedOK(a)' /\ PastOK(a)' /\ SeenOK(a)'
    BY <1>1, <2>1 DEF CountedOK, PastOK, SeenOK
  <2>7. SpendOK(a)'
    <3>1. ASSUME NEW from \in 0 .. now
          PROVE  /\ Passed(a, from)' + Tokens(e) + InHand(a)' <= 2 * Burst + Drip(now - from)
                 /\ Passed(a, from)' + InHand(a)' <= 2 * Burst + Drip(now - from)
      <4>1. Passed(a, from) + InHand(a) <= 2 * Burst + Drip(now - from)
        BY <2>1 DEF SpendOK
      <4> QED
        BY <1>4, <2>3, <4>1, PassedTypes, RateTypes
    <3> QED
      BY <1>1, <2>4, <3>1 DEF SpendOK
  <2> QED
    BY <2>5, <2>6, <2>7 DEF RateOK
<1> QED
  BY <1>2, <1>3, <1>6, <1>7 DEF RateInv

LEMMA RateStep == TypeOK /\ RateInv /\ [Next]_vars => RateInv'
<1> SUFFICES ASSUME TypeOK, RateInv, [Next]_vars PROVE RateInv'
  OBVIOUS
<1>1. CASE Tick
  BY <1>1, RateTick
<1>2. CASE SweepCache
  BY <1>2, RateAside DEF SweepCache, Holds
<1>3. CASE SweepBegins
  BY <1>3, RateAside DEF SweepBegins, Holds
<1>4. ASSUME NEW a \in Address, SweepLooks(a) \/ SweepDeletes(a) PROVE RateInv'
  BY <1>4, RateLooks, RateDeletes
<1>5. ASSUME NEW s \in Slot, LoadEntry(s) \/ Admit(s) \/ TooMany(s) PROVE RateInv'
  <2>1. slot[s] \in Served
    BY <1>5, ServedNow DEF LoadEntry, Admit, TooMany
  <2>2. PICK a \in Address : a = Identity(s)
    BY <2>1, AddressType DEF Identity, ExtractIdentity, Served
  <2>3. CASE LoadEntry(s)
    BY <2>2, <2>3, RateLoadOld, RateLoadNew
  <2>4. CASE Admit(s) \/ TooMany(s)
    <3>1. PICK e \in Entry : e = slot[s].entry
      BY <2>4 DEF Admit, TooMany, TypeOK
    <3> QED
      BY <2>2, <2>4, <3>1, RateAdmit, RateTooMany
  <2> QED
    BY <1>5, <2>3, <2>4
<1>6. ASSUME NEW s \in Slot,
             \/ \E q \in Requests : Arrive(s, q)
             \/ NoBearer(s) \/ LookUp(s) \/ Validated(s) \/ ValidationFails(s)
             \/ RBACPasses(s) \/ Forbidden(s) \/ Unserved(s) \/ CallService(s)
             \/ \E h \in Routes : CallSucceeds(s, h) \/ CallFails(s, h)
      PROVE  RateInv'
  <2>1. UNCHANGED <<now, limiters, entries, sweep, admitted>>
    BY <1>6 DEF Arrive, NoBearer, LookUp, Validated, ValidationFails, RBACPasses,
       Forbidden, Unserved, CallService, CallSucceeds, CallFails
  <2>2. \A r \in Slot : r # s => slot'[r] = slot[r]
    BY <1>6 DEF Arrive, NoBearer, LookUp, Validated, ValidationFails, RBACPasses,
       Forbidden, Unserved, CallService, CallSucceeds, CallFails, Respond, Step, TypeOK
  <2>3. ~Holds(s)'
    <3>1. slot[s].at # "idle" => slot[s] \in Served
      BY ServedNow
    <3> QED
      BY <1>6, <3>1 DEF Arrive, InProgress, NoBearer, LookUp, Validated, ValidationFails,
         RBACPasses, Forbidden, Unserved, CallService, CallSucceeds, CallFails, Respond,
         Step, TypeOK, Holds, Served
  <2> QED
    BY <2>1, <2>2, <2>3, RateAside DEF Holds
<1>7. CASE UNCHANGED vars
  BY <1>7, RateAside DEF vars, Holds
<1> QED
  BY <1>1, <1>2, <1>3, <1>4, <1>5, <1>6, <1>7 DEF Next

\* What is over keeps the bound, and so does what is spent now.
LEMMA RateImplies == TypeOK /\ RateInv => RateBound
<1> SUFFICES ASSUME TypeOK, RateInv, NEW a \in Address,
                    NEW from \in Time, NEW to \in Time, from <= to
             PROVE  admitted[a][to + 1] - admitted[a][from] <= 2 * Burst + Rate * (to - from)
  BY DEF RateBound
<1>1. /\ now \in Nat /\ Burst \in Nat /\ from \in Nat /\ to \in Nat /\ to - from \in Nat
      /\ \A t \in 0 .. MaxTime + 1 : admitted[a][t] \in Nat
      /\ from \in 0 .. MaxTime + 1 /\ to + 1 \in 0 .. MaxTime + 1
      /\ now + 1 \in 0 .. MaxTime + 1 /\ InHand(a) \in Nat
  BY RateTypes DEF Time
<1>2. CountedOK(a) /\ PastOK(a) /\ SpendOK(a)
  BY DEF RateInv, RateOK
<1>3. Drip(to - from) = Rate * (to - from) /\ Drip(to - from) \in Nat
  BY <1>1, Drips DEF Drip
<1>4. CASE to < now
  BY <1>2, <1>3, <1>4 DEF PastOK
<1>5. CASE to >= now /\ from <= now
  <2>1. admitted[a][to + 1] = admitted[a][now + 1]
    BY <1>1, <1>2, <1>5 DEF CountedOK
  <2>2. Passed(a, from) + InHand(a) <= 2 * Burst + Drip(now - from)
    BY <1>1, <1>2, <1>5 DEF SpendOK
  <2>3. now - from \in Nat /\ now - from <= to - from
    BY <1>1, <1>5
  <2>4. Drip(now - from) \in Nat /\ Drip(now - from) <= Drip(to - from)
    BY <1>1, <2>3, Drips
  <2> QED
    BY <1>1, <1>3, <2>1, <2>2, <2>4 DEF Passed
<1>6. CASE from > now
  <2>1. admitted[a][to + 1] = admitted[a][from]
    BY <1>1, <1>2, <1>6 DEF CountedOK
  <2> QED
    BY <1>1, <1>3, <2>1
<1> QED
  BY <1>1, <1>4, <1>5, <1>6

-----------------------------------------------------------------------------

\* The types of the gateway: every bucket holds between none and Burst tokens
\* and was not refilled in the future, and a request at the limiter has an entry.
THEOREM TypeCorrect == Spec => []TypeOK
<1>1. IInv => TypeOK
  BY DEF IInv
<1> QED
  BY Inductive, <1>1, PTL

\* A request is let in only while its token is valid, by the cache or by the
\* auth service, for any tokens, expiries and interleaving with the sweep.
THEOREM LetInWhileValid == Spec => []AuthorisedWhileValid
<1>1. IInv => AuthorisedWhileValid
  BY DEF IInv
<1> QED
  BY Inductive, <1>1, PTL

\* Behind the interceptors as the auth service installs them, the gateway lets
\* no request past JWTMiddleware, whatever tokens it carries.
THEOREM NobodyIn == Spec => []GuardedLetsNobodyIn
<1>1. IInv => GuardedLetsNobodyIn
  BY DEF IInv
<1> QED
  BY Inductive, <1>1, PTL

\* Over any stretch of time no identity gets more than two full buckets and what
\* drips in, for any number of requests at once and any interleaving of theirs with
\* the sweep, provided an entry stays for as long as two buckets take to drip in.
THEOREM LimitHolds == Spec => []RateBound
<1>1. Spec => []TypeOK
  BY TypeCorrect
<1>2. Init => RateInv
  BY RateInit
<1>3. TypeOK /\ RateInv /\ [Next]_vars => RateInv'
  BY RateStep
<1>4. TypeOK /\ RateInv => RateBound
  BY RateImplies
<1> QED
  BY <1>1, <1>2, <1>3, <1>4, PTL DEF Spec
=============================================================================
