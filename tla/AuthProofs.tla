----------------------------- MODULE AuthProofs -----------------------------
(***************************************************************************)
(* Proofs about AuthTokens, for any number of requests, accounts, tokens,  *)
(* retries and faults.  IInv is the inductive invariant: the properties to *)
(* be shown, and what they rest on, namely that a token which is still to  *)
(* be stored is known to nobody but the request that generated it.  Chain  *)
(* is what holds in addition while nothing fails.                          *)
(***************************************************************************)
EXTENDS AuthTokens, TLAPS

\* Tokens come from the generator, and have no parent before.
Generated ==
  /\ \A r \in rows : r.jti <= minted
  /\ \A t \in held : t <= minted
  /\ \A t \in Ids : t > minted => parent[t] = None

\* The token a request is about to store is its own, not held and not revoked.
Pending ==
  \A p \in Requests : req[p].at = "store" =>
    /\ req[p].new \in Ids /\ req[p].new <= minted
    /\ req[p].new \notin held
    /\ \A r \in rows : r.jti = req[p].new => ~r.revoked
    /\ \A q \in Requests : req[q].at = "store" /\ req[q].new = req[p].new => q = p

\* The token a request came with is one that somebody holds.
Presented ==
  \A p \in Requests : req[p].at \in {"find", "revoke"} => req[p].tok \in held

\* What was revoked when the request came is revoked when it is looked up.
LateIsRevoked ==
  \A p \in Requests : req[p].at = "find" /\ req[p].late => req[p].tok \in Revoked

Core == /\ Generated /\ Pending /\ Presented /\ LateIsRevoked
        /\ RevokedIsRefused /\ HeldIsStored /\ CopiesAgree

IInv == TypeOK /\ Core

-----------------------------------------------------------------------------
(* Types.                                                                   *)

LEMMA IdleIsRequest == Idle \in RequestStates
BY AuthAssumption DEF Idle, RequestStates, RequestRecords, Tries

\* A disturbance is counted within its budget.
LEMMA SpendType ==
  ASSUME TypeOK, NEW k \in Kinds, Spend(k)
  PROVE  /\ spent' \in [Kinds -> Nat]
         /\ \A j \in Kinds : spent'[j] <= Budget[j]
         /\ spent'[k] # 0
<1>1. /\ spent \in [Kinds -> Nat] /\ Budget \in [Kinds -> Nat]
      /\ \A j \in Kinds : spent[j] <= Budget[j]
      /\ spent[k] < Budget[k] /\ spent' = [spent EXCEPT ![k] = @ + 1]
  BY AuthAssumption DEF TypeOK, Spend
<1>2. spent[k] \in Nat /\ Budget[k] \in Nat /\ spent'[k] = spent[k] + 1
  BY <1>1
<1>3. \A j \in Kinds : j # k => spent'[j] = spent[j]
  BY <1>1
<1> QED
  BY <1>1, <1>2, <1>3

LEMMA StatementType ==
  ASSUME TypeOK, NEW ok \in BOOLEAN, Statement(ok)
  PROVE  /\ spent' \in [Kinds -> Nat]
         /\ \A j \in Kinds : spent'[j] <= Budget[j]
         /\ ~ok => spent'["io"] # 0
<1>1. CASE ok
  BY <1>1 DEF Statement, TypeOK
<1>2. CASE ~ok
  BY <1>2, SpendType DEF Statement, Kinds
<1> QED
  BY <1>1, <1>2

\* What the helpers that end a step do with the requests.
LEMMA RequestSteps ==
  ASSUME TypeOK, NEW p \in Requests
  PROVE  /\ End(p) => req' \in [Requests -> RequestStates]
         /\ Retry(p) => req' \in [Requests -> RequestStates]
         /\ GenerateAndStore(p) =>
              /\ req' \in [Requests -> RequestStates]
              /\ minted' \in 0 .. MaxIds
              /\ minted' = minted + 1 /\ minted' \in Ids
         /\ req[p].at = "find" /\ Goto(p, "revoke") =>
              req' \in [Requests -> RequestStates]
         /\ \A r \in RequestStates : Begin(p, r) => req' \in [Requests -> RequestStates]
<1>1. End(p) => req' \in [Requests -> RequestStates]
  BY IdleIsRequest DEF TypeOK, End
<1>2. Retry(p) => req' \in [Requests -> RequestStates]
  <2>1. CASE req[p].tries + 1 < MaxTries
    <3>1. req[p] \in RequestStates
      BY DEF TypeOK
    <3>2. req[p].tries + 1 \in Tries
      BY <2>1, <3>1, AuthAssumption DEF RequestStates, RequestRecords, Tries
    <3>3. [req[p] EXCEPT !.tries = @ + 1] \in RequestStates
      BY <3>1, <3>2 DEF RequestStates, RequestRecords
    <3> QED
      BY <2>1, <3>3 DEF TypeOK, Retry
  <2> QED
    BY <1>1, <2>1 DEF Retry
<1>3. GenerateAndStore(p) => /\ req' \in [Requests -> RequestStates]
                             /\ minted' \in 0 .. MaxIds
                             /\ minted' = minted + 1 /\ minted' \in Ids
  <2> SUFFICES ASSUME GenerateAndStore(p)
               PROVE  /\ req' \in [Requests -> RequestStates]
                      /\ minted' \in 0 .. MaxIds
                      /\ minted' = minted + 1 /\ minted' \in Ids
    OBVIOUS
  <2>1. /\ minted' = minted + 1 /\ minted' \in Ids /\ minted' \in 0 .. MaxIds
    BY AuthAssumption DEF TypeOK, GenerateAndStore, Ids
  <2>2. req[p] \in RequestStates
    BY DEF TypeOK
  <2>3. [req[p] EXCEPT !.at = "store", !.new = minted + 1] \in RequestStates
    BY <2>1, <2>2, AuthAssumption DEF RequestStates, RequestRecords, Ids
  <2> QED
    BY <2>1, <2>3 DEF TypeOK, GenerateAndStore
<1>4. req[p].at = "find" /\ Goto(p, "revoke") => req' \in [Requests -> RequestStates]
  <2>1. req[p] \in RequestStates
    BY DEF TypeOK
  <2>2. req[p].at = "find" => [req[p] EXCEPT !.at = "revoke"] \in RequestStates
    BY <2>1 DEF RequestStates, RequestRecords
  <2> QED
    BY <2>2 DEF TypeOK, Goto
<1>5. \A r \in RequestStates : Begin(p, r) => req' \in [Requests -> RequestStates]
  BY DEF TypeOK, Begin
<1> QED
  BY <1>1, <1>2, <1>3, <1>4, <1>5

LEMMA RowsRevokedType ==
  ASSUME TypeOK, NEW t
  PROVE  RowsRevoked(t) \subseteq Rows
BY DEF TypeOK, RowsRevoked, Rows

\* What a token in the table looks like after RevokeByJTI.
LEMMA RowsRevokedFacts ==
  ASSUME TypeOK, NEW t
  PROVE  /\ \A r \in RowsRevoked(t) : r.jti = t => r.revoked
         /\ \A r \in RowsRevoked(t) : r.jti # t => r \in rows
         /\ \A q \in rows : q.jti # t => q \in RowsRevoked(t)
         /\ \A r \in RowsRevoked(t) : \E q \in rows : q.jti = r.jti
         /\ \A q \in rows : \E r \in RowsRevoked(t) : r.jti = q.jti
<1>1. \A q \in rows : q \in Rows
  BY DEF TypeOK
<1>2. \A r \in RowsRevoked(t) : r.jti = t => r.revoked
  BY <1>1 DEF RowsRevoked, Rows
<1>3. \A r \in RowsRevoked(t) : r.jti # t => r \in rows
  BY <1>1 DEF RowsRevoked, Rows
<1>4. \A q \in rows : q.jti # t => q \in RowsRevoked(t)
  BY <1>1 DEF RowsRevoked, Rows
<1>5. \A r \in RowsRevoked(t) : \E q \in rows : q.jti = r.jti
  BY <1>1 DEF RowsRevoked, Rows
<1>6. \A q \in rows : \E r \in RowsRevoked(t) : r.jti = q.jti
  <2> SUFFICES ASSUME NEW q \in rows, q.jti = t
               PROVE  \E r \in RowsRevoked(t) : r.jti = q.jti
    BY <1>4
  <2>1. [q EXCEPT !.revoked = TRUE] \in RowsRevoked(t)
    BY DEF RowsRevoked
  <2>2. [q EXCEPT !.revoked = TRUE].jti = q.jti
    BY <1>1 DEF Rows
  <2> QED
    BY <2>1, <2>2
<1> QED
  BY <1>2, <1>3, <1>4, <1>5, <1>6

LEMMA NewRowType ==
  ASSUME TypeOK, NEW p \in Requests, req[p].new \in Ids
  PROVE  /\ NewRow(p) \in Rows
         /\ NewRow(p).jti = req[p].new
         /\ NewRow(p).revoked = FALSE
<1>1. req[p] \in RequestStates
  BY DEF TypeOK
<1>2. 0 \in Tries /\ req[p].tries \in Tries
  BY <1>1, AuthAssumption DEF RequestStates, RequestRecords, Tries
<1> QED
  BY <1>2 DEF NewRow, Rows

LEMMA InitType == Init => TypeOK
<1> SUFFICES ASSUME Init PROVE TypeOK
  OBVIOUS
<1>1. req \in [Requests -> RequestStates]
  BY IdleIsRequest DEF Init
<1>2. spent \in [Kinds -> Nat] /\ \A k \in Kinds : spent[k] <= Budget[k]
  BY AuthAssumption DEF Init
<1> QED
  BY <1>1, <1>2, AuthAssumption DEF Init, TypeOK

LEMMA TypeStep == TypeOK /\ [Next]_vars => TypeOK'
<1> SUFFICES ASSUME TypeOK, [Next]_vars PROVE TypeOK'
  OBVIOUS
<1>t. \A p \in Requests : req[p] \in RequestStates
  BY DEF TypeOK
<1>n. held \subseteq Ids /\ \A x \in Ids : x \in Ids \cup {None}
  BY DEF TypeOK
<1>1. CASE UNCHANGED vars
  BY <1>1 DEF vars, TypeOK
<1>2. ASSUME NEW p \in Requests, BeginLogin(p) \/ BeginRegister(p)
      PROVE  TypeOK'
  <2>1. \A n \in Names :
          /\ [Idle EXCEPT !.op = "login", !.at = "user", !.name = n] \in RequestStates
          /\ [Idle EXCEPT !.op = "register", !.at = "exists", !.name = n]
               \in RequestStates
    BY IdleIsRequest DEF RequestStates, RequestRecords, Idle
  <2>2. req' \in [Requests -> RequestStates]
    BY <1>2, <2>1, RequestSteps DEF BeginLogin, BeginRegister
  <2> QED
    BY <1>2, <2>2 DEF TypeOK, BeginLogin, BeginRegister
<1>3. ASSUME NEW p \in Requests, BeginRefresh(p) \/ BeginLogout(p)
      PROVE  TypeOK'
  <2>1. \A b \in BOOLEAN, t \in held : \A o \in {"refresh", "logout"} :
          [Idle EXCEPT !.op = o, !.at = "find", !.tok = t, !.late = b]
            \in RequestStates
    BY <1>n, IdleIsRequest, AuthAssumption DEF RequestStates, RequestRecords, Idle
  <2>2. PICK o \in {"refresh", "logout"} : BeginFind(p, o)
    BY <1>3 DEF BeginRefresh, BeginLogout
  <2>3. PICK t \in held : Begin(p, [Idle EXCEPT !.op = o, !.at = "find", !.tok = t,
                                             !.late = t \in Revoked])
    BY <2>2 DEF BeginFind
  <2>4. (t \in Revoked) \in BOOLEAN
    OBVIOUS
  <2>5. [Idle EXCEPT !.op = o, !.at = "find", !.tok = t, !.late = t \in Revoked]
          \in RequestStates
    BY <2>1, <2>4, Zenon
  <2>6. req' \in [Requests -> RequestStates]
    BY <2>3, <2>5, RequestSteps
  <2> QED
    BY <2>2, <2>6 DEF TypeOK, BeginFind
<1>4. ASSUME NEW p \in Requests, BeginRevoke(p)
      PROVE  TypeOK'
  <2>1. \A t \in held :
          [Idle EXCEPT !.op = "revoke", !.at = "revoke", !.tok = t] \in RequestStates
    BY <1>n, IdleIsRequest, AuthAssumption DEF RequestStates, RequestRecords, Idle
  <2>2. req' \in [Requests -> RequestStates]
    BY <1>4, <2>1, RequestSteps DEF BeginRevoke
  <2> QED
    BY <1>4, <2>2 DEF TypeOK, BeginRevoke
<1>5. ASSUME NEW p \in Requests, FindUser(p)
      PROVE  TypeOK'
  <2>1. req' \in [Requests -> RequestStates] /\ minted' \in 0 .. MaxIds
    BY <1>5, RequestSteps DEF FindUser, TypeOK
  <2>2. spent' \in [Kinds -> Nat] /\ \A k \in Kinds : spent'[k] <= Budget[k]
    BY <1>5, StatementType DEF FindUser, TypeOK
  <2> QED
    BY <1>5, <2>1, <2>2 DEF TypeOK, FindUser
<1>6. ASSUME NEW p \in Requests, UserExists(p)
      PROVE  TypeOK'
  <2>1. req' \in [Requests -> RequestStates]
    BY <1>6, RequestSteps DEF UserExists
  <2>2. spent' \in [Kinds -> Nat] /\ \A k \in Kinds : spent'[k] <= Budget[k]
    BY <1>6, StatementType DEF UserExists
  <2> QED
    BY <1>6, <2>1, <2>2 DEF TypeOK, UserExists
<1>7. ASSUME NEW p \in Requests, FindToken(p)
      PROVE  TypeOK'
  <2>1. req' \in [Requests -> RequestStates]
    BY <1>7, RequestSteps DEF FindToken, Found
  <2>2. spent' \in [Kinds -> Nat] /\ \A k \in Kinds : spent'[k] <= Budget[k]
    BY <1>7, StatementType DEF FindToken, Found, TypeOK
  <2> QED
    BY <1>7, <2>1, <2>2 DEF TypeOK, FindToken, Found
<1>8. ASSUME NEW p \in Requests, RevokeOld(p)
      PROVE  TypeOK'
  <2>1. /\ req' \in [Requests -> RequestStates]
        /\ minted' \in 0 .. MaxIds /\ minted' = minted + 1 /\ minted' \in Ids
    BY <1>8, RequestSteps DEF RevokeOld
  <2>2. spent' \in [Kinds -> Nat] /\ \A k \in Kinds : spent'[k] <= Budget[k]
    BY <1>8, StatementType DEF RevokeOld
  <2>3. rows' \subseteq Rows
    BY <1>8, RowsRevokedType DEF RevokeOld, OldRows, TypeOK
  <2>4. req[p].tok \in Ids \cup {None}
    BY <1>t DEF RequestStates, RequestRecords
  <2>5. parent' \in [Ids -> Ids \cup {None}]
    BY <1>8, <2>4 DEF RevokeOld, TypeOK
  <2> QED
    BY <1>8, <2>1, <2>2, <2>3, <2>5 DEF TypeOK, RevokeOld
<1>9. ASSUME NEW p \in Requests, RevokeToken(p)
      PROVE  TypeOK'
  <2>1. req' \in [Requests -> RequestStates]
    BY <1>9, RequestSteps DEF RevokeToken
  <2>2. spent' \in [Kinds -> Nat] /\ \A k \in Kinds : spent'[k] <= Budget[k]
    BY <1>9, StatementType DEF RevokeToken
  <2>3. rows' \subseteq Rows
    BY <1>9, RowsRevokedType DEF RevokeToken, TypeOK
  <2>4. req[p].tok \in Ids
    BY <1>9, <1>t DEF RevokeToken, RequestStates, RequestRecords
  <2>5. ended' \subseteq Ids
    BY <1>9, <2>4 DEF RevokeToken, TypeOK
  <2> QED
    BY <1>9, <2>1, <2>2, <2>3, <2>5 DEF TypeOK, RevokeToken
<1>10. ASSUME NEW p \in Requests, StoreToken(p)
       PROVE  TypeOK'
  <2>1. req[p].new \in Ids
    BY <1>10, <1>t DEF StoreToken, RequestStates, RequestRecords
  <2>2. NewRow(p) \in Rows
    BY <2>1, NewRowType
  <2>3. req' \in [Requests -> RequestStates] /\ held' \subseteq Ids
    BY <1>10, <2>1, RequestSteps DEF StoreToken, Answer, TypeOK
  <2>4. spent' \in [Kinds -> Nat] /\ \A k \in Kinds : spent'[k] <= Budget[k]
    BY <1>10, StatementType DEF StoreToken, TypeOK
  <2>5. rows' \subseteq Rows
    BY <1>10, <2>2 DEF StoreToken, TypeOK
  <2> QED
    BY <1>10, <2>3, <2>4, <2>5 DEF TypeOK, StoreToken
<1>11. ASSUME NEW p \in Requests, Vanish(p)
       PROVE  TypeOK'
  <2>1. req' \in [Requests -> RequestStates]
    BY <1>11, RequestSteps DEF Vanish
  <2>2. spent' \in [Kinds -> Nat] /\ \A k \in Kinds : spent'[k] <= Budget[k]
    BY <1>11, SpendType DEF Vanish, Kinds
  <2> QED
    BY <1>11, <2>1, <2>2 DEF TypeOK, Vanish
<1>12. ASSUME NEW t \in Ids, Expire(t)
       PROVE  TypeOK'
  BY <1>12 DEF TypeOK, Expire
<1> QED
  BY <1>1, <1>2, <1>3, <1>4, <1>5, <1>6, <1>7, <1>8, <1>9, <1>10, <1>11, <1>12
     DEF Next, Arrive, Step

\* Every variable of AuthTokens keeps its type, no call is retried more often than
\* backoff allows, and no disturbance comes more often than its budget.
THEOREM AuthTypeCorrect == Spec => []TypeOK
BY InitType, TypeStep, PTL DEF Spec

-----------------------------------------------------------------------------
(* What holds whatever fails.                                               *)

\* What every step keeps that adds no row: the table gains no copy of a token nobody
\* holds, and loses no revocation.
TableKept ==
  /\ CopiesAgree' /\ HeldIsStored'
  /\ \A r \in rows' : r.jti <= minted
  /\ Revoked \subseteq Revoked'
  /\ \A r \in rows' : r.jti \notin held => r \in rows

\* RevokeByJTI on a token that somebody holds.
LEMMA RevokeStep ==
  ASSUME IInv, NEW t \in held, rows' = rows \/ rows' = RowsRevoked(t), held' = held
  PROVE  TableKept
<1> USE DEF IInv, TableKept
<1>1. CASE rows' = rows
  BY <1>1 DEF Core, CopiesAgree, HeldIsStored, Generated, Revoked
<1>2. CASE rows' = RowsRevoked(t)
  <2>1. CopiesAgree'
    <3>1. \A r \in rows' : r.revoked \in BOOLEAN
      BY <1>2, RowsRevokedType DEF Rows
    <3>2. \A r, q \in rows' : r.jti # t /\ r.jti = q.jti => r.revoked = q.revoked
      BY <1>2, RowsRevokedFacts DEF Core, CopiesAgree
    <3>3. \A r \in rows' : r.jti = t => r.revoked = TRUE
      BY <1>2, <3>1, RowsRevokedFacts
    <3> QED
      BY <3>2, <3>3 DEF CopiesAgree
  <2>2. HeldIsStored'
    BY <1>2, RowsRevokedFacts DEF Core, HeldIsStored
  <2>3. \A r \in rows' : r.jti <= minted
    BY <1>2, RowsRevokedFacts DEF Core, Generated
  <2>4. Revoked \subseteq Revoked'
    <3> SUFFICES ASSUME NEW q \in rows, q.revoked
                 PROVE  \E r \in rows' : r.jti = q.jti /\ r.revoked
      BY DEF Revoked
    <3> QED
      BY <1>2, RowsRevokedFacts
  <2>5. \A r \in rows' : r.jti \notin held => r \in rows
    BY <1>2, RowsRevokedFacts
  <2> QED
    BY <2>1, <2>2, <2>3, <2>4, <2>5
<1> QED
  BY <1>1, <1>2

\* A step that moves a request on, to somewhere it may be.
LEMMA MoveStep ==
  ASSUME IInv, NEW p \in Requests, NEW r,
         req' = [req EXCEPT ![p] = r], UNCHANGED <<minted, parent, held>>,
         TableKept,
         r.at # "store",
         r.at \in {"find", "revoke"} => r.tok \in held,
         r.at = "find" /\ r.late => r.tok \in Revoked,
         r.op \in {"refresh", "logout"} /\ r.at = "revoke" => ~r.late
  PROVE  Core'
<1>1. req'[p] = r /\ \A q \in Requests \ {p} : req'[q] = req[q]
  BY DEF IInv, TypeOK
<1>2. Generated' /\ HeldIsStored' /\ CopiesAgree'
  BY DEF IInv, Core, Generated, TableKept
<1>3. Pending'
  BY <1>1 DEF IInv, Core, Pending, TableKept
<1>4. Presented'
  BY <1>1 DEF IInv, Core, Presented
<1>5. LateIsRevoked'
  BY <1>1 DEF IInv, Core, LateIsRevoked, TableKept
<1>6. RevokedIsRefused'
  BY <1>1 DEF IInv, Core, RevokedIsRefused
<1> QED
  BY <1>2, <1>3, <1>4, <1>5, <1>6 DEF Core

LEMMA SameTable == ASSUME IInv, UNCHANGED <<rows, held>> PROVE TableKept
BY DEF IInv, Core, CopiesAgree, HeldIsStored, Generated, Revoked, TableKept

\* A step that ends a request.
LEMMA EndStep ==
  ASSUME IInv, NEW p \in Requests, End(p), UNCHANGED <<minted, parent, held>>, TableKept
  PROVE  Core'
<1>1. Idle.at = "idle" /\ Idle.op = "none"
  BY DEF Idle
<1>2. req' = [req EXCEPT ![p] = Idle]
  BY DEF End
<1> QED
  BY <1>1, <1>2, MoveStep

\* The new token of Login and Refresh is nobody's yet.
LEMMA GenerateStep ==
  ASSUME IInv, TypeOK', NEW p \in Requests, GenerateAndStore(p), held' = held,
         req[p].op \in {"refresh", "logout"} => ~req[p].late,
         TableKept,
         \A i \in Ids : i > minted + 1 => parent'[i] = parent[i]
  PROVE  Core'
<1>1. /\ minted \in Nat /\ minted' = minted + 1 /\ minted' \in Ids
      /\ req'[p].at = "store" /\ req'[p].new = minted + 1
      /\ req'[p].op = req[p].op /\ req'[p].late = req[p].late
      /\ \A q \in Requests \ {p} : req'[q] = req[q]
  <2>1. req[p] \in RequestStates
    BY DEF IInv, TypeOK
  <2>2. req' = [req EXCEPT ![p] = [req[p] EXCEPT !.at = "store", !.new = minted + 1]]
    BY DEF GenerateAndStore
  <2>3. req'[p] = [req[p] EXCEPT !.at = "store", !.new = minted + 1]
    BY <2>2 DEF IInv, TypeOK
  <2>4. \A q \in Requests \ {p} : req'[q] = req[q]
    BY <2>2 DEF IInv, TypeOK
  <2>5. /\ req'[p].at = "store" /\ req'[p].new = minted + 1
        /\ req'[p].op = req[p].op /\ req'[p].late = req[p].late
    BY <2>1, <2>3 DEF RequestStates, RequestRecords
  <2>6. minted \in Nat /\ minted' = minted + 1 /\ minted' \in Ids
    BY RequestSteps DEF IInv, TypeOK
  <2> QED
    BY <2>4, <2>5, <2>6
<1>n. /\ \A i \in Ids : i \in Int
      /\ \A r \in rows' : r.jti \in Ids /\ r.jti \in Int
      /\ held \subseteq Ids
  BY DEF IInv, TypeOK, Ids, Rows
<1>2. Generated'
  <2>1. \A r \in rows' : r.jti <= minted'
    BY <1>1, <1>n DEF TableKept
  <2>2. \A i \in held' : i <= minted'
    BY <1>1, <1>n DEF IInv, Core, Generated
  <2>3. \A i \in Ids : i > minted' => parent'[i] = None
    BY <1>1, <1>n DEF IInv, Core, Generated
  <2> QED
    BY <2>1, <2>2, <2>3 DEF Generated
<1>3. Pending'
  <2>1. ASSUME NEW q \in Requests \ {p}, req[q].at = "store"
        PROVE  /\ req[q].new \in Ids /\ req[q].new <= minted /\ req[q].new \notin held
               /\ req[q].new <= minted + 1
               /\ \A r \in rows' : r.jti = req[q].new => ~r.revoked
               /\ \A o \in Requests \ {p} :
                    req[o].at = "store" /\ req[o].new = req[q].new => o = q
    <3>1. /\ req[q].new \in Ids /\ req[q].new <= minted /\ req[q].new \notin held
          /\ \A r \in rows' : r.jti = req[q].new => ~r.revoked
          /\ \A o \in Requests : req[o].at = "store" /\ req[o].new = req[q].new => o = q
      BY <2>1 DEF IInv, Core, Pending, TableKept
    <3>2. req[q].new \in Int /\ minted \in Int
      BY <3>1 DEF IInv, TypeOK, Ids
    <3>3. req[q].new <= minted + 1
      BY <3>1, <3>2
    <3> QED
      BY <3>1, <3>3
  <2>2. minted + 1 \notin held /\ \A r \in rows' : r.jti # minted + 1
    BY <1>1, <1>n DEF IInv, Core, Generated, TableKept
  <2>3. \A q \in Requests \ {p} : req[q].at = "store" => req[q].new # minted + 1
    BY <1>1, <1>n, <2>1
  <2> SUFFICES ASSUME NEW q \in Requests, req'[q].at = "store"
               PROVE  /\ req'[q].new \in Ids /\ req'[q].new <= minted'
                      /\ req'[q].new \notin held'
                      /\ \A r \in rows' : r.jti = req'[q].new => ~r.revoked
                      /\ \A o \in Requests :
                           req'[o].at = "store" /\ req'[o].new = req'[q].new => o = q
    BY DEF Pending
  <2>4. CASE q = p
    BY <1>1, <2>2, <2>3, <2>4
  <2>5. CASE q # p
    BY <1>1, <1>n, <2>1, <2>3, <2>5
  <2> QED
    BY <2>4, <2>5
<1>4. Presented'
  BY <1>1 DEF IInv, Core, Presented
<1>5. LateIsRevoked'
  BY <1>1 DEF IInv, Core, LateIsRevoked, TableKept
<1>6. RevokedIsRefused'
  BY <1>1 DEF IInv, Core, RevokedIsRefused
<1> QED
  BY <1>2, <1>3, <1>4, <1>5, <1>6 DEF Core, TableKept

\* An attempt of the INSERT, and the answer.
LEMMA StoreStep ==
  ASSUME IInv, TypeOK', NEW p \in Requests, StoreToken(p)
  PROVE  Core'
<1> DEFINE t == req[p].new
<1>1. /\ req[p].at = "store" /\ t \in Ids /\ t <= minted /\ t \notin held
      /\ \A r \in rows : r.jti = t => ~r.revoked
      /\ \A q \in Requests : req[q].at = "store" /\ req[q].new = t => q = p
  BY DEF StoreToken, IInv, Core, Pending
<1>2. NewRow(p).jti = t /\ NewRow(p).revoked = FALSE
  BY <1>1, NewRowType DEF IInv
<1>3. rows' = rows \/ rows' = rows \cup {NewRow(p)}
  BY DEF StoreToken
<1>4. \/ held' = held /\ (End(p) \/ req' = [req EXCEPT ![p].tries = @ + 1])
      \/ /\ held' = held \cup {t} /\ End(p)
         /\ NewRow(p) \in rows'
  BY DEF StoreToken, Answer, Retry
<1>5. /\ \A q \in Requests \ {p} : req'[q] = req[q]
      /\ req'[p].at \in {"idle", "store"}
      /\ req'[p].at = "store" => /\ req'[p].new = t /\ held' = held
                                 /\ req'[p].op = req[p].op /\ req'[p].late = req[p].late
  <2>1. req[p] \in RequestStates /\ req \in [Requests -> RequestStates]
    BY DEF IInv, TypeOK
  <2>2. CASE End(p)
    BY <2>1, <2>2 DEF End, Idle
  <2>3. CASE held' = held /\ req' = [req EXCEPT ![p].tries = @ + 1]
    BY <1>1, <2>1, <2>3 DEF RequestStates, RequestRecords
  <2> QED
    BY <1>4, <2>2, <2>3
<1>6. UNCHANGED <<minted, parent>>
  BY DEF StoreToken
<1> HIDE DEF t
<1>7. Revoked' = Revoked
  BY <1>2, <1>3 DEF Revoked
<1>8. Generated'
  BY <1>1, <1>2, <1>3, <1>4, <1>6 DEF IInv, Core, Generated
<1>9. Pending'
  BY <1>1, <1>2, <1>3, <1>4, <1>5, <1>6 DEF IInv, Core, Pending
<1>10. Presented'
  BY <1>4, <1>5 DEF IInv, Core, Presented
<1>11. LateIsRevoked'
  BY <1>5, <1>7 DEF IInv, Core, LateIsRevoked
<1>12. RevokedIsRefused'
  BY <1>1, <1>5 DEF IInv, Core, RevokedIsRefused
<1>13. HeldIsStored'
  BY <1>2, <1>3, <1>4 DEF IInv, Core, HeldIsStored
<1>14. CopiesAgree'
  <2>1. \A r \in rows : r.jti = t => r.revoked = FALSE
    BY <1>1 DEF IInv, TypeOK, Rows
  <2> QED
    BY <1>2, <1>3, <2>1 DEF IInv, Core, CopiesAgree
<1> QED
  BY <1>8, <1>9, <1>10, <1>11, <1>12, <1>13, <1>14 DEF Core

LEMMA CoreStep == IInv /\ TypeOK' /\ [Next]_vars => Core'
<1> SUFFICES ASSUME IInv, TypeOK', [Next]_vars PROVE Core'
  OBVIOUS
<1>t. \A p \in Requests : req[p] \in RequestStates
  BY DEF IInv, TypeOK
<1>i. Idle.at = "idle" /\ Idle.tok = None /\ Idle \in RequestStates
  BY IdleIsRequest DEF Idle
<1>1. CASE UNCHANGED vars
  BY <1>1 DEF vars, IInv, Core, Generated, Pending, Presented, LateIsRevoked,
              RevokedIsRefused, HeldIsStored, CopiesAgree, Revoked
<1>2. ASSUME NEW p \in Requests, BeginLogin(p) \/ BeginRegister(p)
      PROVE  Core'
  <2>1. PICK n \in Names :
          \/ Begin(p, [Idle EXCEPT !.op = "login", !.at = "user", !.name = n])
          \/ Begin(p, [Idle EXCEPT !.op = "register", !.at = "exists", !.name = n])
    BY <1>2 DEF BeginLogin, BeginRegister
  <2> DEFINE r == [Idle EXCEPT !.op = "login", !.at = "user", !.name = n]
             s == [Idle EXCEPT !.op = "register", !.at = "exists", !.name = n]
  <2>2. r.at = "user" /\ s.at = "exists"
    BY DEF Idle
  <2>3. req' = [req EXCEPT ![p] = r] \/ req' = [req EXCEPT ![p] = s]
    BY <2>1 DEF Begin
  <2> HIDE DEF r, s
  <2> QED
    BY <1>2, <2>2, <2>3, MoveStep, SameTable DEF BeginLogin, BeginRegister
<1>3. ASSUME NEW p \in Requests, NEW op \in {"refresh", "logout"}, BeginFind(p, op)
      PROVE  Core'
  <2>1. PICK t \in held :
          Begin(p, [Idle EXCEPT !.op = op, !.at = "find", !.tok = t,
                                !.late = t \in Revoked])
    BY <1>3 DEF BeginFind
  <2> DEFINE r == [Idle EXCEPT !.op = op, !.at = "find", !.tok = t,
                               !.late = t \in Revoked]
  <2>2. r.at = "find" /\ r.tok = t /\ (r.late => t \in Revoked)
    BY DEF Idle
  <2>3. req' = [req EXCEPT ![p] = r]
    BY <2>1 DEF Begin
  <2> HIDE DEF r
  <2> QED
    BY <1>3, <2>2, <2>3, MoveStep, SameTable DEF BeginFind
<1>4. ASSUME NEW p \in Requests, BeginRevoke(p)
      PROVE  Core'
  <2>1. PICK t \in held :
          Begin(p, [Idle EXCEPT !.op = "revoke", !.at = "revoke", !.tok = t])
    BY <1>4 DEF BeginRevoke
  <2> DEFINE r == [Idle EXCEPT !.op = "revoke", !.at = "revoke", !.tok = t]
  <2>2. r.at = "revoke" /\ r.tok = t /\ r.op = "revoke"
    BY DEF Idle
  <2>3. req' = [req EXCEPT ![p] = r]
    BY <2>1 DEF Begin
  <2> HIDE DEF r
  <2> QED
    BY <1>4, <2>2, <2>3, MoveStep, SameTable DEF BeginRevoke
<1>5. ASSUME NEW p \in Requests, FindUser(p)
      PROVE  Core'
  <2>1. CASE End(p) /\ UNCHANGED minted
    BY <1>5, <2>1, EndStep, SameTable DEF FindUser
  <2>2. CASE GenerateAndStore(p)
    <3>1. req[p].op = "login"
      BY <1>5, <1>t DEF FindUser, RequestStates
    <3> QED
      BY <1>5, <2>2, <3>1, GenerateStep, SameTable DEF FindUser
  <2> QED
    BY <1>5, <2>1, <2>2 DEF FindUser
<1>6. ASSUME NEW p \in Requests, UserExists(p)
      PROVE  Core'
  BY <1>6, EndStep, SameTable DEF UserExists
<1>7. ASSUME NEW p \in Requests, FindToken(p)
      PROVE  Core'
  <2>1. CASE End(p)
    BY <1>7, <2>1, EndStep, SameTable DEF FindToken, Found
  <2>2. ASSUME NEW r \in rows, r.jti = req[p].tok, Usable(r), Goto(p, "revoke")
        PROVE  Core'
    <3> DEFINE s == [req[p] EXCEPT !.at = "revoke"]
    <3>1. req[p].at = "find"
      BY <1>7 DEF FindToken
    <3>2. s.at = "revoke" /\ s.tok = req[p].tok /\ s.late = req[p].late
      BY <1>t DEF RequestStates, RequestRecords
    <3>3. req[p].tok \in held
      BY <3>1 DEF IInv, Core, Presented
    <3>4. ~req[p].late
      BY <2>2, <3>1 DEF IInv, Core, LateIsRevoked, CopiesAgree, Revoked, Usable
    <3>5. req' = [req EXCEPT ![p] = s]
      BY <2>2 DEF Goto
    <3> HIDE DEF s
    <3> QED
      BY <1>7, <3>2, <3>3, <3>4, <3>5, MoveStep, SameTable DEF FindToken, Found
  <2> QED
    BY <1>7, <2>1, <2>2 DEF FindToken, Found
<1>8. ASSUME NEW p \in Requests, RevokeOld(p)
      PROVE  Core'
  <2>1. req[p].at = "revoke" /\ req[p].op = "refresh" /\ req[p].tok \in held
    BY <1>8 DEF RevokeOld, IInv, Core, Presented
  <2>2. ~req[p].late
    BY <2>1 DEF IInv, Core, RevokedIsRefused
  <2>3. TableKept
    BY <1>8, <2>1, RevokeStep DEF RevokeOld, OldRows
  <2>4. \A i \in Ids : i > minted + 1 => parent'[i] = parent[i]
    BY <1>8 DEF RevokeOld, IInv, TypeOK, Ids
  <2> QED
    BY <1>8, <2>2, <2>3, <2>4, GenerateStep DEF RevokeOld
<1>9. ASSUME NEW p \in Requests, RevokeToken(p)
      PROVE  Core'
  <2>1. req[p].at = "revoke" /\ req[p].tok \in held
    BY <1>9 DEF RevokeToken, IInv, Core, Presented
  <2>2. TableKept
    BY <1>9, <2>1, RevokeStep DEF RevokeToken
  <2>3. CASE End(p)
    BY <1>9, <2>2, <2>3, EndStep DEF RevokeToken
  <2>4. CASE req' = [req EXCEPT ![p].tries = @ + 1]
    <3> DEFINE s == [req[p] EXCEPT !.tries = @ + 1]
    <3>1. /\ s.at = "revoke" /\ s.tok = req[p].tok /\ s.late = req[p].late
          /\ s.op = req[p].op
      BY <1>t, <2>1 DEF RequestStates, RequestRecords
    <3>2. req[p].op \in {"refresh", "logout"} => ~req[p].late
      BY <2>1 DEF IInv, Core, RevokedIsRefused
    <3>3. req' = [req EXCEPT ![p] = s]
      BY <2>4
    <3> HIDE DEF s
    <3> QED
      BY <1>9, <2>1, <2>2, <3>1, <3>2, <3>3, MoveStep DEF RevokeToken
  <2> QED
    BY <1>9, <2>3, <2>4 DEF RevokeToken, Retry
<1>10. ASSUME NEW p \in Requests, StoreToken(p)
       PROVE  Core'
  BY <1>10, StoreStep
<1>11. ASSUME NEW p \in Requests, Vanish(p)
       PROVE  Core'
  BY <1>11, EndStep, SameTable DEF Vanish
<1>12. ASSUME NEW t \in Ids, Expire(t)
       PROVE  Core'
  BY <1>12 DEF Expire, IInv, Core, Generated, Pending, Presented, LateIsRevoked,
               RevokedIsRefused, HeldIsStored, CopiesAgree, Revoked
<1> QED
  BY <1>1, <1>2, <1>3, <1>4, <1>5, <1>6, <1>7, <1>8, <1>9, <1>10, <1>11, <1>12
     DEF Next, Arrive, Step, BeginRefresh, BeginLogout

\* Every statement about what is safe, in one induction.
LEMMA Inductive == Spec => []IInv
<1>1. Init => IInv
  <2> SUFFICES ASSUME Init PROVE IInv
    OBVIOUS
  <2>1. TypeOK
    BY InitType
  <2>2. Core
    BY DEF Init, Core, Generated, Pending, Presented, LateIsRevoked, RevokedIsRefused,
           HeldIsStored, CopiesAgree, Idle
  <2> QED
    BY <2>1, <2>2 DEF IInv
<1>2. IInv /\ [Next]_vars => IInv'
  BY TypeStep, CoreStep DEF IInv
<1> QED
  BY <1>1, <1>2, PTL DEF Spec

\* A token that was revoked when a request came with it is of no use to the request,
\* for any number of requests side by side and whatever fails (refresh.go, logout.go).
THEOREM RevokedCorrect == Spec => []RevokedIsRefused
BY Inductive, PTL DEF IInv, Core

\* A token that was given to a client has its row, whatever failed on the way.
THEOREM HeldCorrect == Spec => []HeldIsStored
BY Inductive, PTL DEF IInv, Core

\* The rows that retries of Login left of one jti are always revoked together.
THEOREM CopiesCorrect == Spec => []CopiesAgree
BY Inductive, PTL DEF IInv, Core

-----------------------------------------------------------------------------
(* What holds while nothing fails and nobody goes away.                     *)

AtStore(p) == req[p].at = "store"

\* The token that is replaced is revoked before its successor is stored, and the
\* successor's INSERT finds its id free.
Handover ==
  Faultless =>
    \A p \in Requests : AtStore(p) =>
      /\ parent[req[p].new] # None => parent[req[p].new] \in Revoked
      /\ \A r \in rows : r.jti # req[p].new

Chain == Handover /\ UsedIsRevoked /\ SessionKept

LEMMA FaultlessSpend ==
  ASSUME TypeOK, NEW k \in Kinds, Spend(k)
  PROVE  ~Faultless'
BY SpendType DEF Faultless

LEMMA FaultlessStatement ==
  ASSUME TypeOK, NEW ok \in BOOLEAN, Statement(ok), Faultless'
  PROVE  ok = TRUE /\ Faultless
BY FaultlessSpend DEF Statement, Faultless, Kinds

\* A step that changes no token and no request at its INSERT, and revokes only what
\* is ended by it.
LEMMA KeptStep ==
  ASSUME IInv, Chain, Faultless' => Faultless, UNCHANGED <<parent, held>>,
         ended \subseteq ended', Revoked \subseteq Revoked',
         Revoked' \subseteq Revoked \cup ended',
         \A r \in rows' : \E q \in rows : q.jti = r.jti,
         \A q \in Requests : (AtStore(q))' \/ AtStore(q) => req'[q] = req[q]
  PROVE  Chain'
<1> SUFFICES ASSUME Faultless' PROVE Chain'
  BY DEF Chain, Handover, UsedIsRevoked, SessionKept
<1>1. Handover'
  BY DEF Chain, Handover, AtStore
<1>2. UsedIsRevoked'
  BY DEF Chain, UsedIsRevoked
<1>3. SessionKept'
  BY DEF Chain, SessionKept, AtStore
<1> QED
  BY <1>1, <1>2, <1>3 DEF Chain

\* What RevokeByJTI does to the table, if it was applied.
LEMMA RevokedAfter ==
  ASSUME IInv, NEW t \in held, rows' = RowsRevoked(t)
  PROVE  /\ Revoked' = Revoked \cup {t}
         /\ \A r \in rows' : \E q \in rows : q.jti = r.jti
<1> USE DEF IInv
<1>1. Revoked' \subseteq Revoked \cup {t}
  BY RowsRevokedFacts DEF Revoked
<1>2. t \in Revoked'
  <2>1. PICK q \in rows : q.jti = t
    BY DEF Core, HeldIsStored
  <2>2. PICK r \in rows' : r.jti = t
    BY <2>1, RowsRevokedFacts
  <2> QED
    BY <2>2, RowsRevokedFacts DEF Revoked
<1>3. Revoked \subseteq Revoked'
  <2> SUFFICES ASSUME NEW q \in rows, q.revoked, q.jti # t
               PROVE  q.jti \in Revoked'
    BY <1>2 DEF Revoked
  <2> QED
    BY RowsRevokedFacts DEF Revoked
<1> QED
  BY <1>1, <1>2, <1>3, RowsRevokedFacts

\* A token is generated, by Login without a parent and by Refresh with one that has
\* just been revoked.
LEMMA NewTokenStep ==
  ASSUME IInv, Chain, NEW p \in Requests, GenerateAndStore(p), ~AtStore(p),
         Faultless' => Faultless, held' = held, ended' = ended,
         Revoked \subseteq Revoked',
         Revoked' \subseteq Revoked \cup {parent'[minted + 1]},
         \A r \in rows' : \E q \in rows : q.jti = r.jti,
         \A i \in Ids \ {minted + 1} : parent'[i] = parent[i],
         Faultless' /\ parent'[minted + 1] # None => parent'[minted + 1] \in Revoked'
  PROVE  Chain'
<1> SUFFICES ASSUME Faultless' PROVE Chain'
  BY DEF Chain, Handover, UsedIsRevoked, SessionKept
<1>1. /\ (AtStore(p))' /\ req'[p].new = minted + 1 /\ minted + 1 \in Ids
      /\ \A q \in Requests \ {p} : req'[q] = req[q]
  <2>1. req' = [req EXCEPT ![p] = [req[p] EXCEPT !.at = "store", !.new = minted + 1]]
    BY DEF GenerateAndStore
  <2>2. req'[p] = [req[p] EXCEPT !.at = "store", !.new = minted + 1]
    BY <2>1 DEF IInv, TypeOK
  <2>3. req[p] \in RequestStates
    BY DEF IInv, TypeOK
  <2>4. minted + 1 \in Ids
    BY RequestSteps DEF IInv
  <2>5. \A q \in Requests \ {p} : req'[q] = req[q]
    BY <2>1 DEF IInv, TypeOK
  <2> QED
    BY <2>2, <2>3, <2>4, <2>5 DEF AtStore, RequestStates, RequestRecords
<1>2. /\ minted + 1 \notin held /\ minted + 1 \in Ids
      /\ \A r \in rows' : r.jti # minted + 1
      /\ \A q \in Requests : AtStore(q) => req[q].new \in Ids \ {minted + 1}
  <2>1. minted \in Int /\ \A i \in Ids : i \in Int
    BY DEF IInv, TypeOK, Ids
  <2>2. held \subseteq Ids /\ \A r \in rows : r.jti \in Ids
    BY DEF IInv, TypeOK, Rows
  <2>3. \A t \in held : t # minted + 1
    BY <2>1, <2>2 DEF IInv, Core, Generated
  <2>4. \A r \in rows : r.jti # minted + 1
    BY <2>1, <2>2 DEF IInv, Core, Generated
  <2>5. \A q \in Requests : AtStore(q) => req[q].new \in Ids \ {minted + 1}
    BY <2>1 DEF IInv, Core, Pending, AtStore
  <2> QED
    BY <1>1, <2>3, <2>4, <2>5
<1>3. Handover'
  <2> SUFFICES ASSUME NEW q \in Requests, (AtStore(q))'
               PROVE  /\ parent'[req'[q].new] # None => parent'[req'[q].new] \in Revoked'
                      /\ \A r \in rows' : r.jti # req'[q].new
    BY DEF Handover, AtStore
  <2>1. CASE q = p
    BY <1>1, <1>2, <2>1
  <2>2. CASE q # p
    BY <1>1, <1>2, <2>2 DEF Chain, Handover, AtStore
  <2> QED
    BY <2>1, <2>2
<1>4. UsedIsRevoked'
  BY <1>2 DEF Chain, UsedIsRevoked, IInv, TypeOK
<1>5. SessionKept'
  <2> SUFFICES ASSUME NEW t \in Revoked' \ ended'
               PROVE  \/ \E s \in held' : parent'[s] = t
                      \/ \E q \in Requests : (AtStore(q))' /\ parent'[req'[q].new] = t
    BY DEF SessionKept, AtStore
  <2>1. CASE t = parent'[minted + 1]
    BY <1>1, <2>1
  <2>2. CASE t \in Revoked
    <3>1. \/ \E s \in held : parent[s] = t
          \/ \E q \in Requests : AtStore(q) /\ parent[req[q].new] = t
      BY <2>2 DEF Chain, SessionKept, AtStore
    <3>2. CASE \E s \in held : parent[s] = t
      BY <1>2, <3>2 DEF IInv, TypeOK
    <3>3. ASSUME NEW q \in Requests, AtStore(q), parent[req[q].new] = t
          PROVE  (AtStore(q))' /\ parent'[req'[q].new] = t
      BY <1>1, <1>2, <3>3 DEF AtStore
    <3> QED
      BY <3>1, <3>2, <3>3
  <2> QED
    BY <2>1, <2>2
<1> QED
  BY <1>3, <1>4, <1>5 DEF Chain

\* The successor is stored at the first attempt, and given to the client.
LEMMA HandoverStep ==
  ASSUME IInv, Chain, NEW p \in Requests, StoreToken(p)
  PROVE  Chain'
<1> SUFFICES ASSUME Faultless' PROVE Chain'
  BY DEF Chain, Handover, UsedIsRevoked, SessionKept
<1>1. /\ AtStore(p) /\ req[p].new \in Ids /\ req[p].new \notin held
      /\ \A q \in Requests : AtStore(q) /\ req[q].new = req[p].new => q = p
  BY DEF StoreToken, AtStore, IInv, Core, Pending
<1>2. NewRow(p).jti = req[p].new /\ NewRow(p).revoked = FALSE
  BY <1>1, NewRowType DEF IInv
<1>3. Faultless /\ rows' = rows \cup {NewRow(p)} /\ Answer(p, TRUE)
  <2>1. CASE UNCHANGED <<rows, spent>> /\ \E r \in rows : r.jti = NewRow(p).jti
    <3>1. Faultless
      BY <2>1 DEF Faultless
    <3> QED
      BY <1>1, <1>2, <2>1, <3>1 DEF Chain, Handover
  <2>2. ASSUME NEW ok \in BOOLEAN, NEW applied \in BOOLEAN, ok => applied,
               Statement(ok), Answer(p, ok),
               rows' = IF applied THEN rows \cup {NewRow(p)} ELSE rows
        PROVE  Faultless /\ rows' = rows \cup {NewRow(p)} /\ Answer(p, TRUE)
    BY <2>2, FaultlessStatement DEF IInv
  <2> QED
    BY <2>1, <2>2 DEF StoreToken
<1>4. /\ held' = held \cup {req[p].new} /\ UNCHANGED <<parent, ended>>
      /\ ~(AtStore(p))' /\ \A q \in Requests \ {p} : req'[q] = req[q]
  <2>1. req' = [req EXCEPT ![p] = Idle] /\ held' = held \cup {req[p].new}
    BY <1>3 DEF Answer, End
  <2> QED
    BY <2>1 DEF StoreToken, IInv, TypeOK, AtStore, Idle
<1>5. Revoked' = Revoked
  BY <1>2, <1>3 DEF Revoked
<1>6. Handover'
  BY <1>1, <1>2, <1>3, <1>4, <1>5 DEF Chain, Handover, AtStore
<1>7. UsedIsRevoked'
  BY <1>1, <1>3, <1>4, <1>5 DEF Chain, Handover, UsedIsRevoked
<1>8. SessionKept'
  BY <1>1, <1>3, <1>4, <1>5 DEF Chain, SessionKept, AtStore
<1> QED
  BY <1>6, <1>7, <1>8 DEF Chain

LEMMA ChainStep == IInv /\ Chain /\ [Next]_vars => Chain'
<1> SUFFICES ASSUME IInv, Chain, [Next]_vars PROVE Chain'
  OBVIOUS
<1>f. ASSUME NEW ok \in BOOLEAN, Statement(ok)
      PROVE  Faultless' => Faultless /\ ok
  BY <1>f, FaultlessStatement DEF IInv
<1>e. \A p \in Requests : End(p) =>
        /\ ~(AtStore(p))' /\ \A q \in Requests \ {p} : req'[q] = req[q]
  BY DEF End, IInv, TypeOK, AtStore, Idle
<1>1. ASSUME UNCHANGED <<rows, parent, held, ended>>, Faultless' => Faultless,
             \A q \in Requests : (AtStore(q))' \/ AtStore(q) => req'[q] = req[q]
      PROVE  Chain'
  <2>1. Revoked' = Revoked
    BY <1>1 DEF Revoked
  <2> QED
    BY <1>1, <2>1, KeptStep
<1>2. ASSUME NEW p \in Requests, Arrive(p)
      PROVE  Chain'
  <2>1. PICK r : Begin(p, r) /\ r.at # "store"
    <3>1. CASE BeginLogin(p)
      <4>1. PICK n \in Names :
              Begin(p, [Idle EXCEPT !.op = "login", !.at = "user", !.name = n])
        BY <3>1 DEF BeginLogin
      <4>2. [Idle EXCEPT !.op = "login", !.at = "user", !.name = n].at = "user"
        BY DEF Idle
      <4> QED
        BY <4>1, <4>2
    <3>2. CASE BeginRegister(p)
      <4>1. PICK n \in Names :
              Begin(p, [Idle EXCEPT !.op = "register", !.at = "exists", !.name = n])
        BY <3>2 DEF BeginRegister
      <4>2. [Idle EXCEPT !.op = "register", !.at = "exists", !.name = n].at = "exists"
        BY DEF Idle
      <4> QED
        BY <4>1, <4>2
    <3>3. ASSUME NEW op \in {"refresh", "logout"}, BeginFind(p, op)
          PROVE  \E r : Begin(p, r) /\ r.at # "store"
      <4>1. PICK t \in held :
              Begin(p, [Idle EXCEPT !.op = op, !.at = "find", !.tok = t,
                                    !.late = t \in Revoked])
        BY <3>3 DEF BeginFind
      <4>2. [Idle EXCEPT !.op = op, !.at = "find", !.tok = t,
                         !.late = t \in Revoked].at = "find"
        BY DEF Idle
      <4> QED
        BY <4>1, <4>2
    <3>4. CASE BeginRevoke(p)
      <4>1. PICK t \in held :
              Begin(p, [Idle EXCEPT !.op = "revoke", !.at = "revoke", !.tok = t])
        BY <3>4 DEF BeginRevoke
      <4>2. [Idle EXCEPT !.op = "revoke", !.at = "revoke", !.tok = t].at = "revoke"
        BY DEF Idle
      <4> QED
        BY <4>1, <4>2
    <3> QED
      BY <1>2, <3>1, <3>2, <3>3, <3>4 DEF Arrive, BeginRefresh, BeginLogout
  <2>2. \A q \in Requests : (AtStore(q))' \/ AtStore(q) => req'[q] = req[q]
    BY <2>1 DEF Begin, IInv, TypeOK, AtStore, Idle
  <2>3. UNCHANGED <<rows, parent, held, ended, spent>>
    BY <1>2 DEF Arrive, BeginLogin, BeginRegister, BeginRefresh, BeginLogout,
                BeginFind, BeginRevoke
  <2> QED
    BY <1>1, <2>2, <2>3 DEF Faultless
<1>3. ASSUME NEW p \in Requests, FindUser(p)
      PROVE  Chain'
  <2>1. req[p].at = "user"
    BY <1>3 DEF FindUser
  <2>2. CASE End(p)
    BY <1>1, <1>3, <1>e, <1>f, <2>1, <2>2 DEF FindUser, AtStore, Faultless
  <2>3. CASE GenerateAndStore(p) /\ UNCHANGED spent
    <3>1. parent[minted + 1] = None
      <4>1. minted + 1 \in Ids /\ minted + 1 > minted
        BY <2>3, RequestSteps DEF IInv, TypeOK
      <4> QED
        BY <4>1 DEF IInv, Core, Generated
    <3>2. Revoked' = Revoked
      BY <1>3 DEF FindUser, Revoked
    <3> QED
      BY <1>3, <2>1, <2>3, <3>1, <3>2, NewTokenStep DEF FindUser, AtStore, Faultless
  <2> QED
    BY <1>3, <2>2, <2>3 DEF FindUser
<1>4. ASSUME NEW p \in Requests, UserExists(p)
      PROVE  Chain'
  BY <1>1, <1>4, <1>e, <1>f DEF UserExists, AtStore
<1>5. ASSUME NEW p \in Requests, FindToken(p)
      PROVE  Chain'
  <2>1. ~AtStore(p)
    BY <1>5 DEF FindToken, AtStore
  <2>2. Faultless' => Faultless
    BY <1>5, <1>f DEF FindToken, Faultless
  <2>3. CASE End(p)
    BY <1>1, <1>5, <1>e, <2>1, <2>2, <2>3 DEF FindToken, Found
  <2>4. CASE Goto(p, "revoke")
    <3>1. \A q \in Requests : (AtStore(q))' \/ AtStore(q) => req'[q] = req[q]
      <4>1. req' = [req EXCEPT ![p] = [req[p] EXCEPT !.at = "revoke"]]
        BY <2>4 DEF Goto
      <4>2. req'[p].at = "revoke"
        BY <4>1 DEF IInv, TypeOK, RequestStates, RequestRecords
      <4> QED
        BY <2>1, <4>1, <4>2 DEF AtStore, IInv, TypeOK
    <3> QED
      BY <1>1, <1>5, <2>2, <3>1 DEF FindToken, Found
  <2> QED
    BY <1>5, <2>3, <2>4 DEF FindToken, Found
<1>6. ASSUME NEW p \in Requests, RevokeOld(p)
      PROVE  Chain'
  <2>1. req[p].at = "revoke" /\ req[p].tok \in held
    BY <1>6 DEF RevokeOld, IInv, Core, Presented
  <2>2. PICK ok \in BOOLEAN, applied \in BOOLEAN :
          /\ ok => applied
          /\ Statement(ok)
          /\ rows' = IF applied THEN RowsRevoked(req[p].tok) ELSE rows
    BY <1>6 DEF RevokeOld, OldRows
  <2>3. minted + 1 \in Ids
    BY <1>6, RequestSteps DEF RevokeOld, IInv
  <2>4. /\ parent'[minted + 1] = req[p].tok
        /\ \A i \in Ids \ {minted + 1} : parent'[i] = parent[i]
    BY <1>6, <2>3 DEF RevokeOld, IInv, TypeOK
  <2>5. /\ Revoked' = IF applied THEN Revoked \cup {req[p].tok} ELSE Revoked
        /\ \A r \in rows' : \E q \in rows : q.jti = r.jti
    <3>1. CASE applied
      BY <2>1, <2>2, <3>1, RevokedAfter
    <3>2. CASE ~applied
      BY <2>2, <3>2 DEF Revoked
    <3> QED
      BY <3>1, <3>2
  <2>6. Faultless' => Faultless /\ applied
    BY <1>f, <2>2
  <2>7. GenerateAndStore(p) /\ ~AtStore(p) /\ held' = held /\ ended' = ended
    BY <1>6, <2>1 DEF RevokeOld, AtStore
  <2> QED
    BY <2>4, <2>5, <2>6, <2>7, NewTokenStep
<1>7. ASSUME NEW p \in Requests, RevokeToken(p)
      PROVE  Chain'
  <2>1. req[p].at = "revoke" /\ req[p].tok \in held
    BY <1>7 DEF RevokeToken, IInv, Core, Presented
  <2>2. PICK ok \in BOOLEAN, applied \in BOOLEAN :
          /\ Statement(ok)
          /\ rows' = IF applied THEN RowsRevoked(req[p].tok) ELSE rows
          /\ ended' = IF applied THEN ended \cup {req[p].tok} ELSE ended
          /\ End(p) \/ Retry(p)
    BY <1>7 DEF RevokeToken
  <2>3. /\ Revoked' = IF applied THEN Revoked \cup {req[p].tok} ELSE Revoked
        /\ \A r \in rows' : \E q \in rows : q.jti = r.jti
    <3>1. CASE applied
      BY <2>1, <2>2, <3>1, RevokedAfter
    <3>2. CASE ~applied
      BY <2>2, <3>2 DEF Revoked
    <3> QED
      BY <3>1, <3>2
  <2>4. \A q \in Requests : (AtStore(q))' \/ AtStore(q) => req'[q] = req[q]
    <3>1. CASE End(p)
      BY <1>e, <2>1, <3>1 DEF AtStore
    <3>2. CASE req' = [req EXCEPT ![p].tries = @ + 1]
      <4>1. req[p] \in RequestStates
        BY DEF IInv, TypeOK
      <4>2. req'[p].at = "revoke"
        BY <2>1, <3>2, <4>1 DEF IInv, TypeOK, RequestStates, RequestRecords
      <4> QED
        BY <2>1, <3>2, <4>2 DEF AtStore, IInv, TypeOK
    <3> QED
      BY <2>2, <3>1, <3>2 DEF Retry
  <2>5. Faultless' => Faultless
    BY <1>f, <2>2
  <2>6. UNCHANGED <<parent, held>>
    BY <1>7 DEF RevokeToken
  <2> QED
    BY <2>2, <2>3, <2>4, <2>5, <2>6, KeptStep
<1>8. ASSUME NEW p \in Requests, StoreToken(p)
      PROVE  Chain'
  BY <1>8, HandoverStep
<1>9. ASSUME NEW p \in Requests, Vanish(p)
      PROVE  Chain'
  <2>1. ~Faultless'
    BY <1>9, FaultlessSpend DEF Vanish, Kinds, IInv
  <2> QED
    BY <2>1 DEF Chain, Handover, UsedIsRevoked, SessionKept
<1>10. CASE UNCHANGED vars \/ \E t \in Ids : Expire(t)
  BY <1>1, <1>10 DEF vars, Expire, AtStore, Faultless
<1> QED
  BY <1>2, <1>3, <1>4, <1>5, <1>6, <1>7, <1>8, <1>9, <1>10 DEF Next, Step

LEMMA ChainInductive == Spec => []Chain
<1>1. Init => Chain
  BY DEF Init, Chain, Handover, UsedIsRevoked, SessionKept, AtStore, Idle, Revoked
<1> QED
  BY <1>1, Inductive, ChainStep, PTL DEF Spec

\* While no statement fails and nobody goes away, a token that was refreshed into one
\* a client holds is revoked, however many requests run side by side (refresh.go).
THEOREM UsedCorrect == Spec => []UsedIsRevoked
BY ChainInductive, PTL DEF Chain

\* While no statement fails and nobody goes away, Refresh revokes no token without
\* giving its client another: no session is lost between the two statements.
THEOREM SessionCorrect == Spec => []SessionKept
BY ChainInductive, PTL DEF Chain
=============================================================================
