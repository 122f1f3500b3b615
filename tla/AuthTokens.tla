----------------------------- MODULE AuthTokens -----------------------------
(***************************************************************************)
(* The auth service: the requests of usecase/*.go that run side by side    *)
(* over the refresh_tokens table of PostgreSQL.  Every statement commits   *)
(* by itself, so a request is a few steps, one for each statement, and any *)
(* step of another request may come between two.  All state is in the      *)
(* table: the requests may be those of several instances, before and after *)
(* a restart.                                                              *)
(*                                                                         *)
(* A refresh token is known by its jti.  Access tokens have no row and are *)
(* left out: whoever presents one where a refresh token belongs is told    *)
(* that it is not found.  Calls come with a bearer the interceptors accept *)
(* and a well-formed request.  Of revoked_at only its presence is read.    *)
(* The users table never changes: Register fails before its INSERT (see    *)
(* UserExists), so every account is one that was put in by hand.           *)
(***************************************************************************)
EXTENDS Integers

CONSTANTS Requests,   \* handler goroutines
          Names,      \* usernames
          Accounts,   \* those that have a row in users
          None,
          MaxIds,     \* bound on the refresh tokens generated
          MaxTries,   \* attempts that fit into MaxElapsedTime
          Budget      \* Budget[k]: how many disturbances of kind k to allow

(* io: a statement returns an error.  gone: a request ends with no answer,  *)
(* its caller's context cancelled or its process dead.                      *)
Kinds == {"io", "gone"}

Ids == 1 .. MaxIds
Tries == 0 .. MaxTries - 1

ASSUME AuthAssumption ==
  /\ MaxIds \in Nat
  /\ MaxTries \in Nat \ {0}
  /\ Budget \in [Kinds -> Nat]
  /\ Accounts \subseteq Names
  /\ None \notin Ids \cup Names

VARIABLES
  rows,      \* the refresh_tokens table
  minted,    \* how many refresh tokens have been generated
  parent,    \* history: the token that was refreshed into this one
  held,      \* the refresh tokens that were returned to a client
  expired,   \* those of them whose exp has passed
  ended,     \* history: the tokens that Logout or RevokeToken updated
  req,       \* the requests
  spent      \* how many disturbances of each kind there have been

vars == <<rows, minted, parent, held, expired, ended, req, spent>>

\* try tells apart the ids of the rows of one jti.
Rows == [jti : Ids, try : Tries, revoked : BOOLEAN]

\* A request: what it does, the statement it is at, the token or the name it came
\* with, the token it has generated, its failed attempts, and (history) whether
\* its token was revoked already when it came.
RequestRecords ==
  [ op : {"none", "login", "register", "refresh", "logout", "revoke"},
    at : {"idle", "user", "exists", "find", "revoke", "store"},
    tok : Ids \cup {None}, name : Names \cup {None}, new : Ids \cup {None},
    tries : Tries, late : BOOLEAN ]

\* A request at a statement has what the statement asks for.
RequestStates ==
  {r \in RequestRecords : /\ r.at = "user" => r.op = "login"
                          /\ r.at \in {"find", "revoke"} => r.tok # None
                          /\ r.at = "store" => r.new # None}

Idle == [ op |-> "none", at |-> "idle", tok |-> None, name |-> None,
          new |-> None, tries |-> 0, late |-> FALSE ]

-----------------------------------------------------------------------------

Spend(k) == /\ spent[k] < Budget[k]
            /\ spent' = [spent EXCEPT ![k] = @ + 1]

\* A statement returns nil, or an error.
Statement(ok) == IF ok THEN UNCHANGED spent ELSE Spend("io")

Begin(p, r) == /\ req[p] = Idle
               /\ req' = [req EXCEPT ![p] = r]

Goto(p, at) == req' = [req EXCEPT ![p].at = at]

\* signer.Generate draws the jti of the token that Store will write.
GenerateAndStore(p) ==
  /\ minted < MaxIds
  /\ minted' = minted + 1
  /\ req' = [req EXCEPT ![p].at = "store", ![p].new = minted + 1]

End(p) == req' = [req EXCEPT ![p] = Idle]

\* Mutant: a failed attempt is the last.
RetryNever(p) == End(p)
\* Mutant: backoff counts no attempts.
RetryPastLimit(p) == req' = [req EXCEPT ![p].tries = @ + 1]
\* backoff.Execute after a failed attempt: another one while there is time.
Retry(p) ==
  IF req[p].tries + 1 < MaxTries THEN req' = [req EXCEPT ![p].tries = @ + 1]
                                 ELSE End(p)

Revoked == {r.jti : r \in {q \in rows : q.revoked}}

\* Mutant: the UPDATE finds its row by id.
RowsRevokedById(t) ==
  {IF r.jti = t /\ r.try = 0 THEN [r EXCEPT !.revoked = TRUE] ELSE r : r \in rows}
\* tokenRepo.RevokeByJTI: every row of the token, whatever it was before.
RowsRevoked(t) ==
  {IF r.jti = t THEN [r EXCEPT !.revoked = TRUE] ELSE r : r \in rows}

-----------------------------------------------------------------------------

Init ==
  /\ rows = {}
  /\ minted = 0
  /\ parent = [t \in Ids |-> None]
  /\ held = {} /\ expired = {} /\ ended = {}
  /\ req = [p \in Requests |-> Idle]
  /\ spent = [k \in Kinds |-> 0]

(* A request arrives.                                                       *)

BeginLogin(p) ==
  /\ \E n \in Names :
       Begin(p, [Idle EXCEPT !.op = "login", !.at = "user", !.name = n])
  /\ UNCHANGED <<rows, minted, parent, held, expired, ended, spent>>

BeginRegister(p) ==
  /\ \E n \in Names :
       Begin(p, [Idle EXCEPT !.op = "register", !.at = "exists", !.name = n])
  /\ UNCHANGED <<rows, minted, parent, held, expired, ended, spent>>

\* Refresh and Logout parse the token: it was signed here and has not expired.
BeginFind(p, op) ==
  /\ \E t \in held \ expired :
       Begin(p, [Idle EXCEPT !.op = op, !.at = "find", !.tok = t,
                             !.late = t \in Revoked])
  /\ UNCHANGED <<rows, minted, parent, held, expired, ended, spent>>

BeginRefresh(p) == BeginFind(p, "refresh")
BeginLogout(p) == BeginFind(p, "logout")

\* RevokeToken looks at neither signature nor expiry.
BeginRevoke(p) ==
  /\ \E t \in held :
       Begin(p, [Idle EXCEPT !.op = "revoke", !.at = "revoke", !.tok = t])
  /\ UNCHANGED <<rows, minted, parent, held, expired, ended, spent>>

(* Statements.                                                              *)

\* Login: FindByUsername, then the password, which may be wrong or take too long.
FindUser(p) ==
  /\ req[p].at = "user"
  /\ \/ /\ req[p].name \in Accounts
        /\ GenerateAndStore(p)
        /\ UNCHANGED spent
     \/ /\ \E ok \in BOOLEAN : Statement(ok)
        /\ End(p)
        /\ UNCHANGED minted
  /\ UNCHANGED <<rows, parent, held, expired, ended>>

\* Register: ExistsByUsername.  A taken name is refused.  For a free one the pool,
\* which is pgx/v5, returns the ErrNoRows of pgx/v5, and errors.Is compares it with
\* that of the other pgx the file imports: what comes back is an error as well.
UserExists(p) ==
  /\ req[p].at = "exists"
  /\ \E ok \in BOOLEAN : Statement(ok)
  /\ End(p)
  /\ UNCHANGED <<rows, minted, parent, held, expired, ended>>

\* Mutant: the token's revocation is not looked at.
UsableAnyway(r) == TRUE
\* Refresh and Logout go on with a token that has no revoked_at.
Usable(r) == ~r.revoked

\* The rows FindByJTI may give: it takes the first it gets.
Found(t) == {r \in rows : r.jti = t}

\* Refresh and Logout look for the token they came with.
FindToken(p) ==
  /\ req[p].at = "find"
  /\ \/ /\ \E r \in Found(req[p].tok) :
             IF Usable(r) THEN Goto(p, "revoke") ELSE End(p)
        /\ UNCHANGED spent
     \/ /\ \E ok \in BOOLEAN : (ok => Found(req[p].tok) = {}) /\ Statement(ok)
        /\ End(p)
  /\ UNCHANGED <<rows, minted, parent, held, expired, ended>>

\* Mutant: the old token is left as it is.
OldRowsKept(t) == rows
\* What Refresh does to the rows of the old token.
OldRows(t) == RowsRevoked(t)

\* Refresh: RevokeByJTI, whose error is only logged, then the new token.
RevokeOld(p) ==
  /\ req[p].op = "refresh" /\ req[p].at = "revoke"
  /\ GenerateAndStore(p)
  /\ parent' = [parent EXCEPT ![minted + 1] = req[p].tok]
  /\ \E ok, applied \in BOOLEAN :
       /\ ok => applied
       /\ Statement(ok)
       /\ rows' = IF applied THEN OldRows(req[p].tok) ELSE rows
  /\ UNCHANGED <<held, expired, ended>>

\* Logout tries once, RevokeToken again and again.
RevokeToken(p) ==
  /\ req[p].op \in {"logout", "revoke"} /\ req[p].at = "revoke"
  /\ \E ok, applied \in BOOLEAN :
       /\ ok => applied
       /\ Statement(ok)
       /\ rows' = IF applied THEN RowsRevoked(req[p].tok) ELSE rows
       /\ ended' = IF applied THEN ended \cup {req[p].tok} ELSE ended
       /\ IF ok \/ req[p].op = "logout" THEN End(p) ELSE Retry(p)
  /\ UNCHANGED <<minted, parent, held, expired>>

\* Mutant: Refresh stores the claims of the token it came with.
NewRowOfOldClaims(p) ==
  [ jti |-> IF req[p].op = "refresh" THEN req[p].tok ELSE req[p].new,
    try |-> IF req[p].op = "login" THEN req[p].tries ELSE 0,
    revoked |-> FALSE ]
\* The row of an attempt: Login draws its id in the function that is retried,
\* Refresh takes the jti.
NewRow(p) == [ jti |-> req[p].new,
               try |-> IF req[p].op = "login" THEN req[p].tries ELSE 0,
               revoked |-> FALSE ]

\* Mutant: the answer does not wait for the INSERT.
AnswerAnyway(p, ok) == held' = held \cup {req[p].new} /\ End(p)
\* After tokenRepo.Store: the tokens are returned, or the INSERT is retried.
Answer(p, ok) ==
  IF ok THEN held' = held \cup {req[p].new} /\ End(p)
        ELSE held' = held /\ Retry(p)

\* Login, Refresh: an attempt of the INSERT, refused when its id is in the table.
StoreToken(p) ==
  /\ req[p].at = "store"
  /\ LET row == NewRow(p)
         taken == \E r \in rows : r.jti = row.jti /\ r.try = row.try
     IN \/ /\ taken
           /\ Answer(p, FALSE)
           /\ UNCHANGED <<rows, spent>>
        \/ /\ ~taken
           /\ \E ok, applied \in BOOLEAN :
                /\ ok => applied
                /\ Statement(ok)
                /\ rows' = IF applied THEN rows \cup {row} ELSE rows
                /\ Answer(p, ok)
  /\ UNCHANGED <<minted, parent, expired, ended>>

(* The environment.                                                         *)

Expire(t) == /\ t \in held \ expired
             /\ expired' = expired \cup {t}
             /\ UNCHANGED <<rows, minted, parent, held, ended, req, spent>>

Vanish(p) == /\ req[p] # Idle
             /\ Spend("gone")
             /\ End(p)
             /\ UNCHANGED <<rows, minted, parent, held, expired, ended>>

-----------------------------------------------------------------------------

Arrive(p) == \/ BeginLogin(p) \/ BeginRegister(p) \/ BeginRefresh(p)
             \/ BeginLogout(p) \/ BeginRevoke(p)

Step(p) == \/ FindUser(p) \/ UserExists(p)
           \/ FindToken(p) \/ RevokeOld(p) \/ RevokeToken(p) \/ StoreToken(p)

Next == \/ \E p \in Requests : Arrive(p) \/ Step(p) \/ Vanish(p)
        \/ \E t \in Ids : Expire(t)

Spec == Init /\ [][Next]_vars

(* Every statement returns, with an error at the latest when the request's    *)
(* context ends.                                                             *)
FairSpec == Spec /\ \A p \in Requests : WF_vars(Step(p))

-----------------------------------------------------------------------------

\* Every variable keeps its type; a retried call makes no more than MaxTries attempts.
TypeOK ==
  /\ rows \subseteq Rows
  /\ minted \in 0 .. MaxIds
  /\ parent \in [Ids -> Ids \cup {None}]
  /\ held \subseteq Ids /\ expired \subseteq Ids /\ ended \subseteq Ids
  /\ req \in [Requests -> RequestStates]
  /\ spent \in [Kinds -> Nat]
  /\ \A k \in Kinds : spent[k] <= Budget[k]

\* Nothing failed and nobody went away.
Faultless == \A k \in Kinds : spent[k] = 0

\* The rows that a retried Login leaves of one jti are revoked together, so that it
\* does not matter which of them FindByJTI reads (token.go).
CopiesAgree == \A r, s \in rows : r.jti = s.jti => r.revoked = s.revoked

\* Whoever came with a token that was revoked by then is refused before Refresh
\* or Logout writes anything, whatever other requests do in the meantime.
RevokedIsRefused ==
  \A p \in Requests :
    req[p].op \in {"refresh", "logout"} /\ req[p].at \in {"revoke", "store"}
      => ~req[p].late

\* A refresh token that a client holds has its row, so it can be refreshed and
\* revoked: no answer comes before its INSERT is known to have succeeded.
HeldIsStored == \A t \in held : \E r \in rows : r.jti = t

\* If nothing fails, a token that has been refreshed into another one the client
\* holds is revoked: the chain of a session never has two usable tokens.
UsedIsRevoked ==
  Faultless => \A s \in held : parent[s] # None => parent[s] \in Revoked

\* If nothing fails, a session ends only where somebody ended it: a token revoked by
\* Refresh has a successor that the client holds or is about to be given.
SessionKept ==
  Faultless => \A t \in Revoked \ ended :
                 \/ \E s \in held : parent[s] = t
                 \/ \E p \in Requests : /\ req[p].at = "store"
                                        /\ parent[req[p].new] = t

\* RevokeToken gets a token revoked in the end, as long as its request is not cut
\* off and the statements fail fewer times than backoff tries.
RevokeSurvivesErrors ==
  \A p \in Requests, t \in Ids :
    (req[p].op = "revoke" /\ req[p].tok = t)
      ~> (t \in Revoked \/ spent["gone"] > 0 \/ spent["io"] >= MaxTries)

\* refresh.go:57, "refresh token already used or revoked": a token is refreshed
\* into one other token, not into two that are both given out.
UsedOnce ==
  \A s, t \in held : parent[s] # None /\ parent[s] = parent[t] => s = t
=============================================================================
