------------------------------- MODULE TableReads -------------------------------
(***************************************************************************)
(* What clients read of the candles table: a SELECT of their own through    *)
(* the query-service, whose named parameters are turned into positions, and *)
(* the list of symbols of the analytics-api, page by page, while the        *)
(* preprocessor goes on adding rows.                                        *)
(*                                                                          *)
(* Of the text of a query only what follows a colon counts: a name, as the  *)
(* sequence of its letters.  A text has no positions of its own, and its    *)
(* colons stand outside of quotes and away from what comes before them.  A   *)
(* parameter's value is told by its name.                                   *)
(* Symbols are numbers, in the order of the database.                       *)
(***************************************************************************)
EXTENDS Naturals, SequencesExt, FiniteSetsExt

CONSTANTS
    Letter,     \* what names are made of
    DigitOf,    \* the values of the digits among the letters
    Queries,    \* what clients send: [text, words, select, params]
    ParamLimit, \* parameters a call may have; 25 in the code
    Symbol,     \* all symbols
    PageSize,   \* symbols a client asks for at a time
    Start       \* the tokens a client may begin with; 0 for none

ASSUME DigitAssumption ==
    DOMAIN DigitOf \subseteq Letter /\ DigitOf \in [DOMAIN DigitOf -> 0 .. 9]
ASSUME QueriesAssumption ==
    \A q \in Queries :
        /\ q.text \in Seq(Seq(Letter)) /\ q.params \subseteq Seq(Letter)
        /\ IsFiniteSet(q.params)
ASSUME SymbolAssumption == Symbol \subseteq Nat \ {0} /\ IsFiniteSet(Symbol)
ASSUME PageAssumption == PageSize \in Nat \ {0} /\ Start \subseteq Nat

VARIABLES
    query,   \* the query of the call under way
    stage,   \* where ExecuteSQL is with it
    sql,     \* its text: per colon the letters after it, or a position and
             \* the letters left over
    args,    \* the values passed with it
    todo,    \* the parameters the loop of prepareQuery has not come to
    symbols, \* the symbols that have a row
    listing  \* the pages of one listing: the symbols there were when it
             \* began, the tokens sent, the symbols received, whether it goes on

readVars == <<query, stage, sql, args, todo, symbols, listing>>
executing == <<query, stage, sql, args, todo>>

Named(letters) == [at |-> 0, letters |-> letters]

NoQuery == [text |-> <<>>, words |-> {}, select |-> FALSE, params |-> {}]
NoListing == [before |-> {}, tokens |-> <<>>, got |-> <<>>, open |-> FALSE]

ReadTypeOK ==
    /\ query \in Queries \cup {NoQuery}
    /\ stage \in {"idle", "prepare", "ready", "answered", "refused"}
    /\ Len(sql) = Len(query.text) /\ Len(args) <= Cardinality(query.params)
    /\ \A i \in DOMAIN sql : sql[i].at \in 0 .. Len(args)
    /\ Range(args) \subseteq query.params /\ todo \subseteq query.params
    /\ symbols \subseteq Symbol /\ Range(listing.got) \subseteq Symbol

ReadInit ==
    /\ query = NoQuery /\ stage = "idle" /\ sql = <<>> /\ args = <<>> /\ todo = {}
    /\ symbols \in SUBSET Symbol /\ listing = NoListing

-----------------------------------------------------------------------------
(* ExecuteSQL of the query-service.                                         *)

\* isSafeSelect: the forbidden words count wherever they occur in the text.
IsSafeSelect(q) == q.select /\ q.words = {}

\* The server refuses an empty text, the use case too many parameters.
Admitted(q) == q.text # <<>> /\ Cardinality(q.params) <= ParamLimit

Execute(q) ==
    /\ stage = "idle" /\ query' = q
    /\ sql' = [i \in DOMAIN q.text |-> Named(q.text[i])] /\ args' = <<>>
    /\ IF Admitted(q) /\ IsSafeSelect(q)
       THEN stage' = "prepare" /\ todo' = q.params
       ELSE stage' = "refused" /\ todo' = {}
    /\ UNCHANGED <<symbols, listing>>

\* What a text holds of ":name": every name that begins with these letters.
Occurs(name, i) == sql[i].at = 0 /\ IsPrefix(name, sql[i].letters)

Held(name) == \E i \in DOMAIN sql : Occurs(name, i)

\* ReplaceAll: the position, and the letters the name does not cover.
Replaced(name, k) ==
    [i \in DOMAIN sql |->
        IF Occurs(name, i)
        THEN [at |-> k, letters |-> SubSeq(sql[i].letters, Len(name) + 1,
                                           Len(sql[i].letters))]
        ELSE sql[i]]

\* One turn of prepareQuery's loop over the map, in whatever order.
\* Mutant: a parameter counts though the text does not hold it.
BindUnused(name) ==
    /\ sql' = Replaced(name, Len(args) + 1)
    /\ args' = Append(args, name)
Bind(name) ==
    IF Held(name)
    THEN sql' = Replaced(name, Len(args) + 1) /\ args' = Append(args, name)
    ELSE UNCHANGED <<sql, args>>

PrepareQuery(name) ==
    /\ stage = "prepare" /\ name \in todo
    /\ Bind(name) /\ todo' = todo \ {name}
    /\ UNCHANGED <<query, stage, symbols, listing>>

Prepared ==
    /\ stage = "prepare" /\ todo = {}
    /\ stage' = "ready"
    /\ UNCHANGED <<query, sql, args, todo, symbols, listing>>

\* The database reads a position up to its last digit, and what is left of a
\* name follows it at once: the text of "p10" with p1 first is "$1" and "0".
DigitFollows(i) == sql[i].letters # <<>> /\ sql[i].letters[1] \in DOMAIN DigitOf

LeadingDigits(letters) ==
    SubSeq(letters, 1, Max({n \in 0 .. Len(letters) :
                            \A m \in 1 .. n : letters[m] \in DOMAIN DigitOf}))

PositionRead(i) ==
    IF DigitFollows(i)
    THEN FoldLeft(LAMBDA k, digit : 10 * k + DigitOf[digit], sql[i].at,
                  LeadingDigits(sql[i].letters))
    ELSE sql[i].at

Positions == {PositionRead(i) : i \in {j \in DOMAIN sql : sql[j].at # 0}}

\* The database wants a value for every position and no other, and may refuse
\* the text all the same; what is left of a name may pass as a cast or an alias.
RunQuery ==
    /\ stage = "ready"
    /\ \/ Positions = DOMAIN args /\ stage' = "answered"
       \/ stage' = "refused"
    /\ UNCHANGED <<query, sql, args, todo, symbols, listing>>

Answer ==
    /\ stage \in {"answered", "refused"}
    /\ stage' = "idle" /\ query' = NoQuery /\ sql' = <<>> /\ args' = <<>>
    /\ todo' = {}
    /\ UNCHANGED <<symbols, listing>>

-----------------------------------------------------------------------------
(* ListSymbols of the analytics-api.                                        *)

\* The preprocessor inserts the first row of a symbol.
Insert ==
    /\ \E s \in Symbol \ symbols : symbols' = symbols \cup {s}
    /\ UNCHANGED <<executing, listing>>

BeginListing(token) ==
    /\ ~listing.open
    /\ listing' = [before |-> symbols, tokens |-> <<token>>, got |-> <<>>,
                   open |-> TRUE]
    /\ UNCHANGED <<executing, symbols>>

\* The rows of the statement: in order, the first n symbols after a token.
Selected(rows, token, n) ==
    /\ \A i, j \in DOMAIN rows : i < j => rows[i] < rows[j]
    /\ \A i \in DOMAIN rows : rows[i] \in symbols /\ rows[i] > token
    /\ \A s \in symbols \ Range(rows) : s > token =>
          Len(rows) = n /\ \A i \in DOMAIN rows : rows[i] < s

\* One more than a page is read, to see whether there is a next one; that one
\* is its token, although the next page begins after its token.
\* Mutant: a page gives all it has read.
PageWithNext(rows) ==
    [symbols |-> rows,
     next |-> IF Len(rows) > PageSize THEN rows[PageSize] ELSE 0]
Page(rows) ==
    IF Len(rows) > PageSize
    THEN [symbols |-> SubSeq(rows, 1, PageSize), next |-> rows[PageSize + 1]]
    ELSE [symbols |-> rows, next |-> 0]

ListSymbols ==
    /\ listing.open /\ Last(listing.tokens) # 0
    /\ \E rows \in BoundedSeq(Symbol, PageSize + 1) :
          /\ Selected(rows, Last(listing.tokens), PageSize + 1)
          /\ listing' = [listing EXCEPT !.got = @ \o Page(rows).symbols,
                                        !.tokens = Append(@, Page(rows).next),
                                        !.open = Page(rows).next # 0]
    /\ UNCHANGED <<executing, symbols>>

\* The statement fails; without a token it always does: its text has the
\* position $2, and one value is passed.
ListFails ==
    /\ listing.open
    /\ listing' = NoListing
    /\ UNCHANGED <<executing, symbols>>

ReadNext ==
    \/ \E q \in Queries : Execute(q)
    \/ \E name \in todo : PrepareQuery(name)
    \/ Prepared \/ RunQuery \/ Answer
    \/ Insert \/ ListSymbols \/ ListFails
    \/ \E token \in Start : BeginListing(token)

-----------------------------------------------------------------------------

\* The names of a query do not run into each other, or at least not so that a
\* digit is left over.
PrefixFree ==
    \A name \in query.params, i \in DOMAIN query.text :
        IsPrefix(name, query.text[i]) => name = query.text[i]
DigitFree ==
    \A name \in query.params, i \in DOMAIN query.text :
        IsStrictPrefix(name, query.text[i]) =>
            query.text[i][Len(name) + 1] \notin DOMAIN DigitOf

\* In whatever order the loop comes to the parameters, the positions the database
\* reads are those of the values passed, each used at least once, unless digits
\* are left over; and if no parameter's name begins another name of the text,
\* each name has its own value.
BoundByName ==
    stage = "ready" =>
        /\ DigitFree => Positions = DOMAIN args
        /\ PrefixFree => \A i \in DOMAIN sql :
              IF query.text[i] \in query.params
              THEN sql[i].at # 0 /\ args[PositionRead(i)] = query.text[i]
              ELSE sql[i] = Named(query.text[i])

\* A listing gives symbols in order and none of them twice, and leaves none out
\* that was there from the start and comes after its first token, but for those
\* it used as tokens itself: one at every border of two pages.
ListingMissesTokensOnly ==
    /\ \A i, j \in DOMAIN listing.got : i < j => listing.got[i] < listing.got[j]
    /\ ~listing.open /\ listing.tokens # <<>> =>
          \A s \in listing.before :
              s > listing.tokens[1] => s \in Range(listing.got) \cup Range(listing.tokens)
=============================================================================
