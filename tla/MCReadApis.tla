------------------------------- MODULE MCReadApis -------------------------------
(* Instance of ReadApis for TLC: one call of either kind, each for a symbol of *)
(* its own; names that begin one another, with a digit after that or not, a   *)
(* name that no parameter has (a cast), one that the text does not hold, a     *)
(* forbidden word, too many parameters.                                       *)
EXTENDS ReadApis

CONSTANTS c1, c2

MCKind == [c \in Call |-> IF c = c1 THEN "stream" ELSE "subscribe"]
MCSymbolOf == [c \in Call |-> IF c = c1 THEN "BTC" ELSE "ETH"]
MCLog == <<"BTC", "ETH", "BTC", "BTC">>

A == <<"a">>
AB == <<"a", "b">>
C == <<"c">>
T == <<"t">>
P1 == <<"p", "1">>
P10 == <<"p", "1", "0">>
MCDigitOf == [digit \in {"0", "1"} |-> IF digit = "0" THEN 0 ELSE 1]
Select(text, params) ==
    [text |-> text, words |-> {}, select |-> TRUE, params |-> params]

MCQueries ==
    {Select(<<A, C>>, {A, C}), Select(<<C, T, C>>, {A, C}),
     Select(<<AB, A, C>>, {A, AB, C}), Select(<<AB, T>>, {AB, C, T}),
     Select(<<P1, P10>>, {P1, P10}), Select(<<P10, A>>, {P1, A}),
     Select(<<>>, {A}), Select(<<A>>, {A, AB, C, T}),
     [Select(<<A>>, {A}) EXCEPT !.words = {"create"}],
     [Select(<<A>>, {A}) EXCEPT !.select = FALSE]}
MCStart == {0, 1, 2}
=============================================================================
