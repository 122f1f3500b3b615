-------------------------------- MODULE ReadApis --------------------------------
(***************************************************************************)
(* The ways out: live candles from the topic, stored ones from the table.   *)
(* The two are read by different methods over different stores and share no *)
(* state, so what either does is the same beside any behaviour of the other *)
(* and a behaviour here is one of either: explored says of which.           *)
(***************************************************************************)
EXTENDS CandleStreams, TableReads

VARIABLE explored

vars == <<streamVars, readVars, explored>>

TypeOK == StreamTypeOK /\ ReadTypeOK

Init ==
    /\ explored \in {"live", "stored"}
    /\ StreamInit /\ ReadInit
    /\ explored = "live" => symbols = {}

Live ==
    /\ explored = "live" /\ StreamNext
    /\ UNCHANGED <<readVars, explored>>

Stored ==
    /\ explored = "stored" /\ ReadNext
    /\ UNCHANGED <<streamVars, explored>>

Next == Live \/ Stored

Spec == Init /\ [][Next]_vars /\ StreamFairness
=============================================================================
