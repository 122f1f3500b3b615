---------------------------- MODULE MCAuthTokens ----------------------------
(* Small instances of AuthTokens for TLC.                                   *)
EXTENDS AuthTokens, TLC

CONSTANTS r1, r2, ann, bob

TwoRequests == {r1, r2}
TwoNames == {ann, bob}
OneAccount == {ann}

\* The requests differ in nothing but their names.
RequestSymmetry == Permutations(TwoRequests)

NoFaults == [io |-> 0, gone |-> 0]
OneOfEach == [io |-> 1, gone |-> 1]
=============================================================================
