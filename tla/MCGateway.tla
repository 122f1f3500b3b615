------------------------------- MODULE MCGateway -------------------------------
EXTENDS Gateway, TLC
CONSTANTS t1, t2
MCExpiresAt == t1 :> MaxTime @@ t2 :> 2
MCRolesOf == t1 :> {"admin"} @@ t2 :> {"viewer"}
Query(m, p, t) == [method |-> m, path |-> p, token |-> t, address |-> "a"]
MCRequests ==
    {Query("POST", "/v1/login", NoToken), Query("POST", "/v1/refresh", t1),
     Query("GET", "/v1/candles", t1), Query("POST", "/admin/users", t2)}
MCSymmetry == Permutations(Slot)
=============================================================================
