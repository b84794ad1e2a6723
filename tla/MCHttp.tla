------------------------------- MODULE MCHttp -------------------------------
(* Small instances of Http: one call to any route beside one that adds a   *)
(* friend.                                                                 *)
EXTENDS Http

CONSTANTS c1, c2

MCServed(c) ==
  IF c = c1 THEN Routes ELSE {r \in FriendsRoutes : r.path = "friends" /\ r.method = "PUT"}
=============================================================================
