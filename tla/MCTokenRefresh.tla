--------------------------- MODULE MCTokenRefresh ---------------------------
(* Small instances of TokenRefresh, and of Sessions under it: accounts are  *)
(* interchangeable, and so are the calls of one kind; one password is the   *)
(* digest of the other.                                                     *)
EXTENDS TokenRefresh, TLC

CONSTANTS Plain, Digest

\* Only a user who types a digest gets changePassWord to change anything.
MCHash == [p \in {Plain, Digest} |-> IF p = Plain THEN Digest ELSE <<"sha256", p>>]

Symm == Permutations(Tids) \cup Permutations(Logins) \cup Permutations(Renewals)
=============================================================================
