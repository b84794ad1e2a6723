-------------------------- MODULE MCFriendRequests --------------------------
(***************************************************************************)
(* Small instances of FriendRequests.  Accounts are interchangeable, and   *)
(* so are the calls of one kind: nothing orders them.                      *)
(***************************************************************************)
EXTENDS FriendRequests, TLC

\* The _id of an account is no tid.
MCUserId == [t \in Tids |-> <<"_id", t>>]

Symm == Permutations(Adds) \cup Permutations(Answers)
        \cup Permutations(Tids)
=============================================================================
