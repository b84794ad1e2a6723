------------------------------ MODULE MCLists ------------------------------
(* Small instances of Lists: accounts are interchangeable.                 *)
EXTENDS Lists, TLC

\* registe stores the tid as a number: it equals no text.
MCRegistered == [t \in Tids |-> <<"number", t>>]

Symm == Permutations(Tids)
=============================================================================
