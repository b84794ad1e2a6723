----------------------------- MODULE MCRecovery -----------------------------
(* Small instances of Recovery: registrations and emails are               *)
(* interchangeable.                                                        *)
EXTENDS Recovery, TLC

Symm == Permutations(Calls) \cup Permutations(Emails)
=============================================================================
