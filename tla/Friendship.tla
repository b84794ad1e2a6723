----------------------------- MODULE Friendship -----------------------------
(***************************************************************************)
(* What the friends and request services promise together, with no queue,  *)
(* no store and no failure in it: nobody is anybody's friend before one of *)
(* the two has asked and the other one has said yes, and a friendship      *)
(* begins for both of them in one step.                                    *)
(***************************************************************************)
CONSTANT Tids          \* the accounts

VARIABLES asked,       \* <<s, r>>: s has asked r to be friends
          agreed,      \* <<s, r>>: r has said yes to s
          friends      \* <<s, r>>: s has r among its friends

vars == <<asked, agreed, friends>>

Init == asked = {} /\ agreed = {} /\ friends = {}

\* s asks r; asking again changes nothing.
Ask(s, r) ==
  /\ asked' = asked \cup {<<s, r>>}
  /\ UNCHANGED <<agreed, friends>>

\* r says yes to the request of s it has seen.
Agree(s, r) ==
  /\ <<s, r>> \in asked
  /\ agreed' = agreed \cup {<<s, r>>}
  /\ UNCHANGED <<asked, friends>>

\* The two become friends, each of the other, at once.
Befriend(s, r) ==
  /\ <<s, r>> \in agreed
  /\ friends' = friends \cup {<<s, r>>, <<r, s>>}
  /\ UNCHANGED <<asked, agreed>>

\* s drops r from its own friends; r keeps s.
Unfriend(s, r) ==
  /\ friends' = friends \ {<<s, r>>}
  /\ UNCHANGED <<asked, agreed>>

Next ==
  \E s, r \in Tids : \/ Ask(s, r)
                     \/ Agree(s, r)
                     \/ Befriend(s, r)
                     \/ Unfriend(s, r)

Spec == Init /\ [][Next]_vars
=============================================================================
