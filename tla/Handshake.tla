------------------------------ MODULE Handshake ------------------------------
(***************************************************************************)
(* What the friends screen promises, without lookups, snapshots, queues or  *)
(* currentUser: one asks, the other accepts, and the friends lists kept on   *)
(* the server name only people who have met in this way.  A list may lag     *)
(* behind and may lose a friend; each step rewrites the list of one user.    *)
(***************************************************************************)
CONSTANTS Uuid, InitialFriends

VARIABLES
    asked,    \* <<u, v>> when u has asked v
    agreed,   \* <<u, v>> when v has accepted the request of u
    lists     \* lists[u]: the friends named by the document of u

vars == <<asked, agreed, lists>>

\* Those who may stand on the list of u.
Acquaintances(u) == {v \in Uuid : <<u, v>> \in agreed \/ <<v, u>> \in agreed}

Init ==
    /\ asked = InitialFriends
    /\ agreed = InitialFriends
    /\ lists = [u \in Uuid |-> {v \in Uuid : <<u, v>> \in InitialFriends}]

Ask(u, v) == asked' = asked \cup {<<u, v>>} /\ UNCHANGED <<agreed, lists>>

\* Only a request that was made can be accepted.
Agree(u, v) ==
    /\ <<u, v>> \in asked
    /\ agreed' = agreed \cup {<<u, v>>}
    /\ UNCHANGED <<asked, lists>>

\* A save replaces the list of one user.
Rewrite(u) ==
    /\ \E S \in SUBSET Acquaintances(u) : lists' = [lists EXCEPT ![u] = S]
    /\ UNCHANGED <<asked, agreed>>

Next ==
    \/ \E u, v \in Uuid : Ask(u, v) \/ Agree(u, v)
    \/ \E u \in Uuid : Rewrite(u)

Spec == Init /\ [][Next]_vars
=============================================================================
