----------------------------- MODULE WriteQueue -----------------------------
(***************************************************************************)
(* What the Firestore client promises the app about its writes, without     *)
(* streams, pipelines, batch ids or timers.  Each user has a line of        *)
(* writes.  The server applies the writes of the line in its order, perhaps *)
(* more than once; only the oldest leaves the line, as a success when the   *)
(* server has applied it; the app is told at most once of each.             *)
(***************************************************************************)
EXTENDS Naturals, Sequences

CONSTANTS User, MaxWrites

VARIABLES
    user,      \* whose line the device is serving
    line,      \* line[u]: the unsettled writes of u, oldest first
    applied,   \* the writes the server has applied
    told       \* told[w]: what the app's completion has been told of w

vars == <<user, line, applied, told>>

Init ==
    /\ user \in User
    /\ line = [u \in User |-> <<>>]
    /\ applied = {}
    /\ told = [w \in 1..MaxWrites |-> "no"]

\* The app writes; nobody has heard of w before.
Issue(w) ==
    /\ told[w] = "no"
    /\ w \notin applied
    /\ \A u \in User : \A i \in DOMAIN line[u] : line[u][i] # w
    /\ line' = [line EXCEPT ![user] = Append(@, w)]
    /\ UNCHANGED <<user, applied, told>>

\* The server applies the i-th write of the line: no write overtakes an earlier one.
Apply(i) ==
    /\ \A j \in 1..(i - 1) : line[user][j] \in applied
    /\ applied' = applied \cup {line[user][i]}
    /\ UNCHANGED <<user, line, told>>

\* The app is told once; after a relaunch there is no completion left to tell.
Tell(w, outcome) ==
    \/ told' = told
    \/ told[w] = "no" /\ told' = [told EXCEPT ![w] = outcome]

\* The oldest write leaves the line.  A process that dies between telling the
\* app and forgetting the write leaves it where it was.
Settle ==
    LET w == Head(line[user]) IN
    /\ line[user] # <<>>
    /\ \/ w \in applied /\ Tell(w, "ok")
       \/ Tell(w, "failed")
    /\ line' = [line EXCEPT ![user] = Tail(@)]
    /\ UNCHANGED <<user, applied>>

ToldTooEarly ==
    LET w == Head(line[user]) IN
    /\ line[user] # <<>>
    /\ w \in applied
    /\ Tell(w, "ok")
    /\ UNCHANGED <<user, line, applied>>

Switch(u) == user' = u /\ UNCHANGED <<line, applied, told>>

Next ==
    \/ \E w \in 1..MaxWrites : Issue(w)
    \/ \E i \in DOMAIN line[user] : Apply(i)
    \/ Settle
    \/ ToldTooEarly
    \/ \E u \in User : Switch(u)

Spec == Init /\ [][Next]_vars
=============================================================================
