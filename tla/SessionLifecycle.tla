-------------------------- MODULE SessionLifecycle --------------------------
(***************************************************************************)
(* What the refresh tokens promise, seen from outside: a session is opened *)
(* by a registration or a login, goes on for as long as its holder keeps   *)
(* refreshing it, is closed at some point (logout, expiry, an exchange     *)
(* that failed half-way) and, once closed, is never open again.            *)
(***************************************************************************)
CONSTANT Session

VARIABLE state  \* state[f]: where session f is in its life

TypeOK == state \in [Session -> {"none", "open", "closed"}]

Init == state = [f \in Session |-> "none"]

Open(f) ==
    /\ state[f] = "none"
    /\ state' = [state EXCEPT ![f] = "open"]

\* A logout closes every session of its user at once.
Close(F) ==
    /\ \A f \in F : state[f] = "open"
    /\ state' = [f \in Session |-> IF f \in F THEN "closed" ELSE state[f]]

Next ==
    \/ \E f \in Session : Open(f)
    \/ \E F \in SUBSET Session : Close(F)

Spec == Init /\ [][Next]_state

=============================================================================
