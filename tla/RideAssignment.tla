--------------------------- MODULE RideAssignment ---------------------------
(***************************************************************************)
(* What dispatch promises, with nothing of how: a ride is won by at most   *)
(* one driver, for good, and a driver serves one ride at a time.  The      *)
(* offers, sessions, locks and events of the matching service do not       *)
(* appear here; RideDispatch is shown to implement this specification.     *)
(***************************************************************************)
CONSTANTS Rides, Drivers, NoDriver

VARIABLES
    winner,     \* winner[r]: the driver that won ride r, or NoDriver
    serving,    \* the rides some driver is serving
    dead        \* the rides that were cancelled

avars == <<winner, serving, dead>>

Init ==
    /\ winner = [r \in Rides |-> NoDriver]
    /\ serving = {}
    /\ dead = {}

Free(d) == \A q \in serving : winner[q] # d

\* The first accept wins the ride, if the ride still lives and has no winner
\* and the driver is free.
Win(r, d) ==
    /\ r \notin dead
    /\ winner[r] = NoDriver
    /\ Free(d)
    /\ winner' = [winner EXCEPT ![r] = d]
    /\ serving' = serving \cup {r}
    /\ UNCHANGED dead

\* A cancellation ends the service of the ride, if it had started.
Die(r) ==
    /\ serving' = serving \ {r}
    /\ dead' = dead \cup {r}
    /\ UNCHANGED winner

Next == \E r \in Rides : Die(r) \/ \E d \in Drivers : Win(r, d)

Spec == Init /\ [][Next]_avars
=============================================================================
