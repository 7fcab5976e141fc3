------------------------------ MODULE RideLife ------------------------------
(***************************************************************************)
(* What may happen to a ride while a driver's app and a customer's app     *)
(* work on it: the side of the ride each app relies on.  DriverTrip shows  *)
(* that the driver's trip screen, with every handler it calls, stays       *)
(* within it; CustomerRide takes it for the world around the customer.     *)
(***************************************************************************)
EXTENDS RideStore

VARIABLE started        \* the rides whose started_at is set

lifeVars == <<status, driver, started>>

LifeTypeOK == RidesTypeOK /\ started \subseteq Rides

LifeInit == RidesInit /\ started = {}

\* The customer's request is created and offered at once.
Request(r) ==
    /\ status[r] = "NONE"
    /\ SetRide(r, "MATCHING", NoDriver)
    /\ UNCHANGED started

Accept(r, d) ==
    /\ status[r] = "MATCHING"
    /\ UniqueIndex(r, "ASSIGNED", d)
    /\ SetRide(r, "ASSIGNED", d)
    /\ UNCHANGED started

\* An arrival report reaches a ride in any status; a late one reopens it.
Arrive(r) ==
    /\ driver[r] # NoDriver
    /\ UniqueIndex(r, "PICKUP", driver[r])
    /\ SetRide(r, "PICKUP", driver[r])
    /\ UNCHANGED started

\* Nobody asks whether the ride has a driver: one who has only an offer for it
\* reports the arrival too, and no offer for the ride can be accepted any more.
ArriveUnassigned(r) ==
    /\ driver[r] = NoDriver
    /\ status[r] # "NONE"
    /\ SetRide(r, "PICKUP", NoDriver)
    /\ UNCHANGED started

Start(r) ==
    /\ status[r] \in {"ASSIGNED", "PICKUP"}
    /\ SetRide(r, "IN_PROGRESS", driver[r])
    /\ started' = started \cup {r}

\* Only a ride that was started is completed.  The server's handler does not
\* ask for it (complete_ride refuses cancelled rides only); the app does.
Complete(r) ==
    /\ r \in started
    /\ status[r] # "CANCELLED"
    /\ SetRide(r, "COMPLETED", driver[r])
    /\ UNCHANGED started

\* The driver's cancel, or his report that the customer did not show up.
DriverCancel(r) ==
    /\ status[r] \in {"ASSIGNED", "PICKUP"}
    /\ SetRide(r, "CANCELLED", driver[r])
    /\ UNCHANGED started

CustomerCancel(r) ==
    /\ status[r] \notin Closed \cup {"NONE"}
    /\ SetRide(r, "CANCELLED", driver[r])
    /\ UNCHANGED started

RideMoves(r) ==
    \/ Request(r) \/ Arrive(r) \/ ArriveUnassigned(r) \/ Start(r)
    \/ Complete(r) \/ DriverCancel(r) \/ CustomerCancel(r)
    \/ \E d \in Drivers : Accept(r, d)

LifeNext == \E r \in Rides : RideMoves(r)

LifeSpec == LifeInit /\ [][LifeNext]_lifeVars
=============================================================================
