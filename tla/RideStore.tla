----------------------------- MODULE RideStore -----------------------------
(***************************************************************************)
(* The ride_requests table, shared by every handler of the matching        *)
(* service: the status and the assigned driver of each ride, the classes   *)
(* of statuses the handlers test for, and the partial unique index that    *)
(* PostgreSQL checks whenever a transaction writes a row.                  *)
(*                                                                         *)
(* A ride is a row; "NONE" is the status of a row not inserted yet.        *)
(***************************************************************************)

CONSTANTS
    Rides,      \* the ride requests that may be created
    NoRide,     \* the ride of a request that serves none
    Drivers,    \* the driver profiles
    NoDriver    \* assigned_driver_id IS NULL

ASSUME NoDriverAssumption == NoDriver \notin Drivers

ASSUME NoRideAssumption == NoRide \notin Rides

VARIABLES
    status,     \* status[r]: RideRequest.status, or "NONE"
    driver      \* driver[r]: RideRequest.assigned_driver_id, or NoDriver

rideVars == <<status, driver>>

\* RideRequestStatus, without EXPIRED and FAILED, which no handler assigns.
Statuses == {"NONE", "CREATED", "DISPATCHING", "MATCHING", "OFFERED",
             "ASSIGNED", "PICKUP", "IN_PROGRESS", "COMPLETED", "CANCELLED"}

\* Statuses in which a ride still waits for a driver.
Open == {"CREATED", "MATCHING", "DISPATCHING", "OFFERED"}

\* Statuses that occupy the assigned driver; the index below covers them.
Active == {"ASSIGNED", "PICKUP", "IN_PROGRESS"}

Closed == {"COMPLETED", "CANCELLED"}

RidesTypeOK ==
    /\ status \in [Rides -> Statuses]
    /\ driver \in [Rides -> Drivers \cup {NoDriver}]

RidesInit ==
    /\ status = [r \in Rides |-> "NONE"]
    /\ driver = [r \in Rides |-> NoDriver]

\* _get_driver_active_ride_by_id: the driver has a row in an active status.
HasActiveRide(d) == \E r \in Rides : driver[r] = d /\ status[r] \in Active

\* The index never looks at other rows (used to check that the invariants
\* below depend on it).
NoUniqueIndex(r, s, d) == TRUE

\* ix_ride_requests_one_active_per_driver accepts row r with status s and
\* assigned driver d: no other row is active for d.  A write the index does
\* not accept raises IntegrityError and the whole transaction rolls back.
UniqueIndex(r, s, d) ==
    (s \in Active /\ d # NoDriver) =>
        \A q \in Rides \ {r} : ~(driver[q] = d /\ status[q] \in Active)

\* The committed UPDATE of row r.
SetRide(r, s, d) ==
    /\ status' = [status EXCEPT ![r] = s]
    /\ driver' = [driver EXCEPT ![r] = d]

(***************************************************************************)
(* A driver never has two active rides, whichever handlers assigned or     *)
(* revived them (RideRequest.__table_args__).                              *)
(***************************************************************************)
OneActiveRidePerDriver ==
    \A r, q \in Rides :
        (/\ r # q
         /\ status[r] \in Active
         /\ status[q] \in Active
         /\ driver[r] # NoDriver) => driver[r] # driver[q]
=============================================================================
