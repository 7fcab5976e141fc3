----------------------------- MODULE MCRideTrip -----------------------------
(* Instances of RideTrip for TLC.                                          *)
EXTENDS RideTrip, TLC

CONSTANT MaxPaid    \* bound on the compensations of a driver

Symmetric == Permutations(Rides) \cup Permutations(Requests)

\* A reopened ride can be reported as no-show again and again.
FewPayments == \A d \in Drivers : log[d] <= MaxPaid
=============================================================================
