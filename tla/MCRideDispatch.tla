--------------------------- MODULE MCRideDispatch ---------------------------
(* Instances of RideDispatch for TLC.                                      *)
EXTENDS RideDispatch, Naturals, FiniteSets, TLC

\* Rides, drivers and sessions are interchangeable: nothing orders them.
Symmetric ==
    Permutations(Rides) \cup Permutations(Drivers) \cup Permutations(Sessions)

\* Time bound of the two-ride run: no offer times out in it, no ride gets old.
NoTimeouts == late = {} /\ old = {}
=============================================================================
