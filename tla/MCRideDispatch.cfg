\* Two rides and two drivers, two concurrent requests; no timeouts.
CONSTANTS
    Rides = {r1, r2}
    Drivers = {d1, d2}
    Sessions = {s1, s2}
    NoDriver = NoDriver
    NoRide = NoRide
    Near = {d1, d2}
    Steady = {}
    MayFail = FALSE
SPECIFICATION DispatchSpec
SYMMETRY Symmetric
CONSTRAINT NoTimeouts
INVARIANTS
    OneActiveRidePerDriver
PROPERTIES
    AssignmentSpec
CHECK_DEADLOCK FALSE
