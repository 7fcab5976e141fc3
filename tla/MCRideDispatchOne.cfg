\* One ride, two drivers, three concurrent requests that may fail half way.
CONSTANTS
    Rides = {r1}
    Drivers = {d1, d2}
    Sessions = {s1, s2, s3}
    NoDriver = NoDriver
    NoRide = NoRide
    Near = {d1, d2}
    Steady = {}
    MayFail = TRUE
SPECIFICATION DispatchSpec
SYMMETRY Symmetric
INVARIANTS
    DispatchTypeOK
    AcceptedMeansWon
PROPERTIES
    FirstAcceptWins
    CancelledStays
    NoReoffer
    WithdrawnIsTold
CHECK_DEADLOCK FALSE
