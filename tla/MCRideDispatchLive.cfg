\* One ride, two drivers who stay in range; sessions that do not fail.
CONSTANTS
    Rides = {r1}
    Drivers = {d1, d2}
    Sessions = {s1, s2}
    NoDriver = NoDriver
    NoRide = NoRide
    Near = {d1}
    Steady = {d1, d2}
    MayFail = FALSE
SPECIFICATION FairDispatchSpec
PROPERTIES
    RejectRedispatches
CHECK_DEADLOCK FALSE
