\* One customer with two rides, and two reads under way together.
SPECIFICATION FairSpec
CONSTANTS
  Rides = {r1, r2}
  NoRide = NoRide
  Drivers = {d1}
  NoDriver = NoDriver
  Fetches = {f1, f2}
  MaxWire = 2
INVARIANTS
  CustomerTypeOK
  CompletedIsTracked
PROPERTIES
  UnderWayByStart
  MissedStartShown
CHECK_DEADLOCK FALSE
