\* One driver, two rides after each other, two calls under way together.
SPECIFICATION FairSpec
CONSTANTS
  Rides = {r1, r2}
  NoRide = NoRide
  Drivers = {d1}
  NoDriver = NoDriver
  Me = d1
  Calls = {c1, c2}
INVARIANTS
  TripScreenTypeOK
  DrivesStartedRides
CHECK_DEADLOCK FALSE
PROPERTIES
  ImplementsLife
  ButtonsComeBack
