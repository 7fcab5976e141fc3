\* One offer is enough to see a won ride that no screen opens.
SPECIFICATION FairSpec
CONSTANTS
  Offers = {1}
  Calls = {c1}
  Fetches = {f1}
  NoOffer = NoOffer
  MaxWire = 1
PROPERTIES
  AcceptedOpensTrip
CHECK_DEADLOCK FALSE
