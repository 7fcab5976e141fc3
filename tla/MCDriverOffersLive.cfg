\* One offer, one answer and one read under way: what must happen in the end.
SPECIFICATION FairSpec
CONSTANTS
  Offers = {1}
  Calls = {c1}
  Fetches = {f1}
  NoOffer = NoOffer
  MaxWire = 1
PROPERTIES
  CardNeverStuck
  LostOfferRecovered
CHECK_DEADLOCK FALSE
