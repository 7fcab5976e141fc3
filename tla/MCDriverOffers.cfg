\* Two offers, one answer and one read of the server under way.
SPECIFICATION Spec
CONSTANTS
  Offers = {1, 2}
  Calls = {c1}
  Fetches = {f1}
  NoOffer = NoOffer
  MaxWire = 2
INVARIANTS
  OffersTypeOK
  ShownIsNext
  OneAnswerAtATime
  TripOnlyIfAssigned
CHECK_DEADLOCK FALSE
