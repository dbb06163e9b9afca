SPECIFICATION Spec
CONSTANTS
  MaxOffers = 4
INVARIANTS NegotiationInv
PROPERTIES OfferAnsweredUnlessRaced TracksNegotiated
CHECK_DEADLOCK FALSE
