SPECIFICATION Spec
CONSTANTS
  MaxOffers = 2
PROPERTIES OfferAnswered
CHECK_DEADLOCK FALSE
