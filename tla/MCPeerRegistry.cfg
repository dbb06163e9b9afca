SPECIFICATION Spec
CONSTANTS
  NoPeer = NoPeer
  Peers = {p1, p2}
  Users = {u1}
  MaxOffers = 2
INVARIANTS PeerInv
PROPERTIES PeersSettle StopEnds CustodyKept
