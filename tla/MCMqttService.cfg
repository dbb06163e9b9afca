SPECIFICATION MqttSpec
CONSTANTS
  NoPeer = NoPeer
  NoClient = NoClient
  Peers = {p1, p2}
  Users = {loop}
  Clients = {c1, c2}
  MaxOffers = 1
INVARIANTS MqttInv AnswersGoHome
PROPERTIES MappingsFollowPeers
