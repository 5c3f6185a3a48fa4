CONSTANTS
    None = None
    Mode = "system"
    Groups = {"own", "admin"}
    AdmissionGroup = "admin"
    Answers <- MCAnswers
    Lifetime = 1
    Composed = TRUE
    Approvals = TRUE
    Conns = {c1}
    Scopes = {"local", "other"}
    PeersSeen <- MCPeers
    Workers = 1
    Horizon = 2
    MaxRequests = 2
    MaxChanges = 2
SPECIFICATION Spec
INVARIANTS
  IdentityIsOnRecord
  ServedAsEstablished
  OneAnswerPerRequest
PROPERTIES
  RequestsEnd
CHECK_DEADLOCK FALSE
