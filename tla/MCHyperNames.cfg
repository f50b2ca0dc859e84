SPECIFICATION Spec
CONSTANTS
  e1 = e1
  e2 = e2
  Exchanges = {e1}
  Calls <- OneCalls
  Requests <- NoRequests
  Contexts = {"none", "apiKey", "full", "narrow"}
  Authenticators = {"allowAll", "claims"}
  UserNames = {"alice", "login"}
  Passwords = {"p1", "p2"}
  NoUser = NoUser
PROPERTIES
  AnyNameIsEncoded
