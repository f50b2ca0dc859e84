SPECIFICATION FairSpec
CONSTANTS
  e1 = e1
  e2 = e2
  Exchanges = {e1, e2}
  Calls <- MCCalls
  Requests <- MCRequests
  Contexts = {"none", "apiKey", "full", "narrow"}
  Authenticators = {"allowAll", "claims"}
  UserNames = {"alice", "login"}
  Passwords = {"p1", "p2"}
  NoUser = NoUser
INVARIANTS
  TypeOK
  SuccessIsDeserved
  PlainResultsAreTrue
  AnswersArrive
PROPERTIES
  PetsNeedScopes
  UsersChangeAsNamed
  RequestsEnd
