SPECIFICATION FairSpec
CONSTANTS
  Programs <- MCPrograms
  PostCreates <- MCPostCreates
  GiveIds <- MCGiveIds
  Lists <- MCLists
  Workers = {w1, w2}
  Usernames = {n1, n2}
  Profiles = {p1}
  MaxId = 3
  ClientIds = {}
  NoUser = NoUser
  NoRequest = NoRequest
  Nobody = Nobody
  n1 = n1
  n2 = n2
INVARIANTS
  TypeOK
  EveryUserHasAnId
PROPERTIES
  UsersComeAndGoAsNamed
  ListsAreWhole
  RequestsAreAnswered
