------------------------ MODULE HyperExchangeProofs ------------------------
(***************************************************************************)
(* Proofs about HyperExchange: for any number of exchanges, any calls and  *)
(* requests, any users and passwords.                                      *)
(***************************************************************************)
EXTENDS HyperExchange, StepLemmas, TLAPS

-----------------------------------------------------------------------------
(* The two tables.                                                         *)

OperationNames ==
  {"AddPet", "FindPetsByStatus", "FindPetsByTags", "UpdatePet", "DeletePet", "GetPetById",
   "UpdatePetWithForm", "UploadFile", "GetInventory", "PlaceOrder", "DeleteOrder", "GetOrderById",
   "CreateUser", "CreateUsersWithListInput", "LoginUser", "LogoutUser", "DeleteUser",
   "GetUserByName", "UpdateUser"}

LEMMA OperationsByName == Operations = OperationNames /\ None \notin Operations
  BY DEF Operations, Handlers, OperationNames, None

(* What it takes for the answers of an operation to arrive: both sides     *)
(* know the same variants, by the same code unless that is 500, no two by  *)
(* one code, and the client can read the body that comes with 200.         *)
Agreement(server, client) ==
  /\ DOMAIN server.status = DOMAIN client.status
  /\ Failed \notin DOMAIN server.status
  /\ \A v \in DOMAIN server.status :
       /\ server.status[v] \in {200, 400, 404, 422, 500}
       /\ client.status[v] # 500
       /\ server.status[v] # 500 => client.status[v] = server.status[v]
       /\ \A w \in DOMAIN client.status : client.status[v] = client.status[w] => v = w

LEMMA PetTablesAgree ==
  /\ Agreement(HandleAddPet, CallAddPet)
  /\ Agreement(HandleFindPetsByStatus, CallFindPetsByStatus)
  /\ Agreement(HandleFindPetsByTags, CallFindPetsByTags)
  /\ Agreement(HandleUpdatePet, CallUpdatePet)
  /\ Agreement(HandleDeletePet, CallDeletePet)
  /\ Agreement(HandleGetPetById, CallGetPetById)
  /\ Agreement(HandleUpdatePetWithForm, CallUpdatePetWithForm)
  /\ Agreement(HandleUploadFile, CallUploadFile)
  <1> USE DEF Agreement, Handler, Method, Failed
  <1>1. Agreement(HandleAddPet, CallAddPet)
    BY DEF HandleAddPet, CallAddPet
  <1>2. Agreement(HandleFindPetsByStatus, CallFindPetsByStatus)
    BY DEF HandleFindPetsByStatus, CallFindPetsByStatus
  <1>3. Agreement(HandleFindPetsByTags, CallFindPetsByTags)
    BY DEF HandleFindPetsByTags, CallFindPetsByTags
  <1>4. Agreement(HandleUpdatePet, CallUpdatePet)
    BY DEF HandleUpdatePet, CallUpdatePet
  <1>5. Agreement(HandleDeletePet, CallDeletePet)
    BY DEF HandleDeletePet, CallDeletePet
  <1>6. Agreement(HandleGetPetById, CallGetPetById)
    BY DEF HandleGetPetById, CallGetPetById
  <1>7. Agreement(HandleUpdatePetWithForm, CallUpdatePetWithForm)
    BY DEF HandleUpdatePetWithForm, CallUpdatePetWithForm
  <1>8. Agreement(HandleUploadFile, CallUploadFile)
    BY DEF HandleUploadFile, CallUploadFile
  <1> QED BY <1>1, <1>2, <1>3, <1>4, <1>5, <1>6, <1>7, <1>8

LEMMA StoreTablesAgree ==
  /\ Agreement(HandleGetInventory, CallGetInventory)
  /\ Agreement(HandlePlaceOrder, CallPlaceOrder)
  /\ Agreement(HandleDeleteOrder, CallDeleteOrder)
  /\ Agreement(HandleGetOrderById, CallGetOrderById)
  <1> USE DEF Agreement, Handler, Method, Failed
  <1>1. Agreement(HandleGetInventory, CallGetInventory)
    BY DEF HandleGetInventory, CallGetInventory
  <1>2. Agreement(HandlePlaceOrder, CallPlaceOrder)
    BY DEF HandlePlaceOrder, CallPlaceOrder
  <1>3. Agreement(HandleDeleteOrder, CallDeleteOrder)
    BY DEF HandleDeleteOrder, CallDeleteOrder
  <1>4. Agreement(HandleGetOrderById, CallGetOrderById)
    BY DEF HandleGetOrderById, CallGetOrderById
  <1> QED BY <1>1, <1>2, <1>3, <1>4

LEMMA UserTablesAgree ==
  /\ Agreement(HandleCreateUser, CallCreateUser)
  /\ Agreement(HandleCreateUsersWithListInput, CallCreateUsersWithListInput)
  /\ Agreement(HandleLoginUser, CallLoginUser)
  /\ Agreement(HandleLogoutUser, CallLogoutUser)
  /\ Agreement(HandleDeleteUser, CallDeleteUser)
  /\ Agreement(HandleGetUserByName, CallGetUserByName)
  /\ Agreement(HandleUpdateUser, CallUpdateUser)
  <1> USE DEF Agreement, Handler, Method, Failed
  <1>1. Agreement(HandleCreateUser, CallCreateUser)
    BY DEF HandleCreateUser, CallCreateUser
  <1>2. Agreement(HandleCreateUsersWithListInput, CallCreateUsersWithListInput)
    BY DEF HandleCreateUsersWithListInput, CallCreateUsersWithListInput
  <1>3. Agreement(HandleLoginUser, CallLoginUser)
    BY DEF HandleLoginUser, CallLoginUser
  <1>4. Agreement(HandleLogoutUser, CallLogoutUser)
    BY DEF HandleLogoutUser, CallLogoutUser
  <1>5. Agreement(HandleDeleteUser, CallDeleteUser)
    BY DEF HandleDeleteUser, CallDeleteUser
  <1>6. Agreement(HandleGetUserByName, CallGetUserByName)
    BY DEF HandleGetUserByName, CallGetUserByName
  <1>7. Agreement(HandleUpdateUser, CallUpdateUser)
    BY DEF HandleUpdateUser, CallUpdateUser
  <1> QED BY <1>1, <1>2, <1>3, <1>4, <1>5, <1>6, <1>7

LEMMA TablesAgree == \A op \in Operations : Agreement(Handlers[op], Methods[op])
  BY OperationsByName, PetTablesAgree, StoreTablesAgree, UserTablesAgree
  DEF OperationNames, Handlers, Methods

LEMMA LoginTables ==
  /\ Handlers["LoginUser"].yields = "text" /\ Methods["LoginUser"].reads = "xml document"
  /\ \A v \in DOMAIN Handlers["LoginUser"].status :
       Handlers["LoginUser"].status[v] = 200 <=> v = "SuccessfulOperation"
  <1>1. Handlers["LoginUser"] = HandleLoginUser /\ Methods["LoginUser"] = CallLoginUser
    BY DEF Handlers, Methods
  <1>2. HandleLoginUser.yields = "text" /\ CallLoginUser.reads = "xml document"
    BY DEF HandleLoginUser, Handler, CallLoginUser, Method
  <1>3. HandleLoginUser.status =
          [SuccessfulOperation |-> 200, InvalidUsername |-> 400, UnexpectedError |-> 500]
    BY DEF HandleLoginUser, Handler
  <1>4. \A v \in DOMAIN HandleLoginUser.status :
          HandleLoginUser.status[v] = 200 <=> v = "SuccessfulOperation"
    BY <1>3
  <1> QED BY <1>1, <1>2, <1>4

LEMMA BodiesAgree ==
  \A op \in Operations \ {"LoginUser"} : Methods[op].reads \in {"nothing", Handlers[op].yields}
  <1> DEFINE Fits(h, m) == m.reads \in {"nothing", h.yields}
  <1>1. Fits(HandleAddPet, CallAddPet)
    BY DEF HandleAddPet, Handler, CallAddPet, Method
  <1>2. Fits(HandleFindPetsByStatus, CallFindPetsByStatus)
    BY DEF HandleFindPetsByStatus, Handler, CallFindPetsByStatus, Method
  <1>3. Fits(HandleFindPetsByTags, CallFindPetsByTags)
    BY DEF HandleFindPetsByTags, Handler, CallFindPetsByTags, Method
  <1>4. Fits(HandleUpdatePet, CallUpdatePet)
    BY DEF HandleUpdatePet, Handler, CallUpdatePet, Method
  <1>5. Fits(HandleDeletePet, CallDeletePet)
    BY DEF HandleDeletePet, Handler, CallDeletePet, Method
  <1>6. Fits(HandleGetPetById, CallGetPetById)
    BY DEF HandleGetPetById, Handler, CallGetPetById, Method
  <1>7. Fits(HandleUpdatePetWithForm, CallUpdatePetWithForm)
    BY DEF HandleUpdatePetWithForm, Handler, CallUpdatePetWithForm, Method
  <1>8. Fits(HandleUploadFile, CallUploadFile)
    BY DEF HandleUploadFile, Handler, CallUploadFile, Method
  <1>9. Fits(HandleGetInventory, CallGetInventory)
    BY DEF HandleGetInventory, Handler, CallGetInventory, Method
  <1>10. Fits(HandlePlaceOrder, CallPlaceOrder)
    BY DEF HandlePlaceOrder, Handler, CallPlaceOrder, Method
  <1>11. Fits(HandleDeleteOrder, CallDeleteOrder)
    BY DEF HandleDeleteOrder, Handler, CallDeleteOrder, Method
  <1>12. Fits(HandleGetOrderById, CallGetOrderById)
    BY DEF HandleGetOrderById, Handler, CallGetOrderById, Method
  <1>13. Fits(HandleCreateUser, CallCreateUser)
    BY DEF HandleCreateUser, Handler, CallCreateUser, Method
  <1>14. Fits(HandleCreateUsersWithListInput, CallCreateUsersWithListInput)
    BY DEF HandleCreateUsersWithListInput, Handler, CallCreateUsersWithListInput, Method
  <1>15. Fits(HandleLogoutUser, CallLogoutUser)
    BY DEF HandleLogoutUser, Handler, CallLogoutUser, Method
  <1>16. Fits(HandleDeleteUser, CallDeleteUser)
    BY DEF HandleDeleteUser, Handler, CallDeleteUser, Method
  <1>17. Fits(HandleGetUserByName, CallGetUserByName)
    BY DEF HandleGetUserByName, Handler, CallGetUserByName, Method
  <1>18. Fits(HandleUpdateUser, CallUpdateUser)
    BY DEF HandleUpdateUser, Handler, CallUpdateUser, Method
  <1> HIDE DEF Fits
  <1>19. \A op \in Operations \ {"LoginUser"} : Fits(Handlers[op], Methods[op])
    BY OperationsByName,
       <1>1, <1>2, <1>3, <1>4, <1>5, <1>6, <1>7, <1>8, <1>9,
       <1>10, <1>11, <1>12, <1>13, <1>14, <1>15, <1>16, <1>17, <1>18
    DEF OperationNames, Handlers, Methods
  <1> QED BY <1>19 DEF Fits

(* What the application says reaches the client as that variant, but for   *)
(* what is said with 500 and for the token of a login.                     *)
LEMMA AnswersAreUnderstood ==
  ASSUME NEW op \in Operations, NEW answer \in Answers(op)
  PROVE  ResultOf(op, Response(op, answer)) = IF Undeliverable(op, answer) THEN "Err" ELSE answer
  <1> DEFINE r == Response(op, answer)
             s == Handlers[op].status
             c == Methods[op].status
             known == {v \in DOMAIN c : c[v] = r.code}
  <1>1. Agreement(Handlers[op], Methods[op])
    BY TablesAgree
  <1>2. r.code = IF answer = Failed THEN 500 ELSE s[answer]
    BY DEF Response
  <1>3. r.code = 200 => r.body = Handlers[op].yields
    BY DEF Response
  <1>4. CASE r.code = 500
    <2>1. known = {}
      BY <1>1, <1>4 DEF Agreement
    <2> QED BY <1>4, <2>1 DEF ResultOf, Undeliverable
  <1>5. CASE r.code # 500
    <2>1. answer \in DOMAIN s /\ r.code = s[answer] /\ answer # Failed
      BY <1>2, <1>5 DEF Answers
    <2>2. known = {answer}
      BY <1>1, <1>5, <2>1 DEF Agreement
    <2>3. Readable(op, r) <=> ~(op = "LoginUser" /\ answer = "SuccessfulOperation")
      <3>1. CASE op = "LoginUser"
        <4>1. r.code = 200 <=> answer = "SuccessfulOperation"
          <5>1. /\ answer \in DOMAIN Handlers["LoginUser"].status
                /\ r.code = Handlers["LoginUser"].status[answer]
            BY <2>1, <3>1, Zenon
          <5>2. Handlers["LoginUser"].status[answer] = 200 <=> answer = "SuccessfulOperation"
            BY <5>1, LoginTables, Zenon
          <5> HIDE DEF r
          <5> QED BY <5>1, <5>2
        <4>2. r.code = 200 => r.body = "text" /\ Methods[op].reads = "xml document"
          <5>1. r.code = 200 => r.body = Handlers["LoginUser"].yields
            BY <1>3, <3>1, Zenon
          <5> QED BY <3>1, <5>1, LoginTables, Zenon
        <4> QED BY <3>1, <4>1, <4>2 DEF Readable
      <3>2. CASE op # "LoginUser"
        BY <1>3, <3>2, BodiesAgree DEF Readable
      <3> QED BY <3>1, <3>2
    <2>4. Undeliverable(op, answer) <=> ~Readable(op, r)
      BY <1>5, <2>3 DEF Undeliverable
    <2>5. ResultOf(op, r) = IF Readable(op, r) THEN answer ELSE "Err"
      BY <2>2 DEF ResultOf
    <2> QED BY <2>4, <2>5
  <1> QED BY <1>4, <1>5

-----------------------------------------------------------------------------
(* The router.                                                             *)

LEMMA RoutesLeadToHandlers ==
  /\ DOMAIN Routes = 1..19
  /\ \A i \in 1..19 : Routes[i].op \in Operations
  <1>1. Len(Routes) = 19 /\ DOMAIN Routes = 1..19
    BY DEF Routes
  <1>2. \A i \in 1..19 : Routes[i].op \in OperationNames
    BY DEF Routes, Route, OperationNames
  <1> QED BY <1>1, <1>2, OperationsByName

(* There is a first route among those that match.                          *)
LEMMA LeastOf19 ==
  ASSUME NEW S \in SUBSET (1..19), S # {}
  PROVE  \E i \in S : \A j \in S : i <= j
  <1>1. CASE S \cap (1..5) # {}
    BY <1>1
  <1>2. CASE S \cap (1..5) = {} /\ S \cap (6..10) # {}
    BY <1>2
  <1>3. CASE S \cap (1..10) = {} /\ S \cap (11..15) # {}
    BY <1>3
  <1>4. CASE S \cap (1..15) = {} /\ S \cap (16..19) # {}
    BY <1>4
  <1>5. 1..19 = (1..5) \cup (6..10) \cup (11..15) \cup (16..19)
    OBVIOUS
  <1>6. S \cap (1..5) # {} \/ S \cap (6..10) # {} \/ S \cap (11..15) # {} \/ S \cap (16..19) # {}
    BY <1>5
  <1>7. S \cap (1..10) = (S \cap (1..5)) \cup (S \cap (6..10))
    OBVIOUS
  <1>8. S \cap (1..15) = (S \cap (1..10)) \cup (S \cap (11..15))
    OBVIOUS
  <1> QED BY <1>1, <1>2, <1>3, <1>4, <1>6, <1>7, <1>8

LEMMA DispatchedToHandler == \A r : Dispatched(r) \in Operations \cup {None}
  <1> SUFFICES ASSUME NEW r, Candidates(r) # {} PROVE FirstRoute(r).op \in Operations
    BY DEF Dispatched
  <1>1. Candidates(r) \in SUBSET (1..19)
    BY RoutesLeadToHandlers DEF Candidates
  <1>2. PICK i \in Candidates(r) : \A j \in Candidates(r) : i <= j
    BY <1>1, LeastOf19
  <1>3. \E n \in Candidates(r) : FirstRoute(r) = Routes[n]
    BY <1>2 DEF FirstRoute
  <1> QED BY <1>1, <1>3, RoutesLeadToHandlers

-----------------------------------------------------------------------------
(* From the table of the client to that of the router.                     *)

(* The recursion of FlattenSeq, unrolled for paths of up to three parts.   *)
Flattens(s, f) == f = [i \in 1..Len(s) |-> IF i = 1 THEN s[i] ELSE f[i-1] \o s[i]]

Unrolled(s, n, f) ==
  FlattenSeq(s) = f[n] /\ \A i \in 1..n : f[i] = IF i = 1 THEN s[i] ELSE f[i-1] \o s[i]

LEMMA FlattenUnrolled ==
  ASSUME NEW s, NEW n \in Nat \ {0}, Len(s) = n, NEW g, Flattens(s, g)
  PROVE  \E f : Unrolled(s, n, f)
  <1> DEFINE f == CHOOSE h : Flattens(s, h)
  <1>1. Flattens(s, f)
    OBVIOUS
  <1>2. FlattenSeq(s) = f[n]
    BY DEF FlattenSeq, Flattens
  <1> HIDE DEF f
  <1>3. \A i \in 1..n : f[i] = IF i = 1 THEN s[i] ELSE f[i-1] \o s[i]
    <2>1. f = [i \in 1..n |-> IF i = 1 THEN s[i] ELSE f[i-1] \o s[i]]
      BY <1>1, Zenon DEF Flattens
    <2> DEFINE e(i) == IF i = 1 THEN s[i] ELSE f[i-1] \o s[i]
    <2>2. f = [i \in 1..n |-> e(i)]
      BY <2>1, Zenon
    <2> HIDE DEF e
    <2>3. \A i \in 1..n : f[i] = e(i)
      BY <2>2, Zenon
    <2> QED BY <2>3, Zenon DEF e
  <1> QED BY <1>2, <1>3 DEF Unrolled

LEMMA FlattenOne ==
  ASSUME NEW s, Len(s) = 1
  PROVE  FlattenSeq(s) = s[1]
  <1>0. 1 \in Nat \ {0}
    OBVIOUS
  <1>1. PICK g : Flattens(s, g)
    <2>1. Flattens(s, [i \in 1..1 |-> s[1]])
      BY DEF Flattens
    <2> QED BY <2>1, Zenon
  <1>2. PICK f : Unrolled(s, 1, f)
    BY <1>0, <1>1, FlattenUnrolled, Zenon
  <1>3. f[1] = s[1]
    BY <1>2 DEF Unrolled
  <1> QED BY <1>2, <1>3 DEF Unrolled

LEMMA FlattenTwo ==
  ASSUME NEW s, Len(s) = 2
  PROVE  FlattenSeq(s) = s[1] \o s[2]
  <1>0. 2 \in Nat \ {0}
    OBVIOUS
  <1>1. PICK g : Flattens(s, g)
    <2>1. Flattens(s, [i \in 1..2 |-> IF i = 1 THEN s[1] ELSE s[1] \o s[2]])
      BY DEF Flattens
    <2> QED BY <2>1, Zenon
  <1>2. PICK f : Unrolled(s, 2, f)
    BY <1>0, <1>1, FlattenUnrolled, Zenon
  <1>3. f[1] = s[1] /\ f[2] = f[1] \o s[2]
    BY <1>2 DEF Unrolled
  <1> QED BY <1>2, <1>3 DEF Unrolled

LEMMA FlattenThree ==
  ASSUME NEW s, Len(s) = 3
  PROVE  FlattenSeq(s) = (s[1] \o s[2]) \o s[3]
  <1>0. 3 \in Nat \ {0}
    OBVIOUS
  <1>1. PICK g : Flattens(s, g)
    <2>1. Flattens(s, [i \in 1..3 |-> IF i = 1 THEN s[1] ELSE IF i = 2 THEN s[1] \o s[2] ELSE (s[1] \o s[2]) \o s[3]])
      BY DEF Flattens
    <2> QED BY <2>1, Zenon
  <1>2. PICK f : Unrolled(s, 3, f)
    BY <1>0, <1>1, FlattenUnrolled, Zenon
  <1>3. f[1] = s[1] /\ f[2] = f[1] \o s[2] /\ f[3] = f[2] \o s[3]
    BY <1>2 DEF Unrolled
  <1> QED BY <1>2, <1>3 DEF Unrolled

LEMMA Concats ==
  ASSUME NEW a, NEW b, NEW c
  PROVE /\ <<a>> \o <<b>> = <<a, b>>
        /\ <<a, b>> \o <<c>> = <<a, b, c>>
        /\ <<a>> \o <<b, c>> = <<a, b, c>>
  <1> DEFINE S == {a, b, c}
  <1>1. <<a>> \in Seq(S) /\ <<b>> \in Seq(S) /\ <<c>> \in Seq(S) /\ <<a, b>> \in Seq(S) /\ <<b, c>> \in Seq(S) /\ <<a, b, c>> \in Seq(S)
    OBVIOUS
  <1> HIDE DEF S
  <1>2. ASSUME NEW p, p = <<a>> \o <<b>> PROVE p = <<a, b>>
    <2>1. /\ p \in Seq(S) /\ Len(p) = 2
          /\ p[1] = a /\ p[2] = b
      BY <1>1, <1>2, ConcatProperties
    <2> QED BY <1>1, <2>1, SeqEqual
  <1>3. ASSUME NEW p, p = <<a, b>> \o <<c>> PROVE p = <<a, b, c>>
    <2>1. /\ p \in Seq(S) /\ Len(p) = 3
          /\ p[1] = a /\ p[2] = b /\ p[3] = c
      BY <1>1, <1>3, ConcatProperties
    <2> QED BY <1>1, <2>1, SeqEqual
  <1>4. ASSUME NEW p, p = <<a>> \o <<b, c>> PROVE p = <<a, b, c>>
    <2>1. /\ p \in Seq(S) /\ Len(p) = 3
          /\ p[1] = a /\ p[2] = b /\ p[3] = c
      BY <1>1, <1>4, ConcatProperties
    <2> QED BY <1>1, <2>1, SeqEqual
  <1> QED BY <1>2, <1>3, <1>4

(* The table of the router: a line for a method, the length and the parts  *)
(* of a path, and an operation.                                            *)
Row(i, method, path, op) == Routes[i].method = method /\ Routes[i].path = path /\ Routes[i].op = op

Arm(i, method, n, a, b, c, op) ==
  /\ Routes[i].method = method /\ Routes[i].op = op
  /\ LET path == Routes[i].path
     IN  /\ Len(path) = n /\ DOMAIN path = 1..n /\ path[1] = a
         /\ n > 1 => path[2] = b
         /\ n > 2 => path[3] = c

LEMMA RouteRows ==
  /\ Row(1, "POST", <<"pet">>, "AddPet")
  /\ Row(2, "GET", <<"pet", "findByStatus">>, "FindPetsByStatus")
  /\ Row(3, "GET", <<"pet", "findByTags">>, "FindPetsByTags")
  /\ Row(4, "PUT", <<"pet">>, "UpdatePet")
  /\ Row(5, "DELETE", <<"pet", Param>>, "DeletePet")
  /\ Row(6, "GET", <<"pet", Param>>, "GetPetById")
  /\ Row(7, "POST", <<"pet", Param>>, "UpdatePetWithForm")
  /\ Row(8, "POST", <<"pet", Param, "uploadImage">>, "UploadFile")
  /\ Row(9, "GET", <<"store", "inventory">>, "GetInventory")
  /\ Row(10, "POST", <<"store", "order">>, "PlaceOrder")
  /\ Row(11, "DELETE", <<"store", "order", Param>>, "DeleteOrder")
  /\ Row(12, "GET", <<"store", "order", Param>>, "GetOrderById")
  /\ Row(13, "POST", <<"user">>, "CreateUser")
  /\ Row(14, "POST", <<"user", "createWithList">>, "CreateUsersWithListInput")
  /\ Row(15, "GET", <<"user", "login">>, "LoginUser")
  /\ Row(16, "GET", <<"user", "logout">>, "LogoutUser")
  /\ Row(17, "DELETE", <<"user", Param>>, "DeleteUser")
  /\ Row(18, "GET", <<"user", Param>>, "GetUserByName")
  /\ Row(19, "PUT", <<"user", Param>>, "UpdateUser")
  BY DEF Row, Routes, Route, Paths

LEMMA RouteTable ==
  /\ Arm(1, "POST", 1, "pet", None, None, "AddPet")
  /\ Arm(2, "GET", 2, "pet", "findByStatus", None, "FindPetsByStatus")
  /\ Arm(3, "GET", 2, "pet", "findByTags", None, "FindPetsByTags")
  /\ Arm(4, "PUT", 1, "pet", None, None, "UpdatePet")
  /\ Arm(5, "DELETE", 2, "pet", Param, None, "DeletePet")
  /\ Arm(6, "GET", 2, "pet", Param, None, "GetPetById")
  /\ Arm(7, "POST", 2, "pet", Param, None, "UpdatePetWithForm")
  /\ Arm(8, "POST", 3, "pet", Param, "uploadImage", "UploadFile")
  /\ Arm(9, "GET", 2, "store", "inventory", None, "GetInventory")
  /\ Arm(10, "POST", 2, "store", "order", None, "PlaceOrder")
  /\ Arm(11, "DELETE", 3, "store", "order", Param, "DeleteOrder")
  /\ Arm(12, "GET", 3, "store", "order", Param, "GetOrderById")
  /\ Arm(13, "POST", 1, "user", None, None, "CreateUser")
  /\ Arm(14, "POST", 2, "user", "createWithList", None, "CreateUsersWithListInput")
  /\ Arm(15, "GET", 2, "user", "login", None, "LoginUser")
  /\ Arm(16, "GET", 2, "user", "logout", None, "LogoutUser")
  /\ Arm(17, "DELETE", 2, "user", Param, None, "DeleteUser")
  /\ Arm(18, "GET", 2, "user", Param, None, "GetUserByName")
  /\ Arm(19, "PUT", 2, "user", Param, None, "UpdateUser")
  <1>1. Arm(1, "POST", 1, "pet", None, None, "AddPet")
    BY RouteRows DEF Row, Arm
  <1>2. Arm(2, "GET", 2, "pet", "findByStatus", None, "FindPetsByStatus")
    BY RouteRows DEF Row, Arm
  <1>3. Arm(3, "GET", 2, "pet", "findByTags", None, "FindPetsByTags")
    BY RouteRows DEF Row, Arm
  <1>4. Arm(4, "PUT", 1, "pet", None, None, "UpdatePet")
    BY RouteRows DEF Row, Arm
  <1>5. Arm(5, "DELETE", 2, "pet", Param, None, "DeletePet")
    BY RouteRows DEF Row, Arm
  <1>6. Arm(6, "GET", 2, "pet", Param, None, "GetPetById")
    BY RouteRows DEF Row, Arm
  <1>7. Arm(7, "POST", 2, "pet", Param, None, "UpdatePetWithForm")
    BY RouteRows DEF Row, Arm
  <1>8. Arm(8, "POST", 3, "pet", Param, "uploadImage", "UploadFile")
    BY RouteRows DEF Row, Arm
  <1>9. Arm(9, "GET", 2, "store", "inventory", None, "GetInventory")
    BY RouteRows DEF Row, Arm
  <1>10. Arm(10, "POST", 2, "store", "order", None, "PlaceOrder")
    BY RouteRows DEF Row, Arm
  <1>11. Arm(11, "DELETE", 3, "store", "order", Param, "DeleteOrder")
    BY RouteRows DEF Row, Arm
  <1>12. Arm(12, "GET", 3, "store", "order", Param, "GetOrderById")
    BY RouteRows DEF Row, Arm
  <1>13. Arm(13, "POST", 1, "user", None, None, "CreateUser")
    BY RouteRows DEF Row, Arm
  <1>14. Arm(14, "POST", 2, "user", "createWithList", None, "CreateUsersWithListInput")
    BY RouteRows DEF Row, Arm
  <1>15. Arm(15, "GET", 2, "user", "login", None, "LoginUser")
    BY RouteRows DEF Row, Arm
  <1>16. Arm(16, "GET", 2, "user", "logout", None, "LogoutUser")
    BY RouteRows DEF Row, Arm
  <1>17. Arm(17, "DELETE", 2, "user", Param, None, "DeleteUser")
    BY RouteRows DEF Row, Arm
  <1>18. Arm(18, "GET", 2, "user", Param, None, "GetUserByName")
    BY RouteRows DEF Row, Arm
  <1>19. Arm(19, "PUT", 2, "user", Param, None, "UpdateUser")
    BY RouteRows DEF Row, Arm
  <1> QED BY <1>1, <1>2, <1>3, <1>4, <1>5, <1>6, <1>7, <1>8, <1>9, <1>10, <1>11, <1>12, <1>13, <1>14, <1>15, <1>16, <1>17, <1>18, <1>19

(* The requests an arm of the match would take.                            *)
Takes(i, r) == Routes[i].method = r.method /\ Matched(Routes[i].path, r.path)

LEMMA TakenByPart ==
  ASSUME NEW i, NEW r, NEW m, NEW n \in 1..3, NEW a, a # Param, NEW b, NEW c, NEW o, Arm(i, m, n, a, b, c, o)
  PROVE  Takes(i, r) <=>
           /\ r.method = m /\ Len(r.path) = n /\ r.path[1] = a
           /\ n > 1 => b \in {Param, r.path[2]}
           /\ n > 2 => c \in {Param, r.path[3]}
  <1> DEFINE q == Routes[i].path
             p == r.path
  <1>1. Routes[i].method = m /\ Len(q) = n /\ DOMAIN q = 1..n /\ q[1] = a
        /\ (n > 1 => q[2] = b) /\ (n > 2 => q[3] = c)
    BY DEF Arm
  <1>2. Takes(i, r) <=> r.method = m /\ Len(p) = n /\ \A j \in 1..n : q[j] \in {Param, p[j]}
    BY <1>1 DEF Takes, Matched
  <1> HIDE DEF q, p
  <1>3. (\A j \in 1..n : q[j] \in {Param, p[j]}) <=>
          /\ q[1] \in {Param, p[1]} /\ (n > 1 => q[2] \in {Param, p[2]}) /\ (n > 2 => q[3] \in {Param, p[3]})
    OBVIOUS
  <1> QED BY <1>1, <1>2, <1>3 DEF p

LEMMA TakenOne ==
  ASSUME NEW i, NEW r, NEW m, NEW a, a # Param, NEW b, NEW c, NEW o, Arm(i, m, 1, a, b, c, o)
  PROVE  Takes(i, r) <=> r.method = m /\ Len(r.path) = 1 /\ r.path[1] = a
  BY TakenByPart

LEMMA TakenTwo ==
  ASSUME NEW i, NEW r, NEW m, NEW a, a # Param, NEW b, NEW c, NEW o, Arm(i, m, 2, a, b, c, o)
  PROVE  Takes(i, r) <=>
           r.method = m /\ Len(r.path) = 2 /\ r.path[1] = a /\ (b = Param \/ r.path[2] = b)
  BY TakenByPart

LEMMA TakenThree ==
  ASSUME NEW i, NEW r, NEW m, NEW a, a # Param, NEW b, NEW c, NEW o, Arm(i, m, 3, a, b, c, o)
  PROVE  Takes(i, r) <=>
           /\ r.method = m /\ Len(r.path) = 3 /\ r.path[1] = a
           /\ b = Param \/ r.path[2] = b
           /\ c = Param \/ r.path[3] = c
  BY TakenByPart

LEMMA RouteTaken ==
  ASSUME NEW r, NEW o \in Operations, Dispatched(r) = o
  PROVE  \E i \in 1..19 :
           /\ FirstRoute(r) = Routes[i] /\ Routes[i].op = o
           /\ Takes(i, r) /\ \A j \in 1..19 : Takes(j, r) => i <= j
  <1>1. Candidates(r) # {} /\ FirstRoute(r).op = o
    BY OperationsByName DEF Dispatched
  <1>2. Candidates(r) \in SUBSET (1..19)
    BY RoutesLeadToHandlers DEF Candidates
  <1> DEFINE first(i) == i \in Candidates(r) /\ \A j \in Candidates(r) : i <= j
             n == CHOOSE i \in Candidates(r) : \A j \in Candidates(r) : i <= j
  <1>3. first(n)
    BY <1>1, <1>2, LeastOf19
  <1>4. FirstRoute(r) = Routes[n]
    BY DEF FirstRoute
  <1> HIDE DEF n
  <1>5. \A j \in 1..19 : Takes(j, r) <=> j \in Candidates(r)
    BY RoutesLeadToHandlers DEF Candidates, Takes
  <1> QED BY <1>1, <1>2, <1>3, <1>4, <1>5

LEMMA OtherNames ==
  /\ "pet" # Param
  /\ "store" # Param
  /\ "user" # Param
  /\ "findByStatus" # Param
  /\ "findByTags" # Param
  /\ "uploadImage" # Param
  /\ "inventory" # Param
  /\ "order" # Param
  /\ "createWithList" # Param
  /\ "login" # Param
  /\ "logout" # Param
  BY DEF Param

LEMMA ArmsTake ==
  ASSUME NEW r, NEW m, m = r.method, NEW p, p = r.path
  PROVE
    /\ Takes(1, r) <=> m = "POST" /\ Len(p) = 1 /\ p[1] = "pet"
    /\ Takes(2, r) <=> m = "GET" /\ Len(p) = 2 /\ p[1] = "pet" /\ p[2] = "findByStatus"
    /\ Takes(3, r) <=> m = "GET" /\ Len(p) = 2 /\ p[1] = "pet" /\ p[2] = "findByTags"
    /\ Takes(4, r) <=> m = "PUT" /\ Len(p) = 1 /\ p[1] = "pet"
    /\ Takes(5, r) <=> m = "DELETE" /\ Len(p) = 2 /\ p[1] = "pet"
    /\ Takes(6, r) <=> m = "GET" /\ Len(p) = 2 /\ p[1] = "pet"
    /\ Takes(7, r) <=> m = "POST" /\ Len(p) = 2 /\ p[1] = "pet"
    /\ Takes(8, r) <=> m = "POST" /\ Len(p) = 3 /\ p[1] = "pet" /\ p[3] = "uploadImage"
    /\ Takes(9, r) <=> m = "GET" /\ Len(p) = 2 /\ p[1] = "store" /\ p[2] = "inventory"
    /\ Takes(10, r) <=> m = "POST" /\ Len(p) = 2 /\ p[1] = "store" /\ p[2] = "order"
    /\ Takes(11, r) <=> m = "DELETE" /\ Len(p) = 3 /\ p[1] = "store" /\ p[2] = "order"
    /\ Takes(12, r) <=> m = "GET" /\ Len(p) = 3 /\ p[1] = "store" /\ p[2] = "order"
    /\ Takes(13, r) <=> m = "POST" /\ Len(p) = 1 /\ p[1] = "user"
    /\ Takes(14, r) <=> m = "POST" /\ Len(p) = 2 /\ p[1] = "user" /\ p[2] = "createWithList"
    /\ Takes(15, r) <=> m = "GET" /\ Len(p) = 2 /\ p[1] = "user" /\ p[2] = "login"
    /\ Takes(16, r) <=> m = "GET" /\ Len(p) = 2 /\ p[1] = "user" /\ p[2] = "logout"
    /\ Takes(17, r) <=> m = "DELETE" /\ Len(p) = 2 /\ p[1] = "user"
    /\ Takes(18, r) <=> m = "GET" /\ Len(p) = 2 /\ p[1] = "user"
    /\ Takes(19, r) <=> m = "PUT" /\ Len(p) = 2 /\ p[1] = "user"
  <1>1. Takes(1, r) <=> m = "POST" /\ Len(p) = 1 /\ p[1] = "pet"
    <2>1. Arm(1, "POST", 1, "pet", None, None, "AddPet")
      BY RouteTable
    <2>2. "pet" # Param
      BY OtherNames
    <2> QED BY <2>1, <2>2, TakenOne
  <1>2. Takes(2, r) <=> m = "GET" /\ Len(p) = 2 /\ p[1] = "pet" /\ p[2] = "findByStatus"
    <2>1. Arm(2, "GET", 2, "pet", "findByStatus", None, "FindPetsByStatus")
      BY RouteTable
    <2>2. "pet" # Param /\ "findByStatus" # Param
      BY OtherNames
    <2> QED BY <2>1, <2>2, TakenTwo
  <1>3. Takes(3, r) <=> m = "GET" /\ Len(p) = 2 /\ p[1] = "pet" /\ p[2] = "findByTags"
    <2>1. Arm(3, "GET", 2, "pet", "findByTags", None, "FindPetsByTags")
      BY RouteTable
    <2>2. "pet" # Param /\ "findByTags" # Param
      BY OtherNames
    <2> QED BY <2>1, <2>2, TakenTwo
  <1>4. Takes(4, r) <=> m = "PUT" /\ Len(p) = 1 /\ p[1] = "pet"
    <2>1. Arm(4, "PUT", 1, "pet", None, None, "UpdatePet")
      BY RouteTable
    <2>2. "pet" # Param
      BY OtherNames
    <2> QED BY <2>1, <2>2, TakenOne
  <1>5. Takes(5, r) <=> m = "DELETE" /\ Len(p) = 2 /\ p[1] = "pet"
    <2>1. Arm(5, "DELETE", 2, "pet", Param, None, "DeletePet")
      BY RouteTable
    <2>2. "pet" # Param
      BY OtherNames
    <2> QED BY <2>1, <2>2, TakenTwo
  <1>6. Takes(6, r) <=> m = "GET" /\ Len(p) = 2 /\ p[1] = "pet"
    <2>1. Arm(6, "GET", 2, "pet", Param, None, "GetPetById")
      BY RouteTable
    <2>2. "pet" # Param
      BY OtherNames
    <2> QED BY <2>1, <2>2, TakenTwo
  <1>7. Takes(7, r) <=> m = "POST" /\ Len(p) = 2 /\ p[1] = "pet"
    <2>1. Arm(7, "POST", 2, "pet", Param, None, "UpdatePetWithForm")
      BY RouteTable
    <2>2. "pet" # Param
      BY OtherNames
    <2> QED BY <2>1, <2>2, TakenTwo
  <1>8. Takes(8, r) <=> m = "POST" /\ Len(p) = 3 /\ p[1] = "pet" /\ p[3] = "uploadImage"
    <2>1. Arm(8, "POST", 3, "pet", Param, "uploadImage", "UploadFile")
      BY RouteTable
    <2>2. "pet" # Param /\ "uploadImage" # Param
      BY OtherNames
    <2> QED BY <2>1, <2>2, TakenThree
  <1>9. Takes(9, r) <=> m = "GET" /\ Len(p) = 2 /\ p[1] = "store" /\ p[2] = "inventory"
    <2>1. Arm(9, "GET", 2, "store", "inventory", None, "GetInventory")
      BY RouteTable
    <2>2. "store" # Param /\ "inventory" # Param
      BY OtherNames
    <2> QED BY <2>1, <2>2, TakenTwo
  <1>10. Takes(10, r) <=> m = "POST" /\ Len(p) = 2 /\ p[1] = "store" /\ p[2] = "order"
    <2>1. Arm(10, "POST", 2, "store", "order", None, "PlaceOrder")
      BY RouteTable
    <2>2. "store" # Param /\ "order" # Param
      BY OtherNames
    <2> QED BY <2>1, <2>2, TakenTwo
  <1>11. Takes(11, r) <=> m = "DELETE" /\ Len(p) = 3 /\ p[1] = "store" /\ p[2] = "order"
    <2>1. Arm(11, "DELETE", 3, "store", "order", Param, "DeleteOrder")
      BY RouteTable
    <2>2. "store" # Param /\ "order" # Param
      BY OtherNames
    <2> QED BY <2>1, <2>2, TakenThree
  <1>12. Takes(12, r) <=> m = "GET" /\ Len(p) = 3 /\ p[1] = "store" /\ p[2] = "order"
    <2>1. Arm(12, "GET", 3, "store", "order", Param, "GetOrderById")
      BY RouteTable
    <2>2. "store" # Param /\ "order" # Param
      BY OtherNames
    <2> QED BY <2>1, <2>2, TakenThree
  <1>13. Takes(13, r) <=> m = "POST" /\ Len(p) = 1 /\ p[1] = "user"
    <2>1. Arm(13, "POST", 1, "user", None, None, "CreateUser")
      BY RouteTable
    <2>2. "user" # Param
      BY OtherNames
    <2> QED BY <2>1, <2>2, TakenOne
  <1>14. Takes(14, r) <=> m = "POST" /\ Len(p) = 2 /\ p[1] = "user" /\ p[2] = "createWithList"
    <2>1. Arm(14, "POST", 2, "user", "createWithList", None, "CreateUsersWithListInput")
      BY RouteTable
    <2>2. "user" # Param /\ "createWithList" # Param
      BY OtherNames
    <2> QED BY <2>1, <2>2, TakenTwo
  <1>15. Takes(15, r) <=> m = "GET" /\ Len(p) = 2 /\ p[1] = "user" /\ p[2] = "login"
    <2>1. Arm(15, "GET", 2, "user", "login", None, "LoginUser")
      BY RouteTable
    <2>2. "user" # Param /\ "login" # Param
      BY OtherNames
    <2> QED BY <2>1, <2>2, TakenTwo
  <1>16. Takes(16, r) <=> m = "GET" /\ Len(p) = 2 /\ p[1] = "user" /\ p[2] = "logout"
    <2>1. Arm(16, "GET", 2, "user", "logout", None, "LogoutUser")
      BY RouteTable
    <2>2. "user" # Param /\ "logout" # Param
      BY OtherNames
    <2> QED BY <2>1, <2>2, TakenTwo
  <1>17. Takes(17, r) <=> m = "DELETE" /\ Len(p) = 2 /\ p[1] = "user"
    <2>1. Arm(17, "DELETE", 2, "user", Param, None, "DeleteUser")
      BY RouteTable
    <2>2. "user" # Param
      BY OtherNames
    <2> QED BY <2>1, <2>2, TakenTwo
  <1>18. Takes(18, r) <=> m = "GET" /\ Len(p) = 2 /\ p[1] = "user"
    <2>1. Arm(18, "GET", 2, "user", Param, None, "GetUserByName")
      BY RouteTable
    <2>2. "user" # Param
      BY OtherNames
    <2> QED BY <2>1, <2>2, TakenTwo
  <1>19. Takes(19, r) <=> m = "PUT" /\ Len(p) = 2 /\ p[1] = "user"
    <2>1. Arm(19, "PUT", 2, "user", Param, None, "UpdateUser")
      BY RouteTable
    <2>2. "user" # Param
      BY OtherNames
    <2> QED BY <2>1, <2>2, TakenTwo
  <1> QED BY <1>1, <1>2, <1>3, <1>4, <1>5, <1>6, <1>7, <1>8, <1>9, <1>10, <1>11, <1>12,
             <1>13, <1>14, <1>15, <1>16, <1>17, <1>18, <1>19

(* What a request that is dispatched to an operation looks like.           *)
Looks(o, m, p) ==
  \/ o = "AddPet" /\ m = "POST" /\ Len(p) = 1 /\ p[1] = "pet"
  \/ o = "FindPetsByStatus" /\ m = "GET" /\ Len(p) = 2 /\ p[1] = "pet" /\ p[2] = "findByStatus"
  \/ o = "FindPetsByTags" /\ m = "GET" /\ Len(p) = 2 /\ p[1] = "pet" /\ p[2] = "findByTags"
  \/ o = "UpdatePet" /\ m = "PUT" /\ Len(p) = 1 /\ p[1] = "pet"
  \/ o = "DeletePet" /\ m = "DELETE" /\ Len(p) = 2 /\ p[1] = "pet"
  \/ o = "GetPetById" /\ m = "GET" /\ Len(p) = 2 /\ p[1] = "pet" /\ p[2] \notin {"findByStatus", "findByTags"}
  \/ o = "UpdatePetWithForm" /\ m = "POST" /\ Len(p) = 2 /\ p[1] = "pet"
  \/ o = "UploadFile" /\ m = "POST" /\ Len(p) = 3 /\ p[1] = "pet" /\ p[3] = "uploadImage"
  \/ o = "GetInventory" /\ m = "GET" /\ Len(p) = 2 /\ p[1] = "store" /\ p[2] = "inventory"
  \/ o = "PlaceOrder" /\ m = "POST" /\ Len(p) = 2 /\ p[1] = "store" /\ p[2] = "order"
  \/ o = "DeleteOrder" /\ m = "DELETE" /\ Len(p) = 3 /\ p[1] = "store" /\ p[2] = "order"
  \/ o = "GetOrderById" /\ m = "GET" /\ Len(p) = 3 /\ p[1] = "store" /\ p[2] = "order"
  \/ o = "CreateUser" /\ m = "POST" /\ Len(p) = 1 /\ p[1] = "user"
  \/ o = "CreateUsersWithListInput" /\ m = "POST" /\ Len(p) = 2 /\ p[1] = "user" /\ p[2] = "createWithList"
  \/ o = "LoginUser" /\ m = "GET" /\ Len(p) = 2 /\ p[1] = "user" /\ p[2] = "login"
  \/ o = "LogoutUser" /\ m = "GET" /\ Len(p) = 2 /\ p[1] = "user" /\ p[2] = "logout"
  \/ o = "DeleteUser" /\ m = "DELETE" /\ Len(p) = 2 /\ p[1] = "user"
  \/ o = "GetUserByName" /\ m = "GET" /\ Len(p) = 2 /\ p[1] = "user" /\ p[2] \notin {"login", "logout"}
  \/ o = "UpdateUser" /\ m = "PUT" /\ Len(p) = 2 /\ p[1] = "user"

LEMMA DispatchedLooks ==
  ASSUME NEW r, NEW o \in Operations, Dispatched(r) = o
  PROVE  Looks(o, r.method, r.path)
  <1> DEFINE m == r.method
             p == r.path
  <1>0. PICK i \in 1..19 :
           /\ FirstRoute(r) = Routes[i] /\ Routes[i].op = o
           /\ Takes(i, r) /\ \A j \in 1..19 : Takes(j, r) => i <= j
    BY RouteTaken
  <1>1. CASE i = 1
    <2>1. Takes(1, r) /\ o = "AddPet"
      BY <1>0, <1>1, RouteTable DEF Arm
    <2>3. m = "POST" /\ Len(p) = 1 /\ p[1] = "pet"
      BY <2>1, ArmsTake
    <2> QED BY <2>1, <2>3 DEF Looks
  <1>2. CASE i = 2
    <2>1. Takes(2, r) /\ o = "FindPetsByStatus"
      BY <1>0, <1>2, RouteTable DEF Arm
    <2>3. m = "GET" /\ Len(p) = 2 /\ p[1] = "pet" /\ p[2] = "findByStatus"
      BY <2>1, ArmsTake
    <2> QED BY <2>1, <2>3 DEF Looks
  <1>3. CASE i = 3
    <2>1. Takes(3, r) /\ o = "FindPetsByTags"
      BY <1>0, <1>3, RouteTable DEF Arm
    <2>3. m = "GET" /\ Len(p) = 2 /\ p[1] = "pet" /\ p[2] = "findByTags"
      BY <2>1, ArmsTake
    <2> QED BY <2>1, <2>3 DEF Looks
  <1>4. CASE i = 4
    <2>1. Takes(4, r) /\ o = "UpdatePet"
      BY <1>0, <1>4, RouteTable DEF Arm
    <2>3. m = "PUT" /\ Len(p) = 1 /\ p[1] = "pet"
      BY <2>1, ArmsTake
    <2> QED BY <2>1, <2>3 DEF Looks
  <1>5. CASE i = 5
    <2>1. Takes(5, r) /\ o = "DeletePet"
      BY <1>0, <1>5, RouteTable DEF Arm
    <2>3. m = "DELETE" /\ Len(p) = 2 /\ p[1] = "pet"
      BY <2>1, ArmsTake
    <2> QED BY <2>1, <2>3 DEF Looks
  <1>6. CASE i = 6
    <2>1. Takes(6, r) /\ o = "GetPetById"
      BY <1>0, <1>6, RouteTable DEF Arm
    <2>2. ~Takes(2, r) /\ ~Takes(3, r)
      BY <1>0, <1>6
    <2>3. m = "GET" /\ Len(p) = 2 /\ p[1] = "pet" /\ p[2] \notin {"findByStatus", "findByTags"}
      BY <2>1, <2>2, ArmsTake
    <2> QED BY <2>1, <2>3 DEF Looks
  <1>7. CASE i = 7
    <2>1. Takes(7, r) /\ o = "UpdatePetWithForm"
      BY <1>0, <1>7, RouteTable DEF Arm
    <2>3. m = "POST" /\ Len(p) = 2 /\ p[1] = "pet"
      BY <2>1, ArmsTake
    <2> QED BY <2>1, <2>3 DEF Looks
  <1>8. CASE i = 8
    <2>1. Takes(8, r) /\ o = "UploadFile"
      BY <1>0, <1>8, RouteTable DEF Arm
    <2>3. m = "POST" /\ Len(p) = 3 /\ p[1] = "pet" /\ p[3] = "uploadImage"
      BY <2>1, ArmsTake
    <2> QED BY <2>1, <2>3 DEF Looks
  <1>9. CASE i = 9
    <2>1. Takes(9, r) /\ o = "GetInventory"
      BY <1>0, <1>9, RouteTable DEF Arm
    <2>3. m = "GET" /\ Len(p) = 2 /\ p[1] = "store" /\ p[2] = "inventory"
      BY <2>1, ArmsTake
    <2> QED BY <2>1, <2>3 DEF Looks
  <1>10. CASE i = 10
    <2>1. Takes(10, r) /\ o = "PlaceOrder"
      BY <1>0, <1>10, RouteTable DEF Arm
    <2>3. m = "POST" /\ Len(p) = 2 /\ p[1] = "store" /\ p[2] = "order"
      BY <2>1, ArmsTake
    <2> QED BY <2>1, <2>3 DEF Looks
  <1>11. CASE i = 11
    <2>1. Takes(11, r) /\ o = "DeleteOrder"
      BY <1>0, <1>11, RouteTable DEF Arm
    <2>3. m = "DELETE" /\ Len(p) = 3 /\ p[1] = "store" /\ p[2] = "order"
      BY <2>1, ArmsTake
    <2> QED BY <2>1, <2>3 DEF Looks
  <1>12. CASE i = 12
    <2>1. Takes(12, r) /\ o = "GetOrderById"
      BY <1>0, <1>12, RouteTable DEF Arm
    <2>3. m = "GET" /\ Len(p) = 3 /\ p[1] = "store" /\ p[2] = "order"
      BY <2>1, ArmsTake
    <2> QED BY <2>1, <2>3 DEF Looks
  <1>13. CASE i = 13
    <2>1. Takes(13, r) /\ o = "CreateUser"
      BY <1>0, <1>13, RouteTable DEF Arm
    <2>3. m = "POST" /\ Len(p) = 1 /\ p[1] = "user"
      BY <2>1, ArmsTake
    <2> QED BY <2>1, <2>3 DEF Looks
  <1>14. CASE i = 14
    <2>1. Takes(14, r) /\ o = "CreateUsersWithListInput"
      BY <1>0, <1>14, RouteTable DEF Arm
    <2>3. m = "POST" /\ Len(p) = 2 /\ p[1] = "user" /\ p[2] = "createWithList"
      BY <2>1, ArmsTake
    <2> QED BY <2>1, <2>3 DEF Looks
  <1>15. CASE i = 15
    <2>1. Takes(15, r) /\ o = "LoginUser"
      BY <1>0, <1>15, RouteTable DEF Arm
    <2>3. m = "GET" /\ Len(p) = 2 /\ p[1] = "user" /\ p[2] = "login"
      BY <2>1, ArmsTake
    <2> QED BY <2>1, <2>3 DEF Looks
  <1>16. CASE i = 16
    <2>1. Takes(16, r) /\ o = "LogoutUser"
      BY <1>0, <1>16, RouteTable DEF Arm
    <2>3. m = "GET" /\ Len(p) = 2 /\ p[1] = "user" /\ p[2] = "logout"
      BY <2>1, ArmsTake
    <2> QED BY <2>1, <2>3 DEF Looks
  <1>17. CASE i = 17
    <2>1. Takes(17, r) /\ o = "DeleteUser"
      BY <1>0, <1>17, RouteTable DEF Arm
    <2>3. m = "DELETE" /\ Len(p) = 2 /\ p[1] = "user"
      BY <2>1, ArmsTake
    <2> QED BY <2>1, <2>3 DEF Looks
  <1>18. CASE i = 18
    <2>1. Takes(18, r) /\ o = "GetUserByName"
      BY <1>0, <1>18, RouteTable DEF Arm
    <2>2. ~Takes(15, r) /\ ~Takes(16, r)
      BY <1>0, <1>18
    <2>3. m = "GET" /\ Len(p) = 2 /\ p[1] = "user" /\ p[2] \notin {"login", "logout"}
      BY <2>1, <2>2, ArmsTake
    <2> QED BY <2>1, <2>3 DEF Looks
  <1>19. CASE i = 19
    <2>1. Takes(19, r) /\ o = "UpdateUser"
      BY <1>0, <1>19, RouteTable DEF Arm
    <2>3. m = "PUT" /\ Len(p) = 2 /\ p[1] = "user"
      BY <2>1, ArmsTake
    <2> QED BY <2>1, <2>3 DEF Looks
  <1> QED BY <1>1, <1>2, <1>3, <1>4, <1>5, <1>6, <1>7, <1>8, <1>9, <1>10, <1>11, <1>12,
             <1>13, <1>14, <1>15, <1>16, <1>17, <1>18, <1>19

(* The table of the client.                                                *)
Line(op, method, n, a, b, c) ==
  /\ Methods[op].method = method
  /\ LET path == Methods[op].path
     IN  /\ Len(path) = n /\ DOMAIN path = 1..n /\ path[1] = a
         /\ n > 1 => path[2] = b
         /\ n > 2 => path[3] = c

ClientRow(op, method, path) == Methods[op].method = method /\ Methods[op].path = path

LEMMA ClientRows ==
  /\ ClientRow("AddPet", "POST", <<"pet">>)
  /\ ClientRow("FindPetsByStatus", "GET", <<"pet", "findByStatus">>)
  /\ ClientRow("FindPetsByTags", "GET", <<"pet", "findByTags">>)
  /\ ClientRow("UpdatePet", "PUT", <<"pet">>)
  /\ ClientRow("DeletePet", "DELETE", <<"pet", Param>>)
  /\ ClientRow("GetPetById", "GET", <<"pet", Param>>)
  /\ ClientRow("UpdatePetWithForm", "POST", <<"pet", Param>>)
  /\ ClientRow("UploadFile", "POST", <<"pet", Param, "uploadImage">>)
  /\ ClientRow("GetInventory", "GET", <<"store", "inventory">>)
  /\ ClientRow("PlaceOrder", "POST", <<"store", "order">>)
  /\ ClientRow("DeleteOrder", "DELETE", <<"store", "order", Param>>)
  /\ ClientRow("GetOrderById", "GET", <<"store", "order", Param>>)
  /\ ClientRow("CreateUser", "POST", <<"user">>)
  /\ ClientRow("CreateUsersWithListInput", "POST", <<"user", "createWithList">>)
  /\ ClientRow("LoginUser", "GET", <<"user", "login">>)
  /\ ClientRow("LogoutUser", "GET", <<"user", "logout">>)
  /\ ClientRow("DeleteUser", "DELETE", <<"user", Param>>)
  /\ ClientRow("GetUserByName", "GET", <<"user", Param>>)
  /\ ClientRow("UpdateUser", "PUT", <<"user", Param>>)
  BY DEF ClientRow, Methods, Method, CallAddPet, CallFindPetsByStatus, CallFindPetsByTags, CallUpdatePet,
    CallDeletePet, CallGetPetById, CallUpdatePetWithForm, CallUploadFile,
    CallGetInventory, CallPlaceOrder, CallDeleteOrder, CallGetOrderById,
    CallCreateUser, CallCreateUsersWithListInput, CallLoginUser, CallLogoutUser,
    CallDeleteUser, CallGetUserByName, CallUpdateUser

LEMMA ClientTable ==
  /\ Line("AddPet", "POST", 1, "pet", None, None)
  /\ Line("FindPetsByStatus", "GET", 2, "pet", "findByStatus", None)
  /\ Line("FindPetsByTags", "GET", 2, "pet", "findByTags", None)
  /\ Line("UpdatePet", "PUT", 1, "pet", None, None)
  /\ Line("DeletePet", "DELETE", 2, "pet", Param, None)
  /\ Line("GetPetById", "GET", 2, "pet", Param, None)
  /\ Line("UpdatePetWithForm", "POST", 2, "pet", Param, None)
  /\ Line("UploadFile", "POST", 3, "pet", Param, "uploadImage")
  /\ Line("GetInventory", "GET", 2, "store", "inventory", None)
  /\ Line("PlaceOrder", "POST", 2, "store", "order", None)
  /\ Line("DeleteOrder", "DELETE", 3, "store", "order", Param)
  /\ Line("GetOrderById", "GET", 3, "store", "order", Param)
  /\ Line("CreateUser", "POST", 1, "user", None, None)
  /\ Line("CreateUsersWithListInput", "POST", 2, "user", "createWithList", None)
  /\ Line("LoginUser", "GET", 2, "user", "login", None)
  /\ Line("LogoutUser", "GET", 2, "user", "logout", None)
  /\ Line("DeleteUser", "DELETE", 2, "user", Param, None)
  /\ Line("GetUserByName", "GET", 2, "user", Param, None)
  /\ Line("UpdateUser", "PUT", 2, "user", Param, None)
  <1>1. Line("AddPet", "POST", 1, "pet", None, None)
    BY ClientRows DEF ClientRow, Line
  <1>2. Line("FindPetsByStatus", "GET", 2, "pet", "findByStatus", None)
    BY ClientRows DEF ClientRow, Line
  <1>3. Line("FindPetsByTags", "GET", 2, "pet", "findByTags", None)
    BY ClientRows DEF ClientRow, Line
  <1>4. Line("UpdatePet", "PUT", 1, "pet", None, None)
    BY ClientRows DEF ClientRow, Line
  <1>5. Line("DeletePet", "DELETE", 2, "pet", Param, None)
    BY ClientRows DEF ClientRow, Line
  <1>6. Line("GetPetById", "GET", 2, "pet", Param, None)
    BY ClientRows DEF ClientRow, Line
  <1>7. Line("UpdatePetWithForm", "POST", 2, "pet", Param, None)
    BY ClientRows DEF ClientRow, Line
  <1>8. Line("UploadFile", "POST", 3, "pet", Param, "uploadImage")
    BY ClientRows DEF ClientRow, Line
  <1>9. Line("GetInventory", "GET", 2, "store", "inventory", None)
    BY ClientRows DEF ClientRow, Line
  <1>10. Line("PlaceOrder", "POST", 2, "store", "order", None)
    BY ClientRows DEF ClientRow, Line
  <1>11. Line("DeleteOrder", "DELETE", 3, "store", "order", Param)
    BY ClientRows DEF ClientRow, Line
  <1>12. Line("GetOrderById", "GET", 3, "store", "order", Param)
    BY ClientRows DEF ClientRow, Line
  <1>13. Line("CreateUser", "POST", 1, "user", None, None)
    BY ClientRows DEF ClientRow, Line
  <1>14. Line("CreateUsersWithListInput", "POST", 2, "user", "createWithList", None)
    BY ClientRows DEF ClientRow, Line
  <1>15. Line("LoginUser", "GET", 2, "user", "login", None)
    BY ClientRows DEF ClientRow, Line
  <1>16. Line("LogoutUser", "GET", 2, "user", "logout", None)
    BY ClientRows DEF ClientRow, Line
  <1>17. Line("DeleteUser", "DELETE", 2, "user", Param, None)
    BY ClientRows DEF ClientRow, Line
  <1>18. Line("GetUserByName", "GET", 2, "user", Param, None)
    BY ClientRows DEF ClientRow, Line
  <1>19. Line("UpdateUser", "PUT", 2, "user", Param, None)
    BY ClientRows DEF ClientRow, Line
  <1> QED BY <1>1, <1>2, <1>3, <1>4, <1>5, <1>6, <1>7, <1>8, <1>9, <1>10, <1>11, <1>12,
             <1>13, <1>14, <1>15, <1>16, <1>17, <1>18, <1>19

(* The segments of a name: more than itself only if it is awkward.         *)
LEMMA SegmentsOfName ==
  ASSUME NEW key
  PROVE  /\ Segments(key) \in Seq({key, "alice", "pets"}) /\ Len(Segments(key)) \in {1, 2}
         /\ Len(Segments(key)) = 2 => Segments(key)[2] = "pets"
         /\ key \notin AwkwardNames => Len(Segments(key)) = 1 /\ Segments(key)[1] = key
  <1>1. CASE key = "alice/pets"
    <2>1. Segments(key) = <<"alice", "pets">>
      BY <1>1 DEF Segments
    <2>2. /\ <<"alice", "pets">> \in Seq({key, "alice", "pets"}) /\ Len(<<"alice", "pets">>) = 2
          /\ <<"alice", "pets">>[2] = "pets"
      OBVIOUS
    <2> QED BY <1>1, <2>1, <2>2 DEF AwkwardNames
  <1>2. CASE key \in {"alice?x", "alice#x"}
    <2>1. Segments(key) = <<"alice">>
      BY <1>2 DEF Segments
    <2> QED BY <1>2, <2>1 DEF AwkwardNames
  <1>3. CASE key \notin {"alice/pets", "alice?x", "alice#x"}
    <2>1. Segments(key) = <<key>>
      BY <1>3 DEF Segments
    <2> QED BY <2>1
  <1> QED BY <1>1, <1>2, <1>3

(* The paths in which a name is filled in: one segment more, or two of     *)
(* which the second is "pets".                                             *)
NameAfterOne(p, a, key) ==
  /\ DOMAIN p = 1..Len(p) /\ Len(p) \in {2, 3} /\ p[1] = a
  /\ Len(p) = 3 => p[3] = "pets"
  /\ key \notin AwkwardNames => Len(p) = 2 /\ p[2] = key

NameAfterTwo(p, a, b, key) ==
  /\ DOMAIN p = 1..Len(p) /\ Len(p) \in {3, 4} /\ p[1] = a /\ p[2] = b
  /\ key \notin AwkwardNames => Len(p) = 3 /\ p[3] = key

NameBetween(p, a, key, b) ==
  /\ DOMAIN p = 1..Len(p) /\ Len(p) \in {3, 4} /\ p[1] = a
  /\ key \notin AwkwardNames => Len(p) = 3 /\ p[2] = key /\ p[3] = b

LEMMA OneNameMore ==
  ASSUME NEW key, NEW a, NEW b, NEW p
  PROVE  /\ p = <<a>> \o Segments(key) => NameAfterOne(p, a, key)
         /\ p = <<a, b>> \o Segments(key) => NameAfterTwo(p, a, b, key)
         /\ p = (<<a>> \o Segments(key)) \o <<b>> => NameBetween(p, a, key, b)
  <1> DEFINE S == {a, b, key, "alice", "pets"}
             s == Segments(key)
  <1>1. <<a>> \in Seq(S) /\ <<b>> \in Seq(S) /\ <<a, b>> \in Seq(S)
    OBVIOUS
  <1>2. s \in Seq(S) /\ Len(s) \in {1, 2} /\ DOMAIN s = 1..Len(s)
    <2>1. s \in Seq({key, "alice", "pets"}) /\ Len(s) \in {1, 2}
      BY SegmentsOfName
    <2>2. {key, "alice", "pets"} \subseteq S
      OBVIOUS
    <2>3. s \in Seq(S)
      <3> HIDE DEF S, s
      <3> QED BY <2>1, <2>2, SeqMonotonic
    <2> HIDE DEF S, s
    <2> QED BY <2>1, <2>3, LenProperties
  <1>3. /\ Len(s) = 2 => s[2] = "pets"
        /\ key \notin AwkwardNames => Len(s) = 1 /\ s[1] = key
    BY SegmentsOfName
  <1>4. Len(<<a>>) = 1 /\ <<a>>[1] = a /\ Len(<<a, b>>) = 2 /\ <<a, b>>[1] = a /\ <<a, b>>[2] = b
        /\ Len(<<b>>) = 1 /\ <<b>>[1] = b
    OBVIOUS
  <1> HIDE DEF S, s
  <1>5. ASSUME p = <<a>> \o s
        PROVE  /\ p \in Seq(S) /\ Len(p) = 1 + Len(s) /\ p[1] = a
               /\ \A i \in 1..Len(s) : p[i + 1] = s[i]
    BY <1>1, <1>2, <1>4, <1>5, ConcatProperties
  <1>6. ASSUME p = <<a, b>> \o s
        PROVE  /\ p \in Seq(S) /\ Len(p) = 2 + Len(s) /\ p[1] = a /\ p[2] = b
               /\ p[3] = s[1]
    BY <1>1, <1>2, <1>4, <1>6, ConcatProperties
  <1>7. ASSUME p = (<<a>> \o s) \o <<b>>
        PROVE  /\ p \in Seq(S) /\ Len(p) = 2 + Len(s) /\ p[1] = a /\ p[Len(s) + 2] = b
               /\ p[2] = s[1]
    <2> DEFINE q == <<a>> \o s
    <2>1. /\ q \in Seq(S) /\ Len(q) = 1 + Len(s) /\ q[1] = a
          /\ q[2] = s[1]
      BY <1>1, <1>2, <1>4, ConcatProperties
    <2> HIDE DEF q
    <2>2. /\ p \in Seq(S) /\ Len(p) = Len(q) + 1 /\ p[Len(q) + 1] = b
          /\ \A i \in 1..Len(q) : p[i] = q[i]
      BY <1>1, <1>2, <1>4, <1>7, <2>1, ConcatProperties DEF q
    <2> QED BY <1>2, <2>1, <2>2
  <1>8. p \in Seq(S) => DOMAIN p = 1..Len(p)
    BY LenProperties
  <1>9. ASSUME p = <<a>> \o s
        PROVE  NameAfterOne(p, a, key)
    BY <1>2, <1>3, <1>5, <1>8, <1>9, SMTT(30) DEF NameAfterOne
  <1>10. ASSUME p = <<a, b>> \o s
        PROVE  NameAfterTwo(p, a, b, key)
    BY <1>2, <1>3, <1>6, <1>8, <1>10, SMTT(30) DEF NameAfterTwo
  <1>11. ASSUME p = (<<a>> \o s) \o <<b>>
        PROVE  NameBetween(p, a, key, b)
    BY <1>2, <1>3, <1>7, <1>8, <1>11, SMTT(30) DEF NameBetween
  <1> QED BY <1>9, <1>10, <1>11 DEF s

(* The parts of the path, one for each part of the table's.                *)
Parts(k) ==
  [i \in DOMAIN Methods[k.op].path |->
     IF Methods[k.op].path[i] = Param THEN Segments(k.key) ELSE <<Methods[k.op].path[i]>>]

LEMMA PathFromParts ==
  ASSUME NEW k
  PROVE  /\ Len(Parts(k)) = 1 => PathOf(k) = Parts(k)[1]
         /\ Len(Parts(k)) = 2 => PathOf(k) = Parts(k)[1] \o Parts(k)[2]
         /\ Len(Parts(k)) = 3 => PathOf(k) = (Parts(k)[1] \o Parts(k)[2]) \o Parts(k)[3]
  <1>1. PathOf(k) = FlattenSeq(Parts(k))
    BY DEF PathOf, Parts
  <1> QED BY <1>1, FlattenOne, FlattenTwo, FlattenThree

(* What the client writes, for each of the forms in its table.             *)
LEMMA FixedOne ==
  ASSUME NEW k, NEW m, NEW a, a # Param, NEW b, NEW c, Line(k.op, m, 1, a, b, c), NEW p, p = PathOf(k)
  PROVE  Methods[k.op].method = m /\ Len(p) = 1 /\ DOMAIN p = 1..1 /\ p[1] = a
  <1> DEFINE s == Parts(k)
  <1>1. Len(s) = 1 /\ s[1] = <<a>>
    BY DEF Line, Parts
  <1>2. p = <<a>>
    BY <1>1, PathFromParts
  <1> QED BY <1>2 DEF Line

OnlyTwo(p, a, b) == Len(p) = 2 /\ DOMAIN p = 1..2 /\ p[1] = a /\ p[2] = b

LEMMA FixedTwo ==
  ASSUME NEW k, NEW m, NEW a, a # Param, NEW b, b # Param, NEW c, Line(k.op, m, 2, a, b, c),
         NEW p, p = PathOf(k)
  PROVE  Methods[k.op].method = m /\ OnlyTwo(p, a, b)
  <1> DEFINE s == Parts(k)
  <1>1. Len(s) = 2 /\ s[1] = <<a>> /\ s[2] = <<b>>
    BY DEF Line, Parts
  <1>2. p = <<a, b>>
    BY <1>1, PathFromParts, Concats
  <1> QED BY <1>2 DEF Line, OnlyTwo

LEMMA NamedAfterOne ==
  ASSUME NEW k, NEW m, NEW a, a # Param, NEW c, Line(k.op, m, 2, a, Param, c), NEW p, p = PathOf(k)
  PROVE  Methods[k.op].method = m /\ NameAfterOne(p, a, k.key)
  <1> DEFINE s == Parts(k)
  <1>1. Len(s) = 2 /\ s[1] = <<a>> /\ s[2] = Segments(k.key)
    BY DEF Line, Parts
  <1>2. p = <<a>> \o Segments(k.key)
    BY <1>1, PathFromParts
  <1>3. NameAfterOne(p, a, k.key)
    BY <1>2, OneNameMore, Zenon
  <1> QED BY <1>3 DEF Line

LEMMA NamedAfterTwo ==
  ASSUME NEW k, NEW m, NEW a, a # Param, NEW b, b # Param, Line(k.op, m, 3, a, b, Param), NEW p, p = PathOf(k)
  PROVE  Methods[k.op].method = m /\ NameAfterTwo(p, a, b, k.key)
  <1> DEFINE s == Parts(k)
  <1>1. Len(s) = 3 /\ s[1] = <<a>> /\ s[2] = <<b>> /\ s[3] = Segments(k.key)
    BY DEF Line, Parts
  <1>2. p = <<a, b>> \o Segments(k.key)
    BY <1>1, PathFromParts, Concats
  <1>3. NameAfterTwo(p, a, b, k.key)
    BY <1>2, OneNameMore, Zenon
  <1> QED BY <1>3 DEF Line

LEMMA NamedBetween ==
  ASSUME NEW k, NEW m, NEW a, a # Param, NEW b, b # Param, Line(k.op, m, 3, a, Param, b), NEW p, p = PathOf(k)
  PROVE  Methods[k.op].method = m /\ NameBetween(p, a, k.key, b)
  <1> DEFINE s == Parts(k)
  <1>1. Len(s) = 3 /\ s[1] = <<a>> /\ s[2] = Segments(k.key) /\ s[3] = <<b>>
    BY DEF Line, Parts
  <1>2. p = (<<a>> \o Segments(k.key)) \o <<b>>
    BY <1>1, PathFromParts
  <1>3. NameBetween(p, a, k.key, b)
    BY <1>2, OneNameMore, Zenon
  <1> QED BY <1>3 DEF Line

(* What the client writes for the calls of each operation.                 *)
Written(op, key, m, p) ==
  \/ op = "AddPet" /\ m = "POST" /\ Len(p) = 1 /\ DOMAIN p = 1..1 /\ p[1] = "pet"
  \/ op = "FindPetsByStatus" /\ m = "GET" /\ OnlyTwo(p, "pet", "findByStatus")
  \/ op = "FindPetsByTags" /\ m = "GET" /\ OnlyTwo(p, "pet", "findByTags")
  \/ op = "UpdatePet" /\ m = "PUT" /\ Len(p) = 1 /\ DOMAIN p = 1..1 /\ p[1] = "pet"
  \/ op = "DeletePet" /\ m = "DELETE" /\ NameAfterOne(p, "pet", key)
  \/ op = "GetPetById" /\ m = "GET" /\ NameAfterOne(p, "pet", key)
  \/ op = "UpdatePetWithForm" /\ m = "POST" /\ NameAfterOne(p, "pet", key)
  \/ op = "UploadFile" /\ m = "POST" /\ NameBetween(p, "pet", key, "uploadImage")
  \/ op = "GetInventory" /\ m = "GET" /\ OnlyTwo(p, "store", "inventory")
  \/ op = "PlaceOrder" /\ m = "POST" /\ OnlyTwo(p, "store", "order")
  \/ op = "DeleteOrder" /\ m = "DELETE" /\ NameAfterTwo(p, "store", "order", key)
  \/ op = "GetOrderById" /\ m = "GET" /\ NameAfterTwo(p, "store", "order", key)
  \/ op = "CreateUser" /\ m = "POST" /\ Len(p) = 1 /\ DOMAIN p = 1..1 /\ p[1] = "user"
  \/ op = "CreateUsersWithListInput" /\ m = "POST" /\ OnlyTwo(p, "user", "createWithList")
  \/ op = "LoginUser" /\ m = "GET" /\ OnlyTwo(p, "user", "login")
  \/ op = "LogoutUser" /\ m = "GET" /\ OnlyTwo(p, "user", "logout")
  \/ op = "DeleteUser" /\ m = "DELETE" /\ NameAfterOne(p, "user", key)
  \/ op = "GetUserByName" /\ m = "GET" /\ NameAfterOne(p, "user", key)
  \/ op = "UpdateUser" /\ m = "PUT" /\ NameAfterOne(p, "user", key)

LEMMA ClientWrites ==
  ASSUME NEW k, k.op \in Operations
  PROVE  Written(k.op, k.key, Methods[k.op].method, PathOf(k))
  <1> DEFINE key == k.key
             m == Methods[k.op].method
  <1>0. PICK p : p = PathOf(k)
    OBVIOUS
  <1>1. CASE k.op = "AddPet"
    <2>1. Line(k.op, "POST", 1, "pet", None, None)
      BY <1>1, ClientTable
    <2>2. "pet" # Param
      BY OtherNames
    <2>3. m = "POST" /\ Len(p) = 1 /\ DOMAIN p = 1..1 /\ p[1] = "pet"
      BY <1>0, <2>1, <2>2, FixedOne, Zenon
    <2> QED BY <1>0, <1>1, <2>3 DEF Written
  <1>2. CASE k.op = "FindPetsByStatus"
    <2>1. Line(k.op, "GET", 2, "pet", "findByStatus", None)
      BY <1>2, ClientTable
    <2>2. "pet" # Param /\ "findByStatus" # Param
      BY OtherNames
    <2>3. m = "GET" /\ OnlyTwo(p, "pet", "findByStatus")
      BY <1>0, <2>1, <2>2, FixedTwo, Zenon
    <2> QED BY <1>0, <1>2, <2>3 DEF Written
  <1>3. CASE k.op = "FindPetsByTags"
    <2>1. Line(k.op, "GET", 2, "pet", "findByTags", None)
      BY <1>3, ClientTable
    <2>2. "pet" # Param /\ "findByTags" # Param
      BY OtherNames
    <2>3. m = "GET" /\ OnlyTwo(p, "pet", "findByTags")
      BY <1>0, <2>1, <2>2, FixedTwo, Zenon
    <2> QED BY <1>0, <1>3, <2>3 DEF Written
  <1>4. CASE k.op = "UpdatePet"
    <2>1. Line(k.op, "PUT", 1, "pet", None, None)
      BY <1>4, ClientTable
    <2>2. "pet" # Param
      BY OtherNames
    <2>3. m = "PUT" /\ Len(p) = 1 /\ DOMAIN p = 1..1 /\ p[1] = "pet"
      BY <1>0, <2>1, <2>2, FixedOne, Zenon
    <2> QED BY <1>0, <1>4, <2>3 DEF Written
  <1>5. CASE k.op = "DeletePet"
    <2>1. Line(k.op, "DELETE", 2, "pet", Param, None)
      BY <1>5, ClientTable
    <2>2. "pet" # Param
      BY OtherNames
    <2>3. m = "DELETE" /\ NameAfterOne(p, "pet", key)
      BY <1>0, <2>1, <2>2, NamedAfterOne, Zenon
    <2> QED BY <1>0, <1>5, <2>3 DEF Written
  <1>6. CASE k.op = "GetPetById"
    <2>1. Line(k.op, "GET", 2, "pet", Param, None)
      BY <1>6, ClientTable
    <2>2. "pet" # Param
      BY OtherNames
    <2>3. m = "GET" /\ NameAfterOne(p, "pet", key)
      BY <1>0, <2>1, <2>2, NamedAfterOne, Zenon
    <2> QED BY <1>0, <1>6, <2>3 DEF Written
  <1>7. CASE k.op = "UpdatePetWithForm"
    <2>1. Line(k.op, "POST", 2, "pet", Param, None)
      BY <1>7, ClientTable
    <2>2. "pet" # Param
      BY OtherNames
    <2>3. m = "POST" /\ NameAfterOne(p, "pet", key)
      BY <1>0, <2>1, <2>2, NamedAfterOne, Zenon
    <2> QED BY <1>0, <1>7, <2>3 DEF Written
  <1>8. CASE k.op = "UploadFile"
    <2>1. Line(k.op, "POST", 3, "pet", Param, "uploadImage")
      BY <1>8, ClientTable
    <2>2. "pet" # Param /\ "uploadImage" # Param
      BY OtherNames
    <2>3. m = "POST" /\ NameBetween(p, "pet", key, "uploadImage")
      BY <1>0, <2>1, <2>2, NamedBetween, Zenon
    <2> QED BY <1>0, <1>8, <2>3 DEF Written
  <1>9. CASE k.op = "GetInventory"
    <2>1. Line(k.op, "GET", 2, "store", "inventory", None)
      BY <1>9, ClientTable
    <2>2. "store" # Param /\ "inventory" # Param
      BY OtherNames
    <2>3. m = "GET" /\ OnlyTwo(p, "store", "inventory")
      BY <1>0, <2>1, <2>2, FixedTwo, Zenon
    <2> QED BY <1>0, <1>9, <2>3 DEF Written
  <1>10. CASE k.op = "PlaceOrder"
    <2>1. Line(k.op, "POST", 2, "store", "order", None)
      BY <1>10, ClientTable
    <2>2. "store" # Param /\ "order" # Param
      BY OtherNames
    <2>3. m = "POST" /\ OnlyTwo(p, "store", "order")
      BY <1>0, <2>1, <2>2, FixedTwo, Zenon
    <2> QED BY <1>0, <1>10, <2>3 DEF Written
  <1>11. CASE k.op = "DeleteOrder"
    <2>1. Line(k.op, "DELETE", 3, "store", "order", Param)
      BY <1>11, ClientTable
    <2>2. "store" # Param /\ "order" # Param
      BY OtherNames
    <2>3. m = "DELETE" /\ NameAfterTwo(p, "store", "order", key)
      BY <1>0, <2>1, <2>2, NamedAfterTwo, Zenon
    <2> QED BY <1>0, <1>11, <2>3 DEF Written
  <1>12. CASE k.op = "GetOrderById"
    <2>1. Line(k.op, "GET", 3, "store", "order", Param)
      BY <1>12, ClientTable
    <2>2. "store" # Param /\ "order" # Param
      BY OtherNames
    <2>3. m = "GET" /\ NameAfterTwo(p, "store", "order", key)
      BY <1>0, <2>1, <2>2, NamedAfterTwo, Zenon
    <2> QED BY <1>0, <1>12, <2>3 DEF Written
  <1>13. CASE k.op = "CreateUser"
    <2>1. Line(k.op, "POST", 1, "user", None, None)
      BY <1>13, ClientTable
    <2>2. "user" # Param
      BY OtherNames
    <2>3. m = "POST" /\ Len(p) = 1 /\ DOMAIN p = 1..1 /\ p[1] = "user"
      BY <1>0, <2>1, <2>2, FixedOne, Zenon
    <2> QED BY <1>0, <1>13, <2>3 DEF Written
  <1>14. CASE k.op = "CreateUsersWithListInput"
    <2>1. Line(k.op, "POST", 2, "user", "createWithList", None)
      BY <1>14, ClientTable
    <2>2. "user" # Param /\ "createWithList" # Param
      BY OtherNames
    <2>3. m = "POST" /\ OnlyTwo(p, "user", "createWithList")
      BY <1>0, <2>1, <2>2, FixedTwo, Zenon
    <2> QED BY <1>0, <1>14, <2>3 DEF Written
  <1>15. CASE k.op = "LoginUser"
    <2>1. Line(k.op, "GET", 2, "user", "login", None)
      BY <1>15, ClientTable
    <2>2. "user" # Param /\ "login" # Param
      BY OtherNames
    <2>3. m = "GET" /\ OnlyTwo(p, "user", "login")
      BY <1>0, <2>1, <2>2, FixedTwo, Zenon
    <2> QED BY <1>0, <1>15, <2>3 DEF Written
  <1>16. CASE k.op = "LogoutUser"
    <2>1. Line(k.op, "GET", 2, "user", "logout", None)
      BY <1>16, ClientTable
    <2>2. "user" # Param /\ "logout" # Param
      BY OtherNames
    <2>3. m = "GET" /\ OnlyTwo(p, "user", "logout")
      BY <1>0, <2>1, <2>2, FixedTwo, Zenon
    <2> QED BY <1>0, <1>16, <2>3 DEF Written
  <1>17. CASE k.op = "DeleteUser"
    <2>1. Line(k.op, "DELETE", 2, "user", Param, None)
      BY <1>17, ClientTable
    <2>2. "user" # Param
      BY OtherNames
    <2>3. m = "DELETE" /\ NameAfterOne(p, "user", key)
      BY <1>0, <2>1, <2>2, NamedAfterOne, Zenon
    <2> QED BY <1>0, <1>17, <2>3 DEF Written
  <1>18. CASE k.op = "GetUserByName"
    <2>1. Line(k.op, "GET", 2, "user", Param, None)
      BY <1>18, ClientTable
    <2>2. "user" # Param
      BY OtherNames
    <2>3. m = "GET" /\ NameAfterOne(p, "user", key)
      BY <1>0, <2>1, <2>2, NamedAfterOne, Zenon
    <2> QED BY <1>0, <1>18, <2>3 DEF Written
  <1>19. CASE k.op = "UpdateUser"
    <2>1. Line(k.op, "PUT", 2, "user", Param, None)
      BY <1>19, ClientTable
    <2>2. "user" # Param
      BY OtherNames
    <2>3. m = "PUT" /\ NameAfterOne(p, "user", key)
      BY <1>0, <2>1, <2>2, NamedAfterOne, Zenon
    <2> QED BY <1>0, <1>19, <2>3 DEF Written
  <1> QED BY OperationsByName, <1>1, <1>2, <1>3, <1>4, <1>5, <1>6, <1>7, <1>8, <1>9, <1>10,
             <1>11, <1>12, <1>13, <1>14, <1>15, <1>16, <1>17, <1>18, <1>19
    DEF OperationNames

(* Where such a request is taken for a call of another operation, the      *)
(* client cannot read the answer.                                          *)
Misread(op, o) ==
  \/ op = "GetPetById" /\ o \in {"FindPetsByStatus", "FindPetsByTags"}
  \/ op = "GetUserByName" /\ o \in {"LoginUser", "LogoutUser"}

LEMMA WhereItGoes ==
  ASSUME NEW op, NEW key, NEW m, NEW p, Written(op, key, m, p), NEW o, Looks(o, m, p)
  PROVE  o = op \/ Misread(op, o)
  <1>1. CASE op = "AddPet"
    <2>1. m = "POST" /\ Len(p) = 1 /\ DOMAIN p = 1..1 /\ p[1] = "pet"
      BY <1>1 DEF Written
    <2> QED BY <1>1, <2>1 DEF Looks, Misread
  <1>2. CASE op = "FindPetsByStatus"
    <2>1. m = "GET" /\ OnlyTwo(p, "pet", "findByStatus")
      BY <1>2 DEF Written
    <2>2. Len(p) = 2 /\ p[1] = "pet" /\ p[2] = "findByStatus"
      BY <2>1 DEF OnlyTwo
    <2> QED BY <1>2, <2>1, <2>2 DEF Looks, Misread
  <1>3. CASE op = "FindPetsByTags"
    <2>1. m = "GET" /\ OnlyTwo(p, "pet", "findByTags")
      BY <1>3 DEF Written
    <2>2. Len(p) = 2 /\ p[1] = "pet" /\ p[2] = "findByTags"
      BY <2>1 DEF OnlyTwo
    <2> QED BY <1>3, <2>1, <2>2 DEF Looks, Misread
  <1>4. CASE op = "UpdatePet"
    <2>1. m = "PUT" /\ Len(p) = 1 /\ DOMAIN p = 1..1 /\ p[1] = "pet"
      BY <1>4 DEF Written
    <2> QED BY <1>4, <2>1 DEF Looks, Misread
  <1>5. CASE op = "DeletePet"
    <2>1. m = "DELETE" /\ NameAfterOne(p, "pet", key)
      BY <1>5 DEF Written
    <2>2. Len(p) \in {2, 3} /\ p[1] = "pet" /\ (Len(p) = 3 => p[3] = "pets")
      BY <2>1 DEF NameAfterOne
    <2> QED BY <1>5, <2>1, <2>2 DEF Looks, Misread
  <1>6. CASE op = "GetPetById"
    <2>1. m = "GET" /\ NameAfterOne(p, "pet", key)
      BY <1>6 DEF Written
    <2>2. Len(p) \in {2, 3} /\ p[1] = "pet" /\ (Len(p) = 3 => p[3] = "pets")
      BY <2>1 DEF NameAfterOne
    <2> QED BY <1>6, <2>1, <2>2 DEF Looks, Misread
  <1>7. CASE op = "UpdatePetWithForm"
    <2>1. m = "POST" /\ NameAfterOne(p, "pet", key)
      BY <1>7 DEF Written
    <2>2. Len(p) \in {2, 3} /\ p[1] = "pet" /\ (Len(p) = 3 => p[3] = "pets")
      BY <2>1 DEF NameAfterOne
    <2> QED BY <1>7, <2>1, <2>2 DEF Looks, Misread
  <1>8. CASE op = "UploadFile"
    <2>1. m = "POST" /\ NameBetween(p, "pet", key, "uploadImage")
      BY <1>8 DEF Written
    <2>2. Len(p) \in {3, 4} /\ p[1] = "pet"
      BY <2>1 DEF NameBetween
    <2> QED BY <1>8, <2>1, <2>2 DEF Looks, Misread
  <1>9. CASE op = "GetInventory"
    <2>1. m = "GET" /\ OnlyTwo(p, "store", "inventory")
      BY <1>9 DEF Written
    <2>2. Len(p) = 2 /\ p[1] = "store" /\ p[2] = "inventory"
      BY <2>1 DEF OnlyTwo
    <2> QED BY <1>9, <2>1, <2>2 DEF Looks, Misread
  <1>10. CASE op = "PlaceOrder"
    <2>1. m = "POST" /\ OnlyTwo(p, "store", "order")
      BY <1>10 DEF Written
    <2>2. Len(p) = 2 /\ p[1] = "store" /\ p[2] = "order"
      BY <2>1 DEF OnlyTwo
    <2> QED BY <1>10, <2>1, <2>2 DEF Looks, Misread
  <1>11. CASE op = "DeleteOrder"
    <2>1. m = "DELETE" /\ NameAfterTwo(p, "store", "order", key)
      BY <1>11 DEF Written
    <2>2. Len(p) \in {3, 4} /\ p[1] = "store" /\ p[2] = "order"
      BY <2>1 DEF NameAfterTwo
    <2> QED BY <1>11, <2>1, <2>2 DEF Looks, Misread
  <1>12. CASE op = "GetOrderById"
    <2>1. m = "GET" /\ NameAfterTwo(p, "store", "order", key)
      BY <1>12 DEF Written
    <2>2. Len(p) \in {3, 4} /\ p[1] = "store" /\ p[2] = "order"
      BY <2>1 DEF NameAfterTwo
    <2> QED BY <1>12, <2>1, <2>2 DEF Looks, Misread
  <1>13. CASE op = "CreateUser"
    <2>1. m = "POST" /\ Len(p) = 1 /\ DOMAIN p = 1..1 /\ p[1] = "user"
      BY <1>13 DEF Written
    <2> QED BY <1>13, <2>1 DEF Looks, Misread
  <1>14. CASE op = "CreateUsersWithListInput"
    <2>1. m = "POST" /\ OnlyTwo(p, "user", "createWithList")
      BY <1>14 DEF Written
    <2>2. Len(p) = 2 /\ p[1] = "user" /\ p[2] = "createWithList"
      BY <2>1 DEF OnlyTwo
    <2> QED BY <1>14, <2>1, <2>2 DEF Looks, Misread
  <1>15. CASE op = "LoginUser"
    <2>1. m = "GET" /\ OnlyTwo(p, "user", "login")
      BY <1>15 DEF Written
    <2>2. Len(p) = 2 /\ p[1] = "user" /\ p[2] = "login"
      BY <2>1 DEF OnlyTwo
    <2> QED BY <1>15, <2>1, <2>2 DEF Looks, Misread
  <1>16. CASE op = "LogoutUser"
    <2>1. m = "GET" /\ OnlyTwo(p, "user", "logout")
      BY <1>16 DEF Written
    <2>2. Len(p) = 2 /\ p[1] = "user" /\ p[2] = "logout"
      BY <2>1 DEF OnlyTwo
    <2> QED BY <1>16, <2>1, <2>2 DEF Looks, Misread
  <1>17. CASE op = "DeleteUser"
    <2>1. m = "DELETE" /\ NameAfterOne(p, "user", key)
      BY <1>17 DEF Written
    <2>2. Len(p) \in {2, 3} /\ p[1] = "user" /\ (Len(p) = 3 => p[3] = "pets")
      BY <2>1 DEF NameAfterOne
    <2> QED BY <1>17, <2>1, <2>2 DEF Looks, Misread
  <1>18. CASE op = "GetUserByName"
    <2>1. m = "GET" /\ NameAfterOne(p, "user", key)
      BY <1>18 DEF Written
    <2>2. Len(p) \in {2, 3} /\ p[1] = "user" /\ (Len(p) = 3 => p[3] = "pets")
      BY <2>1 DEF NameAfterOne
    <2> QED BY <1>18, <2>1, <2>2 DEF Looks, Misread
  <1>19. CASE op = "UpdateUser"
    <2>1. m = "PUT" /\ NameAfterOne(p, "user", key)
      BY <1>19 DEF Written
    <2>2. Len(p) \in {2, 3} /\ p[1] = "user" /\ (Len(p) = 3 => p[3] = "pets")
      BY <2>1 DEF NameAfterOne
    <2> QED BY <1>19, <2>1, <2>2 DEF Looks, Misread
  <1> QED BY <1>1, <1>2, <1>3, <1>4, <1>5, <1>6, <1>7, <1>8, <1>9, <1>10,
             <1>11, <1>12, <1>13, <1>14, <1>15, <1>16, <1>17, <1>18, <1>19 DEF Written

(* A single tag is what it is joined to.                                   *)
LEMMA JoinedOne ==
  ASSUME NEW tags \in Seq(STRING), Len(tags) = 1
  PROVE  Joined(tags) = tags[1]
  <1> DEFINE It(f) == f = [s \in SUBSET DOMAIN Tail(tags) |->
                             IF s = {} THEN Head(tags)
                             ELSE f[s \ {Max(s)}] \o "," \o Tail(tags)[Max(s)]]
  <1>1. Joined(tags) = (CHOOSE f : It(f))[DOMAIN Tail(tags)]
    BY DEF Joined, FoldLeft, MapThenFoldSet
  <1>2. DOMAIN Tail(tags) = {}
    <2>1. tags # <<>>
      BY EmptySeq
    <2>2. Tail(tags) \in Seq(STRING) /\ Len(Tail(tags)) = 0
      BY <2>1, HeadTailProperties
    <2>3. DOMAIN Tail(tags) = 1..0
      BY <2>2, LenProperties
    <2> QED BY <2>3
  <1>3. \E f : It(f)
    <2>1. It([s \in {{}} |-> Head(tags)])
      BY <1>2
    <2> QED BY <2>1
  <1>4. PICK f : It(f) /\ Joined(tags) = f[{}]
    BY <1>1, <1>2, <1>3
  <1> DEFINE e(s) == IF s = {} THEN Head(tags) ELSE f[s \ {Max(s)}] \o "," \o Tail(tags)[Max(s)]
  <1>5. f = [s \in SUBSET DOMAIN Tail(tags) |-> e(s)]
    BY <1>4, Zenon
  <1>6. f[{}] = e({})
    <2> HIDE DEF e
    <2> QED BY <1>5
  <1>7. Head(tags) = tags[1]
    OBVIOUS
  <1> QED BY <1>4, <1>6, <1>7

(* Suffixes, element by element.                                          *)
LEMMA SuffixIndexed ==
  ASSUME NEW S, NEW s \in Seq(S), NEW t \in Seq(S)
  PROVE  IsSuffix(s, t) <=> /\ Len(s) <= Len(t)
                            /\ \A i \in 1..Len(s) : s[i] = t[i + Len(t) - Len(s)]
  <1> DEFINE m == Len(s)
             n == Len(t)
             rs == Reverse(s)
             rt == Reverse(t)
  <1>1. m \in Nat /\ n \in Nat
    BY LenProperties
  <1>2. \A i \in 1..m : s[i] \in S
    BY ElementOfSeq
  <1>2a. \A i \in 1..n : t[i] \in S
    BY ElementOfSeq
  <1>3. rs \in Seq(S) /\ Len(rs) = m /\ \A i \in 1..m : rs[i] = s[(m - i) + 1]
    BY <1>1, <1>2 DEF Reverse
  <1>4. rt \in Seq(S) /\ Len(rt) = n /\ \A i \in 1..n : rt[i] = t[(n - i) + 1]
    BY <1>1, <1>2a DEF Reverse
  <1> HIDE DEF m, n, rs, rt
  <1>5. ASSUME m <= n
        PROVE SubSeq(rs, 1, m) = SubSeq(rt, 1, m) <=> \A i \in 1..m : rs[i] = rt[i]
    <2>0. 1 \in Int /\ m \in Int /\ (\A i \in 1..m : rs[i] \in S) /\ (\A i \in 1..m : rt[i] \in S)
      BY <1>1, <1>3, <1>4, <1>5, <1>2, <1>2a, ElementOfSeq
    <2>1. SubSeq(rs, 1, m) \in Seq(S) /\ SubSeq(rt, 1, m) \in Seq(S)
          /\ Len(SubSeq(rs, 1, m)) = m /\ Len(SubSeq(rt, 1, m)) = m
      BY <2>0, <1>1, SubSeqProperties
    <2>2. \A i \in 1..m : SubSeq(rs, 1, m)[i] = rs[i] /\ SubSeq(rt, 1, m)[i] = rt[i]
      BY <1>1, <2>0, SubSeqProperties
    <2> QED BY <2>1, <2>2, SeqEqual
  <1>6. ASSUME m <= n
        PROVE (\A i \in 1..m : rs[i] = rt[i]) <=> (\A i \in 1..m : s[i] = t[i + n - m])
    <2>1. ASSUME \A i \in 1..m : rs[i] = rt[i], NEW i \in 1..m PROVE s[i] = t[i + n - m]
      <3>1. (m - i) + 1 \in 1..m /\ (m - i) + 1 \in 1..n
        BY <1>1, <1>6
      <3>2. rs[(m - i) + 1] = rt[(m - i) + 1]
        BY <2>1, <3>1
      <3>3. (m - ((m - i) + 1)) + 1 = i /\ (n - ((m - i) + 1)) + 1 = i + n - m
        BY <1>1
      <3> QED BY <1>3, <1>4, <3>1, <3>2, <3>3
    <2>2. ASSUME \A i \in 1..m : s[i] = t[i + n - m], NEW i \in 1..m PROVE rs[i] = rt[i]
      <3>1. (m - i) + 1 \in 1..m /\ i \in 1..n
        BY <1>1, <1>6
      <3>2. s[(m - i) + 1] = t[((m - i) + 1) + n - m]
        BY <2>2, <3>1
      <3>3. ((m - i) + 1) + n - m = (n - i) + 1
        BY <1>1
      <3> QED BY <1>3, <1>4, <3>1, <3>2, <3>3
    <2> QED BY <2>1, <2>2
  <1> QED BY <1>3, <1>4, <1>5, <1>6, <1>1 DEF IsSuffix, IsPrefix, m, n, rs, rt

-----------------------------------------------------------------------------
(* The inductive invariant.                                                *)

OnExchanges(f) == f = [e \in Exchanges |-> f[e]]

IsCall(k) ==
  k = [op |-> k.op, key |-> k.key, header |-> k.header, query |-> k.query, body |-> k.body]

(* An exchange that is served has a task, no other has one; nothing has    *)
(* been said before the answer; and what was said is what the response     *)
(* tells, and what the result was made from.                               *)
ExchangeOK(e) ==
  /\ call[e] \in Calls[e] \cup {NoCall}
  /\ /\ request[e].body.items \in Bodies
     /\ request[e].bearer \in {None} \cup DOMAIN Tokens
     /\ request[e].apiKey \in ApiKeys
  /\ IsCall(task[e]) /\ task[e].body \in Bodies
  /\ phase[e] \in Running => task[e].op \in Operations
  /\ phase[e] \notin Running => task[e] = NoCall
  /\ said[e] # NothingSaid =>
       said[e].call.op \in Operations /\ said[e].answer \in Answers(said[e].call.op)
  /\ phase[e] \notin {"answered", "done"} => said[e] = NothingSaid
  /\ response[e].code \in {0, 200, 400, 403, 404, 405, 422, 500}
  /\ phase[e] = "answered" /\ said[e] # NothingSaid =>
       response[e] = Response(said[e].call.op, said[e].answer)
  /\ phase[e] = "done" /\ said[e] # NothingSaid /\ call[e] # NoCall /\ result[e] # NoAnswer =>
       result[e] = ResultOf(call[e].op, Response(said[e].call.op, said[e].answer))

IInv ==
  /\ authenticator \in Authenticators
  /\ phase \in [Exchanges -> Phases]
  /\ users \in [UserNames -> Passwords \cup {NoUser}]
  /\ OnExchanges(call) /\ OnExchanges(request) /\ OnExchanges(task)
  /\ OnExchanges(said) /\ OnExchanges(response) /\ OnExchanges(result)
  /\ \A e \in Exchanges : ExchangeOK(e)

LEMMA NothingYet ==
  /\ IsCall(NoCall) /\ NoCall.op = None /\ NoCall.body = NoItems /\ NoItems \in Bodies
  /\ NoRequest.body.items = NoItems /\ NoRequest.bearer = None /\ NoRequest.apiKey = None
  /\ None \in ApiKeys
  /\ NothingSaid.call = NoCall /\ NothingSaid.answer = None
  /\ NoResponse.code = 0
  BY DEF IsCall, NoCall, NoItems, Bodies, NoRequest, ApiKeys, NothingSaid, NoResponse

LEMMA InitEstablishes == Init => IInv
  <1> SUFFICES ASSUME Init PROVE IInv
    OBVIOUS
  <1>1. \A e \in Exchanges :
          /\ phase[e] = "idle" /\ call[e] = NoCall /\ request[e] = NoRequest /\ task[e] = NoCall
          /\ said[e] = NothingSaid /\ response[e] = NoResponse
    BY DEF Init
  <1>2. \A e \in Exchanges : ExchangeOK(e)
    <2> SUFFICES ASSUME NEW e \in Exchanges PROVE ExchangeOK(e)
      OBVIOUS
    <2>1. "idle" \notin Running /\ "idle" \notin {"answered", "done"} /\ "idle" # "answered"
      BY DEF Running
    <2> QED BY <1>1, <2>1, NothingYet DEF ExchangeOK
  <1> QED BY <1>2 DEF Init, IInv, Phases, OnExchanges

(* An exchange none of whose variables changes stays as it should be.      *)
LEMMA OthersKeep ==
  ASSUME NEW e \in Exchanges, ExchangeOK(e),
         phase'[e] = phase[e], call'[e] = call[e], request'[e] = request[e], task'[e] = task[e],
         said'[e] = said[e], response'[e] = response[e], result'[e] = result[e]
  PROVE  ExchangeOK(e)'
  BY DEF ExchangeOK

(* A function of exchanges that is changed in one place.                   *)
Changed(f, g, e, x) ==
  OnExchanges(g) /\ g[e] = x /\ \A d \in Exchanges : d # e => g[d] = f[d]

LEMMA ChangedInOnePlace ==
  ASSUME NEW f, OnExchanges(f), NEW e \in Exchanges, NEW x
  PROVE  Changed(f, [f EXCEPT ![e] = x], e, x)
  BY DEF OnExchanges, Changed

LEMMA PhaseChanged ==
  ASSUME phase \in [Exchanges -> Phases], NEW e \in Exchanges, NEW p \in Phases, phase' = [phase EXCEPT ![e] = p]
  PROVE  /\ phase' \in [Exchanges -> Phases] /\ phase'[e] = p
         /\ \A d \in Exchanges : d # e => phase'[d] = phase[d]
  OBVIOUS

(* A step of e changes nothing of the other exchanges.                     *)
Only(e) ==
  /\ authenticator' = authenticator
  /\ phase' \in [Exchanges -> Phases]
  /\ OnExchanges(call') /\ OnExchanges(request') /\ OnExchanges(task')
  /\ OnExchanges(said') /\ OnExchanges(response') /\ OnExchanges(result')
  /\ \A d \in Exchanges : d # e =>
       /\ phase'[d] = phase[d] /\ call'[d] = call[d] /\ request'[d] = request[d] /\ task'[d] = task[d]
       /\ said'[d] = said[d] /\ response'[d] = response[d] /\ result'[d] = result[d]

(* What a step of e makes of the exchange.                                 *)
Becomes(e, p, k, q, t, s, r, z) ==
  /\ Only(e)
  /\ phase'[e] = p /\ call'[e] = k /\ request'[e] = q /\ task'[e] = t
  /\ said'[e] = s /\ response'[e] = r /\ result'[e] = z

LEMMA OneExchangeAtATime ==
  ASSUME IInv, NEW e \in Exchanges, Only(e), ExchangeOK(e)',
         users' \in [UserNames -> Passwords \cup {NoUser}]
  PROVE  IInv'
  <1>1. \A d \in Exchanges : ExchangeOK(d)'
    <2> SUFFICES ASSUME NEW d \in Exchanges, d # e PROVE ExchangeOK(d)'
      OBVIOUS
    <2> QED BY OthersKeep DEF IInv, Only
  <1> QED BY <1>1 DEF IInv, Only

(* The client.                                                             *)

LEMMA CallsAreTyped ==
  ASSUME NEW e \in Exchanges, NEW k \in Calls[e]
  PROVE  TypedCall(k) /\ k.op \in Operations /\ k.header \in ApiKeys /\ k.body \in Bodies
  <1>1. TypedCall(k)
    BY HyperAssumption DEF HyperAssumption
  <1> QED BY <1>1, NothingYet DEF TypedCall

LEMMA SentIsWellFormed ==
  ASSUME NEW e \in Exchanges, NEW k \in Calls[e], NEW authData \in Contexts
  PROVE  /\ Sent(k, authData).body.items \in Bodies
         /\ Sent(k, authData).bearer \in {None} \cup DOMAIN Tokens
         /\ Sent(k, authData).apiKey \in ApiKeys
  BY CallsAreTyped, HyperAssumption DEF HyperAssumption, Sent, SentBody, ApiKeys

LEMMA SendBecomes ==
  ASSUME IInv, NEW e \in Exchanges, NEW k \in Calls[e], NEW authData \in Contexts,
         Send(e, k, authData)
  PROVE  Becomes(e, "sent", k, Sent(k, authData), task[e], said[e], response[e], result[e])
  <1>1. /\ phase' \in [Exchanges -> Phases] /\ phase'[e] = "sent"
        /\ \A d \in Exchanges : d # e => phase'[d] = phase[d]
    BY PhaseChanged DEF Phases, IInv, Send
  <1>2. Changed(call, call', e, k)
    BY ChangedInOnePlace DEF IInv, Send
  <1>3. Changed(request, request', e, Sent(k, authData))
    BY ChangedInOnePlace DEF IInv, Send
  <1> QED BY <1>1, <1>2, <1>3 DEF Becomes, Only, Changed, IInv, Send

LEMMA SendPreserves ==
  ASSUME IInv, NEW e \in Exchanges, NEW k \in Calls[e], NEW authData \in Contexts,
         Send(e, k, authData)
  PROVE  IInv'
  <1>1. Becomes(e, "sent", k, Sent(k, authData), task[e], said[e], response[e], result[e])
    BY SendBecomes
  <1>2. ExchangeOK(e)'
    BY <1>1, SentIsWellFormed DEF Becomes, Send, IInv, ExchangeOK, Running
  <1> QED BY <1>1, <1>2, OneExchangeAtATime DEF Becomes, Send, IInv

LEMMA FailToSendBecomes ==
  ASSUME IInv, NEW e \in Exchanges, NEW k \in Calls[e], FailToSend(e, k)
  PROVE  Becomes(e, "done", k, request[e], task[e], said[e], response[e],
                 (IF Panics(k) THEN "panic" ELSE "Err"))
  <1>1. /\ phase' \in [Exchanges -> Phases] /\ phase'[e] = "done"
        /\ \A d \in Exchanges : d # e => phase'[d] = phase[d]
    BY PhaseChanged DEF Phases, IInv, FailToSend, Finish
  <1>2. Changed(call, call', e, k)
    BY ChangedInOnePlace DEF IInv, FailToSend, Finish
  <1>3. Changed(result, result', e, (IF Panics(k) THEN "panic" ELSE "Err"))
    BY ChangedInOnePlace DEF IInv, FailToSend, Finish
  <1> QED BY <1>1, <1>2, <1>3 DEF Becomes, Only, Changed, IInv, FailToSend, Finish

LEMMA FailToSendPreserves ==
  ASSUME IInv, NEW e \in Exchanges, NEW k \in Calls[e], FailToSend(e, k)
  PROVE  IInv'
  <1>1. Becomes(e, "done", k, request[e], task[e], said[e], response[e],
                 (IF Panics(k) THEN "panic" ELSE "Err"))
    BY FailToSendBecomes
  <1>2. ExchangeOK(e)'
    BY <1>1 DEF Becomes, FailToSend, IInv, ExchangeOK, Running
  <1> QED BY <1>1, <1>2, OneExchangeAtATime DEF Becomes, FailToSend, IInv

LEMMA SendOtherBecomes ==
  ASSUME IInv, NEW e \in Exchanges, NEW r \in Requests[e], SendOther(e, r)
  PROVE  Becomes(e, "sent", call[e], r, task[e], said[e], response[e], result[e])
  <1>1. /\ phase' \in [Exchanges -> Phases] /\ phase'[e] = "sent"
        /\ \A d \in Exchanges : d # e => phase'[d] = phase[d]
    BY PhaseChanged DEF Phases, IInv, SendOther
  <1>2. Changed(request, request', e, r)
    BY ChangedInOnePlace DEF IInv, SendOther
  <1> QED BY <1>1, <1>2 DEF Becomes, Only, Changed, IInv, SendOther

LEMMA SendOtherPreserves ==
  ASSUME IInv, NEW e \in Exchanges, NEW r \in Requests[e], SendOther(e, r)
  PROVE  IInv'
  <1>1. Becomes(e, "sent", call[e], r, task[e], said[e], response[e], result[e])
    BY SendOtherBecomes
  <1>2. ExchangeOK(e)'
    BY <1>1, HyperAssumption DEF Becomes, SendOther, IInv, ExchangeOK, Running, HyperAssumption
  <1> QED BY <1>1, <1>2, OneExchangeAtATime DEF Becomes, SendOther, IInv

LEMMA ReadBecomes ==
  ASSUME IInv, NEW e \in Exchanges, Read(e)
  PROVE  Becomes(e, "done", call[e], request[e], task[e], said[e], NoResponse,
                 (IF call[e] = NoCall THEN None ELSE ResultOf(call[e].op, response[e])))
  <1>1. /\ phase' \in [Exchanges -> Phases] /\ phase'[e] = "done"
        /\ \A d \in Exchanges : d # e => phase'[d] = phase[d]
    BY PhaseChanged DEF Phases, IInv, Read, Finish
  <1>2. Changed(response, response', e, NoResponse)
    BY ChangedInOnePlace DEF IInv, Read, Finish
  <1>3. Changed(result, result', e, (IF call[e] = NoCall THEN None ELSE ResultOf(call[e].op, response[e])))
    BY ChangedInOnePlace DEF IInv, Read, Finish
  <1> QED BY <1>1, <1>2, <1>3 DEF Becomes, Only, Changed, IInv, Read, Finish

LEMMA ReadPreserves ==
  ASSUME IInv, NEW e \in Exchanges, Read(e)
  PROVE  IInv'
  <1>1. Becomes(e, "done", call[e], request[e], task[e], said[e], NoResponse,
                 (IF call[e] = NoCall THEN None ELSE ResultOf(call[e].op, response[e])))
    BY ReadBecomes
  <1>2. ExchangeOK(e)'
    BY <1>1, NothingYet DEF Becomes, Read, IInv, ExchangeOK, Running
  <1> QED BY <1>1, <1>2, OneExchangeAtATime DEF Becomes, Read, IInv

LEMMA ReturnBecomes ==
  ASSUME IInv, NEW e \in Exchanges, Return(e)
  PROVE  Becomes(e, "idle", NoCall, request[e], task[e], NothingSaid, response[e], None)
  <1>1. /\ phase' \in [Exchanges -> Phases] /\ phase'[e] = "idle"
        /\ \A d \in Exchanges : d # e => phase'[d] = phase[d]
    BY PhaseChanged DEF Phases, IInv, Return
  <1>2. Changed(call, call', e, NoCall)
    BY ChangedInOnePlace DEF IInv, Return
  <1>3. Changed(said, said', e, NothingSaid)
    BY ChangedInOnePlace DEF IInv, Return
  <1>4. Changed(result, result', e, None)
    BY ChangedInOnePlace DEF IInv, Return
  <1> QED BY <1>1, <1>2, <1>3, <1>4 DEF Becomes, Only, Changed, IInv, Return

LEMMA ReturnPreserves ==
  ASSUME IInv, NEW e \in Exchanges, Return(e)
  PROVE  IInv'
  <1>1. Becomes(e, "idle", NoCall, request[e], task[e], NothingSaid, response[e], None)
    BY ReturnBecomes
  <1>2. ExchangeOK(e)'
    BY <1>1 DEF Becomes, Return, IInv, ExchangeOK, Running
  <1> QED BY <1>1, <1>2, OneExchangeAtATime DEF Becomes, Return, IInv

(* The connection.                                                         *)

LEMMA LoseMessageBecomes ==
  ASSUME IInv, NEW e \in Exchanges, LoseMessage(e)
  PROVE  Becomes(e, "done", call[e], NoRequest, task[e], said[e], NoResponse, NoAnswer)
  <1>1. /\ phase' \in [Exchanges -> Phases] /\ phase'[e] = "done"
        /\ \A d \in Exchanges : d # e => phase'[d] = phase[d]
    BY PhaseChanged DEF Phases, IInv, LoseMessage, Finish
  <1>2. Changed(request, request', e, NoRequest)
    BY ChangedInOnePlace DEF IInv, LoseMessage, Finish
  <1>3. Changed(response, response', e, NoResponse)
    BY ChangedInOnePlace DEF IInv, LoseMessage, Finish
  <1>4. Changed(result, result', e, NoAnswer)
    BY ChangedInOnePlace DEF IInv, LoseMessage, Finish
  <1> QED BY <1>1, <1>2, <1>3, <1>4 DEF Becomes, Only, Changed, IInv, LoseMessage, Finish

LEMMA LoseMessagePreserves ==
  ASSUME IInv, NEW e \in Exchanges, LoseMessage(e)
  PROVE  IInv'
  <1>1. Becomes(e, "done", call[e], NoRequest, task[e], said[e], NoResponse, NoAnswer)
    BY LoseMessageBecomes
  <1>2. ExchangeOK(e)'
    BY <1>1, NothingYet DEF Becomes, LoseMessage, IInv, ExchangeOK, Running
  <1> QED BY <1>1, <1>2, OneExchangeAtATime DEF Becomes, LoseMessage, IInv

LEMMA AbandonBecomes ==
  ASSUME IInv, NEW e \in Exchanges, Abandon(e)
  PROVE  Becomes(e, "abandoned", call[e], request[e], task[e], said[e], response[e], result[e])
  <1>1. /\ phase' \in [Exchanges -> Phases] /\ phase'[e] = "abandoned"
        /\ \A d \in Exchanges : d # e => phase'[d] = phase[d]
    BY PhaseChanged DEF Phases, IInv, Abandon
  <1> QED BY <1>1 DEF Becomes, Only, Changed, IInv, Abandon

LEMMA AbandonPreserves ==
  ASSUME IInv, NEW e \in Exchanges, Abandon(e)
  PROVE  IInv'
  <1>1. Becomes(e, "abandoned", call[e], request[e], task[e], said[e], response[e], result[e])
    BY AbandonBecomes
  <1>2. ExchangeOK(e)'
    BY <1>1 DEF Becomes, Abandon, IInv, ExchangeOK, Running
  <1> QED BY <1>1, <1>2, OneExchangeAtATime DEF Becomes, Abandon, IInv

LEMMA DropBecomes ==
  ASSUME IInv, NEW e \in Exchanges, Drop(e)
  PROVE  Becomes(e, "idle", NoCall, request[e], NoCall, said[e], response[e], result[e])
  <1>1. /\ phase' \in [Exchanges -> Phases] /\ phase'[e] = "idle"
        /\ \A d \in Exchanges : d # e => phase'[d] = phase[d]
    BY PhaseChanged DEF Phases, IInv, Drop
  <1>2. Changed(call, call', e, NoCall)
    BY ChangedInOnePlace DEF IInv, Drop
  <1>3. Changed(task, task', e, NoCall)
    BY ChangedInOnePlace DEF IInv, Drop
  <1> QED BY <1>1, <1>2, <1>3 DEF Becomes, Only, Changed, IInv, Drop

LEMMA DropPreserves ==
  ASSUME IInv, NEW e \in Exchanges, Drop(e)
  PROVE  IInv'
  <1>1. Becomes(e, "idle", NoCall, request[e], NoCall, said[e], response[e], result[e])
    BY DropBecomes
  <1>2. ExchangeOK(e)'
    BY <1>1, NothingYet DEF Becomes, Drop, IInv, ExchangeOK, Running
  <1> QED BY <1>1, <1>2, OneExchangeAtATime DEF Becomes, Drop, IInv

-----------------------------------------------------------------------------
(* The server.                                                             *)

(* The server refuses with four codes, or hands an operation to the        *)
(* application.                                                            *)
LEMMA RefusalCodes ==
  ASSUME NEW r, NEW a
  PROVE  /\ Refusal(r, a) \in {0, 400, 403, 404, 405}
         /\ Refusal(r, a) = 0 => Dispatched(r) \in Operations
  <1>1. CASE Dispatched(r) = None
    BY <1>1 DEF Refusal, Undispatched
  <1>2. CASE Dispatched(r) # None
    BY <1>2, DispatchedToHandler DEF Refusal
  <1> QED BY <1>1, <1>2

LEMMA ReceivedIsWellFormed ==
  ASSUME NEW op, NEW r, r.body.items \in Bodies
  PROVE  IsCall(Received(op, r)) /\ Received(op, r).op = op /\ Received(op, r).body \in Bodies
  BY NothingYet DEF Received, IsCall, BodyOf

LEMMA ServeCalls ==
  ASSUME IInv, NEW e \in Exchanges, Serve(e), Refusal(request[e], Granted(e)) = 0
  PROVE  Becomes(e, "called", call[e], NoRequest, Received(Dispatched(request[e]), request[e]),
                 said[e], response[e], result[e])
  <1>1. /\ phase' \in [Exchanges -> Phases] /\ phase'[e] = "called"
        /\ \A d \in Exchanges : d # e => phase'[d] = phase[d]
    BY PhaseChanged DEF Phases, IInv, Serve
  <1>2. Changed(request, request', e, NoRequest)
    BY ChangedInOnePlace DEF IInv, Serve
  <1>3. Changed(task, task', e, Received(Dispatched(request[e]), request[e]))
    BY ChangedInOnePlace DEF IInv, Serve
  <1>4. response' = response
    BY DEF Serve
  <1> QED BY <1>1, <1>2, <1>3, <1>4 DEF Becomes, Only, Changed, IInv, Serve

LEMMA ServeRefuses ==
  ASSUME IInv, NEW e \in Exchanges, Serve(e), NEW code, code = Refusal(request[e], Granted(e)), code # 0
  PROVE  Becomes(e, "answered", call[e], NoRequest, task[e], said[e], Refused(code), result[e])
  <1>1. /\ phase' \in [Exchanges -> Phases] /\ phase'[e] = "answered"
        /\ \A d \in Exchanges : d # e => phase'[d] = phase[d]
    BY PhaseChanged DEF Phases, IInv, Serve
  <1>2. Changed(request, request', e, NoRequest)
    BY ChangedInOnePlace DEF IInv, Serve
  <1>3. Changed(response, response', e, Refused(code))
    BY ChangedInOnePlace DEF IInv, Serve
  <1>4. task' = task
    BY DEF Serve
  <1> QED BY <1>1, <1>2, <1>3, <1>4 DEF Becomes, Only, Changed, IInv, Serve

LEMMA ServePreserves ==
  ASSUME IInv, NEW e \in Exchanges, Serve(e)
  PROVE  IInv'
  <1> DEFINE code == Refusal(request[e], Granted(e))
             t == Received(Dispatched(request[e]), request[e])
  <1>1. phase[e] = "sent" /\ users' = users
    BY DEF Serve
  <1>2. CASE code = 0
    <2>1. Becomes(e, "called", call[e], NoRequest, t, said[e], response[e], result[e])
      BY <1>2, ServeCalls
    <2>2. IsCall(t) /\ t.op \in Operations /\ t.body \in Bodies
      BY <1>2, ReceivedIsWellFormed, RefusalCodes DEF IInv, ExchangeOK
    <2> HIDE DEF t
    <2>3. ExchangeOK(e)'
      BY <1>1, <2>1, <2>2, NothingYet DEF Becomes, IInv, ExchangeOK, Running
    <2> QED BY <1>1, <2>1, <2>3, OneExchangeAtATime DEF Becomes, IInv
  <1>3. CASE code # 0
    <2>1. Becomes(e, "answered", call[e], NoRequest, task[e], said[e], Refused(code), result[e])
      BY <1>3, ServeRefuses
    <2>2. Refused(code).code \in {0, 400, 403, 404, 405}
      BY RefusalCodes DEF Refused
    <2>3. ExchangeOK(e)'
      BY <1>1, <2>1, <2>2, NothingYet DEF Becomes, IInv, ExchangeOK, Running
    <2> QED BY <1>1, <2>1, <2>3, OneExchangeAtATime DEF Becomes, IInv
  <1> QED BY <1>2, <1>3

LEMMA ResponseCodes ==
  ASSUME NEW op \in Operations, NEW answer \in Answers(op)
  PROVE  Response(op, answer).code \in {200, 400, 404, 422, 500}
  <1>1. Agreement(Handlers[op], Methods[op])
    BY TablesAgree
  <1> QED BY <1>1 DEF Response, Answers, Agreement

LEMMA AnswerArrives ==
  ASSUME IInv, NEW e \in Exchanges, NEW answer, Answer(e, answer), phase[e] = "called"
  PROVE  Becomes(e, "answered", call[e], request[e], NoCall, [call |-> task[e], answer |-> answer],
                 Response(task[e].op, answer), result[e])
  <1>1. /\ phase' \in [Exchanges -> Phases] /\ phase'[e] = "answered"
        /\ \A d \in Exchanges : d # e => phase'[d] = phase[d]
    BY PhaseChanged DEF Phases, IInv, Answer
  <1>2. Changed(task, task', e, NoCall)
    BY ChangedInOnePlace DEF IInv, Answer
  <1>3. Changed(said, said', e, [call |-> task[e], answer |-> answer])
    BY ChangedInOnePlace DEF IInv, Answer
  <1>4. Changed(response, response', e, Response(task[e].op, answer))
    BY ChangedInOnePlace DEF IInv, Answer
  <1>5. call' = call
    BY DEF Answer
  <1> QED BY <1>1, <1>2, <1>3, <1>4, <1>5 DEF Becomes, Only, Changed, IInv, Answer

LEMMA AnswerIsLost ==
  ASSUME IInv, NEW e \in Exchanges, NEW answer, Answer(e, answer), phase[e] # "called"
  PROVE  Becomes(e, "idle", NoCall, request[e], NoCall, said[e], response[e], result[e])
  <1>1. /\ phase' \in [Exchanges -> Phases] /\ phase'[e] = "idle"
        /\ \A d \in Exchanges : d # e => phase'[d] = phase[d]
    BY PhaseChanged DEF Phases, IInv, Answer
  <1>2. Changed(task, task', e, NoCall)
    BY ChangedInOnePlace DEF IInv, Answer
  <1>3. Changed(call, call', e, NoCall)
    BY ChangedInOnePlace DEF IInv, Answer
  <1>4. said' = said /\ response' = response
    BY DEF Answer
  <1> QED BY <1>1, <1>2, <1>3, <1>4 DEF Becomes, Only, Changed, IInv, Answer

LEMMA AnswerPreserves ==
  ASSUME IInv, NEW e \in Exchanges, phase[e] \in Running,
         NEW answer \in Answers(task[e].op), Answer(e, answer),
         users' \in [UserNames -> Passwords \cup {NoUser}]
  PROVE  IInv'
  <1> DEFINE s == [call |-> task[e], answer |-> answer]
             r == Response(task[e].op, answer)
  <1>1. task[e].op \in Operations
    BY DEF IInv, ExchangeOK
  <1>2. CASE phase[e] = "called"
    <2>1. Becomes(e, "answered", call[e], request[e], NoCall, s, r, result[e])
      BY <1>2, AnswerArrives
    <2>2. s.call.op = task[e].op /\ s.answer = answer
      OBVIOUS
    <2>3. r.code \in {200, 400, 404, 422, 500}
      BY <1>1, ResponseCodes
    <2>4. r = Response(task[e].op, answer)
      OBVIOUS
    <2> HIDE DEF s, r
    <2>5. ExchangeOK(e)'
      BY <1>1, <1>2, <2>1, <2>2, <2>3, <2>4, NothingYet DEF Becomes, IInv, ExchangeOK, Running
    <2> QED BY <2>1, <2>5, OneExchangeAtATime DEF Becomes
  <1>3. CASE phase[e] # "called"
    <2>1. Becomes(e, "idle", NoCall, request[e], NoCall, said[e], response[e], result[e])
      BY <1>3, AnswerIsLost
    <2>2. ExchangeOK(e)'
      BY <1>1, <1>3, <2>1, NothingYet DEF Becomes, IInv, ExchangeOK, Running
    <2> QED BY <2>1, <2>2, OneExchangeAtATime DEF Becomes
  <1> QED BY <1>2, <1>3

-----------------------------------------------------------------------------
(* The application.                                                        *)

(* What the application says, trait Api lets it say.                       *)
LEMMA UserAnswers ==
  /\ \A op : Failed \in Answers(op)
  /\ \A op \in UserOperations : "SuccessfulOperation" \in Answers(op)
  /\ "UnexpectedError" \in Answers("CreateUser")
  /\ "UnexpectedError" \in Answers("CreateUsersWithListInput")
  /\ "InvalidUsername" \in Answers("LoginUser")
  /\ "UserNotFound" \in Answers("DeleteUser")
  /\ "UserNotFound" \in Answers("GetUserByName")
  /\ "UnexpectedError" \in Answers("UpdateUser")
  BY DEF Answers, UserOperations, Handlers, Handler, HandleCreateUser, HandleCreateUsersWithListInput,
    HandleLoginUser, HandleLogoutUser, HandleDeleteUser, HandleGetUserByName, HandleUpdateUser

(* The first user of a body that has one, and the rest of it.              *)
LEMMA FirstOfBody ==
  ASSUME NEW b \in Bodies, b # NoItems
  PROVE  Head(b).word \in Passwords /\ Tail(b) \in Bodies
  <1>1. Head(b) \in [name : STRING, word : Passwords] /\ Tail(b) \in Seq([name : STRING, word : Passwords])
    BY HeadTailProperties DEF Bodies, NoItems
  <1> QED BY <1>1 DEF Bodies

LEMMA UsersStayTyped ==
  ASSUME users \in [UserNames -> Passwords \cup {NoUser}], NEW n, NEW p \in Passwords \cup {NoUser}
  PROVE  [users EXCEPT ![n] = p] \in [UserNames -> Passwords \cup {NoUser}]
  OBVIOUS

LEMMA UpsertIsTyped ==
  ASSUME users \in [UserNames -> Passwords \cup {NoUser}], NEW b \in Bodies, b # NoItems, Upsert(Head(b))
  PROVE  users' \in [UserNames -> Passwords \cup {NoUser}]
  BY FirstOfBody, UsersStayTyped DEF Upsert

(* The first user of the list is in, the others are left.                  *)
LEMMA RestOfListBecomes ==
  ASSUME IInv, NEW e \in Exchanges, NEW b, task' = [task EXCEPT ![e].body = b],
         UNCHANGED <<authenticator, phase, call, request, said, response, result>>
  PROVE  Becomes(e, phase[e], call[e], request[e], [task[e] EXCEPT !.body = b],
                 said[e], response[e], result[e])
  <1> DEFINE t == [task[e] EXCEPT !.body = b]
  <1>1. task' = [task EXCEPT ![e] = t]
    OBVIOUS
  <1> HIDE DEF t
  <1>2. Changed(task, [task EXCEPT ![e] = t], e, t)
    BY ChangedInOnePlace DEF IInv
  <1>3. Changed(task, task', e, t)
    BY <1>1, <1>2, Zenon
  <1>4. Becomes(e, phase[e], call[e], request[e], t, said[e], response[e], result[e])
    BY <1>3 DEF Becomes, Only, Changed, IInv
  <1> QED BY <1>4 DEF t

SameButBody(k, t, b) ==
  /\ IsCall(t) /\ t.body = b
  /\ t.op = k.op /\ t.key = k.key /\ t.header = k.header /\ t.query = k.query

LEMMA RestOfCall ==
  ASSUME NEW k, IsCall(k), NEW b
  PROVE  SameButBody(k, [k EXCEPT !.body = b], b)
  <1> DEFINE t == [k EXCEPT !.body = b]
  <1>1. t = [op |-> k.op, key |-> k.key, header |-> k.header, query |-> k.query, body |-> b]
    BY DEF IsCall
  <1> QED BY <1>1 DEF IsCall, SameButBody

LEMMA RestOfListPreserves ==
  ASSUME IInv, NEW e \in Exchanges, phase[e] \in Running, NEW b \in Bodies,
         task' = [task EXCEPT ![e].body = b],
         users' \in [UserNames -> Passwords \cup {NoUser}],
         UNCHANGED <<authenticator, phase, call, request, said, response, result>>
  PROVE  IInv'
  <1> DEFINE t == [task[e] EXCEPT !.body = b]
  <1>1. Becomes(e, phase[e], call[e], request[e], t, said[e], response[e], result[e])
    BY RestOfListBecomes
  <1>2. IsCall(task[e])
    BY DEF IInv, ExchangeOK
  <1>3. SameButBody(task[e], t, b)
    BY <1>2, RestOfCall, Zenon
  <1> HIDE DEF t
  <1>4. ExchangeOK(e)'
    BY <1>1, <1>3 DEF Becomes, IInv, ExchangeOK, SameButBody
  <1> QED BY <1>1, <1>4, OneExchangeAtATime DEF Becomes

LEMMA ListPreserves ==
  ASSUME IInv, NEW e \in Exchanges, CreateUsersWithListInput(e)
  PROVE  IInv'
  <1> DEFINE b == task[e].body
             op == "CreateUsersWithListInput"
  <1>1. /\ phase[e] \in Running /\ task[e].op = op /\ b \in Bodies
        /\ users \in [UserNames -> Passwords \cup {NoUser}]
        /\ op \in UserOperations
    BY DEF CreateUsersWithListInput, Works, IInv, ExchangeOK, UserOperations
  <1>2. CASE b = NoItems
    <2>1. Len(b) # 1
      BY <1>2, EmptySeq DEF NoItems
    <2>2. Answer(e, "UnexpectedError") /\ users' = users
      BY <1>2, <2>1 DEF CreateUsersWithListInput
    <2> QED BY <1>1, <2>2, UserAnswers, AnswerPreserves
  <1>3. CASE b # NoItems /\ Len(b) = 1
    <2>1. Answer(e, "SuccessfulOperation") /\ Upsert(Head(b))
      BY <1>3 DEF CreateUsersWithListInput
    <2>2. users' \in [UserNames -> Passwords \cup {NoUser}]
      BY <1>1, <1>3, <2>1, UpsertIsTyped
    <2> QED BY <1>1, <2>1, <2>2, UserAnswers, AnswerPreserves
  <1>4. CASE b # NoItems /\ Len(b) # 1
    <2>1. /\ Upsert(Head(b)) /\ task' = [task EXCEPT ![e].body = Tail(b)]
          /\ UNCHANGED <<authenticator, phase, call, request, said, response, result>>
      BY <1>4 DEF CreateUsersWithListInput
    <2>2. users' \in [UserNames -> Passwords \cup {NoUser}]
      BY <1>1, <1>4, <2>1, UpsertIsTyped
    <2>3. Tail(b) \in Bodies
      BY <1>1, <1>4, FirstOfBody
    <2> QED BY <1>1, <2>1, <2>2, <2>3, RestOfListPreserves DEF Works
  <1> QED BY <1>2, <1>3, <1>4

LEMMA ApplicationPreserves ==
  ASSUME IInv, NEW e \in Exchanges, Application(e)
  PROVE  IInv'
  <1>1. /\ users \in [UserNames -> Passwords \cup {NoUser}]
        /\ task[e].body \in Bodies
    BY DEF IInv, ExchangeOK
  <1>2. CASE OtherOperation(e)
    <2>1. PICK answer \in Answers(task[e].op) : Answer(e, answer)
      BY <1>2 DEF OtherOperation
    <2> QED BY <1>1, <1>2, <2>1, AnswerPreserves DEF OtherOperation
  <1>3. CASE StatementFails(e)
    BY <1>1, <1>3, UserAnswers, AnswerPreserves DEF StatementFails
  <1>4. CASE CreateUser(e)
    <2>1. /\ phase[e] \in Running /\ task[e].op = "CreateUser" /\ "CreateUser" \in UserOperations
      BY <1>4 DEF CreateUser, Works, UserOperations
    <2>2. CASE task[e].body = NoItems
      <3>1. Answer(e, "UnexpectedError") /\ users' = users
        BY <1>4, <2>2 DEF CreateUser
      <3> QED BY <1>1, <2>1, <3>1, UserAnswers, AnswerPreserves
    <2>3. CASE task[e].body # NoItems
      <3>1. Answer(e, "SuccessfulOperation") /\ Upsert(Head(task[e].body))
        BY <1>4, <2>3 DEF CreateUser
      <3>2. users' \in [UserNames -> Passwords \cup {NoUser}]
        BY <1>1, <2>3, <3>1, UpsertIsTyped
      <3> QED BY <2>1, <3>1, <3>2, UserAnswers, AnswerPreserves
    <2> QED BY <2>2, <2>3
  <1>5. CASE CreateUsersWithListInput(e)
    BY <1>5, ListPreserves
  <1>6. CASE LoginUser(e)
    <2>1. /\ phase[e] \in Running /\ task[e].op = "LoginUser" /\ "LoginUser" \in UserOperations
          /\ users' = users
      BY <1>6 DEF LoginUser, Works, UserOperations
    <2>2. Answer(e, "SuccessfulOperation") \/ Answer(e, "InvalidUsername")
      BY <1>6 DEF LoginUser
    <2> QED BY <1>1, <2>1, <2>2, UserAnswers, AnswerPreserves
  <1>7. CASE LogoutUser(e)
    <2>1. /\ phase[e] \in Running /\ task[e].op = "LogoutUser" /\ "LogoutUser" \in UserOperations
          /\ users' = users /\ Answer(e, "SuccessfulOperation")
      BY <1>7 DEF LogoutUser, Works, UserOperations
    <2> QED BY <1>1, <2>1, UserAnswers, AnswerPreserves
  <1>8. CASE DeleteUser(e)
    <2>1. /\ phase[e] \in Running /\ task[e].op = "DeleteUser" /\ "DeleteUser" \in UserOperations
      BY <1>8 DEF DeleteUser, Works, UserOperations
    <2>2. /\ Answer(e, "SuccessfulOperation") \/ Answer(e, "UserNotFound")
          /\ users' = users \/ users' = [users EXCEPT ![task[e].key] = NoUser]
      BY <1>8 DEF DeleteUser
    <2>3. users' \in [UserNames -> Passwords \cup {NoUser}]
      BY <1>1, <2>2, UsersStayTyped
    <2> QED BY <2>1, <2>2, <2>3, UserAnswers, AnswerPreserves
  <1>9. CASE GetUserByName(e)
    <2>1. /\ phase[e] \in Running /\ task[e].op = "GetUserByName" /\ "GetUserByName" \in UserOperations
          /\ users' = users
      BY <1>9 DEF GetUserByName, Works, UserOperations
    <2>2. Answer(e, "SuccessfulOperation") \/ Answer(e, "UserNotFound")
      BY <1>9 DEF GetUserByName
    <2> QED BY <1>1, <2>1, <2>2, UserAnswers, AnswerPreserves
  <1>10. CASE UpdateUser(e)
    <2>1. /\ phase[e] \in Running /\ task[e].op = "UpdateUser" /\ "UpdateUser" \in UserOperations
      BY <1>10 DEF UpdateUser, Works, UserOperations
    <2>2. Answer(e, "SuccessfulOperation") \/ Answer(e, "UnexpectedError")
      BY <1>10 DEF UpdateUser
    <2>3. CASE task[e].body # NoItems /\ Exists(task[e].key)
      <3>1. users' = [users EXCEPT ![task[e].key] = Head(task[e].body).word]
        BY <1>10, <2>3 DEF UpdateUser
      <3>2. users' \in [UserNames -> Passwords \cup {NoUser}]
        BY <1>1, <2>3, <3>1, FirstOfBody, UsersStayTyped
      <3> QED BY <2>1, <2>2, <3>2, UserAnswers, AnswerPreserves
    <2>4. CASE ~(task[e].body # NoItems /\ Exists(task[e].key))
      <3>1. users' = users
        BY <1>10, <2>4 DEF UpdateUser
      <3> QED BY <1>1, <2>1, <2>2, <3>1, UserAnswers, AnswerPreserves
    <2> QED BY <2>3, <2>4
  <1> QED BY <1>2, <1>3, <1>4, <1>5, <1>6, <1>7, <1>8, <1>9, <1>10 DEF Application

-----------------------------------------------------------------------------
(* The theorems.                                                           *)

LEMMA NextPreserves == IInv /\ [Next]_vars => IInv'
  <1> SUFFICES ASSUME IInv, [Next]_vars PROVE IInv'
    OBVIOUS
  <1>1. CASE UNCHANGED vars
    <2>1. \A e \in Exchanges : ExchangeOK(e)'
      BY <1>1, OthersKeep DEF IInv, vars
    <2> QED BY <1>1, <2>1 DEF IInv, vars
  <1>2. CASE Next
    <2>1. PICK e \in Exchanges :
            \/ \E k \in Calls[e], authData \in Contexts : Send(e, k, authData)
            \/ \E k \in Calls[e] : FailToSend(e, k)
            \/ \E r \in Requests[e] : SendOther(e, r)
            \/ Serve(e) \/ Application(e) \/ Read(e) \/ Return(e) \/ LoseMessage(e) \/ Abandon(e) \/ Drop(e)
      BY <1>2 DEF Next
    <2> QED BY <2>1, SendPreserves, FailToSendPreserves, SendOtherPreserves, ServePreserves,
              ApplicationPreserves, ReadPreserves, ReturnPreserves, LoseMessagePreserves,
              AbandonPreserves, DropPreserves
  <1> QED BY <1>1, <1>2

(* Every state that a run of client and server reaches satisfies the     *)
(* inductive invariant.                                                  *)
THEOREM InvariantHolds == Spec => []IInv
  BY InitEstablishes, NextPreserves, PTL DEF Spec

LEMMA TypesFromInvariant == IInv => TypeOK
  <1> SUFFICES ASSUME IInv PROVE TypeOK
    OBVIOUS
  <1>1. \A e \in Exchanges :
          /\ call[e] \in Calls[e] \cup {NoCall}
          /\ task[e].op \in Operations \cup {None}
          /\ said[e].answer \in {None} \cup UNION {Answers(o) : o \in Operations}
          /\ response[e].code \in {0, 200, 400, 403, 404, 405, 422, 500}
    <2> SUFFICES ASSUME NEW e \in Exchanges
                 PROVE  /\ call[e] \in Calls[e] \cup {NoCall}
                        /\ task[e].op \in Operations \cup {None}
                        /\ said[e].answer \in {None} \cup UNION {Answers(o) : o \in Operations}
                        /\ response[e].code \in {0, 200, 400, 403, 404, 405, 422, 500}
      OBVIOUS
    <2>1. task[e].op \in Operations \cup {None}
      BY NothingYet DEF IInv, ExchangeOK
    <2>2. said[e].answer \in {None} \cup UNION {Answers(o) : o \in Operations}
      BY NothingYet DEF IInv, ExchangeOK
    <2> QED BY <2>1, <2>2 DEF IInv, ExchangeOK
  <1> QED BY <1>1 DEF IInv, TypeOK

(* The server answers with the codes it knows and asks the application     *)
(* only for what trait Api has; users keep their type.                     *)
THEOREM TypeCorrect == Spec => []TypeOK
  BY InvariantHolds, TypesFromInvariant, PTL

LEMMA ArrivalFromInvariant == IInv => AnswersArrive
  <1> SUFFICES ASSUME IInv, NEW e \in Exchanges,
                      Asked(e), result[e] # NoAnswer, said[e].call.op = call[e].op
               PROVE  result[e] = IF Undeliverable(call[e].op, said[e].answer) THEN "Err" ELSE said[e].answer
    BY DEF AnswersArrive
  <1>1. call[e].op \in Operations
    BY CallsAreTyped DEF IInv, ExchangeOK, Asked
  <1>2. said[e] # NothingSaid
    BY <1>1, NothingYet, OperationsByName
  <1>3. said[e].answer \in Answers(call[e].op)
    BY <1>2 DEF IInv, ExchangeOK
  <1>4. result[e] = ResultOf(call[e].op, Response(call[e].op, said[e].answer))
    BY <1>2 DEF IInv, ExchangeOK, Asked
  <1> QED BY <1>1, <1>3, <1>4, AnswersAreUnderstood

(* What the application says reaches the client as that variant, for every *)
(* operation and every answer but the two kinds that cannot arrive.        *)
THEOREM AnswersAlwaysArrive == Spec => []AnswersArrive
  BY InvariantHolds, ArrivalFromInvariant, PTL

LEMMA PetsAskForScopes == \A op \in PetOperations : Handlers[op].access = "scopes"
  BY DEF PetOperations, Handlers, Handler, HandleAddPet, HandleFindPetsByStatus, HandleFindPetsByTags,
    HandleUpdatePet, HandleDeletePet, HandleGetPetById, HandleUpdatePetWithForm, HandleUploadFile

(* Only two kinds of credentials get past the claims.                      *)
LEMMA ScopesAreHeld ==
  ASSUME NEW r, r.bearer \in {None} \cup DOMAIN Tokens, r.apiKey \in ApiKeys,
         RequiredScopes \subseteq Authorization("claims", AuthData(r)).scopes
  PROVE  r.bearer = "full" \/ (r.bearer = None /\ r.apiKey = "apiKey")
  <1>1. AuthData(r) \in {"full", "apiKey"}
    <2>1. "write:pets" \in Authorization("claims", AuthData(r)).scopes
      BY DEF RequiredScopes
    <2> QED BY <2>1 DEF Authorization, Authorized, Unauthenticated, Tokens
  <1> QED BY <1>1 DEF AuthData, Tokens, ApiKeys, None, Garbled

LEMMA ServedWithScopes ==
  ASSUME IInv, NEW e \in Exchanges, Serve(e), task'[e].op \in PetOperations, authenticator = "claims"
  PROVE  request[e].bearer = "full" \/ (request[e].bearer = None /\ request[e].apiKey = "apiKey")
  <1> DEFINE r == request[e]
  <1>0. phase[e] = "sent" /\ task[e] = NoCall /\ None \notin PetOperations
    BY DEF Serve, IInv, ExchangeOK, Running, PetOperations, None
  <1>1. Refusal(r, Granted(e)) = 0
    BY <1>0, NothingYet DEF Serve
  <1>2. Changed(task, task', e, Received(Dispatched(r), r))
    BY <1>1, ChangedInOnePlace DEF IInv, Serve
  <1>3. Dispatched(r) \in PetOperations
    BY <1>2 DEF Changed, Received
  <1>4. ~Forbidden(Handlers[Dispatched(r)], Granted(e))
    BY <1>0, <1>1, <1>3 DEF Refusal
  <1>5. RequiredScopes \subseteq Granted(e).scopes
    BY <1>3, <1>4, PetsAskForScopes DEF Forbidden
  <1> QED BY <1>5, ScopesAreHeld DEF Granted, IInv, ExchangeOK

(* A step that gives an exchange a task is a step of the server.           *)
LEMMA TasksComeFromServe ==
  ASSUME IInv, [Next]_vars, NEW e \in Exchanges, task[e] = NoCall, task'[e].op \in PetOperations
  PROVE  Serve(e)
  <1>0. None \notin PetOperations /\ NoCall.op = None
    BY NothingYet DEF PetOperations, None
  <1>1. task'[e] # task[e]
    BY <1>0
  <1>2. Next
    BY <1>1 DEF vars
  <1>3. PICK d \in Exchanges : Serve(d) \/ Application(d) \/ Drop(d)
    BY <1>1, <1>2 DEF Next, Send, FailToSend, SendOther, Read, Return, LoseMessage, Abandon
  <1>4. CASE d = e
    <2>1. ~Application(e)
      <3>1. phase[e] \in Running => task[e].op \in Operations
        BY DEF IInv, ExchangeOK
      <3>2. phase[e] \notin Running
        BY <3>1, <1>0, OperationsByName
      <3> QED BY <3>2 DEF Application, OtherOperation, StatementFails, Works, CreateUser,
                CreateUsersWithListInput, LoginUser, LogoutUser, DeleteUser, GetUserByName, UpdateUser
    <2>2. ~Drop(e)
      <3> SUFFICES ASSUME Drop(e) PROVE FALSE
        OBVIOUS
      <3>1. Changed(task, task', e, NoCall)
        BY ChangedInOnePlace DEF IInv, Drop
      <3> QED BY <1>1, <3>1 DEF Changed
    <2> QED BY <1>3, <1>4, <2>1, <2>2
  <1>5. CASE d # e
    <2>1. \E x : task' = [task EXCEPT ![d] = x]
      <3>1. CASE Serve(d)
        <4>1. \/ task' = [task EXCEPT ![d] = Received(Dispatched(request[d]), request[d])]
              \/ task' = task
          BY <3>1, Zenon DEF Serve
        <4> QED BY <1>1, <4>1
      <3>2. CASE Drop(d)
        BY <3>2 DEF Drop
      <3>3. CASE Application(d)
        <4>1. ASSUME NEW a, Answer(d, a) PROVE \E x : task' = [task EXCEPT ![d] = x]
          BY <4>1 DEF Answer
        <4>2. CASE CreateUsersWithListInput(d) /\ ~\E a : Answer(d, a)
          <5>1. task' = [task EXCEPT ![d].body = Tail(task[d].body)]
            BY <4>2 DEF CreateUsersWithListInput
          <5>2. task' = [task EXCEPT ![d] = [task[d] EXCEPT !.body = Tail(task[d].body)]]
            BY <5>1
          <5> QED BY <5>2
        <4> QED BY <3>3, <4>1, <4>2 DEF Application, OtherOperation, StatementFails, CreateUser, LoginUser,
                  LogoutUser, DeleteUser, GetUserByName, UpdateUser
      <3> QED BY <1>3, <3>1, <3>2, <3>3
    <2> QED BY <1>1, <1>5, <2>1 DEF IInv, OnExchanges
  <1> QED BY <1>4, <1>5

(* With the claims of server_auth.rs, whoever makes the application work   *)
(* on pets holds both scopes.                                              *)
THEOREM PetsAlwaysNeedScopes == Spec => PetsNeedScopes
  <1>1. IInv /\ [Next]_vars =>
          [\A e \in Exchanges :
             task'[e].op \in PetOperations /\ task[e] = NoCall /\ authenticator = "claims"
               => \/ request[e].bearer = "full"
                  \/ request[e].bearer = None /\ request[e].apiKey = "apiKey"]_vars
    BY TasksComeFromServe, ServedWithScopes
  <1> QED BY <1>1, InvariantHolds, PTL DEF Spec, PetsNeedScopes

-----------------------------------------------------------------------------
(* What arrives of a call: the operation and its key.                     *)

(* Where a call goes: to its operation, or where its answer is misread.    *)
LEMMA SentGoes ==
  ASSUME NEW k, k.op \in Operations, NEW a, NEW r, r = Sent(k, a), NEW o \in Operations, Dispatched(r) = o
  PROVE  o = k.op \/ Misread(k.op, o)
  <1>1. r.method = Methods[k.op].method /\ r.path = PathOf(k)
    BY DEF Sent
  <1>2. Looks(o, r.method, r.path)
    BY DispatchedLooks
  <1>3. Written(k.op, k.key, r.method, r.path)
    BY <1>1, ClientWrites
  <1> QED BY <1>2, <1>3, WhereItGoes, Zenon

LEMMA PathIsSequence ==
  ASSUME NEW op, NEW key, NEW m, NEW p, Written(op, key, m, p)
  PROVE  DOMAIN p = 1..Len(p)
  BY DEF Written, OnlyTwo, NameAfterOne, NameAfterTwo, NameBetween

LEMMA TakenIsDispatched ==
  ASSUME NEW r, NEW i \in 1..19, Takes(i, r)
  PROVE  Dispatched(r) \in Operations
  <1>1. Candidates(r) \in SUBSET (1..19) /\ i \in Candidates(r)
    BY RoutesLeadToHandlers DEF Candidates, Takes
  <1>2. PICK j \in Candidates(r) : \A n \in Candidates(r) : j <= n
    BY <1>1, LeastOf19
  <1>3. \E n \in Candidates(r) : FirstRoute(r) = Routes[n]
    BY <1>2 DEF FirstRoute
  <1>4. Dispatched(r) = FirstRoute(r).op
    BY <1>1 DEF Dispatched
  <1> QED BY <1>1, <1>3, <1>4, RoutesLeadToHandlers

(* A name that stays as it is leads to some arm of the match.              *)
LEMMA PlainIsDispatched ==
  ASSUME NEW k, k.op \in Operations, k.key \notin AwkwardNames, NEW a, NEW r, r = Sent(k, a)
  PROVE  Dispatched(r) \in Operations
  <1> DEFINE m == r.method
             p == r.path
  <1>0. Written(k.op, k.key, m, p)
    <2>1. m = Methods[k.op].method /\ p = PathOf(k)
      BY DEF Sent
    <2> QED BY <2>1, ClientWrites
  <1>1. CASE k.op = "AddPet"
    <2>1. Takes(1, r)
      BY <1>0, <1>1, ArmsTake DEF Written
    <2> QED BY <2>1, TakenIsDispatched
  <1>2. CASE k.op = "FindPetsByStatus"
    <2>1. Takes(2, r)
      BY <1>0, <1>2, ArmsTake DEF Written, OnlyTwo
    <2> QED BY <2>1, TakenIsDispatched
  <1>3. CASE k.op = "FindPetsByTags"
    <2>1. Takes(3, r)
      BY <1>0, <1>3, ArmsTake DEF Written, OnlyTwo
    <2> QED BY <2>1, TakenIsDispatched
  <1>4. CASE k.op = "UpdatePet"
    <2>1. Takes(4, r)
      BY <1>0, <1>4, ArmsTake DEF Written
    <2> QED BY <2>1, TakenIsDispatched
  <1>5. CASE k.op = "DeletePet"
    <2>1. Takes(5, r)
      BY <1>0, <1>5, ArmsTake DEF Written, NameAfterOne
    <2> QED BY <2>1, TakenIsDispatched
  <1>6. CASE k.op = "GetPetById"
    <2>1. Takes(6, r)
      BY <1>0, <1>6, ArmsTake DEF Written, NameAfterOne
    <2> QED BY <2>1, TakenIsDispatched
  <1>7. CASE k.op = "UpdatePetWithForm"
    <2>1. Takes(7, r)
      BY <1>0, <1>7, ArmsTake DEF Written, NameAfterOne
    <2> QED BY <2>1, TakenIsDispatched
  <1>8. CASE k.op = "UploadFile"
    <2>1. Takes(8, r)
      BY <1>0, <1>8, ArmsTake DEF Written, NameBetween
    <2> QED BY <2>1, TakenIsDispatched
  <1>9. CASE k.op = "GetInventory"
    <2>1. Takes(9, r)
      BY <1>0, <1>9, ArmsTake DEF Written, OnlyTwo
    <2> QED BY <2>1, TakenIsDispatched
  <1>10. CASE k.op = "PlaceOrder"
    <2>1. Takes(10, r)
      BY <1>0, <1>10, ArmsTake DEF Written, OnlyTwo
    <2> QED BY <2>1, TakenIsDispatched
  <1>11. CASE k.op = "DeleteOrder"
    <2>1. Takes(11, r)
      BY <1>0, <1>11, ArmsTake DEF Written, NameAfterTwo
    <2> QED BY <2>1, TakenIsDispatched
  <1>12. CASE k.op = "GetOrderById"
    <2>1. Takes(12, r)
      BY <1>0, <1>12, ArmsTake DEF Written, NameAfterTwo
    <2> QED BY <2>1, TakenIsDispatched
  <1>13. CASE k.op = "CreateUser"
    <2>1. Takes(13, r)
      BY <1>0, <1>13, ArmsTake DEF Written
    <2> QED BY <2>1, TakenIsDispatched
  <1>14. CASE k.op = "CreateUsersWithListInput"
    <2>1. Takes(14, r)
      BY <1>0, <1>14, ArmsTake DEF Written, OnlyTwo
    <2> QED BY <2>1, TakenIsDispatched
  <1>15. CASE k.op = "LoginUser"
    <2>1. Takes(15, r)
      BY <1>0, <1>15, ArmsTake DEF Written, OnlyTwo
    <2> QED BY <2>1, TakenIsDispatched
  <1>16. CASE k.op = "LogoutUser"
    <2>1. Takes(16, r)
      BY <1>0, <1>16, ArmsTake DEF Written, OnlyTwo
    <2> QED BY <2>1, TakenIsDispatched
  <1>17. CASE k.op = "DeleteUser"
    <2>1. Takes(17, r)
      BY <1>0, <1>17, ArmsTake DEF Written, NameAfterOne
    <2> QED BY <2>1, TakenIsDispatched
  <1>18. CASE k.op = "GetUserByName"
    <2>1. Takes(18, r)
      BY <1>0, <1>18, ArmsTake DEF Written, NameAfterOne
    <2> QED BY <2>1, TakenIsDispatched
  <1>19. CASE k.op = "UpdateUser"
    <2>1. Takes(19, r)
      BY <1>0, <1>19, ArmsTake DEF Written, NameAfterOne
    <2> QED BY <2>1, TakenIsDispatched
  <1> QED BY OperationsByName, <1>1, <1>2, <1>3, <1>4, <1>5, <1>6, <1>7, <1>8, <1>9, <1>10,
             <1>11, <1>12, <1>13, <1>14, <1>15, <1>16, <1>17, <1>18, <1>19
    DEF OperationNames

(* The place of the path parameter in the route that takes a request.      *)
KeyFrom(r, n) == KeyOf(r) = IF n = 0 THEN None ELSE Decoded(r.path[n])

KeyIn(r, n, b, c) ==
  /\ (n > 1 => b # Param) /\ (n > 2 => c # Param) => KeyFrom(r, 0)
  /\ n > 1 /\ b = Param /\ (n > 2 => c # Param) => KeyFrom(r, 2)
  /\ n > 2 /\ b # Param /\ c = Param => KeyFrom(r, 3)

LEMMA KeyByPart ==
  ASSUME NEW i, NEW r, FirstRoute(r) = Routes[i], DOMAIN r.path = 1..Len(r.path),
         NEW m, NEW n \in 1..3, NEW a, a # Param, NEW b, NEW c, NEW o, Arm(i, m, n, a, b, c, o), Len(r.path) = n
  PROVE  KeyIn(r, n, b, c)
  <1> DEFINE q == Routes[i].path
             places == {j \in 1..n : q[j] = Param}
  <1>1. q[1] # Param /\ (n > 1 => q[2] = b) /\ (n > 2 => q[3] = c)
    BY DEF Arm
  <1>2. KeyOf(r) = IF places = {} THEN None ELSE Decoded(r.path[CHOOSE j \in places : TRUE])
    BY DEF KeyOf
  <1>3. 1..n \subseteq {1, 2, 3}
    OBVIOUS
  <1> HIDE DEF q
  <1>4. (n > 1 => b # Param) /\ (n > 2 => c # Param) => places = {}
    BY <1>1, <1>3
  <1>5. n > 1 /\ b = Param /\ (n > 2 => c # Param) => places = {2}
    BY <1>1, <1>3
  <1>6. n > 2 /\ b # Param /\ c = Param => places = {3}
    BY <1>1, <1>3
  <1>7. ASSUME NEW j, places = {j} PROVE KeyOf(r) = Decoded(r.path[j])
    <2>1. (CHOOSE x \in {j} : TRUE) = j
      OBVIOUS
    <2> QED BY <1>2, <1>7, <2>1
  <1>8. places = {} => KeyOf(r) = None
    BY <1>2
  <1> HIDE DEF places
  <1>9. places = {} => KeyFrom(r, 0)
    BY <1>8 DEF KeyFrom
  <1>10. places = {2} => KeyFrom(r, 2)
    BY <1>7 DEF KeyFrom
  <1>11. places = {3} => KeyFrom(r, 3)
    BY <1>7 DEF KeyFrom
  <1> QED BY <1>4, <1>5, <1>6, <1>9, <1>10, <1>11 DEF KeyIn

KeyAt(op) ==
  IF op \notin OperationsWithKey THEN 0 ELSE IF op \in {"DeleteOrder", "GetOrderById"} THEN 3 ELSE 2

LEMMA KeyFound ==
  ASSUME NEW r, DOMAIN r.path = 1..Len(r.path), NEW o \in Operations, Dispatched(r) = o
  PROVE  KeyFrom(r, KeyAt(o))
  <1>0. PICK i \in 1..19 :
           /\ FirstRoute(r) = Routes[i] /\ Routes[i].op = o
           /\ Takes(i, r) /\ \A j \in 1..19 : Takes(j, r) => i <= j
    BY RouteTaken
  <1>21. 1 \in 1..3 /\ 2 \in 1..3 /\ 3 \in 1..3
    OBVIOUS
  <1>20. None # Param
    BY DEF None, Param
  <1>1. CASE i = 1
    <2>1. Arm(1, "POST", 1, "pet", None, None, "AddPet") /\ FirstRoute(r) = Routes[1]
      BY <1>0, <1>1, RouteTable
    <2>2. Len(r.path) = 1 /\ o = "AddPet"
      BY <1>0, <1>1, <2>1, ArmsTake DEF Arm
    <2>3. KeyIn(r, 1, None, None)
      BY <2>1, <2>2, <1>21, OtherNames, KeyByPart
    <2>4. KeyFrom(r, 0)
      BY <1>20, <2>3, OtherNames DEF KeyIn
    <2>5. KeyAt("AddPet") = 0
      BY DEF KeyAt, OperationsWithKey
    <2> QED BY <2>2, <2>4, <2>5
  <1>2. CASE i = 2
    <2>1. Arm(2, "GET", 2, "pet", "findByStatus", None, "FindPetsByStatus") /\ FirstRoute(r) = Routes[2]
      BY <1>0, <1>2, RouteTable
    <2>2. Len(r.path) = 2 /\ o = "FindPetsByStatus"
      BY <1>0, <1>2, <2>1, ArmsTake DEF Arm
    <2>3. KeyIn(r, 2, "findByStatus", None)
      BY <2>1, <2>2, <1>21, OtherNames, KeyByPart
    <2>4. KeyFrom(r, 0)
      BY <1>20, <2>3, OtherNames DEF KeyIn
    <2>5. KeyAt("FindPetsByStatus") = 0
      BY DEF KeyAt, OperationsWithKey
    <2> QED BY <2>2, <2>4, <2>5
  <1>3. CASE i = 3
    <2>1. Arm(3, "GET", 2, "pet", "findByTags", None, "FindPetsByTags") /\ FirstRoute(r) = Routes[3]
      BY <1>0, <1>3, RouteTable
    <2>2. Len(r.path) = 2 /\ o = "FindPetsByTags"
      BY <1>0, <1>3, <2>1, ArmsTake DEF Arm
    <2>3. KeyIn(r, 2, "findByTags", None)
      BY <2>1, <2>2, <1>21, OtherNames, KeyByPart
    <2>4. KeyFrom(r, 0)
      BY <1>20, <2>3, OtherNames DEF KeyIn
    <2>5. KeyAt("FindPetsByTags") = 0
      BY DEF KeyAt, OperationsWithKey
    <2> QED BY <2>2, <2>4, <2>5
  <1>4. CASE i = 4
    <2>1. Arm(4, "PUT", 1, "pet", None, None, "UpdatePet") /\ FirstRoute(r) = Routes[4]
      BY <1>0, <1>4, RouteTable
    <2>2. Len(r.path) = 1 /\ o = "UpdatePet"
      BY <1>0, <1>4, <2>1, ArmsTake DEF Arm
    <2>3. KeyIn(r, 1, None, None)
      BY <2>1, <2>2, <1>21, OtherNames, KeyByPart
    <2>4. KeyFrom(r, 0)
      BY <1>20, <2>3, OtherNames DEF KeyIn
    <2>5. KeyAt("UpdatePet") = 0
      BY DEF KeyAt, OperationsWithKey
    <2> QED BY <2>2, <2>4, <2>5
  <1>5. CASE i = 5
    <2>1. Arm(5, "DELETE", 2, "pet", Param, None, "DeletePet") /\ FirstRoute(r) = Routes[5]
      BY <1>0, <1>5, RouteTable
    <2>2. Len(r.path) = 2 /\ o = "DeletePet"
      BY <1>0, <1>5, <2>1, ArmsTake DEF Arm
    <2>3. KeyIn(r, 2, Param, None)
      BY <2>1, <2>2, <1>21, OtherNames, KeyByPart
    <2>4. KeyFrom(r, 2)
      BY <1>20, <2>3, OtherNames DEF KeyIn
    <2>5. KeyAt("DeletePet") = 2
      BY DEF KeyAt, OperationsWithKey
    <2> QED BY <2>2, <2>4, <2>5
  <1>6. CASE i = 6
    <2>1. Arm(6, "GET", 2, "pet", Param, None, "GetPetById") /\ FirstRoute(r) = Routes[6]
      BY <1>0, <1>6, RouteTable
    <2>2. Len(r.path) = 2 /\ o = "GetPetById"
      BY <1>0, <1>6, <2>1, ArmsTake DEF Arm
    <2>3. KeyIn(r, 2, Param, None)
      BY <2>1, <2>2, <1>21, OtherNames, KeyByPart
    <2>4. KeyFrom(r, 2)
      BY <1>20, <2>3, OtherNames DEF KeyIn
    <2>5. KeyAt("GetPetById") = 2
      BY DEF KeyAt, OperationsWithKey
    <2> QED BY <2>2, <2>4, <2>5
  <1>7. CASE i = 7
    <2>1. Arm(7, "POST", 2, "pet", Param, None, "UpdatePetWithForm") /\ FirstRoute(r) = Routes[7]
      BY <1>0, <1>7, RouteTable
    <2>2. Len(r.path) = 2 /\ o = "UpdatePetWithForm"
      BY <1>0, <1>7, <2>1, ArmsTake DEF Arm
    <2>3. KeyIn(r, 2, Param, None)
      BY <2>1, <2>2, <1>21, OtherNames, KeyByPart
    <2>4. KeyFrom(r, 2)
      BY <1>20, <2>3, OtherNames DEF KeyIn
    <2>5. KeyAt("UpdatePetWithForm") = 2
      BY DEF KeyAt, OperationsWithKey
    <2> QED BY <2>2, <2>4, <2>5
  <1>8. CASE i = 8
    <2>1. Arm(8, "POST", 3, "pet", Param, "uploadImage", "UploadFile") /\ FirstRoute(r) = Routes[8]
      BY <1>0, <1>8, RouteTable
    <2>2. Len(r.path) = 3 /\ o = "UploadFile"
      BY <1>0, <1>8, <2>1, ArmsTake DEF Arm
    <2>3. KeyIn(r, 3, Param, "uploadImage")
      BY <2>1, <2>2, <1>21, OtherNames, KeyByPart
    <2>4. KeyFrom(r, 2)
      BY <1>20, <2>3, OtherNames DEF KeyIn
    <2>5. KeyAt("UploadFile") = 2
      BY DEF KeyAt, OperationsWithKey
    <2> QED BY <2>2, <2>4, <2>5
  <1>9. CASE i = 9
    <2>1. Arm(9, "GET", 2, "store", "inventory", None, "GetInventory") /\ FirstRoute(r) = Routes[9]
      BY <1>0, <1>9, RouteTable
    <2>2. Len(r.path) = 2 /\ o = "GetInventory"
      BY <1>0, <1>9, <2>1, ArmsTake DEF Arm
    <2>3. KeyIn(r, 2, "inventory", None)
      BY <2>1, <2>2, <1>21, OtherNames, KeyByPart
    <2>4. KeyFrom(r, 0)
      BY <1>20, <2>3, OtherNames DEF KeyIn
    <2>5. KeyAt("GetInventory") = 0
      BY DEF KeyAt, OperationsWithKey
    <2> QED BY <2>2, <2>4, <2>5
  <1>10. CASE i = 10
    <2>1. Arm(10, "POST", 2, "store", "order", None, "PlaceOrder") /\ FirstRoute(r) = Routes[10]
      BY <1>0, <1>10, RouteTable
    <2>2. Len(r.path) = 2 /\ o = "PlaceOrder"
      BY <1>0, <1>10, <2>1, ArmsTake DEF Arm
    <2>3. KeyIn(r, 2, "order", None)
      BY <2>1, <2>2, <1>21, OtherNames, KeyByPart
    <2>4. KeyFrom(r, 0)
      BY <1>20, <2>3, OtherNames DEF KeyIn
    <2>5. KeyAt("PlaceOrder") = 0
      BY DEF KeyAt, OperationsWithKey
    <2> QED BY <2>2, <2>4, <2>5
  <1>11. CASE i = 11
    <2>1. Arm(11, "DELETE", 3, "store", "order", Param, "DeleteOrder") /\ FirstRoute(r) = Routes[11]
      BY <1>0, <1>11, RouteTable
    <2>2. Len(r.path) = 3 /\ o = "DeleteOrder"
      BY <1>0, <1>11, <2>1, ArmsTake DEF Arm
    <2>3. KeyIn(r, 3, "order", Param)
      BY <2>1, <2>2, <1>21, OtherNames, KeyByPart
    <2>4. KeyFrom(r, 3)
      BY <1>20, <2>3, OtherNames DEF KeyIn
    <2>5. KeyAt("DeleteOrder") = 3
      BY DEF KeyAt, OperationsWithKey
    <2> QED BY <2>2, <2>4, <2>5
  <1>12. CASE i = 12
    <2>1. Arm(12, "GET", 3, "store", "order", Param, "GetOrderById") /\ FirstRoute(r) = Routes[12]
      BY <1>0, <1>12, RouteTable
    <2>2. Len(r.path) = 3 /\ o = "GetOrderById"
      BY <1>0, <1>12, <2>1, ArmsTake DEF Arm
    <2>3. KeyIn(r, 3, "order", Param)
      BY <2>1, <2>2, <1>21, OtherNames, KeyByPart
    <2>4. KeyFrom(r, 3)
      BY <1>20, <2>3, OtherNames DEF KeyIn
    <2>5. KeyAt("GetOrderById") = 3
      BY DEF KeyAt, OperationsWithKey
    <2> QED BY <2>2, <2>4, <2>5
  <1>13. CASE i = 13
    <2>1. Arm(13, "POST", 1, "user", None, None, "CreateUser") /\ FirstRoute(r) = Routes[13]
      BY <1>0, <1>13, RouteTable
    <2>2. Len(r.path) = 1 /\ o = "CreateUser"
      BY <1>0, <1>13, <2>1, ArmsTake DEF Arm
    <2>3. KeyIn(r, 1, None, None)
      BY <2>1, <2>2, <1>21, OtherNames, KeyByPart
    <2>4. KeyFrom(r, 0)
      BY <1>20, <2>3, OtherNames DEF KeyIn
    <2>5. KeyAt("CreateUser") = 0
      BY DEF KeyAt, OperationsWithKey
    <2> QED BY <2>2, <2>4, <2>5
  <1>14. CASE i = 14
    <2>1. Arm(14, "POST", 2, "user", "createWithList", None, "CreateUsersWithListInput") /\ FirstRoute(r) = Routes[14]
      BY <1>0, <1>14, RouteTable
    <2>2. Len(r.path) = 2 /\ o = "CreateUsersWithListInput"
      BY <1>0, <1>14, <2>1, ArmsTake DEF Arm
    <2>3. KeyIn(r, 2, "createWithList", None)
      BY <2>1, <2>2, <1>21, OtherNames, KeyByPart
    <2>4. KeyFrom(r, 0)
      BY <1>20, <2>3, OtherNames DEF KeyIn
    <2>5. KeyAt("CreateUsersWithListInput") = 0
      BY DEF KeyAt, OperationsWithKey
    <2> QED BY <2>2, <2>4, <2>5
  <1>15. CASE i = 15
    <2>1. Arm(15, "GET", 2, "user", "login", None, "LoginUser") /\ FirstRoute(r) = Routes[15]
      BY <1>0, <1>15, RouteTable
    <2>2. Len(r.path) = 2 /\ o = "LoginUser"
      BY <1>0, <1>15, <2>1, ArmsTake DEF Arm
    <2>3. KeyIn(r, 2, "login", None)
      BY <2>1, <2>2, <1>21, OtherNames, KeyByPart
    <2>4. KeyFrom(r, 0)
      BY <1>20, <2>3, OtherNames DEF KeyIn
    <2>5. KeyAt("LoginUser") = 0
      BY DEF KeyAt, OperationsWithKey
    <2> QED BY <2>2, <2>4, <2>5
  <1>16. CASE i = 16
    <2>1. Arm(16, "GET", 2, "user", "logout", None, "LogoutUser") /\ FirstRoute(r) = Routes[16]
      BY <1>0, <1>16, RouteTable
    <2>2. Len(r.path) = 2 /\ o = "LogoutUser"
      BY <1>0, <1>16, <2>1, ArmsTake DEF Arm
    <2>3. KeyIn(r, 2, "logout", None)
      BY <2>1, <2>2, <1>21, OtherNames, KeyByPart
    <2>4. KeyFrom(r, 0)
      BY <1>20, <2>3, OtherNames DEF KeyIn
    <2>5. KeyAt("LogoutUser") = 0
      BY DEF KeyAt, OperationsWithKey
    <2> QED BY <2>2, <2>4, <2>5
  <1>17. CASE i = 17
    <2>1. Arm(17, "DELETE", 2, "user", Param, None, "DeleteUser") /\ FirstRoute(r) = Routes[17]
      BY <1>0, <1>17, RouteTable
    <2>2. Len(r.path) = 2 /\ o = "DeleteUser"
      BY <1>0, <1>17, <2>1, ArmsTake DEF Arm
    <2>3. KeyIn(r, 2, Param, None)
      BY <2>1, <2>2, <1>21, OtherNames, KeyByPart
    <2>4. KeyFrom(r, 2)
      BY <1>20, <2>3, OtherNames DEF KeyIn
    <2>5. KeyAt("DeleteUser") = 2
      BY DEF KeyAt, OperationsWithKey
    <2> QED BY <2>2, <2>4, <2>5
  <1>18. CASE i = 18
    <2>1. Arm(18, "GET", 2, "user", Param, None, "GetUserByName") /\ FirstRoute(r) = Routes[18]
      BY <1>0, <1>18, RouteTable
    <2>2. Len(r.path) = 2 /\ o = "GetUserByName"
      BY <1>0, <1>18, <2>1, ArmsTake DEF Arm
    <2>3. KeyIn(r, 2, Param, None)
      BY <2>1, <2>2, <1>21, OtherNames, KeyByPart
    <2>4. KeyFrom(r, 2)
      BY <1>20, <2>3, OtherNames DEF KeyIn
    <2>5. KeyAt("GetUserByName") = 2
      BY DEF KeyAt, OperationsWithKey
    <2> QED BY <2>2, <2>4, <2>5
  <1>19. CASE i = 19
    <2>1. Arm(19, "PUT", 2, "user", Param, None, "UpdateUser") /\ FirstRoute(r) = Routes[19]
      BY <1>0, <1>19, RouteTable
    <2>2. Len(r.path) = 2 /\ o = "UpdateUser"
      BY <1>0, <1>19, <2>1, ArmsTake DEF Arm
    <2>3. KeyIn(r, 2, Param, None)
      BY <2>1, <2>2, <1>21, OtherNames, KeyByPart
    <2>4. KeyFrom(r, 2)
      BY <1>20, <2>3, OtherNames DEF KeyIn
    <2>5. KeyAt("UpdateUser") = 2
      BY DEF KeyAt, OperationsWithKey
    <2> QED BY <2>2, <2>4, <2>5
  <1> QED BY <1>0, <1>1, <1>2, <1>3, <1>4, <1>5, <1>6, <1>7, <1>8, <1>9, <1>10,
             <1>11, <1>12, <1>13, <1>14, <1>15, <1>16, <1>17, <1>18, <1>19

-----------------------------------------------------------------------------
(* What arrives of a call: header, query and body.                        *)

(* What the handlers read of a request, and the client's methods write.    *)
LEMMA HandlersRead ==
  \A op \in Operations :
    /\ DOMAIN Handlers[op].query = QueryParameters(op)
    /\ op # "FindPetsByTags" => \A p \in QueryParameters(op) : Handlers[op].query[p] # "all"
    /\ op = "FindPetsByTags" => \A p \in QueryParameters(op) : Handlers[op].query[p] = "all"
  <1> DEFINE Reads(op, h) ==
               /\ DOMAIN h.query = QueryParameters(op)
               /\ op # "FindPetsByTags" => \A p \in QueryParameters(op) : h.query[p] # "all"
               /\ op = "FindPetsByTags" => \A p \in QueryParameters(op) : h.query[p] = "all"
  <1>1. \A op \in Operations : Handlers[op].query = NoQuery /\ QueryParameters(op) = {} => Reads(op, Handlers[op])
    BY DEF NoQuery
  <1>2. Reads("FindPetsByStatus", HandleFindPetsByStatus)
    BY DEF HandleFindPetsByStatus, Handler, QueryParameters
  <1>3. Reads("FindPetsByTags", HandleFindPetsByTags)
    BY DEF HandleFindPetsByTags, Handler, QueryParameters
  <1>4. Reads("UpdatePetWithForm", HandleUpdatePetWithForm)
    BY DEF HandleUpdatePetWithForm, Handler, QueryParameters
  <1>5. Reads("UploadFile", HandleUploadFile)
    BY DEF HandleUploadFile, Handler, QueryParameters
  <1>6. Reads("LoginUser", HandleLoginUser)
    BY DEF HandleLoginUser, Handler, QueryParameters
  <1> HIDE DEF Reads
  <1>7. \A op \in Operations \ {"FindPetsByStatus", "FindPetsByTags", "UpdatePetWithForm", "UploadFile", "LoginUser"} :
          Handlers[op].query = NoQuery /\ QueryParameters(op) = {}
    <2>1. \A op \in Operations \ {"FindPetsByStatus", "FindPetsByTags", "UpdatePetWithForm", "UploadFile", "LoginUser"} :
            Handlers[op].query = NoQuery
      BY OperationsByName
      DEF OperationNames, Handlers, Handler, HandleAddPet, HandleUpdatePet, HandleDeletePet, HandleGetPetById,
        HandleGetInventory, HandlePlaceOrder, HandleDeleteOrder, HandleGetOrderById, HandleCreateUser,
        HandleCreateUsersWithListInput, HandleLogoutUser, HandleDeleteUser, HandleGetUserByName, HandleUpdateUser
    <2> QED BY <2>1 DEF QueryParameters
  <1>8. /\ Handlers["FindPetsByStatus"] = HandleFindPetsByStatus
        /\ Handlers["FindPetsByTags"] = HandleFindPetsByTags
        /\ Handlers["UpdatePetWithForm"] = HandleUpdatePetWithForm
        /\ Handlers["UploadFile"] = HandleUploadFile
        /\ Handlers["LoginUser"] = HandleLoginUser
    BY DEF Handlers
  <1>9. \A op \in Operations : Reads(op, Handlers[op])
    BY <1>1, <1>2, <1>3, <1>4, <1>5, <1>6, <1>7, <1>8
  <1> QED BY <1>9 DEF Reads

(* The operations whose body arrives; the XML of the others is dropped, or *)
(* refused where the body must be there.                                   *)
KeepsBody == {"UploadFile", "CreateUsersWithListInput"}
MustHaveBody == {"AddPet", "UpdatePet"}
LosesBody == {"PlaceOrder", "CreateUser", "UpdateUser"}

LEMMA BodiesRead ==
  /\ Handlers["UploadFile"].body = "bytes" /\ Handlers["CreateUsersWithListInput"].body = "list"
  /\ Methods["CreateUsersWithListInput"].body = JsonBody
  /\ \A op \in LosesBody : Handlers[op].body = "optional" /\ Methods[op].body = XmlAsJson
  /\ \A op \in MustHaveBody : Handlers[op].body = "required" /\ Methods[op].body = XmlAsJson
  /\ \A op \in Operations \ OperationsWithBody : Handlers[op].body = None
  <1>1. /\ Handlers["UploadFile"].body = "bytes" /\ Handlers["CreateUsersWithListInput"].body = "list"
        /\ \A op \in LosesBody : Handlers[op].body = "optional"
        /\ \A op \in MustHaveBody : Handlers[op].body = "required"
    BY DEF LosesBody, MustHaveBody, Handlers, Handler, HandleUploadFile, HandleCreateUsersWithListInput,
      HandlePlaceOrder, HandleCreateUser, HandleUpdateUser, HandleAddPet, HandleUpdatePet
  <1>2. /\ Methods["CreateUsersWithListInput"].body = JsonBody
        /\ \A op \in LosesBody \cup MustHaveBody : Methods[op].body = XmlAsJson
    BY DEF LosesBody, MustHaveBody, Methods, Method, CallCreateUsersWithListInput,
      CallPlaceOrder, CallCreateUser, CallUpdateUser, CallAddPet, CallUpdatePet
  <1>3. \A op \in Operations \ OperationsWithBody : Handlers[op].body = None
    BY OperationsByName
    DEF OperationNames, OperationsWithBody, Handlers, Handler, HandleFindPetsByStatus, HandleFindPetsByTags,
      HandleDeletePet, HandleGetPetById, HandleUpdatePetWithForm, HandleGetInventory, HandleDeleteOrder,
      HandleGetOrderById, HandleLoginUser, HandleLogoutUser, HandleDeleteUser, HandleGetUserByName
  <1> QED BY <1>1, <1>2, <1>3

LEMMA BodyArrives ==
  ASSUME NEW k, TypedCall(k), NEW a, NEW r, r = Sent(k, a), NEW h, h = Handlers[k.op]
  PROVE  /\ k.op \in KeepsBody => BodyOf(h, r) = k.body
         /\ k.op \notin KeepsBody => BodyOf(h, r) = NoItems
         /\ k.op \in MustHaveBody => BadBody(h, r)
  <1>1. /\ r.body.items = k.body /\ r.label = Methods[k.op].body.label
        /\ r.body.format = IF k.body = NoItems THEN "empty" ELSE Methods[k.op].body.format
    BY DEF Sent, SentBody
  <1>2. CASE k.op = "UploadFile"
    BY <1>1, <1>2, BodiesRead DEF BodyOf, KeepsBody, MustHaveBody
  <1>3. CASE k.op = "CreateUsersWithListInput"
    <2>1. Parses(h, r) <=> k.body # NoItems
      BY <1>1, <1>3, BodiesRead DEF Parses, JsonBody
    <2> QED BY <1>1, <1>3, <2>1, BodiesRead DEF BodyOf, KeepsBody, MustHaveBody, None
  <1>4. CASE k.op \in LosesBody \cup MustHaveBody
    <2>1. ~Parses(h, r)
      BY <1>1, <1>4, BodiesRead DEF Parses, XmlAsJson
    <2> QED BY <1>4, <2>1, BodiesRead DEF BodyOf, BadBody, KeepsBody, LosesBody, MustHaveBody
  <1>5. CASE k.op \notin OperationsWithBody
    BY <1>5, BodiesRead DEF TypedCall, BodyOf, KeepsBody, MustHaveBody, OperationsWithBody, None
  <1> QED BY <1>2, <1>3, <1>4, <1>5 DEF OperationsWithBody, LosesBody, MustHaveBody

LEMMA QueryArrives ==
  ASSUME NEW k, TypedCall(k), Plain(k), NEW a, NEW r, r = Sent(k, a), NEW h, h = Handlers[k.op]
  PROVE  QueryOf(h, r) = k.query
  <1> DEFINE D == DOMAIN k.query
             f == k.query
  <1>1. D \subseteq DOMAIN h.query /\ f = [p \in D |-> f[p]]
        /\ \A p \in D : f[p] \in Seq(STRING) /\ Len(f[p]) = 1
    BY HandlersRead DEF TypedCall, Plain
  <1>2. \A p \in D : <<f[p][1]>> = f[p]
    <2> SUFFICES ASSUME NEW s \in Seq(STRING), Len(s) = 1 PROVE <<s[1]>> = s
      BY <1>1
    <2> DEFINE x == s[1]
    <2>1. x \in STRING
      BY ElementOfSeq
    <2> HIDE DEF x
    <2>2. <<x>> \in Seq(STRING) /\ Len(<<x>>) = 1 /\ <<x>>[1] = x
      BY <2>1
    <2>3. PICK t : t = <<x>>
      OBVIOUS
    <2>4. t = s
      BY <2>2, <2>3, SeqEqual DEF x
    <2> QED BY <2>3, <2>4 DEF x
  <1>3. CASE k.op # "FindPetsByTags"
    <2>1. r.query = f
      BY <1>3 DEF Sent, SentQuery
    <2>2. Known(h, r) = D
      BY <1>1, <2>1 DEF Known
    <2>3. \A p \in D : h.query[p] # "all"
      BY <1>3, HandlersRead DEF TypedCall
    <2> HIDE DEF D, f
    <2>4. QueryOf(h, r) = [p \in D |-> <<f[p][1]>>]
      BY <2>1, <2>2, <2>3 DEF QueryOf
    <2> QED BY <1>1, <1>2, <2>4 DEF f
  <1>4. CASE k.op = "FindPetsByTags"
    <2>1. r.query = [p \in D |-> <<Joined(f[p])>>]
      BY <1>4 DEF Sent, SentQuery
    <2>2. \A p \in D : <<Joined(f[p])>> = f[p]
      BY <1>1, <1>2, JoinedOne
    <2>3. r.query = f
      <3> HIDE DEF D, f
      <3> QED BY <1>1, <2>1, <2>2
    <2>4. Known(h, r) = D
      BY <1>1, <2>3 DEF Known
    <2>5. \A p \in D : h.query[p] = "all"
      BY <1>4, HandlersRead DEF TypedCall
    <2> HIDE DEF D, f
    <2>6. QueryOf(h, r) = [p \in D |-> f[p]]
      BY <2>3, <2>4, <2>5 DEF QueryOf
    <2> QED BY <1>1, <2>6 DEF f
  <1> QED BY <1>3, <1>4

LEMMA KeyArrives ==
  ASSUME NEW k, TypedCall(k), Plain(k), NEW a, NEW r, r = Sent(k, a), Dispatched(r) = k.op
  PROVE  KeyOf(r) = k.key
  <1> DEFINE key == k.key
             p == r.path
             m == r.method
  <1>1. Written(k.op, key, m, p)
    <2>1. m = Methods[k.op].method /\ p = PathOf(k) /\ k.op \in Operations
      BY DEF Sent, TypedCall
    <2> QED BY <2>1, ClientWrites
  <1>2. KeyFrom(r, KeyAt(k.op))
    BY <1>1, PathIsSequence, KeyFound DEF TypedCall
  <1>3. key \notin AwkwardNames /\ Decoded(key) = key
    BY DEF Plain, AwkwardNames, Decoded
  <1>4. CASE k.op \notin OperationsWithKey
    BY <1>2, <1>4 DEF KeyFrom, KeyAt, TypedCall
  <1>5. CASE k.op \in {"DeleteOrder", "GetOrderById"}
    <2>1. p[3] = key
      BY <1>1, <1>3, <1>5 DEF Written, NameAfterTwo
    <2> QED BY <1>2, <1>3, <1>5, <2>1 DEF KeyFrom, KeyAt, OperationsWithKey
  <1>6. CASE k.op \in OperationsWithKey \ {"DeleteOrder", "GetOrderById"}
    <2>1. p[2] = key
      BY <1>1, <1>3, <1>6 DEF OperationsWithKey, Written, NameAfterOne, NameBetween
    <2> QED BY <1>2, <1>3, <1>6, <2>1 DEF KeyFrom, KeyAt
  <1> QED BY <1>4, <1>5, <1>6

LEMMA HeaderArrives ==
  ASSUME NEW k, TypedCall(k), NEW a, NEW r, r = Sent(k, a)
  PROVE  HeaderOf(k.op, r) = k.header
  <1>1. k.op = "DeletePet" => "apiKey" \notin Methods[k.op].sends
    BY DEF Methods, CallDeletePet, Method
  <1> QED BY <1>1 DEF TypedCall, HeaderOf, Sent

(* A task that a call has become.                                          *)
Carried(k, t) ==
  /\ t.op = k.op /\ t.key = k.key /\ t.header = k.header /\ t.query = k.query
  /\ k.op \notin KeepsBody => t.body = NoItems
  /\ k.op \in KeepsBody => IsSuffix(t.body, k.body) /\ (k.body # NoItems => t.body # NoItems)

Comes(k, t) ==
  /\ t.op = k.op \/ Misread(k.op, t.op)
  /\ t.op \notin MustHaveBody
  /\ Plain(k) /\ t.op = k.op => Carried(k, t)

LEMMA WholeIsSuffix == \A b \in Bodies : IsSuffix(b, b)
  <1> SUFFICES ASSUME NEW b \in Bodies PROVE IsSuffix(b, b)
    OBVIOUS
  <1>1. Len(b) \in Nat
    BY LenProperties DEF Bodies
  <1>2. \A i \in 1..Len(b) : b[i] = b[i + Len(b) - Len(b)]
    BY <1>1
  <1> QED BY <1>1, <1>2, SuffixIndexed DEF Bodies

(* What the application is called with comes from the call of the client.  *)
LEMMA CallComes ==
  ASSUME NEW k, TypedCall(k), NEW a, NEW r, r = Sent(k, a), NEW auth, Refusal(r, auth) = 0,
         NEW t, t = Received(Dispatched(r), r)
  PROVE  Comes(k, t)
  <1> DEFINE o == Dispatched(r)
  <1>1. o \in Operations /\ k.op \in Operations
    <2>1. Dispatched(r) \in Operations
      BY RefusalCodes, ZenonT(30)
    <2> QED BY <2>1 DEF TypedCall
  <1>2. o = k.op \/ Misread(k.op, o)
    BY <1>1, SentGoes
  <1>3. t.op = o /\ t.key = KeyOf(r) /\ t.header = HeaderOf(o, r)
        /\ t.query = QueryOf(Handlers[o], r) /\ t.body = BodyOf(Handlers[o], r)
    BY DEF Received
  <1>4. o \notin MustHaveBody
    <2> SUFFICES ASSUME o \in MustHaveBody PROVE FALSE
      OBVIOUS
    <2>1. o = k.op
      BY <1>2 DEF Misread, MustHaveBody
    <2>2. BadBody(Handlers[o], r)
      BY <2>1, BodyArrives
    <2> QED BY <1>1, <2>2, OperationsByName DEF Refusal
  <1>5. ASSUME Plain(k), o = k.op PROVE Carried(k, t)
    <2>1. t.key = k.key
      BY <1>3, <1>5, KeyArrives
    <2>2. t.header = k.header
      BY <1>3, <1>5, HeaderArrives
    <2>3. t.query = k.query
      BY <1>3, <1>5, QueryArrives
    <2>4. /\ k.op \notin KeepsBody => t.body = NoItems
          /\ k.op \in KeepsBody => t.body = k.body
      BY <1>3, <1>5, BodyArrives
    <2>5. k.op \in KeepsBody => k.body \in Bodies
      BY DEF TypedCall, KeepsBody, OperationsWithBody
    <2> QED BY <1>3, <1>5, <2>1, <2>2, <2>3, <2>4, <2>5, WholeIsSuffix DEF Carried
  <1> QED BY <1>2, <1>3, <1>4, <1>5 DEF Comes

Refusals == {Refused(c) : c \in {400, 403, 404, 405}}
PlainRefusals == {Refused(c) : c \in {400, 403}}

LEMMA RefusedAs ==
  ASSUME NEW r, NEW auth, NEW code, code = Refusal(r, auth), code # 0
  PROVE  Refused(code) \in Refusals
  BY RefusalCodes DEF Refusals

(* The router has a route for a plain call.                                *)
LEMMA PlainIsNotLost ==
  ASSUME NEW k, TypedCall(k), Plain(k), NEW a, NEW r, r = Sent(k, a), NEW auth,
         NEW code, code = Refusal(r, auth), code # 0
  PROVE  Refused(code) \in PlainRefusals
  <1>1. Dispatched(r) \in Operations
    BY PlainIsDispatched DEF TypedCall, Plain
  <1>2. code \in {400, 403}
    BY <1>1, OperationsByName DEF Refusal
  <1> QED BY <1>2 DEF PlainRefusals

(* The codes of the variants that only the application can bring about.    *)
LEMMA ClientCodes ==
  \A op \in Operations : \A v \in DOMAIN Methods[op].status :
    /\ v \in Successes => Methods[op].status[v] = 200
    /\ v \in OnlyFromApplication => Methods[op].status[v] \in {200, 404, 422}
  <1> DEFINE Coded(m) == \A v \in DOMAIN m.status :
                           /\ v \in Successes => m.status[v] = 200
                           /\ v \in OnlyFromApplication => m.status[v] \in {200, 404, 422}
  <1> USE DEF Successes, OnlyFromApplication, Method
  <1>1. Coded(CallAddPet) /\ Coded(CallFindPetsByStatus) /\ Coded(CallFindPetsByTags) /\ Coded(CallUpdatePet)
    BY DEF CallAddPet, CallFindPetsByStatus, CallFindPetsByTags, CallUpdatePet
  <1>2. Coded(CallDeletePet) /\ Coded(CallGetPetById) /\ Coded(CallUpdatePetWithForm) /\ Coded(CallUploadFile)
    BY DEF CallDeletePet, CallGetPetById, CallUpdatePetWithForm, CallUploadFile
  <1>3. Coded(CallGetInventory) /\ Coded(CallPlaceOrder) /\ Coded(CallDeleteOrder) /\ Coded(CallGetOrderById)
    BY DEF CallGetInventory, CallPlaceOrder, CallDeleteOrder, CallGetOrderById
  <1>4. Coded(CallCreateUser) /\ Coded(CallCreateUsersWithListInput) /\ Coded(CallLoginUser) /\ Coded(CallLogoutUser)
    BY DEF CallCreateUser, CallCreateUsersWithListInput, CallLoginUser, CallLogoutUser
  <1>5. Coded(CallDeleteUser) /\ Coded(CallGetUserByName) /\ Coded(CallUpdateUser)
    BY DEF CallDeleteUser, CallGetUserByName, CallUpdateUser
  <1> HIDE DEF Coded
  <1>6. \A op \in Operations : Coded(Methods[op])
    BY <1>1, <1>2, <1>3, <1>4, <1>5, OperationsByName DEF OperationNames, Methods
  <1> QED BY <1>6 DEF Coded

LEMMA ResultHasCode ==
  ASSUME NEW op, NEW r, NEW v, v = ResultOf(op, r), v \in OnlyFromApplication
  PROVE  v \in DOMAIN Methods[op].status /\ Methods[op].status[v] = r.code /\ Readable(op, r)
  BY DEF ResultOf, OnlyFromApplication, Successes

LEMMA RefusalsAreNoResults ==
  ASSUME NEW op \in Operations, NEW r
  PROVE  /\ r \in Refusals => ResultOf(op, r) \notin Successes
         /\ r \in PlainRefusals => ResultOf(op, r) \notin OnlyFromApplication
  <1>1. r \in Refusals => r.code \in {400, 403, 404, 405}
    BY DEF Refusals, Refused
  <1>2. r \in PlainRefusals => r.code \in {400, 403}
    BY DEF PlainRefusals, Refused
  <1>3. Successes \subseteq OnlyFromApplication
    BY DEF OnlyFromApplication
  <1> QED BY <1>1, <1>2, <1>3, ResultHasCode, ClientCodes

(* Nor is the answer of the operation a name was taken for.                *)
LEMMA MisreadAnswers ==
  ASSUME NEW op \in Operations, NEW o \in Operations, Misread(op, o), NEW answer \in Answers(o)
  PROVE  ResultOf(op, Response(o, answer)) \notin OnlyFromApplication
  <1> DEFINE r == Response(o, answer)
  <1>1. r.code \in {200, 400, 500}
    BY DEF Misread, Response, Answers, Handlers, Handler, HandleFindPetsByStatus, HandleFindPetsByTags,
      HandleLoginUser, HandleLogoutUser
  <1>2. r.code = 200 => r.body = Handlers[o].yields
    BY DEF Response
  <1>3. Methods[op].reads \notin {"nothing", Handlers[o].yields}
    BY DEF Misread, Methods, Method, CallGetPetById, CallGetUserByName, Handlers, Handler,
      HandleFindPetsByStatus, HandleFindPetsByTags, HandleLoginUser, HandleLogoutUser
  <1> HIDE DEF r
  <1>4. ~(r.code = 200 /\ Readable(op, r))
    BY <1>2, <1>3 DEF Readable
  <1> QED BY <1>1, <1>4, ResultHasCode, ClientCodes DEF r

-----------------------------------------------------------------------------
(* The way of an exchange.                                                *)

(* The operations that fail without their body, which they may lack.       *)
Says(t, answer) == t.op \in LosesBody /\ t.body = NoItems => answer \notin OnlyFromApplication

IsPlain(e) == call[e] # NoCall /\ Plain(call[e])

(* The way of an exchange: the request is the client's, the task is what   *)
(* the request became, and so is what the application spoke to; where it   *)
(* did not speak, the server refused or no answer arrived.                 *)
Journey(e) ==
  /\ phase[e] = "idle" => call[e] = NoCall
  /\ phase[e] = "sent" =>
       /\ DOMAIN request[e].path = 1..Len(request[e].path)
       /\ call[e] # NoCall => \E a \in Contexts : request[e] = Sent(call[e], a)
  /\ phase[e] \in Running =>
       /\ task[e].op \notin OperationsWithKey => task[e].key = None
       /\ call[e] # NoCall => Comes(call[e], task[e])
  /\ said[e] # NothingSaid =>
       /\ IsCall(said[e].call) /\ Says(said[e].call, said[e].answer)
       /\ call[e] # NoCall => Comes(call[e], said[e].call)
  /\ phase[e] = "answered" /\ said[e] = NothingSaid =>
       response[e] \in IF IsPlain(e) THEN PlainRefusals ELSE Refusals
  /\ phase[e] = "done" /\ said[e] = NothingSaid /\ call[e] # NoCall =>
       result[e] \notin IF IsPlain(e) THEN OnlyFromApplication ELSE Successes

JInv == IInv /\ \A e \in Exchanges : Journey(e)

LEMMA JourneysBegin == Init => JInv
  <1> SUFFICES ASSUME Init PROVE JInv
    OBVIOUS
  <1>1. IInv
    BY InitEstablishes
  <1>2. ASSUME NEW e \in Exchanges PROVE Journey(e)
    <2>1. phase[e] = "idle" /\ call[e] = NoCall /\ said[e] = NothingSaid
      BY DEF Init
    <2> QED BY <2>1 DEF Journey, Running
  <1> QED BY <1>1, <1>2 DEF JInv

LEMMA OthersGoOn ==
  ASSUME NEW e \in Exchanges, Journey(e),
         phase'[e] = phase[e], call'[e] = call[e], request'[e] = request[e], task'[e] = task[e],
         said'[e] = said[e], response'[e] = response[e], result'[e] = result[e]
  PROVE  Journey(e)'
  BY DEF Journey, IsPlain

LEMMA OneJourneyAtATime ==
  ASSUME JInv, NEW e \in Exchanges, Only(e), IInv', Journey(e)'
  PROVE  JInv'
  <1>1. \A d \in Exchanges : Journey(d)'
    <2> SUFFICES ASSUME NEW d \in Exchanges, d # e PROVE Journey(d)'
      OBVIOUS
    <2> QED BY OthersGoOn DEF JInv, Only
  <1> QED BY <1>1 DEF JInv

(* The call of an exchange that has one is typed.                          *)
LEMMA CallOfExchange ==
  ASSUME IInv, NEW e \in Exchanges, call[e] # NoCall
  PROVE  TypedCall(call[e]) /\ call[e].op \in Operations
  BY CallsAreTyped DEF IInv, ExchangeOK

LEMMA NoSuccessYet ==
  {None, "Err", "panic", NoAnswer} \cap OnlyFromApplication = {} /\ Successes \subseteq OnlyFromApplication
  BY DEF OnlyFromApplication, Successes, None, NoAnswer

(* The client.                                                             *)

LEMMA SendGoesOn ==
  ASSUME JInv, NEW e \in Exchanges, NEW k \in Calls[e], NEW a \in Contexts, Send(e, k, a)
  PROVE  JInv'
  <1>1. Becomes(e, "sent", k, Sent(k, a), task[e], said[e], response[e], result[e]) /\ IInv'
    BY SendBecomes, SendPreserves DEF JInv
  <1>2. said[e] = NothingSaid
    BY DEF JInv, IInv, ExchangeOK, Send
  <1>3. DOMAIN Sent(k, a).path = 1..Len(Sent(k, a).path)
    <2>1. Sent(k, a).path = PathOf(k)
      BY DEF Sent
    <2>2. DOMAIN PathOf(k) = 1..Len(PathOf(k))
      BY CallsAreTyped, ClientWrites, PathIsSequence
    <2> QED BY <2>1, <2>2
  <1>4. Journey(e)'
    BY <1>1, <1>2, <1>3 DEF Becomes, Journey, Running
  <1> QED BY <1>1, <1>4, OneJourneyAtATime DEF Becomes

LEMMA FailToSendGoesOn ==
  ASSUME JInv, NEW e \in Exchanges, NEW k \in Calls[e], FailToSend(e, k)
  PROVE  JInv'
  <1>1. Becomes(e, "done", k, request[e], task[e], said[e], response[e],
                (IF Panics(k) THEN "panic" ELSE "Err")) /\ IInv'
    BY FailToSendBecomes, FailToSendPreserves DEF JInv
  <1>2. said[e] = NothingSaid
    BY DEF JInv, IInv, ExchangeOK, FailToSend
  <1>3. result'[e] \notin OnlyFromApplication /\ result'[e] \notin Successes
    BY <1>1, NoSuccessYet DEF Becomes
  <1>4. Journey(e)'
    BY <1>1, <1>2, <1>3 DEF Becomes, Journey, Running
  <1> QED BY <1>1, <1>4, OneJourneyAtATime DEF Becomes

LEMMA SendOtherGoesOn ==
  ASSUME JInv, NEW e \in Exchanges, NEW r \in Requests[e], SendOther(e, r)
  PROVE  JInv'
  <1>1. Becomes(e, "sent", call[e], r, task[e], said[e], response[e], result[e]) /\ IInv'
    BY SendOtherBecomes, SendOtherPreserves DEF JInv
  <1>2. said[e] = NothingSaid /\ call[e] = NoCall
    BY DEF JInv, IInv, ExchangeOK, Journey, SendOther
  <1>3. DOMAIN r.path = 1..Len(r.path)
    BY HyperAssumption, LenProperties DEF HyperAssumption
  <1>4. Journey(e)'
    BY <1>1, <1>2, <1>3 DEF Becomes, Journey, Running
  <1> QED BY <1>1, <1>4, OneJourneyAtATime DEF Becomes

LEMMA ReadGoesOn ==
  ASSUME JInv, NEW e \in Exchanges, Read(e)
  PROVE  JInv'
  <1>1. Becomes(e, "done", call[e], request[e], task[e], said[e], NoResponse,
                (IF call[e] = NoCall THEN None ELSE ResultOf(call[e].op, response[e]))) /\ IInv'
    BY ReadBecomes, ReadPreserves DEF JInv
  <1>2. phase[e] = "answered" /\ Journey(e)
    BY DEF JInv, Read
  <1>3. ASSUME said[e] = NothingSaid, call[e] # NoCall
        PROVE  result'[e] \notin IF IsPlain(e) THEN OnlyFromApplication ELSE Successes
    <2>1. response[e] \in IF IsPlain(e) THEN PlainRefusals ELSE Refusals
      BY <1>2, <1>3 DEF Journey
    <2>2. result'[e] = ResultOf(call[e].op, response[e]) /\ call[e].op \in Operations
      BY <1>1, <1>3, CallOfExchange DEF Becomes, JInv
    <2> QED BY <2>1, <2>2, RefusalsAreNoResults
  <1>4. IsPlain(e)' <=> IsPlain(e)
    BY <1>1 DEF IsPlain, Becomes
  <1>5. Journey(e)'
    BY <1>1, <1>2, <1>3, <1>4 DEF Becomes, Journey, Running
  <1> QED BY <1>1, <1>5, OneJourneyAtATime DEF Becomes

LEMMA ReturnGoesOn ==
  ASSUME JInv, NEW e \in Exchanges, Return(e)
  PROVE  JInv'
  <1>1. Becomes(e, "idle", NoCall, request[e], task[e], NothingSaid, response[e], None) /\ IInv'
    BY ReturnBecomes, ReturnPreserves DEF JInv
  <1>2. Journey(e)'
    BY <1>1 DEF Becomes, Journey, Running
  <1> QED BY <1>1, <1>2, OneJourneyAtATime DEF Becomes

(* The connection.                                                         *)

LEMMA LoseMessageGoesOn ==
  ASSUME JInv, NEW e \in Exchanges, LoseMessage(e)
  PROVE  JInv'
  <1>1. Becomes(e, "done", call[e], NoRequest, task[e], said[e], NoResponse, NoAnswer) /\ IInv'
    BY LoseMessageBecomes, LoseMessagePreserves DEF JInv
  <1>2. Journey(e)
    BY DEF JInv
  <1>3. result'[e] \notin OnlyFromApplication /\ result'[e] \notin Successes
    BY <1>1, NoSuccessYet DEF Becomes
  <1>4. Journey(e)'
    BY <1>1, <1>2, <1>3 DEF Becomes, Journey, Running
  <1> QED BY <1>1, <1>4, OneJourneyAtATime DEF Becomes

LEMMA AbandonGoesOn ==
  ASSUME JInv, NEW e \in Exchanges, Abandon(e)
  PROVE  JInv'
  <1>1. Becomes(e, "abandoned", call[e], request[e], task[e], said[e], response[e], result[e]) /\ IInv'
    BY AbandonBecomes, AbandonPreserves DEF JInv
  <1>2. Journey(e) /\ phase[e] \in Running
    BY DEF JInv, Abandon, Running
  <1>3. Journey(e)'
    BY <1>1, <1>2 DEF Becomes, Journey, Running
  <1> QED BY <1>1, <1>3, OneJourneyAtATime DEF Becomes

LEMMA DropGoesOn ==
  ASSUME JInv, NEW e \in Exchanges, Drop(e)
  PROVE  JInv'
  <1>1. Becomes(e, "idle", NoCall, request[e], NoCall, said[e], response[e], result[e]) /\ IInv'
    BY DropBecomes, DropPreserves DEF JInv
  <1>2. said[e] = NothingSaid
    BY DEF JInv, IInv, ExchangeOK, Drop
  <1>3. Journey(e)'
    BY <1>1, <1>2 DEF Becomes, Journey, Running
  <1> QED BY <1>1, <1>3, OneJourneyAtATime DEF Becomes

(* The server.                                                             *)

LEMMA SentIsOfTheCall ==
  ASSUME NEW e \in Exchanges, Journey(e), phase[e] = "sent", call[e] # NoCall
  PROVE  \E a \in Contexts : request[e] = Sent(call[e], a)
  BY DEF Journey

LEMMA ServeGoesOn ==
  ASSUME JInv, NEW e \in Exchanges, Serve(e)
  PROVE  JInv'
  <1> DEFINE r == request[e]
             code == Refusal(r, Granted(e))
             t == Received(Dispatched(r), r)
  <1>1. /\ phase[e] = "sent" /\ said[e] = NothingSaid /\ IInv /\ IInv'
        /\ DOMAIN r.path = 1..Len(r.path)
    <2>1. IInv /\ IInv' /\ Journey(e)
      BY ServePreserves DEF JInv
    <2>2. phase[e] = "sent"
      BY DEF Serve
    <2>3. said[e] = NothingSaid
      BY <2>1, <2>2 DEF IInv, ExchangeOK
    <2>4. DOMAIN r.path = 1..Len(r.path)
      BY <2>1, <2>2 DEF Journey
    <2> QED BY <2>1, <2>2, <2>3, <2>4
  <1>2. call[e] # NoCall => \E a \in Contexts : r = Sent(call[e], a)
    <2>1. Journey(e)
      BY DEF JInv
    <2> QED BY <1>1, <2>1, SentIsOfTheCall
  <1>3. CASE code = 0
    <2>1. Becomes(e, "called", call[e], NoRequest, t, said[e], response[e], result[e])
      BY <1>1, <1>3, ServeCalls
    <2>2. t.op \notin OperationsWithKey => t.key = None
      <3>1. Dispatched(r) \in Operations
        BY <1>3, RefusalCodes
      <3>2. KeyFrom(r, KeyAt(Dispatched(r)))
        BY <1>1, <3>1, KeyFound
      <3>3. t.op = Dispatched(r) /\ t.key = KeyOf(r)
        BY DEF Received
      <3> QED BY <3>2, <3>3 DEF KeyFrom, KeyAt
    <2>3. ASSUME call[e] # NoCall PROVE Comes(call[e], t)
      <3>1. PICK a \in Contexts : r = Sent(call[e], a)
        BY <1>2, <2>3
      <3>2. TypedCall(call[e])
        BY <1>1, <2>3, CallOfExchange
      <3> HIDE DEF r
      <3> QED BY <1>3, <3>1, <3>2, CallComes, Zenon
    <2> HIDE DEF t
    <2>4. Journey(e)'
      BY <1>1, <2>1, <2>2, <2>3 DEF Becomes, Journey, Running
    <2> QED BY <1>1, <2>1, <2>4, OneJourneyAtATime DEF Becomes
  <1>4. CASE code # 0
    <2>1. Becomes(e, "answered", call[e], NoRequest, task[e], said[e], Refused(code), result[e])
      BY <1>1, <1>4, ServeRefuses
    <2>2. Refused(code) \in Refusals
      BY <1>4, RefusedAs
    <2>3. ASSUME IsPlain(e) PROVE Refused(code) \in PlainRefusals
      <3>1. call[e] # NoCall /\ Plain(call[e])
        BY <2>3 DEF IsPlain
      <3>2. PICK a \in Contexts : r = Sent(call[e], a)
        BY <1>2, <3>1
      <3>3. TypedCall(call[e])
        BY <1>1, <3>1, CallOfExchange
      <3> HIDE DEF r
      <3> QED BY <1>4, <3>1, <3>2, <3>3, PlainIsNotLost, Zenon
    <2>4. IsPlain(e)' <=> IsPlain(e)
      BY <2>1 DEF IsPlain, Becomes
    <2> HIDE DEF code
    <2>5. Journey(e)'
      BY <1>1, <2>1, <2>2, <2>3, <2>4 DEF Becomes, Journey, Running
    <2> QED BY <1>1, <2>1, <2>5, OneJourneyAtATime DEF Becomes
  <1> QED BY <1>3, <1>4

(* The application.                                                        *)

LEMMA AnswerGoesOn ==
  ASSUME JInv, NEW e \in Exchanges, NEW answer, Answer(e, answer), phase[e] \in Running,
         Says(task[e], answer), IInv'
  PROVE  JInv'
  <1> DEFINE s == [call |-> task[e], answer |-> answer]
  <1>1. IInv /\ Journey(e) /\ IsCall(task[e])
    BY DEF JInv, IInv, ExchangeOK
  <1>2. CASE phase[e] = "called"
    <2>1. Becomes(e, "answered", call[e], request[e], NoCall, s, Response(task[e].op, answer), result[e])
      BY <1>1, <1>2, AnswerArrives
    <2>2. s.call = task[e] /\ s.answer = answer
      OBVIOUS
    <2>3. s # NothingSaid
      BY <1>1, <1>2, <2>2, NothingYet, OperationsByName DEF IInv, ExchangeOK
    <2> HIDE DEF s
    <2>4. Journey(e)'
      BY <1>1, <1>2, <2>1, <2>2, <2>3 DEF Becomes, Journey, Running
    <2> QED BY <2>1, <2>4, OneJourneyAtATime DEF Becomes
  <1>3. CASE phase[e] # "called"
    <2>1. Becomes(e, "idle", NoCall, request[e], NoCall, said[e], response[e], result[e])
      BY <1>1, <1>3, AnswerIsLost
    <2>2. said[e] = NothingSaid
      BY <1>1, <1>3 DEF IInv, ExchangeOK, Running
    <2>3. Journey(e)'
      BY <2>1, <2>2 DEF Becomes, Journey, Running
    <2> QED BY <2>1, <2>3, OneJourneyAtATime DEF Becomes
  <1> QED BY <1>2, <1>3

LEMMA SuffixWhen ==
  ASSUME NEW S, NEW s \in Seq(S), NEW t \in Seq(S), Len(s) <= Len(t),
         \A i \in 1..Len(s) : s[i] = t[i + Len(t) - Len(s)]
  PROVE  IsSuffix(s, t)
  BY SuffixIndexed

LEMMA EmptyIsSuffix ==
  ASSUME NEW S, NEW s \in Seq(S), NEW t \in Seq(S), Len(s) = 0
  PROVE  IsSuffix(s, t)
  <1>1. Len(s) <= Len(t) /\ 1..Len(s) = {}
    BY LenProperties
  <1> QED BY <1>1, SuffixWhen

LEMMA TailOfSuffix ==
  ASSUME NEW b \in Bodies, NEW c \in Bodies, b # NoItems, Len(b) # 1, IsSuffix(b, c)
  PROVE  Tail(b) \in Bodies /\ Tail(b) # NoItems /\ IsSuffix(Tail(b), c)
  <1> DEFINE S == [name : STRING, word : Passwords]
             t == Tail(b)
  <1>1. b \in Seq(S) /\ c \in Seq(S) /\ b # <<>>
    BY DEF Bodies, NoItems
  <1> HIDE DEF S
  <1>2. t \in Seq(S) /\ t # <<>>
    BY <1>1, TailOfMore
  <1>3. Len(b) \in Nat /\ Len(c) \in Nat
    BY <1>1, LenProperties
  <1>4. Len(t) = Len(b) - 1 /\ \A i \in 1..Len(t) : t[i] = b[i + 1]
    BY <1>1, HeadTailProperties
  <1>5. Len(b) <= Len(c) /\ \A i \in 1..Len(b) : b[i] = c[i + Len(c) - Len(b)]
    BY <1>1, SuffixIndexed
  <1> HIDE DEF t
  <1>6. ASSUME NEW i \in 1..Len(t) PROVE t[i] = c[i + Len(c) - Len(t)]
    <2>1. i + 1 \in 1..Len(b) /\ (i + 1) + Len(c) - Len(b) = i + Len(c) - Len(t)
      BY <1>3, <1>4
    <2> QED BY <1>4, <1>5, <2>1
  <1>7. IsSuffix(t, c)
    <2>1. Len(t) <= Len(c) /\ t \in Seq(S) /\ c \in Seq(S)
      BY <1>1, <1>2, <1>3, <1>4, <1>5
    <2> QED BY <1>6, <2>1, SuffixWhen
  <1> QED BY <1>2, <1>7 DEF t, Bodies, S, NoItems

(* What is left of a list has come from the same call.                     *)
LEMMA RestComes ==
  ASSUME NEW k, TypedCall(k), NEW t, Comes(k, t), t.op = "CreateUsersWithListInput", t.body \in Bodies,
         t.body # NoItems, Len(t.body) # 1, NEW u, SameButBody(t, u, Tail(t.body))
  PROVE  Comes(k, u)
  <1>1. u.op = t.op /\ u.key = t.key /\ u.header = t.header /\ u.query = t.query /\ u.body = Tail(t.body)
    BY DEF SameButBody
  <1>2. ASSUME Plain(k), t.op = k.op PROVE Carried(k, u)
    <2>1. Carried(k, t) /\ k.op \in KeepsBody /\ k.body \in Bodies
      BY <1>2 DEF Comes, KeepsBody, TypedCall, OperationsWithBody
    <2>2. IsSuffix(t.body, k.body)
      BY <2>1 DEF Carried
    <2>3. Tail(t.body) # NoItems /\ IsSuffix(Tail(t.body), k.body)
      BY <2>1, <2>2, TailOfSuffix
    <2> QED BY <1>1, <2>1, <2>3 DEF Carried
  <1> QED BY <1>1, <1>2 DEF Comes

Rest(e) ==
  /\ phase[e] \in Running /\ task[e].op = "CreateUsersWithListInput"
  /\ task[e].body # NoItems /\ Len(task[e].body) # 1
  /\ task' = [task EXCEPT ![e].body = Tail(task[e].body)]
  /\ UNCHANGED <<authenticator, phase, call, request, said, response, result>>

LEMMA RestGoesOn ==
  ASSUME JInv, NEW e \in Exchanges, Rest(e), IInv'
  PROVE  JInv'
  <1> DEFINE u == [task[e] EXCEPT !.body = Tail(task[e].body)]
  <1>1. IInv /\ Journey(e) /\ IsCall(task[e]) /\ task[e].body \in Bodies
    BY DEF JInv, IInv, ExchangeOK
  <1>2. Becomes(e, phase[e], call[e], request[e], u, said[e], response[e], result[e])
    BY <1>1, RestOfListBecomes DEF Rest
  <1>3. SameButBody(task[e], u, Tail(task[e].body))
    BY <1>1, RestOfCall, Zenon
  <1>4. ASSUME call[e] # NoCall PROVE Comes(call[e], u)
    <2>1. TypedCall(call[e])
      BY <1>1, <1>4, CallOfExchange
    <2>2. Comes(call[e], task[e])
      BY <1>1, <1>4 DEF Journey, Rest
    <2> HIDE DEF u
    <2> QED BY <1>1, <1>3, <2>1, <2>2, RestComes DEF Rest
  <1>5. IsPlain(e)' <=> IsPlain(e)
    BY <1>2 DEF Becomes, IsPlain
  <1> HIDE DEF u
  <1>6. Journey(e)'
    BY <1>1, <1>2, <1>3, <1>4, <1>5 DEF Becomes, Journey, SameButBody, Rest
  <1> QED BY <1>2, <1>6, OneJourneyAtATime DEF Becomes

(* An application step answers, or goes on with the list.                  *)
Speaks(e) == \E answer : Answer(e, answer) /\ phase[e] \in Running /\ Says(task[e], answer)

LEMMA NoneOfThese ==
  /\ {Failed, "InvalidInput", "UnexpectedError"} \cap OnlyFromApplication = {}
  /\ LosesBody = {"PlaceOrder", "CreateUser", "UpdateUser"}
  BY DEF OnlyFromApplication, Successes, Failed, LosesBody

LEMMA ApplicationSpeaks ==
  ASSUME NEW e \in Exchanges, Application(e)
  PROVE  Speaks(e) \/ Rest(e)
  <1>1. CASE OtherOperation(e)
    <2>1. PICK answer : Answer(e, answer) /\ (task[e].op = "PlaceOrder" /\ task[e].body = NoItems => answer = "InvalidInput")
      BY <1>1 DEF OtherOperation
    <2>2. phase[e] \in Running /\ task[e].op \notin UserOperations
      BY <1>1 DEF OtherOperation
    <2>3. Says(task[e], answer)
      BY <2>1, <2>2, NoneOfThese DEF Says, UserOperations
    <2> QED BY <2>1, <2>2, <2>3 DEF Speaks
  <1>2. CASE StatementFails(e)
    BY <1>2, NoneOfThese DEF StatementFails, Speaks, Says
  <1>3. CASE CreateUser(e)
    <2>1. phase[e] \in Running
      BY <1>3 DEF CreateUser, Works
    <2>2. CASE task[e].body = NoItems
      BY <1>3, <2>1, <2>2, NoneOfThese DEF CreateUser, Speaks, Says
    <2>3. CASE task[e].body # NoItems
      BY <1>3, <2>1, <2>3 DEF CreateUser, Speaks, Says
    <2> QED BY <2>2, <2>3
  <1>4. CASE CreateUsersWithListInput(e)
    <2>1. phase[e] \in Running /\ task[e].op = "CreateUsersWithListInput" /\ task[e].op \notin LosesBody
      BY <1>4 DEF CreateUsersWithListInput, Works, LosesBody
    <2>2. CASE task[e].body = NoItems \/ Len(task[e].body) = 1
      BY <1>4, <2>1, <2>2 DEF CreateUsersWithListInput, Speaks, Says
    <2>3. CASE ~(task[e].body = NoItems \/ Len(task[e].body) = 1)
      BY <1>4, <2>1, <2>3 DEF CreateUsersWithListInput, Rest
    <2> QED BY <2>2, <2>3
  <1>5. CASE LoginUser(e)
    BY <1>5 DEF LoginUser, Works, Speaks, Says, LosesBody
  <1>6. CASE LogoutUser(e)
    BY <1>6 DEF LogoutUser, Works, Speaks, Says, LosesBody
  <1>7. CASE DeleteUser(e)
    BY <1>7 DEF DeleteUser, Works, Speaks, Says, LosesBody
  <1>8. CASE GetUserByName(e)
    BY <1>8 DEF GetUserByName, Works, Speaks, Says, LosesBody
  <1>9. CASE UpdateUser(e)
    <2>1. phase[e] \in Running
      BY <1>9 DEF UpdateUser, Works
    <2>2. CASE task[e].body = NoItems
      BY <1>9, <2>1, <2>2, NoneOfThese DEF UpdateUser, Speaks, Says
    <2>3. CASE task[e].body # NoItems
      BY <1>9, <2>1, <2>3 DEF UpdateUser, Speaks, Says
    <2> QED BY <2>2, <2>3
  <1> QED BY <1>1, <1>2, <1>3, <1>4, <1>5, <1>6, <1>7, <1>8, <1>9 DEF Application

LEMMA ApplicationGoesOn ==
  ASSUME JInv, NEW e \in Exchanges, Application(e)
  PROVE  JInv'
  <1>1. IInv'
    BY ApplicationPreserves DEF JInv
  <1>2. CASE Rest(e)
    BY <1>1, <1>2, RestGoesOn
  <1>3. CASE Speaks(e)
    <2>1. PICK answer : Answer(e, answer) /\ phase[e] \in Running /\ Says(task[e], answer)
      BY <1>3 DEF Speaks
    <2> QED BY <1>1, <2>1, AnswerGoesOn
  <1> QED BY <1>2, <1>3, ApplicationSpeaks

LEMMA NextGoesOn == JInv /\ [Next]_vars => JInv'
  <1> SUFFICES ASSUME JInv, [Next]_vars PROVE JInv'
    OBVIOUS
  <1>1. CASE UNCHANGED vars
    <2>1. IInv'
      BY <1>1, NextPreserves DEF JInv
    <2>2. \A e \in Exchanges : Journey(e)'
      BY <1>1, OthersGoOn DEF JInv, vars
    <2> QED BY <2>1, <2>2 DEF JInv
  <1>2. CASE Next
    <2>1. PICK e \in Exchanges :
            \/ \E k \in Calls[e], authData \in Contexts : Send(e, k, authData)
            \/ \E k \in Calls[e] : FailToSend(e, k)
            \/ \E r \in Requests[e] : SendOther(e, r)
            \/ Serve(e) \/ Application(e) \/ Read(e) \/ Return(e) \/ LoseMessage(e) \/ Abandon(e) \/ Drop(e)
      BY <1>2 DEF Next
    <2> QED BY <2>1, SendGoesOn, FailToSendGoesOn, SendOtherGoesOn, ServeGoesOn, ApplicationGoesOn,
              ReadGoesOn, ReturnGoesOn, LoseMessageGoesOn, AbandonGoesOn, DropGoesOn
  <1> QED BY <1>1, <1>2

(* Every state that a run of client and server reaches satisfies the       *)
(* inductive invariant, and every exchange is on its way.                  *)
THEOREM JourneysGoOn == Spec => []JInv
  BY JourneysBegin, NextGoesOn, PTL DEF Spec

LEMMA ResultIsAnswer ==
  ASSUME JInv, NEW e \in Exchanges, Asked(e),
         result[e] \in IF Plain(call[e]) THEN OnlyFromApplication ELSE Successes
  PROVE  /\ said[e] # NothingSaid /\ said[e].call.op = call[e].op /\ said[e].answer = result[e]
         /\ result[e] \in OnlyFromApplication
  <1> DEFINE s == said[e]
             op == call[e].op
  <1>1. /\ IInv /\ Journey(e) /\ ExchangeOK(e) /\ TypedCall(call[e]) /\ op \in Operations
        /\ phase[e] = "done" /\ call[e] # NoCall
    BY CallOfExchange DEF JInv, IInv, Asked
  <1>2. result[e] \in OnlyFromApplication /\ result[e] # NoAnswer /\ result[e] # "Err"
    BY NoSuccessYet
  <1>3. s # NothingSaid
    BY <1>1 DEF Journey, IsPlain
  <1>4. /\ s.call.op \in Operations /\ s.answer \in Answers(s.call.op)
        /\ result[e] = ResultOf(op, Response(s.call.op, s.answer))
    BY <1>1, <1>2, <1>3 DEF ExchangeOK
  <1>5. s.call.op = op \/ Misread(op, s.call.op)
    BY <1>1, <1>3 DEF Journey, Comes
  <1>6. s.call.op = op
    BY <1>1, <1>2, <1>4, <1>5, MisreadAnswers
  <1>7. result[e] = s.answer
    BY <1>1, <1>2, <1>4, <1>6, AnswersAreUnderstood
  <1> QED BY <1>2, <1>3, <1>6, <1>7

LEMMA SuccessFromInvariant == JInv => SuccessIsDeserved
  <1> SUFFICES ASSUME JInv, NEW e \in Exchanges, Asked(e), result[e] \in Successes
               PROVE  said[e].call.op = call[e].op /\ said[e].answer = result[e]
    BY DEF SuccessIsDeserved
  <1>1. result[e] \in IF Plain(call[e]) THEN OnlyFromApplication ELSE Successes
    BY NoSuccessYet
  <1> QED BY <1>1, ResultIsAnswer

(* Whatever the names are, a client that is told of success is told so     *)
(* because the application said it to an exchange of that operation: the   *)
(* router may take its request for another, but then it cannot read the    *)
(* answer.                                                                 *)
THEOREM SuccessIsAlwaysDeserved == Spec => []SuccessIsDeserved
  BY JourneysGoOn, SuccessFromInvariant, PTL

LEMMA TruthFromInvariant == JInv => PlainResultsAreTrue
  <1> SUFFICES ASSUME JInv, NEW e \in Exchanges, Asked(e), Plain(call[e]), result[e] \in OnlyFromApplication
               PROVE  SameCall(call[e], said[e].call) /\ said[e].answer = result[e]
    BY DEF PlainResultsAreTrue
  <1> DEFINE k == call[e]
             t == said[e].call
  <1>1. said[e] # NothingSaid /\ t.op = k.op /\ said[e].answer = result[e]
    BY ResultIsAnswer
  <1>2. Journey(e) /\ k # NoCall /\ TypedCall(k)
    BY CallOfExchange DEF JInv, Asked
  <1>3. IsCall(t) /\ Comes(k, t) /\ Says(t, said[e].answer)
    BY <1>1, <1>2 DEF Journey
  <1> HIDE DEF k, t
  <1>4. Carried(k, t) /\ t.op \notin MustHaveBody
    BY <1>1, <1>3 DEF Comes, k
  <1>5. k.body \in Bodies /\ IsCall(k) /\ (k.body # NoItems => k.op \in OperationsWithBody)
    BY <1>2, NothingYet DEF TypedCall, IsCall
  <1>6. IsSuffix(t.body, k.body)
    <2>1. IsSuffix(NoItems, k.body)
      <3>1. NoItems \in Seq([name : STRING, word : Passwords]) /\ Len(NoItems) = 0
            /\ k.body \in Seq([name : STRING, word : Passwords]) /\ Len(k.body) \in Nat
        BY <1>5, NothingYet, EmptySeq, LenProperties DEF Bodies, NoItems
      <3> QED BY <3>1, EmptyIsSuffix
    <2> QED BY <1>4, <2>1 DEF Carried
  <1>7. k.body # NoItems => t.body # NoItems
    <2> SUFFICES ASSUME k.body # NoItems, t.body = NoItems PROVE FALSE
      OBVIOUS
    <2>1. k.op \notin KeepsBody /\ k.op \notin MustHaveBody
      BY <1>1, <1>4 DEF Carried
    <2>2. k.op \in LosesBody
      BY <1>5, <2>1 DEF OperationsWithBody, KeepsBody, MustHaveBody, LosesBody
    <2> QED BY <1>1, <1>3, <2>2 DEF Says
  <1>8. [t EXCEPT !.body = NoItems] = [k EXCEPT !.body = NoItems]
    <2>1. [t EXCEPT !.body = NoItems] =
            [op |-> t.op, key |-> t.key, header |-> t.header, query |-> t.query, body |-> NoItems]
      BY <1>3 DEF IsCall
    <2>2. [k EXCEPT !.body = NoItems] =
            [op |-> k.op, key |-> k.key, header |-> k.header, query |-> k.query, body |-> NoItems]
      BY <1>5 DEF IsCall
    <2> QED BY <1>4, <2>1, <2>2 DEF Carried
  <1> QED BY <1>1, <1>6, <1>7, <1>8 DEF SameCall, k, t

(* With names that stay as they are and at most one tag, success, "not     *)
(* found" and "validation exception" are what the application said of the  *)
(* very parameters the client gave.                                        *)
THEOREM PlainResultsAreAlwaysTrue == Spec => []PlainResultsAreTrue
  BY JourneysGoOn, TruthFromInvariant, PTL

(* Where a user changes, and how the running call names it: in the path,   *)
(* or first in the body.                                                   *)
NamedInPath(t, n) == t.op \in {"DeleteUser", "UpdateUser"} /\ t.key = n
NamedInBody(t, n) ==
  /\ t.op \in {"CreateUser", "CreateUsersWithListInput"}
  /\ t.body # NoItems /\ Head(t.body).name = n

LEMMA UserChanged ==
  ASSUME IInv, NEW e \in Exchanges, Application(e), NEW n \in UserNames, users'[n] # users[n]
  PROVE  phase[e] \in Running /\ (NamedInPath(task[e], n) \/ NamedInBody(task[e], n))
  <1>1. \A x, v : users' = [users EXCEPT ![x] = v] => x = n
    BY DEF IInv
  <1>2. ~UNCHANGED users
    OBVIOUS
  <1>3. CASE CreateUser(e)
    BY <1>1, <1>2, <1>3 DEF CreateUser, Works, Upsert, NamedInBody
  <1>4. CASE CreateUsersWithListInput(e)
    <2>1. phase[e] \in Running /\ task[e].op = "CreateUsersWithListInput"
      BY <1>4 DEF CreateUsersWithListInput, Works
    <2>2. task[e].body # NoItems /\ Upsert(Head(task[e].body))
      <3>1. CASE task[e].body = NoItems
        <4>1. Len(task[e].body) # 1
          BY <3>1 DEF NoItems
        <4> QED BY <1>2, <1>4, <3>1, <4>1 DEF CreateUsersWithListInput
      <3>2. CASE task[e].body # NoItems /\ Len(task[e].body) = 1
        BY <1>4, <3>2 DEF CreateUsersWithListInput
      <3>3. CASE task[e].body # NoItems /\ Len(task[e].body) # 1
        BY <1>4, <3>3 DEF CreateUsersWithListInput
      <3> QED BY <3>1, <3>2, <3>3
    <2> QED BY <1>1, <2>1, <2>2 DEF Upsert, NamedInBody
  <1>5. CASE DeleteUser(e)
    BY <1>1, <1>2, <1>5 DEF DeleteUser, Works, NamedInPath
  <1>6. CASE UpdateUser(e)
    BY <1>1, <1>2, <1>6 DEF UpdateUser, Works, NamedInPath
  <1>7. CASE OtherOperation(e) \/ StatementFails(e) \/ LoginUser(e) \/ LogoutUser(e) \/ GetUserByName(e)
    BY <1>2, <1>7 DEF OtherOperation, StatementFails, LoginUser, LogoutUser, GetUserByName
  <1> QED BY <1>3, <1>4, <1>5, <1>6, <1>7 DEF Application

LEMMA HeadOfSuffix ==
  ASSUME NEW b \in Bodies, NEW c \in Bodies, b # NoItems, IsSuffix(b, c)
  PROVE  \E i \in DOMAIN c : c[i] = Head(b)
  <1> DEFINE S == [name : STRING, word : Passwords]
  <1>1. b \in Seq(S) /\ c \in Seq(S) /\ b # <<>>
    BY DEF Bodies, NoItems
  <1> HIDE DEF S
  <1>2. Len(b) \in Nat /\ Len(c) \in Nat /\ DOMAIN c = 1..Len(c) /\ Len(b) # 0
    BY <1>1, LenProperties, EmptySeq
  <1>3. Head(b) = b[1]
    BY <1>1
  <1>4. Len(b) <= Len(c) /\ \A i \in 1..Len(b) : b[i] = c[i + Len(c) - Len(b)]
    BY <1>1, SuffixIndexed
  <1>5. 1 \in 1..Len(b) /\ 1 + Len(c) - Len(b) \in 1..Len(c)
    BY <1>2, <1>4
  <1> QED BY <1>2, <1>3, <1>4, <1>5

(* The running call names the user.                                        *)
LEMMA RunningNames ==
  ASSUME IInv, NEW e \in Exchanges, Journey(e), phase[e] \in Running, NEW n \in UserNames,
         NamedInPath(task[e], n) \/ NamedInBody(task[e], n)
  PROVE  Names(task[e], n)
  <1>1. n # None
    BY HyperAssumption DEF HyperAssumption
  <1>2. CASE NamedInPath(task[e], n)
    BY <1>1, <1>2 DEF NamedInPath, Names
  <1>3. CASE NamedInBody(task[e], n)
    <2> DEFINE b == task[e].body
    <2>1. task[e].key = None
      BY <1>3 DEF Journey, NamedInBody, OperationsWithKey
    <2>2. b \in Bodies /\ b # NoItems /\ Head(b).name = n
      BY <1>3 DEF IInv, ExchangeOK, NamedInBody
    <2> HIDE DEF b
    <2>3. \E i \in DOMAIN b : b[i] = Head(b)
      BY <2>2, WholeIsSuffix, HeadOfSuffix
    <2> QED BY <2>1, <2>2, <2>3 DEF Names, b
  <1> QED BY <1>2, <1>3

(* And so does, with plain names, the call it has come from.               *)
LEMMA CallNames ==
  ASSUME NEW k, TypedCall(k), Plain(k), NEW t, Comes(k, t), t.body \in Bodies, NEW n \in UserNames,
         NamedInPath(t, n) \/ NamedInBody(t, n)
  PROVE  Names(k, n)
  <1>1. n # None
    BY HyperAssumption DEF HyperAssumption
  <1>2. Carried(k, t) /\ t.op = k.op
    BY DEF Comes, Misread, NamedInPath, NamedInBody, Carried
  <1>3. CASE NamedInPath(t, n)
    BY <1>1, <1>2, <1>3 DEF NamedInPath, Names, Carried
  <1>4. CASE NamedInBody(t, n)
    <2>1. k.op = "CreateUsersWithListInput" /\ k.op \in KeepsBody
      BY <1>2, <1>4 DEF NamedInBody, Carried, KeepsBody
    <2>2. k.key = None /\ k.body \in Bodies
      BY <2>1 DEF TypedCall, OperationsWithKey, OperationsWithBody
    <2>3. IsSuffix(t.body, k.body) /\ t.body # NoItems /\ Head(t.body).name = n
      BY <1>2, <1>4, <2>1 DEF Carried, NamedInBody
    <2>4. \E i \in DOMAIN k.body : k.body[i] = Head(t.body)
      BY <2>2, <2>3, HeadOfSuffix
    <2> QED BY <2>2, <2>3, <2>4 DEF Names
  <1> QED BY <1>3, <1>4

UserChange ==
  \A n \in UserNames : users'[n] # users[n] =>
    \E e \in Exchanges :
      /\ phase[e] \in Running
      /\ Names(task[e], n)
      /\ (Plain(call[e]) /\ call[e] # NoCall) => Names(call[e], n)

LEMMA ChangesAreNamed == JInv /\ [Next]_vars => UserChange
  <1> SUFFICES ASSUME JInv, [Next]_vars, NEW n \in UserNames, users'[n] # users[n]
               PROVE  \E e \in Exchanges :
                        /\ phase[e] \in Running
                        /\ Names(task[e], n)
                        /\ (Plain(call[e]) /\ call[e] # NoCall) => Names(call[e], n)
    BY DEF UserChange
  <1>1. PICK e \in Exchanges : Application(e)
    BY DEF Next, vars, Send, FailToSend, SendOther, Serve, Read, Return, LoseMessage, Abandon, Drop
  <1>2. IInv /\ Journey(e) /\ task[e].body \in Bodies
    BY DEF JInv, IInv, ExchangeOK
  <1>3. phase[e] \in Running /\ (NamedInPath(task[e], n) \/ NamedInBody(task[e], n))
    BY <1>1, <1>2, UserChanged
  <1>4. Names(task[e], n)
    BY <1>2, <1>3, RunningNames
  <1>5. ASSUME Plain(call[e]), call[e] # NoCall PROVE Names(call[e], n)
    <2>1. TypedCall(call[e])
      BY <1>2, <1>5, CallOfExchange
    <2>2. Comes(call[e], task[e])
      BY <1>2, <1>3, <1>5 DEF Journey
    <2> QED BY <1>2, <1>3, <1>5, <2>1, <2>2, CallNames
  <1> QED BY <1>3, <1>4, <1>5

(* A user changes only in an exchange that is at work on it by its name,   *)
(* and with names that stay as they are its client had named it.           *)
THEOREM UsersAlwaysChangeAsNamed == Spec => UsersChangeAsNamed
  <1>1. JInv /\ [Next]_vars => [\A n \in UserNames : users'[n] # users[n] =>
                                  \E e \in Exchanges :
                                    /\ phase[e] \in Running
                                    /\ Names(task[e], n)
                                    /\ (Plain(call[e]) /\ call[e] # NoCall) => Names(call[e], n)]_vars
    BY ChangesAreNamed DEF UserChange
  <1> QED BY <1>1, JourneysGoOn, PTL DEF Spec, UsersChangeAsNamed
=============================================================================
