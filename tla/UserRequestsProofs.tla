------------------------- MODULE UserRequestsProofs -------------------------
(***************************************************************************)
(* Proofs about UserRequests: for any number of requests at a time, any    *)
(* users, lists and profiles, and every set of well-formed programs.       *)
(***************************************************************************)
EXTENDS UserRequests, UserPrograms, StepLemmas, TLAPS

Steps == [do : Statements, of : Usernames]
-----------------------------------------------------------------------------
(* Sequences of steps.                                                     *)

(* A sequence without its i-th element.                                    *)
LEMMA RemoveAtIs ==
  ASSUME NEW S, NEW s \in Seq(S), NEW i \in 1..Len(s)
  PROVE  /\ RemoveAt(s, i) \in Seq(S) /\ RemoveAt(s, i) # s
         /\ Len(RemoveAt(s, i)) = Len(s) - 1
         /\ \A j \in 1..(Len(s) - 1) : RemoveAt(s, i)[j] = IF j < i THEN s[j] ELSE s[j + 1]
  <1> DEFINE a == SubSeq(s, 1, i - 1)
             b == SubSeq(s, i + 1, Len(s))
  <1>1. Len(s) \in Nat /\ i \in Nat \ {0} /\ i <= Len(s)
    OBVIOUS
  <1>2. /\ a \in Seq(S) /\ Len(a) = i - 1
        /\ \A j \in 1..(i - 1) : a[j] = s[j]
    BY <1>1
  <1>3. /\ b \in Seq(S) /\ Len(b) = Len(s) - i
        /\ \A j \in 1..(Len(s) - i) : b[j] = s[i + j]
    BY <1>1
  <1> HIDE DEF a, b
  <1>4. /\ a \o b \in Seq(S) /\ Len(a \o b) = Len(s) - 1
        /\ \A j \in 1..(Len(s) - 1) : (a \o b)[j] = IF j < i THEN a[j] ELSE b[j - (i - 1)]
    <2>1. /\ a \o b \in Seq(S) /\ Len(a \o b) = Len(a) + Len(b)
          /\ \A j \in 1..(Len(a) + Len(b)) :
               (a \o b)[j] = IF j <= Len(a) THEN a[j] ELSE b[j - Len(a)]
      BY <1>2, <1>3, ConcatProperties
    <2>2. Len(a) + Len(b) = Len(s) - 1
      BY <1>1, <1>2, <1>3
    <2>3. \A j \in 1..(Len(s) - 1) : j <= Len(a) <=> j < i
      BY <1>1, <1>2
    <2> QED BY <1>2, <2>1, <2>2, <2>3
  <1>5. \A j \in 1..(Len(s) - 1) : (a \o b)[j] = IF j < i THEN s[j] ELSE s[j + 1]
    BY <1>1, <1>2, <1>3, <1>4
  <1>6. RemoveAt(s, i) = a \o b
    BY DEF RemoveAt, a, b
  <1>7. Len(a \o b) # Len(s)
    BY <1>1, <1>4
  <1>8. a \o b # s
    BY <1>7
  <1> QED BY <1>4, <1>5, <1>6, <1>8, Zenon

(* The steps of a part of a program, user after user.                      *)
LEMMA EachIs ==
  ASSUME NEW p \in Seq(Statements), Len(p) \in 1..3, NEW names \in Seq(Usernames)
  PROVE  /\ Each(p, names) \in Seq(Steps) /\ Len(Each(p, names)) = Len(p) * Len(names)
         /\ \A i \in 1..(Len(p) * Len(names)) :
              \E k \in 1..Len(p), m \in 1..Len(names) :
                i = (m - 1) * Len(p) + k /\ Each(p, names)[i] = [do |-> p[k], of |-> names[m]]
  <1> DEFINE L == Len(p)
             M == Len(names)
             N == L * M
  <1>1. L \in 1..3 /\ M \in Nat /\ N \in Nat
    OBVIOUS
  <1>2. \A i \in 1..N : /\ ((i - 1) % L) + 1 \in 1..L /\ ((i - 1) \div L) + 1 \in 1..M
                        /\ i = ((((i - 1) \div L) + 1) - 1) * L + (((i - 1) % L) + 1)
    <2>1. CASE L = 1
      BY <1>1, <2>1
    <2>2. CASE L = 2
      BY <1>1, <2>2
    <2>3. CASE L = 3
      BY <1>1, <2>3
    <2> QED BY <1>1, <2>1, <2>2, <2>3
  <1>3. Each(p, names) = [i \in 1..N |-> [do |-> p[((i - 1) % L) + 1], of |-> names[((i - 1) \div L) + 1]]]
    BY DEF Each
  <1>4. \A i \in 1..N : [do |-> p[((i - 1) % L) + 1], of |-> names[((i - 1) \div L) + 1]] \in Steps
    BY <1>2 DEF Steps
  <1> HIDE DEF L, M, N
  <1>5. Each(p, names) \in [1..N -> Steps]
    BY <1>3, <1>4
  <1>6. Each(p, names) \in Seq(Steps) /\ Len(Each(p, names)) = N
    BY <1>1, <1>5
  <1>7. \A i \in 1..N : \E k \in 1..L, m \in 1..M :
           i = (m - 1) * L + k /\ Each(p, names)[i] = [do |-> p[k], of |-> names[m]]
    BY <1>2, <1>3
  <1> QED BY <1>6, <1>7 DEF L, M, N

(* A list of one user.                                                     *)
LEMMA OneUser ==
  ASSUME NEW n \in Usernames
  PROVE  /\ <<n>> \in Seq(Usernames) /\ Len(<<n>>) = 1 /\ <<n>> # <<>>
         /\ Head(<<n>>) = n /\ ToSet(<<n>>) = {n}
  <1>1. <<n>> \in Seq(Usernames) /\ Len(<<n>>) = 1 /\ <<n>>[1] = n /\ Head(<<n>>) = n
    OBVIOUS
  <1>2. DOMAIN <<n>> = {1}
    OBVIOUS
  <1> QED BY <1>1, <1>2 DEF ToSet

(* The step after the last user of a list, if there is one.                *)
LEMMA EndingIs ==
  ASSUME NEW ending \in {<<>>, <<"fetch">>, <<"commit">>}, NEW n \in Usernames
  PROVE  /\ Each(ending, <<n>>) \in Seq(Steps)
         /\ Each(ending, <<n>>) = IF ending = <<>> THEN <<>>
                                   ELSE <<[do |-> ending[1], of |-> n]>>
  <1>1. CASE ending = <<>>
    <2>1. Each(ending, <<n>>) = [i \in 1..0 |-> [do |-> ending[((i - 1) % 0) + 1],
                                                   of |-> <<n>>[((i - 1) \div 0) + 1]]]
      <3>1. Len(<<>>) * Len(<<n>>) = 0
      OBVIOUS
    <3> QED BY <1>1, <3>1 DEF Each
    <2>2. \A i \in 1..0 : FALSE
      OBVIOUS
    <2>3. Each(ending, <<n>>) \in [1..0 -> Steps]
      BY <2>1, <2>2
    <2>4. Each(ending, <<n>>) \in Seq(Steps) /\ Len(Each(ending, <<n>>)) = 0
      BY <2>3
    <2> QED BY <1>1, <2>4, EmptySeq
  <1>2. CASE ending # <<>>
    <2> DEFINE e == Each(ending, <<n>>)
    <2>1. ending \in Seq(Statements) /\ Len(ending) = 1
      <3>1. "fetch" \in Statements /\ "commit" \in Statements
        BY DEF Statements, Finds
      <3>2. <<"fetch">> \in Seq(Statements) /\ <<"commit">> \in Seq(Statements)
        BY <3>1
      <3>3. ending = <<"fetch">> \/ ending = <<"commit">>
        BY <1>2
      <3>4. Len(<<"fetch">>) = 1 /\ Len(<<"commit">>) = 1
        OBVIOUS
      <3> QED BY <3>2, <3>3, <3>4, Zenon
    <2>2. /\ e \in Seq(Steps) /\ Len(e) = 1
          /\ \E k \in 1..1, m \in 1..1 : e[1] = [do |-> ending[k], of |-> <<n>>[m]]
      <3>1. <<n>> \in Seq(Usernames) /\ Len(<<n>>) = 1
        BY OneUser
      <3> HIDE DEF e
      <3>2. Len(ending) \in 1..3 /\ Len(ending) * Len(<<n>>) = 1 /\ 1 \in 1..1
        BY <2>1, <3>1
      <3>3. /\ e \in Seq(Steps) /\ Len(e) = Len(ending) * Len(<<n>>)
            /\ \A i \in 1..(Len(ending) * Len(<<n>>)) :
                 \E k \in 1..Len(ending), m \in 1..Len(<<n>>) :
                   i = (m - 1) * Len(ending) + k /\ e[i] = [do |-> ending[k], of |-> <<n>>[m]]
        BY <2>1, <3>1, <3>2, EachIs DEF e
      <3> QED BY <2>1, <3>1, <3>2, <3>3
    <2>3. e[1] = [do |-> ending[1], of |-> n]
      BY <2>2
    <2> HIDE DEF e
    <2>4. e = <<[do |-> ending[1], of |-> n]>>
      BY <2>2, <2>3
    <2> QED BY <1>2, <2>2, <2>4 DEF e
  <1> QED BY <1>1, <1>2
-----------------------------------------------------------------------------
(* What a request is about to send.                                        *)

Serving(w) == req[w] # NoRequest
Part(p, r) == IF r.op = "list" THEN p.entry ELSE p[r.op]

(* The statements that may serve r, by what the program is known for.      *)
Serves(p, r, statement) ==
  /\ statement \in {"lockRow", "rename"} => r.op = "update"
  /\ statement = "commit" => r.op = "list" /\ p.mode = "transaction"
  /\ r.op = "list" /\ p.mode = "transaction" => statement \in Draws \cup {"upsert", "commit"}
  /\ UpdatesInPlace(p) =>
       /\ r.op \in {"update", "delete"} => statement \notin Inserts
       /\ r.op # "delete" => statement \notin Deletes
  /\ GivesIds(p) =>
       /\ statement \notin {"insert", "update", "updateAny"}
       /\ r.op = "list" /\ p.mode \in {"skipping", "atOnce"} => statement \notin NeedsId

(* The steps s serve r and are about its users.                            *)
Fits(p, r, s) ==
  \A i \in 1..Len(s) :
    /\ Serves(p, r, s[i].do)
    /\ s[i].of \in ToSet(r.names)
    /\ r.op # "list" => s[i].of = Head(r.names)

(* One step of s may follow another.                                       *)
Follows(p, one, other) ==
  /\ one # "commit"
  /\ one = "lockRow" <=> other = "rename"
  /\ GivesIds(p) /\ other \in NeedsId => one \in LeavesId

InOrder(p, r, s) ==
  /\ \A i \in 1..(Len(s) - 1) : Follows(p, s[i].do, s[i + 1].do)
  /\ s # <<>> => /\ s[Len(s)].do # "lockRow"
                 /\ r.op = "list" /\ p.mode = "transaction" => s[Len(s)].do = "commit"

(* What a request is.                                                      *)
LEMMA RequestIs ==
  ASSUME NEW r \in Requests
  PROVE  /\ r.op \in Operations
         /\ r.names \in Seq(Usernames) /\ r.names # <<>> /\ Head(r.names) \in Usernames
         /\ Head(r.names) \in ToSet(r.names) /\ ToSet(r.names) \subseteq Usernames
         /\ r.op # "list" => r.names = <<Head(r.names)>>
         /\ r.op = "update" => r.new \in Usernames
         /\ r.id \in 0..MaxId /\ r.profile \in Profiles
  <1>1. ClientIds \cup {Null} \subseteq 0..MaxId
    BY UserBounds DEF Null
  <1>2. CASE r \in [op : {"create"}, names : {<<n>> : n \in Usernames}, new : {NoUser},
                    id : ClientIds \cup {Null}, profile : Profiles]
    <2>1. PICK n \in Usernames : r.names = <<n>>
      BY <1>2
    <2> QED BY <1>1, <1>2, <2>1, OneUser DEF Operations
  <1>3. CASE r \in [op : {"list"}, names : Lists, new : {NoUser}, id : {Null}, profile : Profiles]
    <2>1. r.names \in Seq(Usernames) /\ r.names # <<>>
      BY <1>3, UserBounds
    <2>2. Len(r.names) \in Nat \ {0} /\ Head(r.names) = r.names[1]
      BY <2>1, EmptySeq
    <2>3. \A i \in 1..Len(r.names) : r.names[i] \in Usernames
      BY <2>1
    <2> QED BY <1>1, <1>3, <2>1, <2>2, <2>3 DEF Operations, ToSet
  <1>4. CASE r \in [op : {"update"}, names : {<<n>> : n \in Usernames}, new : Usernames,
                    id : ClientIds \cup {Null}, profile : Profiles]
    <2>1. PICK n \in Usernames : r.names = <<n>>
      BY <1>4
    <2> QED BY <1>1, <1>4, <2>1, OneUser DEF Operations
  <1>5. CASE r \in [op : {"delete"}, names : {<<n>> : n \in Usernames}, new : {NoUser},
                    id : {Null}, profile : Profiles]
    <2>1. PICK n \in Usernames : r.names = <<n>>
      BY <1>5
    <2> QED BY <1>1, <1>5, <2>1, OneUser DEF Operations
  <1> QED BY <1>2, <1>3, <1>4, <1>5 DEF Requests

(* What the parts of a program are.                                        *)
LEMMA PartIs ==
  ASSUME NEW p, WellFormed(p), NEW r \in Requests
  PROVE  /\ Part(p, r) \in Seq(Statements) /\ Len(Part(p, r)) \in 1..3
         /\ \A k \in 1..Len(Part(p, r)) : Part(p, r)[k] # "commit" /\ Serves(p, r, Part(p, r)[k])
  <1> DEFINE part == IF r.op = "list" THEN "entry" ELSE r.op
             s == p[part]
  <1>1. r.op \in Operations
    BY RequestIs
  <1>2. part \in Parts /\ Part(p, r) = s
    BY <1>1 DEF Part, Parts, Operations
  <1>3. /\ s \in Seq(Statements \ {"commit"}) \ {<<>>} /\ Len(s) <= 3
        /\ part # "update" => Without(s, {"lockRow", "rename"})
    BY <1>2 DEF WellFormed
  <1>4. Len(s) \in Nat \ {0}
    BY <1>3, EmptySeq
  <1>5. s \in Seq(Statements) /\ \A k \in 1..Len(s) : s[k] \in Statements /\ s[k] # "commit"
    BY <1>3
  <1>6. ASSUME NEW k \in 1..Len(s) PROVE Serves(p, r, s[k])
    <2>1. s[k] \in {"lockRow", "rename"} => r.op = "update"
      BY <1>1, <1>3 DEF Without, Operations
    <2>2. r.op = "list" /\ p.mode = "transaction" => s[k] \in Draws \cup {"upsert"}
      <3>1. SUFFICES ASSUME r.op = "list", p.mode = "transaction" PROVE s[k] \in Draws \cup {"upsert"}
        OBVIOUS
      <3>2. Without(s, Statements \ (Draws \cup {"upsert"}))
        BY <3>1 DEF WellFormed
      <3> QED BY <1>5, <3>2 DEF Without
    <2>3. UpdatesInPlace(p) => /\ r.op \in {"update", "delete"} => s[k] \notin Inserts
                               /\ r.op # "delete" => s[k] \notin Deletes
      <3>1. SUFFICES ASSUME UpdatesInPlace(p)
                     PROVE  /\ r.op \in {"update", "delete"} => s[k] \notin Inserts
                            /\ r.op # "delete" => s[k] \notin Deletes
        OBVIOUS
      <3>2. r.op \in {"update", "delete"} => Without(s, Inserts)
        BY <3>1 DEF UpdatesInPlace
      <3>3. r.op # "delete" => Without(s, Deletes)
        <4>1. r.op # "delete" => part \in Parts \ {"delete"}
          BY <1>1 DEF Operations, Parts
        <4> QED BY <3>1, <4>1 DEF UpdatesInPlace
      <3> QED BY <3>2, <3>3 DEF Without
    <2>4. GivesIds(p) =>
            /\ s[k] \notin {"insert", "update", "updateAny"}
            /\ r.op = "list" /\ p.mode \in {"skipping", "atOnce"} => s[k] \notin NeedsId
      <3>1. SUFFICES ASSUME GivesIds(p)
                     PROVE  /\ s[k] \notin {"insert", "update", "updateAny"}
                            /\ r.op = "list" /\ p.mode \in {"skipping", "atOnce"} => s[k] \notin NeedsId
        OBVIOUS
      <3>2. Without(s, {"insert", "update", "updateAny"})
        BY <1>2, <3>1 DEF GivesIds
      <3>3. r.op = "list" /\ p.mode \in {"skipping", "atOnce"} => Without(s, NeedsId)
        BY <3>1 DEF GivesIds
      <3> QED BY <3>2, <3>3 DEF Without
    <2> QED BY <1>5, <2>1, <2>2, <2>3, <2>4 DEF Serves
  <1> HIDE DEF s, part
  <1>7. Len(s) \in 1..3
    <2>1. Len(s) <= 3
      BY <1>3, Zenon
    <2>2. \A x \in Nat \ {0} : x <= 3 => x \in 1..3
      OBVIOUS
    <2> QED BY <1>4, <2>1, <2>2, Zenon
  <1> QED BY <1>2, <1>5, <1>6, <1>7, Zenon

(* How the steps of a part belong together.                                *)
LEMMA PartInOrder ==
  ASSUME NEW p, WellFormed(p), NEW r \in Requests,
         NEW k \in 1..Len(Part(p, r)), k > 1
  PROVE  Follows(p, Part(p, r)[k - 1], Part(p, r)[k])
  <1> DEFINE part == IF r.op = "list" THEN "entry" ELSE r.op
             s == p[part]
  <1>1. r.op \in Operations
    BY RequestIs
  <1>2. part \in Parts /\ Part(p, r) = s /\ (part = "update" <=> r.op = "update")
    BY <1>1 DEF Part, Parts, Operations
  <1>3. Len(s) \in 1..3 /\ k \in 1..Len(s) /\ k - 1 \in 1..Len(s) /\ k > 1 /\ (k - 1) + 1 = k
    <2>1. Len(s) \in 1..3 /\ k \in 1..Len(s) /\ k > 1
      BY <1>2, PartIs
    <2> HIDE DEF s
    <2> QED BY <2>1
  <1>4. s[k - 1] # "commit"
    BY <1>2, <1>3, PartIs
  <1>5. s[k - 1] = "lockRow" <=> s[k] = "rename"
    <2>1. CASE part = "update"
      BY <1>2, <1>3, <2>1 DEF WellFormed
    <2>2. CASE part # "update"
      BY <1>2, <1>3, <2>2 DEF WellFormed, Without
    <2> QED BY <2>1, <2>2
  <1>6. GivesIds(p) /\ s[k] \in NeedsId => s[k - 1] \in LeavesId
    BY <1>2, <1>3 DEF GivesIds
  <1> QED BY <1>2, <1>4, <1>5, <1>6 DEF Follows

(* No part begins with what must follow something, or ends before it.      *)
LEMMA PartEnds ==
  ASSUME NEW p, WellFormed(p), NEW r \in Requests
  PROVE  /\ Part(p, r)[1] # "rename" /\ Part(p, r)[Len(Part(p, r))] # "lockRow"
         /\ GivesIds(p) => Part(p, r)[1] \notin NeedsId
  <1> DEFINE part == IF r.op = "list" THEN "entry" ELSE r.op
             s == p[part]
  <1>1. r.op \in Operations
    BY RequestIs
  <1>2. part \in Parts /\ Part(p, r) = s
    BY <1>1 DEF Part, Parts, Operations
  <1>3. Len(s) \in 1..3 /\ 1 \in 1..Len(s) /\ Len(s) \in 1..Len(s) /\ ~(Len(s) < Len(s)) /\ ~(1 > 1)
    <2>1. Len(s) \in 1..3
      BY <1>2, PartIs
    <2> HIDE DEF s
    <2> QED BY <2>1
  <1>4. s[1] # "rename" /\ s[Len(s)] # "lockRow"
    <2>1. CASE part = "update"
      BY <1>2, <1>3, <2>1 DEF WellFormed
    <2>2. CASE part # "update"
      BY <1>2, <1>3, <2>2 DEF WellFormed, Without
    <2> QED BY <2>1, <2>2
  <1>5. GivesIds(p) => s[1] \notin NeedsId
    BY <1>2, <1>3 DEF GivesIds
  <1> QED BY <1>2, <1>4, <1>5

(* The steps of a request for one user.                                    *)
LEMMA SinglePlan ==
  ASSUME program \in Programs, NEW r \in Requests, r.op # "list"
  PROVE  /\ Plan(r) \in Seq(Steps) /\ Len(Plan(r)) = Len(Part(program, r))
         /\ \A i \in 1..Len(Plan(r)) :
              Plan(r)[i] = [do |-> Part(program, r)[i], of |-> Head(r.names)]
  <1> DEFINE s == Part(program, r)
             n == Head(r.names)
             e == Plan(r)
  <1>1. s \in Seq(Statements) /\ Len(s) \in 1..3
    BY PartIs, UserProgramsAssumption
  <1>2. n \in Usernames /\ r.names = <<n>>
    BY RequestIs
  <1>3. e = Each(s, <<n>>)
    BY <1>2 DEF Plan, Part
  <1> HIDE DEF s, n, e
  <1>4. <<n>> \in Seq(Usernames) /\ Len(<<n>>) = 1 /\ <<n>>[1] = n
    BY <1>2, OneUser
  <1>5. /\ e \in Seq(Steps) /\ Len(e) = Len(s) * Len(<<n>>)
        /\ \A i \in 1..(Len(s) * Len(<<n>>)) :
             \E k \in 1..Len(s), m \in 1..Len(<<n>>) :
               i = (m - 1) * Len(s) + k /\ e[i] = [do |-> s[k], of |-> <<n>>[m]]
    BY <1>1, <1>3, <1>4, EachIs
  <1>6. \A l \in 1..3 : l * 1 = l /\ (1 - 1) * l = 0
    OBVIOUS
  <1>7. Len(e) = Len(s)
    BY <1>1, <1>4, <1>5, <1>6, Zenon
  <1>8. ASSUME NEW i \in 1..Len(e) PROVE e[i] = [do |-> s[i], of |-> n]
    <2>1. PICK k \in 1..Len(s), m \in 1..1 :
            i = (m - 1) * Len(s) + k /\ e[i] = [do |-> s[k], of |-> <<n>>[m]]
      BY <1>4, <1>5, <1>7
    <2>2. m = 1 /\ k = i
      BY <1>1, <2>1
    <2> QED BY <1>4, <2>1, <2>2
  <1> QED BY <1>5, <1>7, <1>8 DEF s, n, e

(* The plan for one user serves the request, in order.                     *)
LEMMA SinglePlanFits ==
  ASSUME program \in Programs, NEW r \in Requests, r.op # "list"
  PROVE  /\ Fits(program, r, Plan(r)) /\ InOrder(program, r, Plan(r)) /\ Len(Plan(r)) \in 1..3
         /\ Plan(r)[1].do # "rename"
         /\ GivesIds(program) => Plan(r)[1].do \notin NeedsId
  <1> DEFINE s == Part(program, r)
             e == Plan(r)
  <1>1. WellFormed(program)
    BY UserProgramsAssumption
  <1>2. s \in Seq(Statements) /\ Len(s) \in 1..3 /\ \A k \in 1..Len(s) : Serves(program, r, s[k])
    BY <1>1, PartIs
  <1>3. e \in Seq(Steps) /\ Len(e) = Len(s) /\ \A i \in 1..Len(e) : e[i] = [do |-> s[i], of |-> Head(r.names)]
    BY SinglePlan
  <1>4. \A k \in 1..Len(s) : k > 1 => Follows(program, s[k - 1], s[k])
    BY <1>1, PartInOrder
  <1>5. s[1] # "rename" /\ s[Len(s)] # "lockRow" /\ (GivesIds(program) => s[1] \notin NeedsId)
    BY <1>1, PartEnds
  <1>6. Head(r.names) \in ToSet(r.names)
    BY RequestIs
  <1> HIDE DEF s, e
  <1>7. ASSUME NEW i \in 1..Len(e) PROVE e[i].do = s[i] /\ e[i].of = Head(r.names)
    <2>1. e[i] = [do |-> s[i], of |-> Head(r.names)]
      BY <1>3
    <2> QED BY <2>1
  <1>8. 1 \in 1..Len(e) /\ Len(e) \in 1..Len(e) /\ 1..Len(e) = 1..Len(s)
    BY <1>2, <1>3
  <1>10. Fits(program, r, e)
    BY <1>2, <1>6, <1>7, <1>8 DEF Fits
  <1>9. InOrder(program, r, e)
    <2>1. ASSUME NEW i \in 1..(Len(e) - 1) PROVE Follows(program, e[i].do, e[i + 1].do)
      <3>1. i \in 1..Len(e) /\ i + 1 \in 1..Len(s) /\ i + 1 > 1 /\ (i + 1) - 1 = i /\ i + 1 \in 1..Len(e)
        BY <1>2, <1>3
      <3>2. Follows(program, s[(i + 1) - 1], s[i + 1])
        BY <1>4, <3>1
      <3> QED BY <1>7, <3>1, <3>2
    <2>2. e[Len(e)].do # "lockRow"
      BY <1>3, <1>5, <1>7, <1>8
    <2> QED BY <2>1, <2>2 DEF InOrder
  <1> QED BY <1>2, <1>3, <1>5, <1>7, <1>8, <1>9, <1>10 DEF e, s

(* A sequence with one more element after it.                              *)
LEMMA Appended ==
  ASSUME NEW S, NEW a \in Seq(S), NEW x \in S, NEW e, e = a \o <<x>>
  PROVE  /\ e \in Seq(S) /\ Len(e) = Len(a) + 1 /\ e[Len(a) + 1] = x
         /\ \A i \in 1..Len(a) : e[i] = a[i]
  OBVIOUS

(* The steps of a list: those of each user, then the ending.               *)
LEMMA ListPlan ==
  ASSUME program \in Programs, NEW r \in Requests, r.op = "list",
         NEW s, s = program.entry, NEW N, N = Len(s) * Len(r.names)
  PROVE  /\ Plan(r) \in Seq(Steps) /\ N \in Nat \ {0}
         /\ \A i \in 1..N : \E k \in 1..Len(s), m \in 1..Len(r.names) :
              i = (m - 1) * Len(s) + k /\ Plan(r)[i] = [do |-> s[k], of |-> r.names[m]]
         /\ program.ending = <<>> => Len(Plan(r)) = N
         /\ program.ending # <<>> =>
              /\ Len(Plan(r)) = N + 1
              /\ Plan(r)[N + 1] = [do |-> program.ending[1], of |-> Head(r.names)]
  <1> DEFINE n == Head(r.names)
             a == Each(s, r.names)
             Entry(i, x) == \E k \in 1..Len(s), m \in 1..Len(r.names) :
                              i = (m - 1) * Len(s) + k /\ x = [do |-> s[k], of |-> r.names[m]]
  <1>1. s \in Seq(Statements) /\ Len(s) \in 1..3
    BY PartIs, UserProgramsAssumption DEF Part
  <1>2. r.names \in Seq(Usernames) /\ r.names # <<>> /\ n \in Usernames
    BY RequestIs
  <1>3. N \in Nat \ {0}
    <2>1. Len(r.names) \in Nat \ {0}
      BY <1>2, EmptySeq
    <2>2. \A M \in Nat \ {0} : 1 * M \in Nat \ {0} /\ 2 * M \in Nat \ {0} /\ 3 * M \in Nat \ {0}
      OBVIOUS
    <2>3. Len(s) = 1 \/ Len(s) = 2 \/ Len(s) = 3
      BY <1>1
    <2> QED BY <2>1, <2>2, <2>3, Zenon
  <1>4. a \in Seq(Steps) /\ Len(a) = N /\ \A i \in 1..N : Entry(i, a[i])
    BY <1>1, <1>2, EachIs
  <1>5. program.ending \in {<<>>, <<"fetch">>, <<"commit">>}
    BY UserProgramsAssumption DEF WellFormed
  <1> DEFINE x == [do |-> program.ending[1], of |-> n]
  <1>6. Plan(r) = IF program.ending = <<>> THEN a \o <<>> ELSE a \o <<x>>
    <2>1. Plan(r) = a \o Each(program.ending, <<n>>)
      BY DEF Plan
    <2>2. Each(program.ending, <<n>>) = IF program.ending = <<>> THEN <<>> ELSE <<x>>
      BY <1>2, <1>5, EndingIs
    <2> HIDE DEF a, x, n
    <2> QED BY <2>1, <2>2
  <1>7. program.ending # <<>> => x \in Steps
    <2>1. program.ending # <<>> => program.ending[1] \in Statements
      BY <1>5 DEF Statements, Finds
    <2> QED BY <1>2, <2>1 DEF Steps
  <1> HIDE DEF a, n, x, Entry
  <1>8. a \in Seq(Steps) /\ Len(a) = N
    BY <1>4, Zenon
  <1>9. /\ Plan(r) \in Seq(Steps) /\ \A i \in 1..N : Plan(r)[i] = a[i]
        /\ program.ending = <<>> => Len(Plan(r)) = N
        /\ program.ending # <<>> => Len(Plan(r)) = N + 1 /\ Plan(r)[N + 1] = x
    <2>1. CASE program.ending = <<>>
      <3>1. Plan(r) = a \o <<>>
        BY <1>6, <2>1
      <3>2. a \o <<>> = a
        BY <1>8, ConcatEmptySeq
      <3>3. Plan(r) = a
        BY <3>1, <3>2, Zenon
      <3> QED BY <1>8, <2>1, <3>3, Zenon
    <2>2. CASE program.ending # <<>>
      <3>1. Plan(r) = a \o <<x>>
        BY <1>6, <2>2
      <3>2. /\ Plan(r) \in Seq(Steps) /\ Len(Plan(r)) = Len(a) + 1 /\ Plan(r)[Len(a) + 1] = x
            /\ \A i \in 1..Len(a) : Plan(r)[i] = a[i]
        <4>1. a \in Seq(Steps) /\ x \in Steps
          BY <1>7, <1>8, <2>2, Zenon
        <4> QED BY <3>1, <4>1, Appended
      <3> QED BY <1>8, <2>2, <3>2, Zenon
    <2> QED BY <2>1, <2>2
  <1>10. \A i \in 1..N : Entry(i, Plan(r)[i])
    BY <1>4, <1>9, Zenon
  <1> QED BY <1>3, <1>9, <1>10, Zenon DEF Entry, n, x

(* The plan for a list serves the request, in order.                       *)
LEMMA ListPlanFits ==
  ASSUME program \in Programs, NEW r \in Requests, r.op = "list"
  PROVE  /\ Fits(program, r, Plan(r)) /\ InOrder(program, r, Plan(r)) /\ Len(Plan(r)) \in Nat \ {0}
         /\ Plan(r)[1].do # "rename"
         /\ GivesIds(program) => Plan(r)[1].do \notin NeedsId
  <1> DEFINE s == program.entry
             L == Len(s)
             M == Len(r.names)
             N == L * M
             e == Plan(r)
             last == [do |-> program.ending[1], of |-> Head(r.names)]
  <1>1. WellFormed(program) /\ Part(program, r) = s
    BY UserProgramsAssumption DEF Part
  <1>2. L \in 1..3 /\ \A k \in 1..L : s[k] # "commit" /\ Serves(program, r, s[k])
    BY <1>1, PartIs
  <1>3. /\ e \in Seq(Steps) /\ N \in Nat \ {0}
        /\ \A i \in 1..N : \E k \in 1..L, m \in 1..M :
             i = (m - 1) * L + k /\ e[i] = [do |-> s[k], of |-> r.names[m]]
        /\ program.ending = <<>> => Len(e) = N
        /\ program.ending # <<>> => Len(e) = N + 1 /\ e[N + 1] = last
    BY ListPlan
  <1>4. \A k \in 1..L : k > 1 => Follows(program, s[k - 1], s[k])
    BY <1>1, PartInOrder
  <1>5. /\ s[1] # "rename" /\ s[1] \notin {"lockRow"} /\ s[L] # "lockRow"
        /\ GivesIds(program) => s[1] \notin NeedsId
    BY <1>1, <1>2, PartEnds DEF Serves
  <1>6. Head(r.names) \in ToSet(r.names) /\ \A m \in 1..M : r.names[m] \in ToSet(r.names)
    <2>1. r.names \in Seq(Usernames) /\ Head(r.names) \in ToSet(r.names)
      BY RequestIs
    <2>2. DOMAIN r.names = 1..M
      BY <2>1
    <2> QED BY <2>1, <2>2 DEF ToSet
  <1>7. program.ending # <<>> => /\ program.ending[1] \in {"fetch", "commit"}
                                 /\ Serves(program, r, program.ending[1])
                                 /\ program.mode = "transaction" => program.ending[1] = "commit"
    <2>1. CASE program.mode = "transaction"
      <3>1. program.ending = <<"commit">>
        BY <1>1, <2>1 DEF WellFormed
      <3> QED BY <2>1, <3>1 DEF Serves, Inserts, Deletes, NeedsId
    <2>2. CASE program.mode # "transaction"
      <3>1. program.ending = <<>> \/ program.ending = <<"fetch">>
        BY <1>1, <2>2 DEF WellFormed
      <3> QED BY <2>2, <3>1 DEF Serves, Inserts, Deletes, NeedsId
    <2> QED BY <2>1, <2>2
  <1>8. M \in Nat
    <2>1. r.names \in Seq(Usernames)
      BY RequestIs
    <2> QED BY <2>1
  <1>9. program.mode = "transaction" => program.ending # <<>>
    <2>1. <<"commit">> # <<>>
      OBVIOUS
    <2> QED BY <1>1, <2>1 DEF WellFormed
  <1> HIDE DEF s, L, M, N, e, last
  <1>10. ASSUME NEW i \in 1..N
         PROVE  /\ i \in 1..Len(e)
                /\ \E k \in 1..L : e[i].do = s[k]
                /\ \E m \in 1..M : e[i].of = r.names[m]
    <2>1. PICK k \in 1..L, m \in 1..M : e[i] = [do |-> s[k], of |-> r.names[m]]
      BY <1>3, Zenon
    <2>2. e[i].do = s[k] /\ e[i].of = r.names[m]
      BY <2>1
    <2>3. Len(e) \in {N, N + 1} /\ N \in Nat
      BY <1>3, Zenon
    <2>4. i \in 1..Len(e)
      BY <2>3
    <2> QED BY <2>2, <2>4
  <1>11. \A i \in 1..Len(e) : i \in 1..N \/ (i = N + 1 /\ program.ending # <<>> /\ e[i] = last)
    BY <1>3
  <1>12. Fits(program, r, e)
    <2>1. ASSUME NEW i \in 1..Len(e) PROVE Serves(program, r, e[i].do) /\ e[i].of \in ToSet(r.names)
      <3>1. CASE i \in 1..N
        BY <1>2, <1>6, <1>10, <3>1
      <3>2. CASE program.ending # <<>> /\ e[i] = last
        BY <1>6, <1>7, <3>2 DEF last
      <3> QED BY <1>11, <3>1, <3>2
    <2> QED BY <2>1 DEF Fits
  <1>13. ASSUME NEW i \in 1..(Len(e) - 1) PROVE Follows(program, e[i].do, e[i + 1].do)
    <2>1. i \in 1..N /\ i + 1 \in 1..Len(e)
      BY <1>3
    <2>2. PICK k \in 1..L, m \in 1..M : i = (m - 1) * L + k /\ e[i] = [do |-> s[k], of |-> r.names[m]]
      BY <1>3, <2>1
    <2>3. CASE i + 1 \in 1..N
      <3>1. PICK k2 \in 1..L, m2 \in 1..M :
              i + 1 = (m2 - 1) * L + k2 /\ e[i + 1] = [do |-> s[k2], of |-> r.names[m2]]
        BY <1>3, <2>3
      <3>2. k2 = 1 \/ (k2 > 1 /\ k = k2 - 1)
        <4>1. CASE L = 1
          BY <4>1
        <4>2. CASE L = 2
          BY <1>8, <2>2, <3>1, <4>2
        <4>3. CASE L = 3
          BY <1>8, <2>2, <3>1, <4>3
        <4> QED BY <1>2, <4>1, <4>2, <4>3
      <3>3. CASE k2 = 1
        BY <1>2, <1>5, <2>2, <3>1, <3>3 DEF Follows, Serves
      <3>4. CASE k2 > 1 /\ k = k2 - 1
        BY <1>4, <2>2, <3>1, <3>4
      <3> QED BY <3>2, <3>3, <3>4
    <2>4. CASE program.ending # <<>> /\ e[i + 1] = last
      <3>1. e[i + 1].do \in {"fetch", "commit"}
        BY <1>7, <2>4 DEF last
      <3> QED BY <1>2, <2>2, <3>1 DEF Follows, Serves, NeedsId
    <2> QED BY <1>11, <2>1, <2>3, <2>4
  <1>14. /\ e[Len(e)].do # "lockRow"
         /\ program.mode = "transaction" => e[Len(e)].do = "commit"
    <2>1. CASE program.ending = <<>>
      <3>1. Len(e) \in 1..N
        BY <1>3, <2>1
      <3> QED BY <1>2, <1>9, <1>10, <2>1, <3>1 DEF Serves
    <2>2. CASE program.ending # <<>>
      BY <1>3, <1>7, <2>2 DEF last
    <2> QED BY <2>1, <2>2
  <1>15. InOrder(program, r, e)
    BY <1>13, <1>14 DEF InOrder
  <1>16. Len(e) \in Nat \ {0} /\ 1 \in 1..N
    BY <1>3
  <1>17. e[1].do = s[1]
    <2>1. PICK k \in 1..L, m \in 1..M : 1 = (m - 1) * L + k /\ e[1] = [do |-> s[k], of |-> r.names[m]]
      BY <1>3, <1>16
    <2>2. k = 1
      <3>1. CASE L = 1
        BY <3>1
      <3>2. CASE L = 2
        BY <1>8, <2>1, <3>2
      <3>3. CASE L = 3
        BY <1>8, <2>1, <3>3
      <3> QED BY <1>2, <3>1, <3>2, <3>3
    <2> QED BY <2>1, <2>2
  <1> QED BY <1>5, <1>12, <1>15, <1>16, <1>17 DEF e

(* A list that goes into a transaction upserts each of its users.          *)
LEMMA ListPlanUpserts ==
  ASSUME program \in Programs, NEW r \in Requests, r.op = "list", program.mode = "transaction",
         NEW n \in ToSet(r.names)
  PROVE  \E i \in 1..Len(Plan(r)) : Plan(r)[i].do = "upsert" /\ Plan(r)[i].of = n
  <1> DEFINE s == program.entry
             L == Len(s)
             M == Len(r.names)
             N == L * M
             e == Plan(r)
             last == [do |-> program.ending[1], of |-> Head(r.names)]
  <1>1. WellFormed(program) /\ Part(program, r) = s
    BY UserProgramsAssumption DEF Part
  <1>2. L \in 1..3
    BY <1>1, PartIs
  <1>3. /\ e \in Seq(Steps) /\ N \in Nat \ {0}
        /\ \A i \in 1..N : \E k \in 1..L, m \in 1..M :
             i = (m - 1) * L + k /\ e[i] = [do |-> s[k], of |-> r.names[m]]
        /\ program.ending = <<>> => Len(e) = N
        /\ program.ending # <<>> => Len(e) = N + 1 /\ e[N + 1] = last
    BY ListPlan
  <1>4. PICK k \in 1..L : s[k] = "upsert"
    <2>1. ~Without(program.entry, {"upsert"})
      BY <1>1 DEF WellFormed
    <2> QED BY <2>1 DEF Without
  <1>5. PICK m \in 1..M : r.names[m] = n
    <2>1. r.names \in Seq(Usernames)
      BY RequestIs
    <2>2. DOMAIN r.names = 1..M
      BY <2>1
    <2> QED BY <2>2 DEF ToSet
  <1>6. M \in Nat
    <2>1. r.names \in Seq(Usernames)
      BY RequestIs
    <2> QED BY <2>1
  <1>7. N = L * M
    OBVIOUS
  <1> HIDE DEF s, L, M, N, e
  <1>8. (m - 1) * L + k \in 1..N
    <2>1. CASE L = 1
      BY <1>4, <1>5, <1>6, <1>7, <2>1
    <2>2. CASE L = 2
      BY <1>4, <1>5, <1>6, <1>7, <2>2
    <2>3. CASE L = 3
      BY <1>4, <1>5, <1>6, <1>7, <2>3
    <2> QED BY <1>2, <2>1, <2>2, <2>3
  <1> DEFINE i == (m - 1) * L + k
  <1>9. PICK k2 \in 1..L, m2 \in 1..M :
          i = (m2 - 1) * L + k2 /\ e[i] = [do |-> s[k2], of |-> r.names[m2]]
    BY <1>3, <1>8
  <1>10. k2 = k /\ m2 = m
    <2>1. CASE L = 1
      BY <1>4, <1>5, <1>6, <1>9, <2>1
    <2>2. CASE L = 2
      BY <1>4, <1>5, <1>6, <1>9, <2>2
    <2>3. CASE L = 3
      BY <1>4, <1>5, <1>6, <1>9, <2>3
    <2> QED BY <1>2, <2>1, <2>2, <2>3
  <1> HIDE DEF i
  <1>11. e[i].do = "upsert" /\ e[i].of = n
    BY <1>4, <1>5, <1>9, <1>10
  <1>12. i \in 1..Len(e)
    <2>1. Len(e) \in {N, N + 1} /\ N \in Nat /\ i \in 1..N
      BY <1>3, <1>8, Zenon DEF i
    <2> QED BY <2>1
  <1> QED BY <1>11, <1>12 DEF e

(* What a request is about to send when it arrives.                        *)
LEMMA PlanIs ==
  ASSUME program \in Programs, NEW r \in Requests
  PROVE  /\ Plan(r) \in Seq(Steps) /\ Plan(r) # <<>>
         /\ Fits(program, r, Plan(r)) /\ InOrder(program, r, Plan(r))
         /\ Plan(r)[1].do # "rename"
         /\ GivesIds(program) => Plan(r)[1].do \notin NeedsId
  <1>1. CASE r.op # "list"
    <2>1. Plan(r) \in Seq(Steps) /\ Len(Plan(r)) \in 1..3
      BY <1>1, SinglePlan, SinglePlanFits
    <2>2. Plan(r) # <<>>
      BY <2>1
    <2> QED BY <1>1, <2>1, <2>2, SinglePlanFits
  <1>2. CASE r.op = "list"
    <2>1. Plan(r) \in Seq(Steps) /\ Len(Plan(r)) \in Nat \ {0}
      BY <1>2, ListPlan, ListPlanFits
    <2>2. Plan(r) # <<>>
      BY <2>1
    <2> QED BY <1>2, <2>1, <2>2, ListPlanFits
  <1> QED BY <1>1, <1>2
-----------------------------------------------------------------------------
(* How a worker is after a statement.                                      *)

Others(w) ==
  \A u \in Workers : u # w => /\ req'[u] = req[u] /\ todo'[u] = todo[u]
                              /\ rid'[u] = rid[u] /\ answer'[u] = answer[u]
WorkTypes ==
  /\ req' \in [Workers -> Requests \cup {NoRequest}]
  /\ todo' \in [Workers -> Seq(Steps)]
  /\ \A u \in Workers : todo'[u] = <<>> <=> req'[u] = NoRequest
  /\ rid' \in [Workers -> 0..MaxId]
  /\ answer' \in [Workers -> Answers]

Ended(w) == Others(w) /\ req'[w] = NoRequest /\ todo'[w] = <<>>
GoesOn(w, i) ==
  /\ Others(w) /\ req'[w] = req[w] /\ i \in 1..Len(todo[w])
  /\ todo'[w] = RemoveAt(todo[w], i) /\ todo'[w] # <<>>

(* A step of w that keeps the types of what w has.                         *)
LEMMA WorkChanges ==
  ASSUME TypeOK, NEW w \in Workers,
         NEW r \in Requests \cup {NoRequest}, NEW s \in Seq(Steps), s = <<>> <=> r = NoRequest,
         NEW id \in 0..MaxId, NEW a \in Answers,
         req' = [req EXCEPT ![w] = r], todo' = [todo EXCEPT ![w] = s],
         rid' = [rid EXCEPT ![w] = id], answer' = [answer EXCEPT ![w] = a]
  PROVE  /\ WorkTypes /\ Others(w)
         /\ req'[w] = r /\ todo'[w] = s /\ rid'[w] = id /\ answer'[w] = a
  BY DEF TypeOK, WorkTypes, Others, Steps

LEMMA AnswerEnds ==
  ASSUME TypeOK, NEW w \in Workers, NEW a \in Answers, Answer(w, a)
  PROVE  WorkTypes /\ Ended(w) /\ rid'[w] = Null /\ answer'[w] = a
  <1>1. <<>> \in Seq(Steps) /\ Null \in 0..MaxId
    BY UserBounds DEF Null
  <1> QED BY <1>1, WorkChanges DEF Answer, Ended

LEMMA AdvanceGoes ==
  ASSUME TypeOK, NEW w \in Workers, Serving(w), NEW i \in 1..Len(todo[w]),
         NEW id \in 0..MaxId, NEW told \in Answers, Advance(w, i, id, told)
  PROVE  /\ WorkTypes
         /\ \/ /\ Ended(w) /\ Len(todo[w]) = 1
               /\ answer'[w] = IF told = "none" THEN "ok" ELSE told
            \/ GoesOn(w, i) /\ rid'[w] = id /\ answer'[w] = told
  <1> DEFINE rest == RemoveAt(todo[w], i)
  <1>1. todo[w] \in Seq(Steps) /\ req[w] \in Requests
    BY DEF TypeOK, Steps, Serving
  <1>2. rest \in Seq(Steps) /\ Len(rest) = Len(todo[w]) - 1
    BY <1>1, RemoveAtIs
  <1>3. "ok" \in Answers /\ Null \in 0..MaxId /\ <<>> \in Seq(Steps)
    BY UserBounds DEF Answers, Null
  <1>4. /\ todo' = [todo EXCEPT ![w] = rest]
        /\ rid' = [rid EXCEPT ![w] = IF rest = <<>> THEN Null ELSE id]
        /\ req' = [req EXCEPT ![w] = IF rest = <<>> THEN NoRequest ELSE req[w]]
        /\ answer' = [answer EXCEPT ![w] = IF rest = <<>> /\ told = "none" THEN "ok" ELSE told]
    BY DEF Advance
  <1> HIDE DEF rest
  <1>5. CASE rest = <<>>
    <2>1. Len(todo[w]) = 1
      BY <1>1, <1>2, <1>5
    <2>2. /\ req' = [req EXCEPT ![w] = NoRequest] /\ todo' = [todo EXCEPT ![w] = <<>>]
          /\ rid' = [rid EXCEPT ![w] = Null]
          /\ answer' = [answer EXCEPT ![w] = IF told = "none" THEN "ok" ELSE told]
      BY <1>4, <1>5
    <2>3. (IF told = "none" THEN "ok" ELSE told) \in Answers
      BY <1>3
    <2>4. /\ WorkTypes /\ Others(w) /\ req'[w] = NoRequest /\ todo'[w] = <<>>
          /\ answer'[w] = IF told = "none" THEN "ok" ELSE told
      BY <1>3, <2>2, <2>3, WorkChanges
    <2> QED BY <2>1, <2>4 DEF Ended
  <1>6. CASE rest # <<>>
    <2>1. /\ req' = [req EXCEPT ![w] = req[w]] /\ todo' = [todo EXCEPT ![w] = rest]
          /\ rid' = [rid EXCEPT ![w] = id] /\ answer' = [answer EXCEPT ![w] = told]
      BY <1>4, <1>6
    <2>2. req[w] # NoRequest
      BY DEF Serving
    <2>3. /\ WorkTypes /\ Others(w) /\ req'[w] = req[w] /\ todo'[w] = rest
          /\ rid'[w] = id /\ answer'[w] = told
      BY <1>1, <1>2, <1>6, <2>1, <2>2, WorkChanges
    <2> QED BY <1>6, <2>3 DEF GoesOn, rest
  <1> QED BY <1>5, <1>6
-----------------------------------------------------------------------------
(* The inductive invariant.                                                *)

(* Locks belong to a transaction, or to a row about to be renamed.         *)
Held(w) ==
  \A n \in Usernames :
    locker[n] = w => /\ Serving(w) /\ n \in ToSet(req[w].names)
                     /\ InTransaction(w) \/ todo[w][1].do = "rename"

(* What is left to send serves the request; a row about to be renamed is   *)
(* there and locked; and there is an id where one is needed.               *)
Working(w) ==
  Serving(w) =>
    /\ Fits(program, req[w], todo[w]) /\ InOrder(program, req[w], todo[w])
    /\ todo[w][1].do = "rename" => locker[todo[w][1].of] = w /\ users[todo[w][1].of] # NoUser
    /\ GivesIds(program) /\ todo[w][1].do \in NeedsId => rid[w] # Null

(* Of the users of a transaction, each is drafted or yet to be upserted.   *)
Entered(w, n) == locker[n] = w /\ draft[n].profile = req[w].profile
ToUpsert(w, n) == \E j \in 1..Len(todo[w]) : todo[w][j].do = "upsert" /\ todo[w][j].of = n
Collects(w) ==
  InTransaction(w) => /\ answer[w] = "none"
                      /\ \A n \in ToSet(req[w].names) : Entered(w, n) \/ ToUpsert(w, n)

(* Rows, also those that are only drafted, have an id.                     *)
HaveIds ==
  GivesIds(program) =>
    \A n \in Usernames : /\ users[n] # NoUser => users[n].id # Null
                         /\ draft[n] # NoUser => draft[n].id # Null

IInv ==
  /\ TypeOK /\ HaveIds
  /\ \A w \in Workers : Held(w) /\ Working(w) /\ Collects(w)

(* A worker serves a request exactly while it has something to send.       *)
LEMMA ServingHas ==
  ASSUME TypeOK, NEW w \in Workers
  PROVE  /\ todo[w] \in Seq(Steps) /\ Len(todo[w]) \in Nat
         /\ Serving(w) => req[w] \in Requests /\ Len(todo[w]) # 0 /\ 1 \in 1..Len(todo[w])
         /\ Serving(w) <=> todo[w] # <<>>
         /\ \A i \in 1..Len(todo[w]) :
              todo[w][i] \in Steps /\ todo[w][i].do \in Statements /\ todo[w][i].of \in Usernames
  <1>1. todo[w] \in Seq(Steps) /\ (todo[w] = <<>> <=> req[w] = NoRequest)
    BY DEF TypeOK, Steps
  <1>2. req[w] \in Requests \cup {NoRequest}
    BY DEF TypeOK
  <1>3. Len(todo[w]) \in Nat /\ (todo[w] # <<>> => Len(todo[w]) # 0 /\ 1 \in 1..Len(todo[w]))
    BY <1>1, EmptySeq
  <1>4. \A i \in 1..Len(todo[w]) : todo[w][i] \in Steps
    BY <1>1
  <1>5. \A s \in Steps : s.do \in Statements /\ s.of \in Usernames
    BY DEF Steps
  <1> QED BY <1>1, <1>2, <1>3, <1>4, <1>5, Zenon DEF Serving

(* The statement a worker may send next.                                   *)
LEMMA Sent ==
  ASSUME IInv, NEW w \in Workers, Serving(w), NEW i \in 1..Len(todo[w]), i \in MaySend(w)
  PROVE  /\ Serves(program, req[w], todo[w][i].do)
         /\ todo[w][i].of \in ToSet(req[w].names)
         /\ req[w].op # "list" => todo[w][i].of = Head(req[w].names)
         /\ i # 1 => InList(w) /\ program.mode = "atOnce"
         /\ InTransaction(w) => /\ todo[w][i].do \in Draws \cup {"upsert", "commit"}
                                /\ todo[w][i].do = "commit" <=> Len(todo[w]) = 1
         /\ todo[w][i].do = "lockRow" => Len(todo[w]) # 1
         /\ ~InTransaction(w) /\ todo[w][i].do # "rename" => \A n \in Usernames : locker[n] # w
         /\ todo[w][i].do = "rename" => locker[todo[w][i].of] = w /\ users[todo[w][i].of] # NoUser
         /\ GivesIds(program) /\ todo[w][i].do \in NeedsId => rid[w] # Null
  <1>1. TypeOK /\ HaveIds /\ Held(w) /\ Working(w) /\ Collects(w)
    BY Zenon DEF IInv
  <1>2. /\ Fits(program, req[w], todo[w]) /\ InOrder(program, req[w], todo[w])
        /\ todo[w][1].do = "rename" => locker[todo[w][1].of] = w /\ users[todo[w][1].of] # NoUser
        /\ GivesIds(program) /\ todo[w][1].do \in NeedsId => rid[w] # Null
    BY <1>1 DEF Working
  <1>3. todo[w] # <<>> /\ Len(todo[w]) \in Nat /\ Len(todo[w]) # 0
    BY <1>1, ServingHas
  <1>4. /\ Serves(program, req[w], todo[w][i].do)
        /\ todo[w][i].of \in ToSet(req[w].names)
        /\ req[w].op # "list" => todo[w][i].of = Head(req[w].names)
    BY <1>2, Zenon DEF Fits
  <1>5. i = 1 \/ (InList(w) /\ program.mode = "atOnce")
    BY Zenon DEF MaySend
  <1>6. i # 1 => todo[w][i].do \notin {"rename", "lockRow"} /\ ~InTransaction(w)
    <2>1. InList(w) => todo[w][i].do \notin {"rename", "lockRow"}
      BY <1>4 DEF InList, Serves
    <2> QED BY <1>5, <2>1 DEF InTransaction
  <1>7. InTransaction(w) => req[w].op = "list" /\ program.mode = "transaction"
    BY DEF InTransaction, InList
  <1>8. Len(todo[w]) # 1 => todo[w][1].do # "commit"
    <2>1. Len(todo[w]) # 1 => 1 \in 1..(Len(todo[w]) - 1)
      <3>1. \A n \in Nat : n # 0 /\ n # 1 => 1 \in 1..(n - 1)
        OBVIOUS
      <3> QED BY <1>3, <3>1, Zenon
    <2>2. \A j \in 1..(Len(todo[w]) - 1) : todo[w][j].do # "commit"
      BY <1>2 DEF InOrder, Follows
    <2> QED BY <2>1, <2>2, Zenon
  <1>9. Len(todo[w]) = 1 => /\ todo[w][1].do # "lockRow"
                            /\ InTransaction(w) => todo[w][1].do = "commit"
    BY <1>2, <1>3, <1>7 DEF InOrder
  <1>10. InTransaction(w) => /\ todo[w][i].do \in Draws \cup {"upsert", "commit"}
                             /\ todo[w][i].do = "commit" <=> Len(todo[w]) = 1
    <2>1. InTransaction(w) => todo[w][i].do \in Draws \cup {"upsert", "commit"}
      BY <1>4, <1>7 DEF Serves
    <2> QED BY <1>6, <1>8, <1>9, <2>1, Zenon
  <1>11. todo[w][i].do = "lockRow" => Len(todo[w]) # 1
    BY <1>6, <1>9, Zenon
  <1>12. ~InTransaction(w) /\ todo[w][i].do # "rename" => \A n \in Usernames : locker[n] # w
    <2>1. SUFFICES ASSUME ~InTransaction(w), todo[w][i].do # "rename", NEW n \in Usernames, locker[n] = w
                   PROVE  FALSE
      BY Zenon
    <2>2. todo[w][1].do = "rename"
      BY <1>1, <2>1, Zenon DEF Held
    <2>3. req[w].op = "update"
      <3>1. 1 \in 1..Len(todo[w])
        BY <1>3
      <3>2. Serves(program, req[w], todo[w][1].do)
        BY <1>2, <3>1, Zenon DEF Fits
      <3> QED BY <2>2, <3>2 DEF Serves
    <2>4. ~InList(w)
      BY <2>3 DEF InList
    <2> QED BY <1>5, <2>1, <2>2, <2>4, Zenon
  <1>13. todo[w][i].do = "rename" => locker[todo[w][i].of] = w /\ users[todo[w][i].of] # NoUser
    BY <1>2, <1>6, Zenon
  <1>14. GivesIds(program) /\ todo[w][i].do \in NeedsId => rid[w] # Null
    <2>1. CASE i = 1
      BY <1>2, <2>1, Zenon
    <2>2. CASE i # 1
      BY <1>4, <1>5, <2>2 DEF Serves, InList
    <2> QED BY <2>1, <2>2
  <1> QED BY <1>4, <1>5, <1>10, <1>11, <1>12, <1>13, <1>14, Zenon

(* What is left after a statement still serves the request, and what is    *)
(* now next follows the statement.                                         *)
LEMMA Remains ==
  ASSUME IInv, NEW w \in Workers, Serving(w), NEW i \in 1..Len(todo[w]), i \in MaySend(w),
         NEW s, s = RemoveAt(todo[w], i), s # <<>>
  PROVE  /\ Fits(program, req[w], s) /\ InOrder(program, req[w], s)
         /\ s[1].do = "rename" => todo[w][i].do = "lockRow" /\ s[1].of = todo[w][i].of
         /\ GivesIds(program) /\ s[1].do \in NeedsId =>
              /\ todo[w][i].do \in LeavesId
              /\ ~(InList(w) /\ program.mode \in {"skipping", "atOnce"})
         /\ \A j \in 1..Len(todo[w]) : j # i => \E k \in 1..Len(s) : s[k] = todo[w][j]
  <1> DEFINE t == todo[w]
             r == req[w]
  <1>1. TypeOK /\ Fits(program, r, t) /\ InOrder(program, r, t)
    BY Zenon DEF IInv, Working
  <1>2. t \in Seq(Steps) /\ Len(t) \in Nat
    BY <1>1, ServingHas
  <1>3. /\ s \in Seq(Steps) /\ Len(s) = Len(t) - 1
        /\ \A j \in 1..(Len(t) - 1) : s[j] = IF j < i THEN t[j] ELSE t[j + 1]
    BY <1>2, RemoveAtIs
  <1>4. Len(s) \in Nat \ {0}
    BY <1>3, EmptySeq
  <1>5. \A j \in 1..Len(s) : \E k \in 1..Len(t) : s[j] = t[k]
    <2>1. SUFFICES ASSUME NEW j \in 1..Len(s) PROVE \E k \in 1..Len(t) : s[j] = t[k]
      OBVIOUS
    <2>2. CASE j < i
      BY <1>2, <1>3, <2>2
    <2>3. CASE ~(j < i)
      BY <1>2, <1>3, <2>3
    <2> QED BY <2>2, <2>3
  <1>6. Fits(program, r, s)
    BY <1>1, <1>5, Zenon DEF Fits
  <1>7. i = 1 \/ (r.op = "list" /\ program.mode = "atOnce")
    BY Zenon DEF MaySend, InList
  <1>8. InOrder(program, r, s)
    <2>1. CASE i = 1
      <3>1. \A j \in 1..Len(s) : s[j] = t[j + 1]
        BY <1>2, <1>3, <2>1
      <3>2. Len(s) \in 1..Len(s) /\ Len(s) + 1 = Len(t) /\ t # <<>>
        BY <1>2, <1>3, <1>4
      <3>3. s[Len(s)] = t[Len(t)]
        BY <3>1, <3>2, Zenon
      <3>4. ASSUME NEW j \in 1..(Len(s) - 1) PROVE Follows(program, s[j].do, s[j + 1].do)
        <4>1. /\ j \in 1..Len(s) /\ j + 1 \in 1..Len(s) /\ j + 1 \in 1..(Len(t) - 1)
          BY <1>3, <1>4
        <4>2. s[j] = t[j + 1] /\ s[j + 1] = t[(j + 1) + 1]
          BY <3>1, <4>1, Zenon
        <4>3. Follows(program, t[j + 1].do, t[(j + 1) + 1].do)
          BY <1>1, <4>1, Zenon DEF InOrder
        <4> QED BY <4>2, <4>3, Zenon
      <3>5. /\ t[Len(t)].do # "lockRow"
            /\ r.op = "list" /\ program.mode = "transaction" => t[Len(t)].do = "commit"
        BY <1>1, <3>2, Zenon DEF InOrder
      <3> QED BY <3>3, <3>4, <3>5, Zenon DEF InOrder
    <2>2. CASE r.op = "list" /\ program.mode = "atOnce"
      <3>1. ASSUME NEW j \in 1..Len(s)
            PROVE  /\ s[j].do \notin {"lockRow", "rename", "commit"}
                   /\ GivesIds(program) => s[j].do \notin NeedsId
        <4>1. Serves(program, r, s[j].do)
          BY <1>6, Zenon DEF Fits
        <4> QED BY <2>2, <4>1 DEF Serves
      <3>2. ASSUME NEW j \in 1..(Len(s) - 1) PROVE Follows(program, s[j].do, s[j + 1].do)
        <4>1. j \in 1..Len(s) /\ j + 1 \in 1..Len(s)
          BY <1>4
        <4> QED BY <3>1, <4>1 DEF Follows
      <3>3. Len(s) \in 1..Len(s)
        BY <1>4
      <3> QED BY <2>2, <3>1, <3>2, <3>3 DEF InOrder
    <2> QED BY <1>7, <2>1, <2>2
  <1>9. 1 \in 1..Len(s)
    BY <1>4
  <1>10. Serves(program, r, s[1].do) /\ (r.op # "list" => s[1].of = Head(r.names))
    BY <1>6, <1>9, Zenon DEF Fits
  <1>11. i = 1 => Follows(program, t[i].do, s[1].do) /\ (r.op # "list" => t[i].of = Head(r.names))
    <2>1. i = 1 => s[1] = t[1 + 1] /\ 1 \in 1..(Len(t) - 1)
      BY <1>3, <1>4, <1>9
    <2>2. \A j \in 1..(Len(t) - 1) : Follows(program, t[j].do, t[j + 1].do)
      BY <1>1, Zenon DEF InOrder
    <2>3. r.op # "list" => t[i].of = Head(r.names)
      BY <1>1, Zenon DEF Fits
    <2> QED BY <2>1, <2>2, <2>3, Zenon
  <1>12. s[1].do = "rename" => t[i].do = "lockRow" /\ s[1].of = t[i].of
    <2>1. s[1].do = "rename" => r.op = "update"
      BY <1>10 DEF Serves
    <2>2. s[1].do = "rename" => i = 1
      BY <1>7, <2>1
    <2>3. i = 1 /\ s[1].do = "rename" => t[i].do = "lockRow"
      BY <1>11 DEF Follows
    <2> QED BY <1>10, <1>11, <2>1, <2>2, <2>3
  <1>13. GivesIds(program) /\ s[1].do \in NeedsId =>
           t[i].do \in LeavesId /\ ~(InList(w) /\ program.mode \in {"skipping", "atOnce"})
    <2>1. GivesIds(program) /\ s[1].do \in NeedsId =>
            ~(r.op = "list" /\ program.mode \in {"skipping", "atOnce"})
      BY <1>10 DEF Serves
    <2>2. GivesIds(program) /\ s[1].do \in NeedsId => i = 1
      BY <1>7, <2>1
    <2>3. GivesIds(program) /\ s[1].do \in NeedsId /\ i = 1 => t[i].do \in LeavesId
      BY <1>11, Zenon DEF Follows
    <2> QED BY <2>1, <2>2, <2>3, Zenon DEF InList
  <1>14. ASSUME NEW j \in 1..Len(t), j # i PROVE \E k \in 1..Len(s) : s[k] = t[j]
    <2>1. CASE j < i
      BY <1>2, <1>3, <2>1
    <2>2. CASE j > i
      <3>1. j - 1 \in 1..(Len(t) - 1) /\ ~(j - 1 < i) /\ (j - 1) + 1 = j /\ j - 1 \in 1..Len(s)
        BY <1>2, <1>3, <2>2
      <3>2. s[j - 1] = t[(j - 1) + 1]
        BY <1>3, <3>1
      <3> QED BY <3>1, <3>2
    <2> QED BY <1>2, <1>14, <2>1, <2>2
  <1> QED BY <1>6, <1>8, <1>12, <1>13, <1>14
-----------------------------------------------------------------------------
(* What a statement may do.                                                *)

TableOK ==
  /\ users \in [Usernames -> Rows \cup {NoUser}]
  /\ seq \in 0..MaxId
  /\ locker \in [Usernames -> Workers \cup {Nobody}]
  /\ draft \in [Usernames -> Rows \cup {NoUser}]
  /\ \A n \in Usernames : draft[n] = NoUser <=> locker[n] = Nobody

(* Rows that another worker has locked stay as they are.                   *)
Keeps(w) ==
  \A n \in Usernames :
    /\ locker'[n] # locker[n] => locker'[n] \in {w, Nobody}
    /\ HeldByOther(w, n) => /\ locker'[n] = locker[n] /\ draft'[n] = draft[n]
                            /\ users[n] # NoUser => users'[n] # NoUser

Finishes(w) == Ended(w) /\ \A n \in Usernames : locker'[n] # w

OnItsOwn(w) == InList(w) /\ program.mode \in {"skipping", "atOnce"}
Drafts(w, n) == locker'[n] = w /\ draft'[n].profile = req[w].profile
Continues(w, i) ==
  /\ GoesOn(w, i)
  /\ \A n \in Usernames :
       locker'[n] = w =>
         \/ locker[n] = w /\ InTransaction(w)
         \/ n = todo[w][i].of /\ (InTransaction(w) \/ todo[w][i].do = "lockRow")
  /\ todo[w][i].do = "lockRow" => locker'[todo[w][i].of] = w /\ users'[todo[w][i].of] # NoUser
  /\ InTransaction(w) =>
       /\ answer'[w] = answer[w]
       /\ \A n \in Usernames : Entered(w, n) => Drafts(w, n)
       /\ todo[w][i].do = "upsert" => Drafts(w, todo[w][i].of)
  /\ GivesIds(program) /\ todo[w][i].do \in LeavesId /\ ~OnItsOwn(w) => rid'[w] # Null

Outcome(w, i) ==
  /\ program' = program /\ TableOK' /\ WorkTypes /\ Keeps(w) /\ HaveIds'
  /\ Finishes(w) \/ Continues(w, i)

AsNamed ==
  UpdatesInPlace(program) =>
    \A n \in Usernames : (Appears(n) => AppearsAsNamed(n)) /\ (Vanishes(n) => VanishesAsNamed(n))
IsWhole(w) == InTransaction(w) /\ users' # users => answer'[w] = "ok" /\ AllWritten(req[w])
-----------------------------------------------------------------------------
(* An outcome keeps the invariant.                                         *)

LEMMA OutcomeForSelf ==
  ASSUME IInv, NEW w \in Workers, Serving(w), NEW i \in 1..Len(todo[w]), i \in MaySend(w),
         Outcome(w, i)
  PROVE  Held(w)' /\ Working(w)' /\ Collects(w)'
  <1>1. CASE Finishes(w)
    <2>1. ~Serving(w)' /\ ~InTransaction(w)'
      BY <1>1 DEF Finishes, Ended, Serving, InTransaction, InList
    <2>2. \A n \in Usernames : locker'[n] # w
      BY <1>1, Zenon DEF Finishes
    <2> QED BY <2>1, <2>2, Zenon DEF Held, Working, Collects
  <1>2. CASE Continues(w, i)
    <2> DEFINE s == RemoveAt(todo[w], i)
    <2>1. /\ todo'[w] = s /\ s # <<>> /\ req'[w] = req[w] /\ program' = program
      BY <1>2 DEF Continues, GoesOn, Outcome
    <2> HIDE DEF s
    <2>2. /\ Fits(program, req[w], s) /\ InOrder(program, req[w], s)
          /\ s[1].do = "rename" => todo[w][i].do = "lockRow" /\ s[1].of = todo[w][i].of
          /\ GivesIds(program) /\ s[1].do \in NeedsId => todo[w][i].do \in LeavesId /\ ~OnItsOwn(w)
          /\ \A j \in 1..Len(todo[w]) : j # i => \E k \in 1..Len(s) : s[k] = todo[w][j]
      BY <2>1, Remains DEF s, OnItsOwn
    <2>3. /\ Serves(program, req[w], todo[w][i].do) /\ todo[w][i].of \in ToSet(req[w].names)
          /\ InTransaction(w) => todo[w][i].do \in Draws \cup {"upsert", "commit"}
          /\ InTransaction(w) => (todo[w][i].do = "commit" <=> Len(todo[w]) = 1)
      BY Sent
    <2>4. Serving(w)' /\ (InTransaction(w)' <=> InTransaction(w))
      BY <2>1 DEF Serving, InTransaction, InList
    <2>5. Held(w) /\ Collects(w)
      BY Zenon DEF IInv
    <2>6. todo[w][i].do = "lockRow" => s[1].do = "rename"
      <3>1. SUFFICES ASSUME todo[w][i].do = "lockRow" PROVE s[1].do = "rename"
        OBVIOUS
      <3>2. req[w].op = "update" /\ ~InList(w)
        BY <2>3, <3>1 DEF Serves, InList
      <3>3. i = 1
        BY <3>2, Zenon DEF MaySend
      <3>4. TypeOK /\ InOrder(program, req[w], todo[w])
        BY Zenon DEF IInv, Working
      <3>5. todo[w] \in Seq(Steps) /\ Len(todo[w]) \in Nat /\ Len(todo[w]) # 0
        BY <3>4, ServingHas
      <3>6. Len(todo[w]) # 1
        BY <3>1, Sent, Zenon
      <3>7. 1 \in 1..(Len(todo[w]) - 1)
        <4>1. \A n \in Nat : n # 0 /\ n # 1 => 1 \in 1..(n - 1)
          OBVIOUS
        <4> QED BY <3>5, <3>6, <4>1, Zenon
      <3>8. s[1] = todo[w][1 + 1]
        <4>1. \A j \in 1..(Len(todo[w]) - 1) : s[j] = IF j < 1 THEN todo[w][j] ELSE todo[w][j + 1]
          BY <3>3, <3>5, RemoveAtIs DEF s
        <4> QED BY <3>7, <4>1
      <3>9. Follows(program, todo[w][1].do, todo[w][1 + 1].do)
        BY <3>4, <3>7, Zenon DEF InOrder
      <3> QED BY <3>1, <3>3, <3>8, <3>9, Zenon DEF Follows
    <2>7. Held(w)'
      <3>1. SUFFICES ASSUME NEW n \in Usernames, locker'[n] = w
                     PROVE  n \in ToSet(req[w].names) /\ (InTransaction(w) \/ s[1].do = "rename")
        BY <2>1, <2>4, Zenon DEF Held
      <3>2. \/ locker[n] = w /\ InTransaction(w)
            \/ n = todo[w][i].of /\ (InTransaction(w) \/ todo[w][i].do = "lockRow")
        BY <1>2, <3>1, Zenon DEF Continues
      <3> QED BY <2>3, <2>5, <2>6, <3>2, Zenon DEF Held
    <2>8. Working(w)'
      <3>1. s[1].do = "rename" => locker'[s[1].of] = w /\ users'[s[1].of] # NoUser
        BY <1>2, <2>2, Zenon DEF Continues
      <3>2. GivesIds(program) /\ s[1].do \in NeedsId => rid'[w] # Null
        BY <1>2, <2>2, Zenon DEF Continues
      <3> QED BY <2>1, <2>2, <3>1, <3>2, Zenon DEF Working
    <2>9. Collects(w)'
      <3>1. SUFFICES ASSUME InTransaction(w)
                     PROVE  /\ answer'[w] = "none"
                            /\ \A n \in ToSet(req[w].names) : Drafts(w, n) \/ ToUpsert(w, n)'
        BY <2>1, <2>4, Zenon DEF Collects, Drafts, Entered
      <3>2. answer'[w] = "none"
        BY <1>2, <2>5, <3>1, Zenon DEF Continues, Collects
      <3>3. ASSUME NEW n \in ToSet(req[w].names) PROVE Drafts(w, n) \/ ToUpsert(w, n)'
        <4>1. n \in Usernames
          <5>1. TypeOK
            BY DEF IInv
          <5>2. req[w] \in Requests
            BY <5>1, ServingHas
          <5> QED BY <5>2, RequestIs
        <4>2. CASE Entered(w, n)
          BY <1>2, <3>1, <4>1, <4>2, Zenon DEF Continues
        <4>3. CASE ToUpsert(w, n)
          <5>1. PICK j \in 1..Len(todo[w]) : todo[w][j].do = "upsert" /\ todo[w][j].of = n
            BY <4>3, Zenon DEF ToUpsert
          <5>2. CASE j = i
            BY <1>2, <3>1, <5>1, <5>2, Zenon DEF Continues
          <5>3. CASE j # i
            <6>1. PICK k \in 1..Len(s) : s[k] = todo[w][j]
              BY <2>2, <5>3, Zenon
            <6>2. \E l \in 1..Len(s) : s[l].do = "upsert" /\ s[l].of = n
              BY <5>1, <6>1, Zenon
            <6> QED BY <2>1, <6>2, Zenon DEF ToUpsert
          <5> QED BY <5>2, <5>3, Zenon
        <4> QED BY <2>5, <3>1, <4>2, <4>3, Zenon DEF Collects
      <3> QED BY <3>2, <3>3, Zenon
    <2> QED BY <2>7, <2>8, <2>9
  <1> QED BY <1>1, <1>2 DEF Outcome

LEMMA OutcomeForOthers ==
  ASSUME IInv, NEW w \in Workers, Others(w), program' = program, Keeps(w),
         NEW u \in Workers, u # w
  PROVE  Held(u)' /\ Working(u)' /\ Collects(u)'
  <1>1. /\ req'[u] = req[u] /\ todo'[u] = todo[u] /\ rid'[u] = rid[u] /\ answer'[u] = answer[u]
        /\ program' = program
    BY Zenon DEF Others
  <1>2. /\ Serving(u)' <=> Serving(u)
        /\ InTransaction(u)' <=> InTransaction(u)
    BY <1>1 DEF Serving, InTransaction, InList
  <1>3. Held(u) /\ Working(u) /\ Collects(u) /\ TypeOK
    BY Zenon DEF IInv
  <1>4. u # Nobody
    BY UserModelValues
  <1>5. ASSUME NEW n \in Usernames
        PROVE  /\ locker'[n] = u <=> locker[n] = u
               /\ locker[n] = u => draft'[n] = draft[n] /\ (users[n] # NoUser => users'[n] # NoUser)
    <2>1. locker[n] = u => HeldByOther(w, n)
      BY <1>4 DEF HeldByOther
    <2>2. locker'[n] # locker[n] => locker'[n] \in {w, Nobody}
      BY Zenon DEF Keeps
    <2>3. HeldByOther(w, n) => /\ locker'[n] = locker[n] /\ draft'[n] = draft[n]
                               /\ users[n] # NoUser => users'[n] # NoUser
      BY Zenon DEF Keeps
    <2> QED BY <1>4, <2>1, <2>2, <2>3
  <1>6. Held(u)'
    BY <1>1, <1>2, <1>3, <1>5, Zenon DEF Held
  <1>7. Working(u)'
    <2>1. Serving(u) => todo[u][1].of \in Usernames
      BY <1>3, ServingHas
    <2> QED BY <1>1, <1>2, <1>3, <1>5, <2>1, Zenon DEF Working
  <1>8. Collects(u)'
    <2>1. InTransaction(u) => ToSet(req[u].names) \subseteq Usernames
      <3>1. InTransaction(u) => Serving(u)
        BY DEF InTransaction, InList, Serving
      <3>2. Serving(u) => req[u] \in Requests
        BY <1>3, ServingHas
      <3> QED BY <3>1, <3>2, RequestIs
    <2>2. ASSUME InTransaction(u), NEW n \in ToSet(req[u].names)
          PROVE  (Entered(u, n) \/ ToUpsert(u, n))'
      <3>1. n \in Usernames
        BY <2>1, <2>2
      <3>2. Entered(u, n) => Entered(u, n)'
        BY <1>1, <1>5, <3>1, Zenon DEF Entered
      <3>3. ToUpsert(u, n) => ToUpsert(u, n)'
        BY <1>1, Zenon DEF ToUpsert
      <3> QED BY <1>3, <2>2, <3>2, <3>3, Zenon DEF Collects
    <2> QED BY <1>1, <1>2, <1>3, <2>2, Zenon DEF Collects
  <1> QED BY <1>6, <1>7, <1>8

LEMMA OutcomeKeeps ==
  ASSUME IInv, NEW w \in Workers, Serving(w), NEW i \in 1..Len(todo[w]), i \in MaySend(w),
         Outcome(w, i)
  PROVE  IInv'
  <1>1. Others(w) /\ program' = program /\ Keeps(w) /\ HaveIds' /\ TableOK' /\ WorkTypes
    BY Zenon DEF Outcome, Finishes, Continues, Ended, GoesOn
  <1>2. program \in Programs
    BY DEF IInv, TypeOK
  <1>3. TypeOK'
    BY <1>1, <1>2 DEF TypeOK, TableOK, WorkTypes, Steps
  <1>4. Held(w)' /\ Working(w)' /\ Collects(w)'
    BY OutcomeForSelf
  <1>5. \A u \in Workers : u # w => Held(u)' /\ Working(u)' /\ Collects(u)'
    BY <1>1, OutcomeForOthers
  <1> QED BY <1>1, <1>3, <1>4, <1>5, Zenon DEF IInv
-----------------------------------------------------------------------------
(* The statements, one by one.                                             *)

(* A worker that has dealt with a statement has moved.                     *)
LEMMA DealtWith ==
  ASSUME TypeOK, NEW w \in Workers, Serving(w), NEW i \in 1..Len(todo[w]),
         Ended(w) \/ GoesOn(w, i)
  PROVE  Moves(w)
  <1>1. todo[w] \in Seq(Steps) /\ todo[w] # <<>>
    BY ServingHas
  <1>2. RemoveAt(todo[w], i) # todo[w]
    BY <1>1, RemoveAtIs
  <1> QED BY <1>1, <1>2, Zenon DEF Moves, Ended, GoesOn, Serving

(* No table, no change in it.                                              *)
LEMMA Unchanged ==
  ASSUME users' = users, NEW w \in Workers
  PROVE  AsNamed /\ IsWhole(w)
  BY DEF AsNamed, IsWhole, Appears, Vanishes

(* The locks of w are gone.                                                *)
LEMMA ReleaseIs ==
  ASSUME TypeOK, NEW w \in Workers, Release(w)
  PROVE  /\ locker' \in [Usernames -> Workers \cup {Nobody}]
         /\ draft' \in [Usernames -> Rows \cup {NoUser}]
         /\ \A n \in Usernames :
              /\ draft'[n] = NoUser <=> locker'[n] = Nobody
              /\ locker'[n] # w
              /\ locker'[n] # locker[n] => locker'[n] = Nobody
              /\ locker[n] # w => locker'[n] = locker[n] /\ draft'[n] = draft[n]
              /\ draft'[n] \in {draft[n], NoUser}
  <1>1. w # Nobody
    BY UserModelValues
  <1>2. /\ locker' = [n \in Usernames |-> IF locker[n] = w THEN Nobody ELSE locker[n]]
        /\ draft' = [n \in Usernames |-> IF locker[n] = w THEN NoUser ELSE draft[n]]
    BY DEF Release
  <1> QED BY <1>1, <1>2 DEF TypeOK

(* A statement that fails.                                                 *)
LEMMA FailsOutcome ==
  ASSUME IInv, NEW w \in Workers, Serving(w), NEW i \in 1..Len(todo[w]), i \in MaySend(w),
         NEW a \in Answers, Fails(w, i, a)
  PROVE  Outcome(w, i) /\ users' = users
  <1>1. TypeOK /\ HaveIds
    BY DEF IInv
  <1>2. Release(w) /\ program' = program /\ users' = users /\ seq' = seq
    BY DEF Fails
  <1>3. /\ locker' \in [Usernames -> Workers \cup {Nobody}]
        /\ draft' \in [Usernames -> Rows \cup {NoUser}]
        /\ \A n \in Usernames :
              /\ draft'[n] = NoUser <=> locker'[n] = Nobody
              /\ locker'[n] # w
              /\ locker'[n] # locker[n] => locker'[n] = Nobody
              /\ locker[n] # w => locker'[n] = locker[n] /\ draft'[n] = draft[n]
              /\ draft'[n] \in {draft[n], NoUser}
    BY <1>1, <1>2, ReleaseIs
  <1>4. TableOK' /\ Keeps(w) /\ HaveIds'
    <2>1. TableOK'
      BY <1>1, <1>2, <1>3 DEF TableOK, TypeOK
    <2>2. Keeps(w)
      BY <1>2, <1>3 DEF Keeps, HeldByOther
    <2>3. HaveIds'
      BY <1>1, <1>2, <1>3 DEF HaveIds
    <2> QED BY <2>1, <2>2, <2>3
  <1>5. Null \in 0..MaxId /\ answer[w] \in Answers
    BY <1>1, UserBounds DEF Null, TypeOK
  <1>6. WorkTypes /\ (Ended(w) \/ (GoesOn(w, i) /\ OnItsOwn(w)))
    <2>1. CASE InList(w) /\ program.mode = "atOnce"
      <3>1. PICK told \in Answers : Advance(w, i, Null, told)
        BY <1>5, <2>1 DEF Fails
      <3>2. OnItsOwn(w)
        BY <2>1 DEF OnItsOwn
      <3> QED BY <1>1, <1>5, <3>1, <3>2, AdvanceGoes
    <2>2. CASE InList(w) /\ program.mode = "skipping"
      <3>1. Advance(w, i, Null, answer[w])
        BY <2>2 DEF Fails, Proceed
      <3>2. OnItsOwn(w)
        BY <2>2 DEF OnItsOwn
      <3> QED BY <1>1, <1>5, <3>1, <3>2, AdvanceGoes
    <2>3. CASE ~(InList(w) /\ program.mode \in {"atOnce", "skipping"})
      <3>1. Answer(w, a)
        BY <2>3 DEF Fails
      <3> QED BY <1>1, <3>1, AnswerEnds
    <2> QED BY <2>1, <2>2, <2>3
  <1>7. Finishes(w) \/ Continues(w, i)
    <2>1. CASE Ended(w)
      BY <1>3, <2>1, Zenon DEF Finishes
    <2>2. CASE GoesOn(w, i) /\ OnItsOwn(w)
      <3>1. ~InTransaction(w)
        BY <2>2 DEF OnItsOwn, InTransaction
      <3>2. todo[w][i].do # "lockRow"
        <4>1. Serves(program, req[w], todo[w][i].do)
          BY Sent
        <4> QED BY <2>2, <4>1 DEF Serves, OnItsOwn, InList
      <3> QED BY <1>3, <2>2, <3>1, <3>2, Zenon DEF Continues
    <2> QED BY <1>6, <2>1, <2>2
  <1> QED BY <1>2, <1>4, <1>6, <1>7 DEF Outcome

(* A statement that changes no row and takes no lock.                      *)
LEMMA QuietOutcome ==
  ASSUME IInv, NEW w \in Workers, Serving(w), NEW i \in 1..Len(todo[w]), i \in MaySend(w),
         program' = program, users' = users, locker' = locker, draft' = draft, seq' \in 0..MaxId,
         todo[w][i].do \notin {"lockRow", "rename", "upsert", "commit"},
         NEW id \in 0..MaxId, NEW a \in Answers,
         (Answer(w, a) /\ ~InTransaction(w)) \/ Proceed(w, i, id),
         GivesIds(program) /\ todo[w][i].do \in LeavesId => id # Null
  PROVE  Outcome(w, i)
  <1>1. TypeOK /\ HaveIds
    BY DEF IInv
  <1>2. TableOK' /\ Keeps(w) /\ HaveIds'
    <2>1. TableOK'
      BY <1>1 DEF TableOK, TypeOK
    <2>2. Keeps(w)
      BY DEF Keeps
    <2>3. HaveIds'
      BY <1>1 DEF HaveIds
    <2> QED BY <2>1, <2>2, <2>3
  <1>3. /\ ~InTransaction(w) => \A n \in Usernames : locker[n] # w
        /\ InTransaction(w) => Len(todo[w]) # 1
    BY Sent
  <1>4. answer[w] \in Answers
    BY <1>1 DEF TypeOK
  <1>5. /\ WorkTypes
        /\ \/ Ended(w) /\ ~InTransaction(w)
           \/ GoesOn(w, i) /\ rid'[w] = id /\ answer'[w] = answer[w]
    <2>1. CASE Answer(w, a) /\ ~InTransaction(w)
      BY <1>1, <2>1, AnswerEnds
    <2>2. CASE Proceed(w, i, id)
      <3>1. Advance(w, i, id, answer[w])
        BY <2>2 DEF Proceed
      <3> QED BY <1>1, <1>3, <1>4, <3>1, AdvanceGoes
    <2> QED BY <2>1, <2>2
  <1>6. CASE Ended(w) /\ ~InTransaction(w)
    <2>1. Finishes(w)
      BY <1>3, <1>6 DEF Finishes
    <2> QED BY <1>2, <1>5, <2>1 DEF Outcome
  <1>7. CASE GoesOn(w, i) /\ rid'[w] = id /\ answer'[w] = answer[w]
    <2>1. \A n \in Usernames : locker'[n] = w => locker[n] = w /\ InTransaction(w)
      BY <1>3
    <2>2. \A n \in Usernames : Entered(w, n) => Drafts(w, n)
      BY DEF Entered, Drafts
    <2>3. Continues(w, i)
      BY <1>7, <2>1, <2>2 DEF Continues
    <2> QED BY <1>2, <1>5, <2>3 DEF Outcome
  <1> QED BY <1>5, <1>6, <1>7

(* What a statement has not had to wait for.                               *)
LEMMA NotWaiting ==
  ASSUME TypeOK, NEW w \in Workers, NEW i \in 1..Len(todo[w]), ~Waits(w, i),
         NEW do, do = todo[w][i].do, NEW n \in Usernames, n = todo[w][i].of
  PROVE  /\ do \in Inserts => ~HeldByOther(w, n)
         /\ do \in Updates \cup Deletes \cup {"lockRow"} /\ users[n] # NoUser => ~HeldByOther(w, n)
         /\ do = "rename" /\ req[w].new \in Usernames => ~HeldByOther(w, req[w].new)
  <1>1. NoUser \notin Usernames
    BY UserModelValues
  <1>2. do \in Inserts => WaitsAt(w, todo[w][i]) = n
    BY DEF WaitsAt, Inserts, Updates, Deletes
  <1>3. do \in Updates \cup Deletes \cup {"lockRow"} /\ users[n] # NoUser => WaitsAt(w, todo[w][i]) = n
    BY DEF WaitsAt, Inserts, Updates, Deletes
  <1>4. do = "rename" => WaitsAt(w, todo[w][i]) = req[w].new
    BY DEF WaitsAt, Inserts, Updates, Deletes
  <1>5. WaitsAt(w, todo[w][i]) # NoUser => ~HeldByOther(w, WaitsAt(w, todo[w][i]))
    BY Zenon DEF Waits
  <1> QED BY <1>1, <1>2, <1>3, <1>4, <1>5, Zenon

(* A row is written, in a transaction or at once.                          *)
LEMMA WriteOutcome ==
  ASSUME IInv, NEW w \in Workers, Serving(w), NEW i \in 1..Len(todo[w]), i \in MaySend(w),
         program' = program, seq' \in 0..MaxId, Proceed(w, i, Null),
         NEW n \in Usernames, n = todo[w][i].of,
         NEW row \in Rows, row.profile = req[w].profile,
         Write(w, n, row), ~HeldByOther(w, n),
         NEW do, do = todo[w][i].do, do \in Inserts \/ (do \in Updates /\ users[n] # NoUser),
         GivesIds(program) => row.id # Null
  PROVE  Outcome(w, i) /\ AsNamed /\ IsWhole(w)
  <1>1. TypeOK /\ HaveIds
    BY DEF IInv
  <1>2. /\ Serves(program, req[w], do) /\ n \in ToSet(req[w].names)
        /\ InTransaction(w) => do \in Draws \cup {"upsert", "commit"} /\ (do = "commit" <=> Len(todo[w]) = 1)
        /\ do # "rename" /\ ~InTransaction(w) => \A m \in Usernames : locker[m] # w
    BY Sent
  <1>3. do \notin {"lockRow", "rename", "commit"} /\ do \notin LeavesId
    BY DEF Inserts, Updates, LeavesId, Draws
  <1>4. NoUser \notin Rows /\ w # Nobody
    BY UserModelValues
  <1>5. WorkTypes /\ ((Ended(w) /\ Len(todo[w]) = 1) \/ (GoesOn(w, i) /\ answer'[w] = answer[w]))
    <2>1. Null \in 0..MaxId /\ answer[w] \in Answers
      BY <1>1, UserBounds DEF Null, TypeOK
    <2>2. Advance(w, i, Null, answer[w])
      BY DEF Proceed
    <2> QED BY <1>1, <2>1, <2>2, AdvanceGoes
  <1>6. CASE InTransaction(w)
    <2>1. /\ locker' = [locker EXCEPT ![n] = w] /\ draft' = [draft EXCEPT ![n] = row] /\ users' = users
      BY <1>6 DEF Write
    <2>2. /\ locker'[n] = w /\ draft'[n] = row
          /\ \A m \in Usernames : m # n => locker'[m] = locker[m] /\ draft'[m] = draft[m]
      BY <1>1, <2>1 DEF TypeOK
    <2>3. TableOK'
      BY <1>1, <1>4, <2>1 DEF TypeOK, TableOK
    <2>4. Keeps(w)
      BY <2>1, <2>2 DEF Keeps
    <2>5. HaveIds'
      BY <1>1, <2>1, <2>2 DEF HaveIds
    <2>6. do = "upsert" /\ GoesOn(w, i) /\ answer'[w] = answer[w]
      BY <1>2, <1>3, <1>5, <1>6 DEF LeavesId
    <2>7. Drafts(w, n) /\ \A m \in Usernames : Entered(w, m) => Drafts(w, m)
      BY <2>2 DEF Drafts, Entered
    <2>8. \A m \in Usernames : locker'[m] = w => locker[m] = w \/ m = n
      BY <2>2
    <2>9. Continues(w, i)
      BY <1>3, <1>6, <2>6, <2>7, <2>8, Zenon DEF Continues
    <2> QED BY <1>5, <2>1, <2>3, <2>4, <2>5, <2>9, Unchanged DEF Outcome
  <1>7. CASE ~InTransaction(w)
    <2>1. users' = [users EXCEPT ![n] = row] /\ locker' = locker /\ draft' = draft
      BY <1>7 DEF Write
    <2>2. /\ users'[n] = row
          /\ \A m \in Usernames : m # n => users'[m] = users[m]
      BY <1>1, <2>1 DEF TypeOK
    <2>3. TableOK'
      BY <1>1, <2>1 DEF TypeOK, TableOK
    <2>4. Keeps(w)
      BY <2>1, <2>2 DEF Keeps
    <2>5. HaveIds'
      BY <1>1, <2>1, <2>2 DEF HaveIds
    <2>6. \A m \in Usernames : locker'[m] # w
      BY <1>2, <1>3, <1>7, <2>1
    <2>7. Finishes(w) \/ Continues(w, i)
      BY <1>3, <1>5, <1>7, <2>6, Zenon DEF Finishes, Continues
    <2>8. AsNamed
      <3>1. SUFFICES ASSUME UpdatesInPlace(program), NEW m \in Usernames
                     PROVE  (Appears(m) => AppearsAsNamed(m)) /\ ~Vanishes(m)
        BY DEF AsNamed
      <3>2. ~Vanishes(m) /\ (Appears(m) => m = n /\ do \in Inserts)
        BY <1>4, <2>2 DEF Appears, Vanishes
      <3>3. do \in Inserts => req[w].op \in {"create", "list"}
        <4>1. do \in Inserts => req[w].op \notin {"update", "delete"}
          BY <1>2, <3>1, Zenon DEF Serves
        <4>2. req[w].op \in Operations
          BY <1>1, ServingHas, RequestIs
        <4> QED BY <4>1, <4>2 DEF Operations
      <3>4. Moves(w)
        BY <1>1, <1>5, DealtWith
      <3> QED BY <1>2, <3>2, <3>3, <3>4, Zenon DEF AppearsAsNamed
    <2>9. IsWhole(w)
      BY <1>7, Zenon DEF IsWhole
    <2> QED BY <1>5, <2>3, <2>4, <2>5, <2>7, <2>8, <2>9 DEF Outcome
  <1> QED BY <1>6, <1>7

(* Where a row comes from.                                                 *)
LEMMA RowIs ==
  ASSUME TypeOK, NEW w \in Workers, Serving(w), NEW id \in 0..MaxId
  PROVE  Row(w, id) \in Rows /\ Row(w, id).id = id /\ Row(w, id).profile = req[w].profile
  <1>1. req[w] \in Requests
    BY ServingHas
  <1>2. req[w].profile \in Profiles
    BY <1>1, RequestIs
  <1> QED BY <1>2 DEF Row, Rows

Good(w, i) == /\ Serving(w) /\ i \in MaySend(w)
              /\ Outcome(w, i) /\ AsNamed /\ IsWhole(w)

LEMMA FailsGood ==
  ASSUME IInv, NEW w \in Workers, Serving(w), NEW i \in 1..Len(todo[w]), i \in MaySend(w),
         NEW a \in {"error", "refused"}, Fails(w, i, a)
  PROVE  Good(w, i)
  <1>1. a \in Answers
    BY DEF Answers
  <1> QED BY <1>1, FailsOutcome, Unchanged DEF Good

LEMMA NextvalGood ==
  ASSUME IInv, NEW w \in Workers, NEW i \in 1..Len(todo[w]), Nextval(w, i)
  PROVE  Good(w, i)
  <1>1. Serving(w) /\ i \in MaySend(w) /\ todo[w][i].do \in Draws
    BY DEF Nextval, Sends, Serving
  <1>2. TypeOK /\ todo[w][i].do \notin {"lockRow", "rename", "upsert", "commit"} /\ "ok" \in Answers
    BY <1>1 DEF IInv, Draws, Answers
  <1>3. CASE rid[w] # Null /\ todo[w][i].do = "nextval"
    <2>1. /\ Proceed(w, i, rid[w]) /\ program' = program /\ users' = users
          /\ locker' = locker /\ draft' = draft /\ seq' = seq
      BY <1>3 DEF Nextval, table
    <2>2. rid[w] \in 0..MaxId /\ seq' \in 0..MaxId
      BY <1>2, <2>1 DEF TypeOK
    <2> QED BY <1>1, <1>2, <1>3, <2>1, <2>2, QuietOutcome, Unchanged DEF Good
  <1>4. CASE ~(rid[w] # Null /\ todo[w][i].do = "nextval") /\ seq = MaxId
    <2>1. Fails(w, i, "error")
      BY <1>4 DEF Nextval
    <2> QED BY <1>1, <2>1, FailsGood
  <1>5. CASE ~(rid[w] # Null /\ todo[w][i].do = "nextval") /\ seq # MaxId
    <2> DEFINE id == IF rid[w] = Null THEN seq + 1 ELSE rid[w]
    <2>1. /\ Proceed(w, i, id) /\ program' = program /\ users' = users
          /\ locker' = locker /\ draft' = draft /\ seq' = seq + 1
      BY <1>5 DEF Nextval
    <2>2. seq + 1 \in 0..MaxId /\ seq + 1 # Null
      <3>1. MaxId \in Nat /\ seq \in 0..MaxId
        BY <1>2, UserBounds DEF TypeOK
      <3> QED BY <1>5, <3>1 DEF Null
    <2>3. rid[w] \in 0..MaxId
      BY <1>2 DEF TypeOK
    <2>4. id \in 0..MaxId /\ id # Null
      BY <2>2, <2>3
    <2> HIDE DEF id
    <2> QED BY <1>1, <1>2, <2>1, <2>2, <2>4, QuietOutcome, Unchanged DEF Good
  <1> QED BY <1>3, <1>4, <1>5

LEMMA FindGood ==
  ASSUME IInv, NEW w \in Workers, NEW i \in 1..Len(todo[w]), Find(w, i)
  PROVE  Good(w, i)
  <1> DEFINE n == todo[w][i].of
             kind == todo[w][i].do
  <1>1. Serving(w) /\ i \in MaySend(w) /\ kind \in Finds
    BY DEF Find, Sends, Serving
  <1>2. TypeOK /\ HaveIds /\ kind \notin {"lockRow", "rename", "upsert", "commit"}
    BY <1>1 DEF IInv, Finds
  <1>3. /\ program' = program /\ users' = users /\ locker' = locker /\ draft' = draft /\ seq' = seq
    BY DEF Find, table
  <1>4. seq' \in 0..MaxId /\ rid[w] \in 0..MaxId /\ n \in Usernames
    BY <1>2, <1>3, ServingHas DEF TypeOK
  <1>5. ~InTransaction(w)
    <2>1. InTransaction(w) => kind \in Draws \cup {"upsert", "commit"}
      BY <1>1, Sent
    <2> QED BY <1>1, <2>1 DEF Finds, Draws
  <1>6. kind \in LeavesId => kind = "findId"
    BY <1>1 DEF Finds, LeavesId, Draws
  <1>7. CASE users[n] = NoUser
    <2>1. PICK a \in Answers : Answer(w, a)
      BY <1>7 DEF Find, Answers
    <2>2. Null \in 0..MaxId /\ 1 \in 0..MaxId /\ 1 # Null
      BY UserBounds DEF Null
    <2>3. Outcome(w, i)
      BY <1>1, <1>2, <1>3, <1>4, <1>5, <2>1, <2>2, QuietOutcome
    <2> QED BY <1>1, <1>3, <2>3, Unchanged DEF Good
  <1>8. CASE users[n] # NoUser
    <2> DEFINE id == IF kind = "findId" /\ rid[w] = Null THEN users[n].id ELSE rid[w]
    <2>1. Proceed(w, i, id)
      BY <1>8 DEF Find
    <2>2. users[n] \in Rows
      BY <1>2, <1>4, <1>8 DEF TypeOK
    <2>3. id \in 0..MaxId
      BY <1>4, <2>2 DEF Rows
    <2>4. GivesIds(program) => users[n].id # Null
      BY <1>2, <1>4, <1>8 DEF HaveIds
    <2>5. GivesIds(program) /\ kind \in LeavesId => id # Null
      BY <1>6, <2>4
    <2> HIDE DEF id
    <2>6. "ok" \in Answers
      BY DEF Answers
    <2>7. Outcome(w, i)
      BY <1>1, <1>2, <1>3, <1>4, <2>1, <2>3, <2>5, <2>6, QuietOutcome
    <2> QED BY <1>1, <1>3, <2>7, Unchanged DEF Good
  <1> QED BY <1>7, <1>8

LEMMA UpsertGood ==
  ASSUME IInv, NEW w \in Workers, NEW i \in 1..Len(todo[w]), Upsert(w, i)
  PROVE  Good(w, i)
  <1> DEFINE n == todo[w][i].of
             row == Row(w, rid[w])
  <1>1. Serving(w) /\ i \in MaySend(w) /\ todo[w][i].do = "upsert" /\ ~Waits(w, i)
    BY DEF Upsert, Runs, Sends, Serving
  <1>2. TypeOK /\ "upsert" \in Inserts /\ "upsert" \in NeedsId
    BY DEF IInv, Inserts, NeedsId
  <1>3. /\ program' = program /\ seq' = seq /\ Proceed(w, i, Null) /\ Write(w, n, row)
    BY DEF Upsert
  <1>4. seq' \in 0..MaxId /\ rid[w] \in 0..MaxId /\ n \in Usernames
    BY <1>2, <1>3, ServingHas DEF TypeOK
  <1>5. ~HeldByOther(w, n)
    BY <1>1, <1>2, <1>4, NotWaiting
  <1>6. row \in Rows /\ row.id = rid[w] /\ row.profile = req[w].profile
    BY <1>1, <1>2, <1>4, RowIs
  <1>7. GivesIds(program) => rid[w] # Null
    BY <1>1, <1>2, Sent
  <1> HIDE DEF n, row
  <1>8. n = todo[w][i].of
    BY DEF n
  <1> QED BY <1>1, <1>2, <1>3, <1>4, <1>5, <1>6, <1>7, <1>8, WriteOutcome DEF Good

LEMMA InsertGood ==
  ASSUME IInv, NEW w \in Workers, NEW i \in 1..Len(todo[w]), Insert(w, i)
  PROVE  Good(w, i)
  <1> DEFINE n == todo[w][i].of
             row == Row(w, rid[w])
  <1>1. Serving(w) /\ i \in MaySend(w) /\ todo[w][i].do = "insert" /\ ~Waits(w, i)
    BY DEF Insert, Runs, Sends, Serving
  <1>2. TypeOK /\ "insert" \in Inserts
    BY DEF IInv, Inserts
  <1>3. CASE users[n] # NoUser
    <2>1. Fails(w, i, "refused")
      BY <1>3 DEF Insert
    <2> QED BY <1>1, <2>1, FailsGood
  <1>4. CASE users[n] = NoUser
    <2>3. /\ program' = program /\ seq' = seq /\ Proceed(w, i, Null) /\ Write(w, n, row)
      BY <1>4 DEF Insert
    <2>4. seq' \in 0..MaxId /\ rid[w] \in 0..MaxId /\ n \in Usernames
      BY <1>2, <2>3, ServingHas DEF TypeOK
    <2>5. ~HeldByOther(w, n)
      BY <1>1, <1>2, <2>4, NotWaiting
    <2>6. row \in Rows /\ row.id = rid[w] /\ row.profile = req[w].profile
      BY <1>1, <1>2, <2>4, RowIs
    <2>7. ~GivesIds(program)
      <3>1. Serves(program, req[w], "insert")
        BY <1>1, Sent
      <3> QED BY <3>1, Zenon DEF Serves
    <2> HIDE DEF n, row
    <2>8. n = todo[w][i].of
      BY DEF n
    <2> QED BY <1>1, <1>2, <2>3, <2>4, <2>5, <2>6, <2>7, <2>8, WriteOutcome DEF Good
  <1> QED BY <1>3, <1>4

LEMMA UpsertByIdGood ==
  ASSUME IInv, NEW w \in Workers, NEW i \in 1..Len(todo[w]), UpsertById(w, i)
  PROVE  Good(w, i)
  <1>1. Serving(w) /\ i \in MaySend(w) /\ Fails(w, i, "refused")
    BY DEF UpsertById, Runs, Sends, Serving
  <1> QED BY <1>1, FailsGood

LEMMA UpsertDrawingGood ==
  ASSUME IInv, NEW w \in Workers, NEW i \in 1..Len(todo[w]), UpsertDrawing(w, i)
  PROVE  Good(w, i)
  <1> DEFINE n == todo[w][i].of
             do == todo[w][i].do
             given == IF do = "upsertDrawing" THEN rid[w] ELSE Null
             keeps == do = "upsertButId" /\ users[n] # NoUser
             id == IF keeps THEN users[n].id ELSE IF given = Null THEN seq + 1 ELSE given
             row == Row(w, id)
  <1>1. Serving(w) /\ i \in MaySend(w) /\ do \in {"upsertDrawing", "upsertButId"} /\ ~Waits(w, i)
    BY DEF UpsertDrawing, Runs, Sends, Serving
  <1>2. TypeOK /\ HaveIds /\ do \in Inserts /\ n \in Usernames /\ rid[w] \in 0..MaxId
    <2>1. TypeOK /\ HaveIds
      BY DEF IInv
    <2> QED BY <1>1, <2>1, ServingHas DEF TypeOK, Inserts
  <1>3. CASE given = Null /\ seq = MaxId
    <2>1. Fails(w, i, "error")
      BY <1>3 DEF UpsertDrawing
    <2> QED BY <1>1, <2>1, FailsGood
  <1>4. CASE ~(given = Null /\ seq = MaxId)
    <2>1. /\ program' = program /\ seq' = (IF given = Null THEN seq + 1 ELSE seq)
          /\ Proceed(w, i, Null) /\ Write(w, n, row)
      BY <1>4 DEF UpsertDrawing
    <2>2. MaxId \in Nat /\ seq \in 0..MaxId
      BY <1>2, UserBounds DEF TypeOK
    <2>3. given = Null => seq + 1 \in 0..MaxId /\ seq + 1 # Null
      BY <1>4, <2>2 DEF Null
    <2>4. seq' \in 0..MaxId
      BY <2>1, <2>2, <2>3
    <2>5. keeps => users[n].id \in 0..MaxId /\ (GivesIds(program) => users[n].id # Null)
      <3>1. keeps => users[n] \in Rows
        BY <1>2 DEF TypeOK
      <3>2. keeps /\ GivesIds(program) => users[n].id # Null
        BY <1>2 DEF HaveIds
      <3> QED BY <3>1, <3>2 DEF Rows
    <2>6. given # Null => given \in 0..MaxId
      BY <1>2
    <2> HIDE DEF keeps, given
    <2>7. id \in 0..MaxId /\ (GivesIds(program) => id # Null)
      BY <2>3, <2>5, <2>6
    <2> HIDE DEF id
    <2>8. row \in Rows /\ row.id = id /\ row.profile = req[w].profile
      BY <1>1, <1>2, <2>7, RowIs
    <2>9. ~HeldByOther(w, n)
      BY <1>1, <1>2, NotWaiting
    <2>10. n = todo[w][i].of /\ do = todo[w][i].do
      OBVIOUS
    <2> HIDE DEF n, do, row
    <2> QED BY <1>1, <1>2, <2>1, <2>4, <2>7, <2>8, <2>9, <2>10, WriteOutcome DEF Good
  <1> QED BY <1>3, <1>4

LEMMA UpdateGood ==
  ASSUME IInv, NEW w \in Workers, NEW i \in 1..Len(todo[w]), Update(w, i)
  PROVE  Good(w, i)
  <1> DEFINE n == todo[w][i].of
             do == todo[w][i].do
             id == IF do = "updateButId" THEN users[n].id ELSE rid[w]
             row == Row(w, id)
  <1>1. Serving(w) /\ i \in MaySend(w) /\ do \in Updates /\ ~Waits(w, i)
    BY DEF Update, Runs, Sends, Serving
  <1>2. TypeOK /\ HaveIds /\ n \in Usernames /\ rid[w] \in 0..MaxId
    <2>1. TypeOK /\ HaveIds
      BY DEF IInv
    <2> QED BY <1>1, <2>1, ServingHas DEF TypeOK
  <1>3. program' = program /\ seq' = seq /\ seq' \in 0..MaxId
    BY <1>2 DEF Update, TypeOK
  <1>4. Serves(program, req[w], do)
    BY <1>1, Sent
  <1>5. CASE users[n] # NoUser
    <2>1. Proceed(w, i, Null) /\ Write(w, n, row)
      BY <1>5 DEF Update
    <2>2. users[n] \in Rows
      BY <1>2, <1>5 DEF TypeOK
    <2>3. id \in 0..MaxId
      BY <1>2, <2>2 DEF Rows
    <2>4. GivesIds(program) => id # Null
      <3>1. GivesIds(program) => do = "updateButId"
        <4>1. GivesIds(program) => do \notin {"insert", "update", "updateAny"}
          BY <1>4, Zenon DEF Serves
        <4> QED BY <1>1, <4>1 DEF Updates
      <3>2. GivesIds(program) => users[n].id # Null
        BY <1>2, <1>5 DEF HaveIds
      <3> QED BY <3>1, <3>2
    <2> HIDE DEF id
    <2>5. row \in Rows /\ row.id = id /\ row.profile = req[w].profile
      BY <1>1, <1>2, <2>3, RowIs
    <2>6. ~HeldByOther(w, n)
      BY <1>1, <1>2, <1>5, NotWaiting
    <2>7. n = todo[w][i].of /\ do = todo[w][i].do
      OBVIOUS
    <2> HIDE DEF n, do, row
    <2> QED BY <1>1, <1>2, <1>3, <1>5, <2>1, <2>4, <2>5, <2>6, <2>7, WriteOutcome DEF Good
  <1>6. CASE users[n] = NoUser
    <2>1. users' = users /\ locker' = locker /\ draft' = draft
      BY <1>6 DEF Update
    <2>2. ~InTransaction(w) /\ do \notin {"lockRow", "rename", "upsert", "commit"} /\ do \notin LeavesId
      <3>1. InTransaction(w) => do \in Draws \cup {"upsert", "commit"}
        BY <1>1, Sent
      <3> QED BY <1>1, <3>1 DEF Updates, Draws, LeavesId
    <2>3. Answer(w, "notFound") \/ Proceed(w, i, Null)
      BY <1>6 DEF Update
    <2>4. "notFound" \in Answers /\ Null \in 0..MaxId
      BY UserBounds DEF Answers, Null
    <2>5. Outcome(w, i)
      BY <1>1, <1>3, <2>1, <2>2, <2>3, <2>4, QuietOutcome
    <2> QED BY <1>1, <2>1, <2>5, Unchanged DEF Good
  <1> QED BY <1>5, <1>6

LEMMA LockRowGood ==
  ASSUME IInv, NEW w \in Workers, NEW i \in 1..Len(todo[w]), LockRow(w, i)
  PROVE  Good(w, i)
  <1> DEFINE n == todo[w][i].of
  <1>1. Serving(w) /\ i \in MaySend(w) /\ todo[w][i].do = "lockRow" /\ ~Waits(w, i)
    BY DEF LockRow, Runs, Sends, Serving
  <1>2. TypeOK /\ HaveIds /\ n \in Usernames /\ rid[w] \in 0..MaxId
    <2>1. TypeOK /\ HaveIds
      BY DEF IInv
    <2> QED BY <1>1, <2>1, ServingHas DEF TypeOK
  <1>3. program' = program /\ users' = users /\ seq' = seq
    BY DEF LockRow
  <1>4. /\ ~InTransaction(w) /\ Len(todo[w]) # 1 /\ \A m \in Usernames : locker[m] # w
        /\ GivesIds(program) => rid[w] # Null
    <2>1. /\ InTransaction(w) => todo[w][i].do \in Draws \cup {"upsert", "commit"}
          /\ todo[w][i].do = "lockRow" => Len(todo[w]) # 1
          /\ ~InTransaction(w) /\ todo[w][i].do # "rename" => \A m \in Usernames : locker[m] # w
          /\ GivesIds(program) /\ todo[w][i].do \in NeedsId => rid[w] # Null
      BY <1>1, Sent
    <2> QED BY <1>1, <2>1 DEF Draws, NeedsId
  <1>5. NoUser \notin Rows /\ w # Nobody
    BY UserModelValues
  <1>6. CASE users[n] = NoUser
    <2>1. Answer(w, "ok") /\ locker' = locker /\ draft' = draft
      BY <1>6 DEF LockRow
    <2>2. "ok" \in Answers
      BY DEF Answers
    <2>3. WorkTypes /\ Finishes(w)
      BY <1>2, <1>4, <2>1, <2>2, AnswerEnds DEF Finishes
    <2>4. TableOK' /\ Keeps(w) /\ HaveIds'
      BY <1>2, <1>3, <2>1 DEF TableOK, TypeOK, Keeps, HaveIds
    <2> QED BY <1>1, <1>3, <2>3, <2>4, Unchanged DEF Good, Outcome
  <1>7. CASE users[n] # NoUser
    <2>1. /\ locker' = [locker EXCEPT ![n] = w] /\ draft' = [draft EXCEPT ![n] = users[n]]
          /\ Proceed(w, i, rid[w])
      BY <1>7 DEF LockRow
    <2>2. /\ locker'[n] = w /\ draft'[n] = users[n]
          /\ \A m \in Usernames : m # n => locker'[m] = locker[m] /\ draft'[m] = draft[m]
      BY <1>2, <2>1 DEF TypeOK
    <2>3. ~HeldByOther(w, n)
      BY <1>1, <1>2, <1>7, NotWaiting
    <2>4. TableOK'
      BY <1>2, <1>3, <1>5, <1>7, <2>1, <2>2 DEF TableOK, TypeOK
    <2>5. Keeps(w)
      BY <1>3, <2>2, <2>3 DEF Keeps
    <2>6. HaveIds'
      BY <1>2, <1>3, <2>2 DEF HaveIds
    <2>7. answer[w] \in Answers /\ Advance(w, i, rid[w], answer[w])
      BY <1>2, <2>1 DEF TypeOK, Proceed
    <2>8. WorkTypes /\ GoesOn(w, i) /\ rid'[w] = rid[w]
      BY <1>1, <1>2, <1>4, <2>7, AdvanceGoes
    <2>9. \A m \in Usernames : locker'[m] = w => m = n
      BY <1>4, <2>2
    <2>10. Continues(w, i)
      BY <1>1, <1>3, <1>4, <1>7, <2>2, <2>8, <2>9, Zenon DEF Continues
    <2> QED BY <1>1, <1>3, <2>4, <2>5, <2>6, <2>8, <2>10, Unchanged DEF Good, Outcome
  <1> QED BY <1>6, <1>7

LEMMA RenameGood ==
  ASSUME IInv, NEW w \in Workers, NEW i \in 1..Len(todo[w]), Rename(w, i)
  PROVE  Good(w, i)
  <1> DEFINE n == todo[w][i].of
             new == req[w].new
             row == Row(w, rid[w])
  <1>1. Serving(w) /\ i \in MaySend(w) /\ todo[w][i].do = "rename" /\ ~Waits(w, i)
    BY DEF Rename, Runs, Sends, Serving
  <1>2. TypeOK /\ HaveIds /\ n \in Usernames /\ rid[w] \in 0..MaxId
    <2>1. TypeOK /\ HaveIds
      BY DEF IInv
    <2> QED BY <1>1, <2>1, ServingHas DEF TypeOK
  <1>3. CASE new # n /\ users[new] # NoUser
    <2>1. Fails(w, i, "refused")
      BY <1>3 DEF Rename
    <2> QED BY <1>1, <2>1, FailsGood
  <1>4. CASE ~(new # n /\ users[new] # NoUser)
    <2>1. /\ users' = [users EXCEPT ![n] = NoUser, ![new] = row]
          /\ Proceed(w, i, Null) /\ Release(w) /\ program' = program /\ seq' = seq
      BY <1>4 DEF Rename
    <2>2. /\ req[w].op = "update" /\ n = Head(req[w].names) /\ new \in Usernames
          /\ locker[n] = w /\ users[n] # NoUser
          /\ GivesIds(program) => rid[w] # Null
      <3>1. Serves(program, req[w], "rename")
        BY <1>1, Sent
      <3>2. req[w].op = "update"
        BY <3>1 DEF Serves
      <3>3. req[w] \in Requests
        BY <1>1, <1>2, ServingHas
      <3>4. new \in Usernames
        BY <3>2, <3>3, RequestIs
      <3>5. n = Head(req[w].names)
        BY <1>1, <3>2, Sent
      <3>6. "rename" \in NeedsId
        BY DEF NeedsId
      <3> QED BY <1>1, <3>2, <3>4, <3>5, <3>6, Sent
    <2>3. row \in Rows /\ row.id = rid[w] /\ row # NoUser
      <3>1. row \in Rows /\ row.id = rid[w]
        BY <1>1, <1>2, RowIs
      <3> QED BY <3>1, UserModelValues
    <2> HIDE DEF row
    <2>4. /\ users' \in [Usernames -> Rows \cup {NoUser}]
          /\ users'[new] = row
          /\ new # n => users'[n] = NoUser
          /\ \A m \in Usernames : m # n /\ m # new => users'[m] = users[m]
      BY <1>2, <2>1, <2>2, <2>3 DEF TypeOK
    <2>5. ~HeldByOther(w, n) /\ ~HeldByOther(w, new)
      <3>1. ~HeldByOther(w, n)
        BY <2>2 DEF HeldByOther
      <3>2. ~HeldByOther(w, new)
        BY <1>1, <1>2, <2>2, NotWaiting
      <3> QED BY <3>1, <3>2
    <2>6. /\ locker' \in [Usernames -> Workers \cup {Nobody}]
          /\ draft' \in [Usernames -> Rows \cup {NoUser}]
          /\ \A m \in Usernames :
                /\ draft'[m] = NoUser <=> locker'[m] = Nobody
                /\ locker'[m] # w
                /\ locker'[m] # locker[m] => locker'[m] = Nobody
                /\ locker[m] # w => locker'[m] = locker[m] /\ draft'[m] = draft[m]
                /\ draft'[m] \in {draft[m], NoUser}
      BY <1>2, <2>1, ReleaseIs
    <2>7. TableOK'
      BY <1>2, <2>1, <2>4, <2>6 DEF TableOK, TypeOK
    <2>8. Keeps(w)
      <3>1. \A m \in Usernames : HeldByOther(w, m) => users'[m] = users[m] /\ locker[m] # w
        BY <2>4, <2>5 DEF HeldByOther
      <3> QED BY <2>6, <3>1 DEF Keeps
    <2>9. HaveIds'
      BY <1>2, <2>1, <2>2, <2>3, <2>4, <2>6 DEF HaveIds
    <2>10. WorkTypes /\ (Ended(w) \/ GoesOn(w, i))
      <3>1. Null \in 0..MaxId /\ answer[w] \in Answers
        BY <1>2, UserBounds DEF Null, TypeOK
      <3>2. Advance(w, i, Null, answer[w])
        BY <2>1 DEF Proceed
      <3> QED BY <1>1, <1>2, <3>1, <3>2, AdvanceGoes
    <2>11. Finishes(w) \/ Continues(w, i)
      <3>1. ~InTransaction(w)
        BY <2>2 DEF InTransaction, InList
      <3>2. todo[w][i].do # "lockRow" /\ todo[w][i].do \notin LeavesId
        BY <1>1 DEF LeavesId, Draws
      <3> QED BY <2>6, <2>10, <3>1, <3>2, Zenon DEF Finishes, Continues
    <2>12. Moves(w)
      BY <1>1, <1>2, <2>10, DealtWith
    <2>13. AsNamed
      <3>1. ASSUME NEW m \in Usernames, Appears(m) PROVE AppearsAsNamed(m)
        <4>1. m = new /\ new # n
          BY <2>2, <2>4, <3>1 DEF Appears
        <4>2. Vanishes(n)
          BY <2>2, <2>4, <4>1 DEF Vanishes
        <4> QED BY <2>2, <2>12, <4>1, <4>2, Zenon DEF AppearsAsNamed
      <3>2. ASSUME NEW m \in Usernames, Vanishes(m) PROVE VanishesAsNamed(m)
        <4>1. m = n /\ new # n
          BY <2>3, <2>4, <3>2 DEF Vanishes
        <4>2. Appears(new)
          BY <1>4, <2>3, <2>4, <4>1 DEF Appears
        <4> QED BY <2>2, <2>12, <4>1, <4>2, Zenon DEF VanishesAsNamed
      <3> QED BY <3>1, <3>2, Zenon DEF AsNamed
    <2>14. IsWhole(w)
      BY <2>2 DEF IsWhole, InTransaction, InList
    <2> QED BY <1>1, <2>1, <2>7, <2>8, <2>9, <2>10, <2>11, <2>13, <2>14 DEF Good, Outcome
  <1> QED BY <1>3, <1>4

LEMMA DeleteGood ==
  ASSUME IInv, NEW w \in Workers, NEW i \in 1..Len(todo[w]), Delete(w, i)
  PROVE  Good(w, i)
  <1> DEFINE n == todo[w][i].of
  <1>1. Serving(w) /\ i \in MaySend(w) /\ todo[w][i].do \in Deletes /\ ~Waits(w, i)
    BY DEF Delete, Runs, Sends, Serving
  <1>2. TypeOK /\ HaveIds /\ n \in Usernames
    <2>1. TypeOK /\ HaveIds
      BY DEF IInv
    <2> QED BY <1>1, <2>1, ServingHas
  <1>3. /\ users' = [users EXCEPT ![n] = NoUser]
        /\ program' = program /\ seq' = seq /\ locker' = locker /\ draft' = draft
        /\ Answer(w, "notFound") \/ Proceed(w, i, Null)
    BY DEF Delete
  <1>4. ~InTransaction(w) /\ \A m \in Usernames : locker[m] # w
    <2>1. todo[w][i].do \notin Draws \cup {"upsert", "commit", "rename"}
      BY <1>1 DEF Deletes, Draws
    <2>2. InTransaction(w) => todo[w][i].do \in Draws \cup {"upsert", "commit"}
      BY <1>1, Sent
    <2>3. ~InTransaction(w)
      BY <2>1, <2>2
    <2>4. todo[w][i].do # "rename"
      BY <2>1
    <2> QED BY <1>1, <2>3, <2>4, Sent
  <1>5. /\ users'[n] = NoUser
        /\ \A m \in Usernames : m # n => users'[m] = users[m]
    BY <1>2, <1>3 DEF TypeOK
  <1>6. TableOK'
    BY <1>2, <1>3 DEF TableOK, TypeOK
  <1>7. Keeps(w)
    <2>1. users[n] # NoUser => ~HeldByOther(w, n)
      BY <1>1, <1>2, NotWaiting
    <2> QED BY <1>3, <1>5, <2>1 DEF Keeps
  <1>8. HaveIds'
    BY <1>2, <1>3, <1>5 DEF HaveIds
  <1>9. WorkTypes /\ (Ended(w) \/ GoesOn(w, i))
    <2>1. Null \in 0..MaxId /\ answer[w] \in Answers /\ "notFound" \in Answers
      BY <1>2, UserBounds DEF Null, TypeOK, Answers
    <2>2. Answer(w, "notFound") \/ Advance(w, i, Null, answer[w])
      BY <1>3 DEF Proceed
    <2> QED BY <1>1, <1>2, <2>1, <2>2, AdvanceGoes, AnswerEnds
  <1>10. Finishes(w) \/ Continues(w, i)
    <2>1. todo[w][i].do # "lockRow" /\ todo[w][i].do \notin LeavesId
      BY <1>1 DEF LeavesId, Draws, Deletes
    <2> QED BY <1>3, <1>4, <1>9, <2>1, Zenon DEF Finishes, Continues
  <1>11. AsNamed
    <2>1. SUFFICES ASSUME UpdatesInPlace(program), NEW m \in Usernames
                   PROVE  ~Appears(m) /\ (Vanishes(m) => VanishesAsNamed(m))
      BY DEF AsNamed
    <2>2. ~Appears(m) /\ (Vanishes(m) => m = n)
      BY <1>5 DEF Appears, Vanishes
    <2>3. req[w].op = "delete"
      <3>1. Serves(program, req[w], todo[w][i].do)
        BY <1>1, Sent
      <3> QED BY <1>1, <2>1, <3>1, Zenon DEF Serves
    <2>4. n = Head(req[w].names)
      BY <1>1, <2>3, Sent
    <2>5. Moves(w)
      BY <1>1, <1>2, <1>9, DealtWith
    <2> QED BY <2>2, <2>3, <2>4, <2>5, Zenon DEF VanishesAsNamed
  <1>12. IsWhole(w)
    BY <1>4 DEF IsWhole
  <1> QED BY <1>1, <1>3, <1>6, <1>7, <1>8, <1>9, <1>10, <1>11, <1>12 DEF Good, Outcome

LEMMA CommitGood ==
  ASSUME IInv, NEW w \in Workers, NEW i \in 1..Len(todo[w]), Commit(w, i)
  PROVE  Good(w, i)
  <1>1. Serving(w) /\ i \in MaySend(w) /\ todo[w][i].do = "commit"
    BY DEF Commit, Sends, Serving
  <1>2. TypeOK /\ HaveIds /\ Held(w) /\ Collects(w)
    BY Zenon DEF IInv
  <1>3. /\ users' = [n \in Usernames |-> IF locker[n] = w THEN draft[n] ELSE users[n]]
        /\ Release(w) /\ Proceed(w, i, Null) /\ program' = program /\ seq' = seq
    BY DEF Commit
  <1>4. InTransaction(w) /\ Len(todo[w]) = 1 /\ req[w].op = "list"
    <2>1. Serves(program, req[w], "commit")
      BY <1>1, Sent
    <2>2. InTransaction(w) /\ req[w].op = "list"
      BY <1>1, <2>1 DEF Serves, InTransaction, InList, Serving
    <2> QED BY <1>1, <2>2, Sent
  <1>5. /\ locker' \in [Usernames -> Workers \cup {Nobody}]
        /\ draft' \in [Usernames -> Rows \cup {NoUser}]
        /\ \A m \in Usernames :
              /\ draft'[m] = NoUser <=> locker'[m] = Nobody
              /\ locker'[m] # w
              /\ locker'[m] # locker[m] => locker'[m] = Nobody
              /\ locker[m] # w => locker'[m] = locker[m] /\ draft'[m] = draft[m]
              /\ draft'[m] \in {draft[m], NoUser}
    BY <1>2, <1>3, ReleaseIs
  <1>6. w # Nobody
    BY UserModelValues
  <1>7. \A n \in Usernames : /\ locker[n] = w => users'[n] = draft[n] /\ draft[n] # NoUser
                             /\ locker[n] # w => users'[n] = users[n]
    BY <1>2, <1>3, <1>6 DEF TypeOK
  <1>8. TableOK'
    BY <1>2, <1>3, <1>5 DEF TableOK, TypeOK
  <1>9. Keeps(w)
    BY <1>5, <1>7 DEF Keeps, HeldByOther
  <1>10. HaveIds'
    BY <1>2, <1>3, <1>5, <1>7 DEF HaveIds
  <1>11. answer[w] = "none" /\ WorkTypes /\ Ended(w) /\ answer'[w] = "ok"
    <2>1. Null \in 0..MaxId /\ answer[w] \in Answers /\ answer[w] = "none"
      BY <1>2, <1>4, UserBounds DEF Null, TypeOK, Collects
    <2>2. Advance(w, i, Null, answer[w])
      BY <1>3 DEF Proceed
    <2>3. ~GoesOn(w, i)
      <3>1. todo[w] \in Seq(Steps)
        BY <1>2, ServingHas
      <3>2. RemoveAt(todo[w], i) \in Seq(Steps) /\ Len(RemoveAt(todo[w], i)) = Len(todo[w]) - 1
        BY <3>1, RemoveAtIs
      <3>3. Len(RemoveAt(todo[w], i)) = 0
        BY <1>4, <3>2
      <3>4. RemoveAt(todo[w], i) = <<>>
        BY <3>2, <3>3, EmptySeq
      <3> QED BY <3>4, Zenon DEF GoesOn
    <2> QED BY <1>1, <1>2, <2>1, <2>2, <2>3, AdvanceGoes
  <1>12. Finishes(w)
    BY <1>5, <1>11 DEF Finishes
  <1>13. AsNamed
    <2>1. SUFFICES ASSUME NEW m \in Usernames
                   PROVE  (Appears(m) => AppearsAsNamed(m)) /\ ~Vanishes(m)
      BY DEF AsNamed
    <2>2. ~Vanishes(m) /\ (Appears(m) => locker[m] = w)
      BY <1>7 DEF Appears, Vanishes
    <2>3. locker[m] = w => m \in ToSet(req[w].names)
      BY <1>2, Zenon DEF Held
    <2>4. Moves(w)
      BY <1>1, <1>2, <1>11, DealtWith
    <2> QED BY <1>4, <2>2, <2>3, <2>4 DEF AppearsAsNamed
  <1>14. IsWhole(w)
    <2>1. SUFFICES ASSUME NEW n \in ToSet(req[w].names)
                   PROVE  users'[n] # NoUser /\ users'[n].profile = req[w].profile
      BY <1>11 DEF IsWhole, AllWritten
    <2>2. n \in Usernames
      <3>1. req[w] \in Requests
        BY <1>1, <1>2, ServingHas
      <3> QED BY <3>1, RequestIs
    <2>3. ~ToUpsert(w, n)
      <3>1. todo[w][1].do = "commit"
        BY <1>1, <1>4
      <3> QED BY <1>4, <3>1 DEF ToUpsert
    <2>4. Entered(w, n)
      BY <1>2, <1>4, <2>3, Zenon DEF Collects
    <2> QED BY <1>7, <2>2, <2>4 DEF Entered
  <1> QED BY <1>1, <1>3, <1>8, <1>9, <1>10, <1>11, <1>12, <1>13, <1>14 DEF Good, Outcome
-----------------------------------------------------------------------------
(* Every step keeps the invariant.                                         *)

LEMMA StatementGood ==
  ASSUME IInv, NEW w \in Workers, NEW i \in 1..Len(todo[w]), Statement(w, i) \/ StatementFails(w, i)
  PROVE  Good(w, i)
  <1>1. CASE StatementFails(w, i)
    <2>1. Serving(w) /\ i \in MaySend(w) /\ Fails(w, i, "error")
      BY <1>1 DEF StatementFails, Serving
    <2> QED BY <2>1, FailsGood
  <1>2. CASE Statement(w, i)
    BY <1>2, NextvalGood, UpsertGood, UpsertDrawingGood, InsertGood, UpsertByIdGood, FindGood,
       UpdateGood, LockRowGood, RenameGood, DeleteGood, CommitGood, Zenon DEF Statement
  <1> QED BY <1>1, <1>2

LEMMA DeadlockGood ==
  ASSUME IInv, NEW w \in Workers, DeadlockDetected(w)
  PROVE  1 \in 1..Len(todo[w]) /\ Good(w, 1)
  <1>1. Serving(w) /\ Fails(w, 1, "error")
    BY Zenon DEF DeadlockDetected, InCircle, Serving
  <1>2. 1 \in 1..Len(todo[w])
    BY <1>1, ServingHas DEF IInv
  <1>3. 1 \in MaySend(w)
    BY <1>2 DEF MaySend
  <1> QED BY <1>1, <1>2, <1>3, FailsGood

LEMMA CallKeeps ==
  ASSUME IInv, NEW w \in Workers, NEW r \in Requests, Call(w, r)
  PROVE  IInv'
  <1>1. TypeOK /\ HaveIds /\ Held(w) /\ program \in Programs
    BY Zenon DEF IInv, TypeOK
  <1>2. /\ req[w] = NoRequest /\ req' = [req EXCEPT ![w] = r] /\ todo' = [todo EXCEPT ![w] = Plan(r)]
        /\ rid' = [rid EXCEPT ![w] = r.id] /\ answer' = [answer EXCEPT ![w] = "none"]
        /\ program' = program /\ users' = users /\ seq' = seq /\ locker' = locker /\ draft' = draft
    BY DEF Call, table
  <1>3. /\ Plan(r) \in Seq(Steps) /\ Plan(r) # <<>>
        /\ Fits(program, r, Plan(r)) /\ InOrder(program, r, Plan(r))
        /\ Plan(r)[1].do # "rename"
        /\ GivesIds(program) => Plan(r)[1].do \notin NeedsId
    BY <1>1, PlanIs
  <1>4. r.id \in 0..MaxId /\ "none" \in Answers /\ r # NoRequest
    BY RequestIs, UserModelValues DEF Answers
  <1>5. /\ WorkTypes /\ Others(w)
        /\ req'[w] = r /\ todo'[w] = Plan(r) /\ answer'[w] = "none"
    BY <1>1, <1>2, <1>3, <1>4, WorkChanges
  <1>6. \A n \in Usernames : locker[n] # w
    BY <1>1, <1>2, Zenon DEF Held, Serving
  <1>7. Held(w)'
    BY <1>2, <1>6, Zenon DEF Held
  <1>8. Working(w)'
    BY <1>2, <1>3, <1>5, Zenon DEF Working
  <1>9. Collects(w)'
    <2>1. SUFFICES ASSUME InTransaction(w)'
                   PROVE  \A n \in ToSet(r.names) : ToUpsert(w, n)'
      BY <1>5, Zenon DEF Collects
    <2>2. r.op = "list" /\ program.mode = "transaction"
      BY <1>2, <1>5, <2>1 DEF InTransaction, InList
    <2>3. \A n \in ToSet(r.names) :
            \E i \in 1..Len(Plan(r)) : Plan(r)[i].do = "upsert" /\ Plan(r)[i].of = n
      BY <1>1, <2>2, ListPlanUpserts
    <2>4. \A n \in ToSet(r.names) :
            \E i \in 1..Len(todo'[w]) : todo'[w][i].do = "upsert" /\ todo'[w][i].of = n
      BY <1>5, <2>3
    <2> QED BY <2>4, Zenon DEF ToUpsert
  <1>10. Keeps(w)
    BY <1>2 DEF Keeps
  <1>11. \A u \in Workers : u # w => Held(u)' /\ Working(u)' /\ Collects(u)'
    BY <1>2, <1>5, <1>10, OutcomeForOthers
  <1>12. TypeOK'
    BY <1>1, <1>2, <1>5 DEF TypeOK, WorkTypes, Steps
  <1>13. HaveIds'
    BY <1>1, <1>2 DEF HaveIds
  <1> QED BY <1>7, <1>8, <1>9, <1>11, <1>12, <1>13, Zenon DEF IInv

(* Who takes a step, and what comes of it.                                 *)
LEMMA NextIs ==
  ASSUME IInv, Next
  PROVE  \/ \E w \in Workers : \E i \in 1..Len(todo[w]) : Good(w, i)
         \/ \E w \in Workers, r \in Requests : Call(w, r)
  <1>1. PICK w \in Workers : \/ Step(w)
                             \/ \E i \in 1..Len(todo[w]) : StatementFails(w, i)
                             \/ \E r \in Requests : Call(w, r)
    BY Zenon DEF Next
  <1>2. CASE Step(w)
    BY <1>2, StatementGood, DeadlockGood, Zenon DEF Step
  <1>3. CASE \E i \in 1..Len(todo[w]) : StatementFails(w, i)
    BY <1>3, StatementGood, Zenon
  <1>4. CASE \E r \in Requests : Call(w, r)
    BY <1>4, Zenon
  <1> QED BY <1>1, <1>2, <1>3, <1>4

LEMMA IInvStep ==
  ASSUME IInv, [Next]_vars
  PROVE  IInv'
  <1>1. CASE UNCHANGED vars
    <2>1. /\ program' = program /\ users' = users /\ seq' = seq /\ locker' = locker
          /\ draft' = draft /\ req' = req /\ todo' = todo /\ rid' = rid /\ answer' = answer
      BY <1>1 DEF vars, table
    <2>2. TypeOK' /\ HaveIds'
      BY <2>1 DEF IInv, TypeOK, HaveIds
    <2>3. ASSUME NEW w \in Workers PROVE Held(w)' /\ Working(w)' /\ Collects(w)'
      <3>1. Held(w) /\ Working(w) /\ Collects(w)
        BY Zenon DEF IInv
      <3>2. Held(w)'
        BY <2>1, <3>1 DEF Held, Serving, InTransaction, InList
      <3>3. Working(w)'
        BY <2>1, <3>1 DEF Working, Serving
      <3>4. Collects(w)'
        BY <2>1, <3>1 DEF Collects, Entered, ToUpsert, InTransaction, InList
      <3> QED BY <3>2, <3>3, <3>4
    <2> QED BY <2>2, <2>3, Zenon DEF IInv
  <1>2. CASE Next
    <2>1. CASE \E w \in Workers : \E i \in 1..Len(todo[w]) : Good(w, i)
      BY <2>1, OutcomeKeeps, Zenon DEF Good
    <2>2. CASE \E w \in Workers, r \in Requests : Call(w, r)
      BY <2>2, CallKeeps
    <2> QED BY <1>2, <2>1, <2>2, NextIs
  <1> QED BY <1>1, <1>2

LEMMA IInvInit == Init => IInv
  <1> SUFFICES ASSUME Init PROVE IInv
    OBVIOUS
  <1>1. Null \in 0..MaxId /\ 0 \in 0..MaxId /\ "none" \in Answers
    BY UserBounds DEF Null, Answers
  <1>2. <<>> \in Seq([do : Statements, of : Usernames])
    OBVIOUS
  <1>3. TypeOK
    BY <1>1, <1>2 DEF Init, TypeOK
  <1>4. HaveIds
    BY DEF Init, HaveIds
  <1>5. ASSUME NEW w \in Workers PROVE Held(w) /\ Working(w) /\ Collects(w)
    <2>1. req[w] = NoRequest /\ \A n \in Usernames : locker[n] = Nobody
      BY DEF Init
    <2>2. w # Nobody
      BY UserModelValues
    <2> QED BY <2>1, <2>2 DEF Held, Working, Collects, Serving, InTransaction, InList
  <1> QED BY <1>3, <1>4, <1>5 DEF IInv

LEMMA IInvAlways == Spec => []IInv
  BY IInvInit, IInvStep, PTL DEF Spec
-----------------------------------------------------------------------------
(* The types hold whatever the stack: a worker has statements to send      *)
(* exactly while it serves a request, and what is drafted is locked.       *)
THEOREM UserTypesHold == Spec => []TypeOK
  <1>1. IInv => TypeOK
    BY DEF IInv
  <1> QED BY <1>1, IInvAlways, PTL

(* Users never lose their id, however their requests are interleaved, if   *)
(* every stack of GiveIds draws, reads or is sent an id before it writes   *)
(* one, and writes none without.                                           *)
THEOREM UsersKeepTheirIds ==
  ASSUME \A p \in GiveIds : GivesIds(p)
  PROVE  Spec => []EveryUserHasAnId
  <1>1. IInv => EveryUserHasAnId
    BY DEF IInv, HaveIds, EveryUserHasAnId
  <1> QED BY <1>1, IInvAlways, PTL

(* Users come by POST and go by DELETE, or are renamed by PUT, if in every *)
(* stack of PostCreates PUT and DELETE send no INSERT and only DELETE      *)
(* deletes: no interleaving makes a PUT bring back a user it has found.    *)
THEOREM UsersComeAndGo ==
  ASSUME \A p \in PostCreates : UpdatesInPlace(p)
  PROVE  Spec => UsersComeAndGoAsNamed
  <1> DEFINE A == \A n \in Usernames :
                    program \in PostCreates =>
                      (Appears(n) => AppearsAsNamed(n)) /\ (Vanishes(n) => VanishesAsNamed(n))
  <1>1. ASSUME IInv, [Next]_vars PROVE [A]_vars
    <2>1. CASE UNCHANGED vars
      BY <2>1
    <2>2. CASE Next
      <3>1. CASE \E w \in Workers : \E i \in 1..Len(todo[w]) : Good(w, i)
        BY <3>1, Zenon DEF Good, AsNamed
      <3>2. CASE \E w \in Workers, r \in Requests : Call(w, r)
        <4>1. users' = users
          BY <3>2 DEF Call, table
        <4> QED BY <4>1 DEF Appears, Vanishes
      <3> QED BY <1>1, <2>2, <3>1, <3>2, NextIs
    <2> QED BY <1>1, <2>1, <2>2
  <1> HIDE DEF A
  <1>2. Spec => [][A]_vars
    BY <1>1, IInvAlways, PTL DEF Spec
  <1> QED BY <1>2 DEF UsersComeAndGoAsNamed, A

(* A list that goes into a transaction is written as a whole or not at     *)
(* all, whatever fails and whoever else writes its users.                  *)
THEOREM ListsAreWritten == Spec => ListsAreWhole
  <1> DEFINE A == \A w \in Workers :
                    (program.mode = "transaction" /\ Moves(w) /\ req[w].op = "list" /\ users' # users) =>
                      (answer'[w] = "ok" /\ AllWritten(req[w]))
  <1>1. ASSUME IInv, [Next]_vars PROVE [A]_vars
    <2>1. CASE UNCHANGED vars
      BY <2>1
    <2>2. CASE \E w \in Workers : \E i \in 1..Len(todo[w]) : Good(w, i)
      <3>1. PICK w \in Workers : \E i \in 1..Len(todo[w]) : Good(w, i)
        BY <2>2
      <3>2. Others(w) /\ IsWhole(w)
        BY <3>1, Zenon DEF Good, Outcome, Finishes, Continues, Ended, GoesOn
      <3>3. ASSUME NEW u \in Workers, Moves(u) PROVE u = w
        BY <3>2, <3>3 DEF Others, Moves
      <3>4. req[w] # NoRequest /\ req[w].op = "list" /\ program.mode = "transaction" => InTransaction(w)
        BY DEF InTransaction, InList
      <3>5. ASSUME NEW u \in Workers, program.mode = "transaction", Moves(u), req[u].op = "list",
                   users' # users
            PROVE  answer'[u] = "ok" /\ AllWritten(req[u])
        BY <3>2, <3>3, <3>4, <3>5, Zenon DEF IsWhole, Moves
      <3> QED BY <3>5
    <2>3. CASE \E w \in Workers, r \in Requests : Call(w, r)
      <3>1. users' = users
        BY <2>3 DEF Call, table
      <3> QED BY <3>1
    <2> QED BY <1>1, <2>1, <2>2, <2>3, NextIs
  <1> HIDE DEF A
  <1>2. Spec => [][A]_vars
    BY <1>1, IInvAlways, PTL DEF Spec
  <1> QED BY <1>2 DEF ListsAreWhole, A
-----------------------------------------------------------------------------
(* What is assumed of the stacks, from their programs.                     *)

(* In the stacks whose PUT is an UPDATE, it and DELETE send no INSERT, and *)
(* nothing but DELETE deletes: UsersComeAndGo applies to them.             *)
THEOREM UpdateStacksUpdate == \A p \in UpdateStacks : UpdatesInPlace(p)
  <1> USE DEF UpdatesInPlace, Parts, Without, Inserts, Deletes
  <1>1. UpdatesInPlace(GoUsers)
    BY SMTT(30) DEF GoUsers
  <1>2. UpdatesInPlace(SpringbootUsers)
    BY SMTT(30) DEF SpringbootUsers
  <1>3. UpdatesInPlace(JakartaUsers)
    BY SMTT(30) DEF JakartaUsers
  <1>4. UpdatesInPlace(NodeUsers)
    BY SMTT(30) DEF NodeUsers
  <1>5. UpdatesInPlace(ElysiaUsers)
    BY SMTT(30) DEF ElysiaUsers
  <1>6. UpdatesInPlace(FastapiUsers)
    BY SMTT(30) DEF FastapiUsers
  <1>7. UpdatesInPlace(RustUsers)
    BY SMTT(30) DEF RustUsers
  <1>8. UpdatesInPlace(AspnetcoreUsers)
    BY SMTT(30) DEF AspnetcoreUsers
  <1>9. UpdatesInPlace(RailsUsers)
    BY SMTT(30) DEF RailsUsers
  <1>10. UpdatesInPlace(DrogonUsers)
    BY SMTT(30) DEF DrogonUsers
  <1> QED BY <1>1, <1>2, <1>3, <1>4, <1>5, <1>6, <1>7, <1>8, <1>9, <1>10 DEF UpdateStacks, AllStacks

(* The stacks that give an id to every user they write have one at hand    *)
(* wherever they write it: UsersKeepTheirIds applies to them.              *)
THEOREM IdStacksGiveIds == \A p \in IdStacks : GivesIds(p)
  <1> USE DEF GivesIds, Parts, Without, NeedsId, LeavesId, Draws
  <1>1. GivesIds(GoUsers)
    BY SMTT(30) DEF GoUsers
  <1>2. GivesIds(SpringbootUsers)
    BY SMTT(30) DEF SpringbootUsers
  <1>3. GivesIds(AspnetcoreUsers)
    BY SMTT(30) DEF AspnetcoreUsers
  <1>4. GivesIds(PhoenixUsers)
    BY SMTT(30) DEF PhoenixUsers
  <1>5. GivesIds(DrogonUsers)
    BY SMTT(30) DEF DrogonUsers
  <1> QED BY <1>1, <1>2, <1>3, <1>4, <1>5 DEF IdStacks
=============================================================================
