--------------------------- MODULE PetCacheProofs ---------------------------
(***************************************************************************)
(* Proofs about PetCache: for every number of requests and processes, all  *)
(* times to live, and every program of steps a stack could have.           *)
(***************************************************************************)
EXTENDS CachePrograms, StepLemmas, TLAPS

(* A request holds nothing that was replaced before it came.               *)
FreshRequest(w) ==
  /\ ~Idle(w) => now <= req[w].started + MaxDelay
  /\ req[w].got # 0 => req[w].got = db \/ req[w].started <= replaced[req[w].got]

(* An entry expires no later than a full life after its put, and its put   *)
(* came at most MaxDelay after its version was replaced.                   *)
FreshEntry(p, c) ==
  LET e == entry[p][c] IN
  /\ e.version # 0 => e.expires <= now + TTL[c]
  /\ e.version # 0 =>
       e.version = db \/ e.expires <= replaced[e.version] + MaxDelay + TTL[c]

(* The inductive invariant.                                                *)
IInv ==
  /\ TypeOK
  /\ \A w \in Workers : FreshRequest(w)
  /\ \A p \in Processes, c \in Caches : FreshEntry(p, c)

(* An idle worker has a request of the right type.                         *)
LEMMA NoRequestType == NoRequest \in Requests
  BY CacheBounds DEF NoRequest, Requests

(* A worker that goes on keeps its process and the time it began, and      *)
(* holds the version v, or is done.                                        *)
LEMMA ProceedFacts ==
  ASSUME TypeOK, NEW w \in Workers, ~Idle(w), NEW v \in 0..MaxVersion, Proceed(w, v)
  PROVE  /\ req' \in [Workers -> Requests]
         /\ \A u \in Workers : u # w => req'[u] = req[u]
         /\ \/ req'[w] = NoRequest
            \/ /\ req'[w].todo # <<>>
               /\ req'[w].started = req[w].started
               /\ req'[w].got = v
  <1>1. CASE Len(req[w].todo) = 1
    BY <1>1, NoRequestType DEF Proceed, Answer, TypeOK
  <1>2. CASE Len(req[w].todo) # 1
    <2>1. req[w] \in Requests /\ req[w].todo \in Seq(Steps) /\ req[w].todo # <<>>
      BY DEF TypeOK, Requests
    <2>2. Tail(req[w].todo) \in Seq(Steps) /\ Tail(req[w].todo) # <<>>
      BY <1>2, <2>1, TailOfMore
    <2>3. req' = [req EXCEPT ![w] =
                    [[req[w] EXCEPT !.todo = Tail(req[w].todo)] EXCEPT !.got = v]]
      BY <1>2, <2>1 DEF Proceed, TypeOK, Requests
    <2>4. [[req[w] EXCEPT !.todo = Tail(req[w].todo)] EXCEPT !.got = v] \in Requests
      BY <2>1, <2>2 DEF Requests
    <2>5. req'[w].todo = Tail(req[w].todo) /\ req'[w].started = req[w].started /\ req'[w].got = v
      BY <2>1, <2>3 DEF Requests, TypeOK
    <2> QED BY <2>2, <2>3, <2>4, <2>5 DEF TypeOK
  <1> QED BY <1>1, <1>2

(* The same of a worker that answers.                                      *)
LEMMA AnswerFacts ==
  ASSUME TypeOK, NEW w \in Workers, Answer(w)
  PROVE  /\ req' \in [Workers -> Requests]
         /\ \A u \in Workers : u # w => req'[u] = req[u]
         /\ req'[w] = NoRequest
  BY NoRequestType DEF Answer, TypeOK

(* A step of w that leaves table and clock alone, and after which w holds  *)
(* what it held or what the table holds, keeps every request fresh.        *)
LEMMA RequestsStayFresh ==
  ASSUME IInv, NEW w \in Workers, UNCHANGED <<stack, now, table>>,
         req' \in [Workers -> Requests],
         \A u \in Workers : u # w => req'[u] = req[u],
         \/ req'[w] = NoRequest
         \/ /\ req'[w].todo # <<>>
            /\ req'[w].started = req[w].started
            /\ req'[w].got \in {req[w].got, db}
            /\ ~Idle(w)
  PROVE  /\ \A u \in Workers : FreshRequest(u)'
         /\ \A u \in Workers : /\ (req'[u].todo = <<>> <=> req'[u] = NoRequest)
                               /\ req'[u].got <= db /\ req'[u].started <= now
  <1> SUFFICES ASSUME NEW u \in Workers
               PROVE  /\ FreshRequest(u)'
                      /\ (req'[u].todo = <<>> <=> req'[u] = NoRequest)
                      /\ req'[u].got <= db /\ req'[u].started <= now
    OBVIOUS
  <1>0. /\ FreshRequest(u) /\ (req[u].todo = <<>> <=> req[u] = NoRequest)
        /\ db' = db /\ now' = now /\ replaced' = replaced
        /\ req[u].got <= db /\ req[u].started <= now
    BY DEF IInv, TypeOK, table, Idle
  <1>1. CASE u # w
    <2>1. req'[u] = req[u]
      BY <1>1
    <2> QED BY <1>0, <2>1 DEF FreshRequest, Idle
  <1>2. CASE u = w /\ req'[w] = NoRequest
    BY <1>2 DEF IInv, TypeOK, FreshRequest, Idle, table, NoRequest, Versions
  <1>3. CASE u = w /\ req'[w] # NoRequest
    <2>1. /\ req'[w].started = req[w].started
          /\ req'[w].got \in {req[w].got, db}
          /\ req'[w].todo # <<>> /\ ~Idle(w)
      BY <1>3
    <2>2. FreshRequest(w) /\ req[w].got <= db /\ req[w].started <= now
      BY <1>0, <1>3
    <2>3. db \in Nat
      BY DEF IInv, TypeOK, Versions
    <2>4. FreshRequest(w)'
      BY <1>0, <2>1, <2>2 DEF FreshRequest, Idle
    <2> QED BY <1>0, <1>3, <2>1, <2>2, <2>3, <2>4
  <1> QED BY <1>1, <1>2, <1>3

(* A step that leaves entries, table and clock alone keeps them fresh.     *)
LEMMA EntriesStayFresh ==
  ASSUME IInv, UNCHANGED <<now, table, entry>>
  PROVE  \A p \in Processes, c \in Caches : FreshEntry(p, c)'
  BY DEF IInv, FreshEntry, table

(* Init.                                                                   *)
LEMMA InitInvariant == Init => IInv
  <1> SUFFICES ASSUME Init PROVE IInv
    OBVIOUS
  <1>1. req \in [Workers -> Requests] /\ \A w \in Workers : req[w] = NoRequest
    BY NoRequestType DEF Init
  <1>1a. NoRequest.todo = <<>> /\ NoRequest.got = 0 /\ NoRequest.started = 0
    BY DEF NoRequest
  <1>1b. entry \in [Processes -> [Caches -> [version : 0..db, expires : Nat]]]
    BY DEF Init, NoEntry
  <1>1c. db \in Versions /\ replaced \in [Versions -> 0..now]
    BY CacheBounds DEF Init, Versions
  <1>1d. TypeOK
    BY <1>1, <1>1a, <1>1b, <1>1c DEF Init, TypeOK, Idle
  <1>2. \A w \in Workers : FreshRequest(w)
    BY DEF Init, FreshRequest, NoRequest, Idle
  <1>3. \A p \in Processes, c \in Caches : FreshEntry(p, c)
    BY DEF Init, FreshEntry, NoEntry
  <1> QED BY <1>1d, <1>2, <1>3 DEF IInv

(* A new request.                                                          *)
LEMMA CallInvariant ==
  ASSUME IInv, NEW w \in Workers, NEW p \in Processes, NEW op \in Operations, Call(w, p, op)
  PROVE  IInv'
  <1> DEFINE r == [todo |-> stack.steps[op], home |-> p, got |-> 0, started |-> now]
  <1>1. stack.steps[op] \in Seq(Steps) /\ stack.steps[op] # <<>>
    BY StepsAssumption DEF IInv, TypeOK
  <1>2. r \in Requests /\ r # NoRequest
    BY <1>1, CacheBounds DEF Requests, NoRequest, IInv, TypeOK
  <1>3. /\ req' \in [Workers -> Requests] /\ req'[w] = r
        /\ \A u \in Workers : u # w => req'[u] = req[u]
    BY <1>2 DEF Call, IInv, TypeOK
  <1>4. UNCHANGED <<stack, now, table, entry>>
    BY DEF Call
  <1>5. now \in Nat /\ db \in Nat /\ MaxDelay \in Nat
    BY CacheBounds DEF IInv, TypeOK, Versions
  <1>6. /\ \A u \in Workers : FreshRequest(u)'
        /\ \A u \in Workers : /\ (req'[u].todo = <<>> <=> req'[u] = NoRequest)
                              /\ req'[u].got <= db /\ req'[u].started <= now
    <2> SUFFICES ASSUME NEW u \in Workers
                 PROVE  /\ FreshRequest(u)'
                        /\ (req'[u].todo = <<>> <=> req'[u] = NoRequest)
                        /\ req'[u].got <= db /\ req'[u].started <= now
      OBVIOUS
    <2>1. db' = db /\ now' = now /\ replaced' = replaced
      BY <1>4 DEF table
    <2>2. CASE u = w
      BY <1>1, <1>2, <1>3, <1>5, <2>1, <2>2 DEF FreshRequest, Idle
    <2>3. CASE u # w
      <3>1. FreshRequest(u) /\ (req[u].todo = <<>> <=> req[u] = NoRequest)
            /\ req[u].got <= db /\ req[u].started <= now
        BY DEF IInv, TypeOK, Idle
      <3>2. req'[u] = req[u]
        BY <1>3, <2>3
      <3> QED BY <2>1, <3>1, <3>2 DEF FreshRequest, Idle
    <2> QED BY <2>2, <2>3
  <1>7. TypeOK'
    BY <1>3, <1>4, <1>6 DEF IInv, TypeOK, Idle, table
  <1> QED BY <1>4, <1>6, <1>7, EntriesStayFresh DEF IInv

(* A step that only moves a request along: a look-up, a SELECT, a write    *)
(* that finds nothing, a failing statement.                                *)
LEMMA MoveInvariant ==
  ASSUME IInv, NEW w \in Workers, Lookup(w) \/ Select(w) \/ WriteNothing(w) \/ StatementFails(w)
  PROVE  IInv'
  <1>1. ~Idle(w) /\ UNCHANGED <<stack, now, table, entry>>
    BY DEF Lookup, Select, WriteNothing, StatementFails, Does
  <1>2. Answer(w) \/ Proceed(w, req[w].got) \/ Proceed(w, db)
    BY DEF Lookup, Select, WriteNothing, StatementFails
  <1>3. db \in 0..MaxVersion /\ req[w].got \in 0..MaxVersion
    BY CacheBounds DEF IInv, TypeOK, Versions, Requests
  <1>4. /\ req' \in [Workers -> Requests]
        /\ \A u \in Workers : u # w => req'[u] = req[u]
        /\ \/ req'[w] = NoRequest
           \/ /\ req'[w].todo # <<>>
              /\ req'[w].started = req[w].started
              /\ req'[w].got \in {req[w].got, db}
    <2>1. CASE Answer(w)
      BY <2>1, AnswerFacts DEF IInv
    <2>2. CASE Proceed(w, req[w].got)
      BY <1>1, <1>3, <2>2, ProceedFacts DEF IInv
    <2>3. CASE Proceed(w, db)
      BY <1>1, <1>3, <2>3, ProceedFacts DEF IInv
    <2> QED BY <1>2, <2>1, <2>2, <2>3
  <1>5. /\ \A u \in Workers : FreshRequest(u)'
        /\ \A u \in Workers : /\ (req'[u].todo = <<>> <=> req'[u] = NoRequest)
                              /\ req'[u].got <= db /\ req'[u].started <= now
    BY <1>1, <1>4, RequestsStayFresh
  <1>6. TypeOK'
    BY <1>1, <1>4, <1>5 DEF IInv, TypeOK, Idle, table
  <1> QED BY <1>1, <1>5, <1>6, EntriesStayFresh DEF IInv

(* A write: what was current until now is replaced now, which is not       *)
(* before any request in flight came nor before any entry was put.         *)
LEMMA WriteInvariant ==
  ASSUME IInv, NEW w \in Workers, Write(w)
  PROVE  IInv'
  <1>1. /\ ~Idle(w) /\ UNCHANGED <<stack, now, entry>>
        /\ db' = db + 1 /\ db < MaxVersion
        /\ replaced' = [replaced EXCEPT ![db] = now]
        /\ exists' \in BOOLEAN /\ Proceed(w, db + 1)
    BY DEF Write, Does
  <1>2. /\ now \in Nat /\ db \in Versions /\ MaxVersion \in Nat /\ db + 1 \in Versions
        /\ replaced \in [Versions -> 0..now]
        /\ MaxDelay \in Nat /\ TTL \in [Caches -> Nat]
    BY <1>1, CacheBounds DEF IInv, TypeOK, Versions
  <1>3. /\ req' \in [Workers -> Requests]
        /\ \A u \in Workers : u # w => req'[u] = req[u]
        /\ \/ req'[w] = NoRequest
           \/ /\ req'[w].todo # <<>>
              /\ req'[w].started = req[w].started
              /\ req'[w].got = db + 1
    BY <1>1, <1>2, ProceedFacts DEF IInv, Versions
  <1>4. /\ replaced' \in [Versions -> 0..now] /\ replaced'[db] = now
        /\ \A v \in Versions : v # db => replaced'[v] = replaced[v]
    BY <1>1, <1>2
  <1>5. ASSUME NEW u \in Workers
        PROVE  /\ FreshRequest(u)'
               /\ (req'[u].todo = <<>> <=> req'[u] = NoRequest)
               /\ req'[u].got <= db' /\ req'[u].started <= now
    <2>1. /\ FreshRequest(u) /\ (req[u].todo = <<>> <=> req[u] = NoRequest)
          /\ req[u].got <= db /\ req[u].started <= now
          /\ req[u].got \in Nat /\ req[u].started \in Nat
      BY CacheBounds DEF IInv, TypeOK, Idle, Requests
    <2>2. CASE u # w
      <3>1. req'[u] = req[u]
        BY <1>3, <2>2
      <3>2. req[u].got # 0 => req[u].got \in Versions
        BY <1>2, <2>1 DEF Versions
      <3> QED BY <1>1, <1>2, <1>4, <2>1, <3>1, <3>2 DEF FreshRequest, Idle, Versions
    <2>3. CASE u = w /\ req'[w] = NoRequest
      BY <1>1, <1>2, <2>3 DEF FreshRequest, Idle, NoRequest, Versions
    <2>4. CASE u = w /\ req'[w] # NoRequest
      BY <1>1, <1>2, <1>3, <2>1, <2>4 DEF FreshRequest, Idle, Versions
    <2> QED BY <2>2, <2>3, <2>4
  <1>6. ASSUME NEW p \in Processes, NEW c \in Caches
        PROVE  FreshEntry(p, c)' /\ entry'[p][c] \in [version : 0..db', expires : Nat]
    <2>1. /\ FreshEntry(p, c) /\ entry[p][c].version \in 0..db /\ entry[p][c].expires \in Nat
          /\ entry'[p][c] = entry[p][c]
          /\ entry[p][c] \in [version : 0..db, expires : Nat]
      BY <1>1 DEF IInv, TypeOK
    <2>2. entry[p][c].version # 0 => entry[p][c].version \in Versions
      BY <1>2, <2>1 DEF Versions
    <2>3. TTL[c] \in Nat
      BY <1>2
    <2>4. FreshEntry(p, c)'
      BY <1>1, <1>2, <1>4, <2>1, <2>2, <2>3 DEF FreshEntry, Versions
    <2> QED BY <1>1, <1>2, <2>1, <2>4 DEF Versions
  <1>7. entry' \in [Processes -> [Caches -> [version : 0..db', expires : Nat]]]
    <2>1. entry \in [Processes -> [Caches -> [version : 0..db, expires : Nat]]]
      BY DEF IInv, TypeOK
    <2> QED BY <1>1, <1>6, <2>1
  <1>8. TypeOK'
    BY <1>1, <1>2, <1>3, <1>4, <1>5, <1>7 DEF IInv, TypeOK, Idle
  <1> QED BY <1>5, <1>6, <1>8 DEF IInv

(* cache.put and cache.invalidate: an entry that is put is no older than   *)
(* the request that puts it.                                               *)
LEMMA StoreInvariant ==
  ASSUME IInv, NEW w \in Workers, Put(w) \/ Evict(w)
  PROVE  IInv'
  <1> DEFINE q == req[w].home
             k == Head(req[w].todo).caches
  <1>1. ~Idle(w) /\ UNCHANGED <<stack, now, table>> /\ Proceed(w, req[w].got)
    BY DEF Put, Evict, Does
  <1>2. /\ now \in Nat /\ db \in Versions /\ replaced \in [Versions -> 0..now]
        /\ MaxDelay \in Nat /\ TTL \in [Caches -> Nat]
        /\ q \in Processes /\ req[w].got \in 0..db /\ req[w].got \in 0..MaxVersion
        /\ req[w].started \in Nat
        /\ entry \in [Processes -> [Caches -> [version : 0..db, expires : Nat]]]
    BY CacheBounds DEF IInv, TypeOK, Requests, Versions
  <1>3. /\ req' \in [Workers -> Requests]
        /\ \A u \in Workers : u # w => req'[u] = req[u]
        /\ \/ req'[w] = NoRequest
           \/ /\ req'[w].todo # <<>>
              /\ req'[w].started = req[w].started
              /\ req'[w].got \in {req[w].got, db}
    BY <1>1, <1>2, ProceedFacts DEF IInv
  <1>4. /\ \A u \in Workers : FreshRequest(u)'
        /\ \A u \in Workers : /\ (req'[u].todo = <<>> <=> req'[u] = NoRequest)
                              /\ req'[u].got <= db /\ req'[u].started <= now
    BY <1>1, <1>3, RequestsStayFresh
  <1>5. FreshRequest(w)
    BY DEF IInv
  <1>6. ASSUME NEW p \in Processes, NEW c \in Caches
        PROVE  /\ entry'[p][c] \in [version : 0..db, expires : Nat]
               /\ FreshEntry(p, c)'
    <2>1. \/ entry'[p][c] = entry[p][c]
          \/ entry'[p][c] = NoEntry
          \/ entry'[p][c] = [version |-> req[w].got, expires |-> now + TTL[c]]
      <3>1. CASE p # q
        BY <1>2, <3>1 DEF Put, Evict, Stored
      <3>2. CASE p = q /\ Put(w)
        <4>1. entry'[p] = [d \in Caches |-> IF d \in k
                 THEN [version |-> req[w].got, expires |-> now + TTL[d]] ELSE entry[q][d]]
          BY <1>2, <3>2 DEF Put, Stored
        <4> QED BY <3>2, <4>1
      <3>3. CASE p = q /\ Evict(w)
        <4>1. entry'[p] = [d \in Caches |-> IF d \in k THEN NoEntry ELSE entry[q][d]]
          BY <1>2, <3>3 DEF Evict, Stored
        <4> QED BY <3>3, <4>1
      <3> QED BY <3>1, <3>2, <3>3
    <2>2. /\ entry[p][c] \in [version : 0..db, expires : Nat] /\ FreshEntry(p, c)
          /\ now' = now /\ db' = db /\ replaced' = replaced /\ TTL[c] \in Nat
      BY <1>1, <1>2 DEF IInv, table
    <2>3. CASE entry'[p][c] = entry[p][c]
      BY <2>2, <2>3 DEF FreshEntry
    <2>4. CASE entry'[p][c] = NoEntry
      BY <1>2, <2>2, <2>4 DEF FreshEntry, NoEntry, Versions
    <2>5. CASE entry'[p][c] = [version |-> req[w].got, expires |-> now + TTL[c]]
      <3>1. req[w].got # 0 => req[w].got = db \/ req[w].started <= replaced[req[w].got]
        BY <1>5 DEF FreshRequest
      <3>2. now <= req[w].started + MaxDelay
        BY <1>1, <1>5 DEF FreshRequest
      <3>3. req[w].got # 0 => req[w].got \in Versions
        BY <1>2 DEF Versions
      <3> QED BY <1>2, <2>2, <2>5, <3>1, <3>2, <3>3 DEF FreshEntry
    <2> QED BY <2>1, <2>3, <2>4, <2>5
  <1>7. entry' \in [Processes -> [Caches -> [version : 0..db, expires : Nat]]]
    <2>1. \E f : entry' = [entry EXCEPT ![q] = [c \in Caches |-> f[c]]]
      BY DEF Put, Evict, Stored
    <2>2. entry' \in [Processes -> [Caches -> [version : 0..db, expires : Nat]]]
      BY <1>2, <1>6, <2>1
    <2> QED BY <2>2
  <1>8. TypeOK'
    BY <1>1, <1>3, <1>4, <1>7 DEF IInv, TypeOK, Idle, table
  <1> QED BY <1>4, <1>6, <1>8 DEF IInv

(* The clock: no request is older than MaxDelay.                           *)
LEMMA TickInvariant ==
  ASSUME IInv, Tick
  PROVE  IInv'
  <1>1. /\ now' = now + 1 /\ stack' = stack /\ db' = db /\ exists' = exists
        /\ replaced' = replaced /\ entry' = entry /\ req' = req
        /\ \A w \in Workers : Idle(w) \/ now < req[w].started + MaxDelay
    BY DEF Tick, table
  <1>2. now \in Nat /\ MaxDelay \in Nat /\ replaced \in [Versions -> 0..now]
        /\ TTL \in [Caches -> Nat]
    BY CacheBounds DEF IInv, TypeOK
  <1>3. replaced \in [Versions -> 0..(now + 1)]
    BY <1>2
  <1>4. \A w \in Workers : req[w].started \in Nat /\ req[w].started <= now
    BY DEF IInv, TypeOK, Requests
  <1>5. TypeOK'
    BY <1>1, <1>2, <1>3, <1>4 DEF IInv, TypeOK, Idle
  <1>6. \A w \in Workers : FreshRequest(w)'
    BY <1>1, <1>2, <1>4 DEF IInv, FreshRequest, Idle
  <1>7. ASSUME NEW p \in Processes, NEW c \in Caches
        PROVE  FreshEntry(p, c)'
    <2>1. FreshEntry(p, c) /\ entry[p][c].expires \in Nat /\ TTL[c] \in Nat
      BY <1>2 DEF IInv, TypeOK
    <2> QED BY <1>1, <1>2, <2>1 DEF FreshEntry
  <1> QED BY <1>5, <1>6, <1>7 DEF IInv

(* Every step keeps the invariant.                                         *)
LEMMA NextInvariant == IInv /\ [Next]_vars => IInv'
  <1> SUFFICES ASSUME IInv, [Next]_vars PROVE IInv'
    OBVIOUS
  <1>1. CASE Tick
    BY <1>1, TickInvariant
  <1>2. ASSUME NEW w \in Workers,
               \/ \E p \in Processes, op \in Operations : Call(w, p, op)
               \/ Lookup(w) \/ Select(w) \/ Write(w) \/ WriteNothing(w)
               \/ Put(w) \/ Evict(w) \/ StatementFails(w)
        PROVE  IInv'
    BY <1>2, CallInvariant, MoveInvariant, WriteInvariant, StoreInvariant
  <1>3. CASE UNCHANGED vars
    BY <1>3 DEF vars, table, IInv, TypeOK, FreshRequest, FreshEntry, Idle
  <1> QED BY <1>1, <1>2, <1>3 DEF Next

(* Every variable of the caches keeps its type.                            *)
THEOREM TypeCorrect == Spec => []TypeOK
  <1>1. IInv => TypeOK
    BY DEF IInv
  <1> QED BY InitInvariant, NextInvariant, <1>1, PTL DEF Spec

(* No entry is served later than its life and one request after its data   *)
(* were replaced: whatever the stack does before and after its statements. *)
THEOREM StalenessIsBounded == Spec => []BoundedStaleness
  <1>1. IInv => BoundedStaleness
    <2> SUFFICES ASSUME IInv, NEW p \in Processes, NEW c \in Caches, Live(entry[p][c])
                 PROVE  Age(entry[p][c].version) <= TTL[c] + MaxDelay
      BY DEF BoundedStaleness
    <2>1. /\ FreshEntry(p, c) /\ entry[p][c].version \in 0..db /\ entry[p][c].expires \in Nat
          /\ now \in Nat /\ db \in Versions /\ replaced \in [Versions -> 0..now]
          /\ TTL[c] \in Nat /\ MaxDelay \in Nat
      BY CacheBounds DEF IInv, TypeOK
    <2>2. entry[p][c].version # 0 /\ now <= entry[p][c].expires
      BY DEF Live
    <2>3. entry[p][c].version \in Versions
      BY <2>1, <2>2, CacheBounds DEF Versions
    <2> QED BY <2>1, <2>2, <2>3 DEF FreshEntry, Age
  <1> QED BY InitInvariant, NextInvariant, <1>1, PTL DEF Spec

-----------------------------------------------------------------------------
(* What keeps a cache in step with the table when requests come one at a   *)
(* time: the order of the steps of each operation.                         *)
Stores == {"put", "evict"}
Writing == {"insert", "upsert", "update", "form", "delete"}
Reading == {"select", "selectPet", "insert", "upsert", "update"}

Puts(s, c) == s.do = "put" /\ c \in s.caches
Evicts(s, c) == s.do = "evict" /\ c \in s.caches

(* From the i-th step of t to the j-th there is nothing but cache calls,   *)
(* or no put into c.                                                       *)
OnlyStores(t, i, j) == \A k \in i..j : t[k].do \in Stores
NoPuts(t, i, j, c) == \A k \in i..j : ~Puts(t[k], c)

(* After the i-th step come cache calls alone until one is about c.        *)
SetNext(t, i, c) ==
  \E j \in (i + 1)..Len(t) : /\ Puts(t[j], c) \/ Evicts(t[j], c)
                             /\ OnlyStores(t, i + 1, j - 1)

(* Before the i-th step c was evicted, and not put since.                  *)
Emptied(t, i, c) ==
  \E j \in 1..(i - 1) : Evicts(t[j], c) /\ NoPuts(t, j + 1, i - 1, c)

(* Before the i-th step a statement returned a row, then cache calls came. *)
ReadBefore(t, i) ==
  \E j \in 1..(i - 1) : t[j].do \in Reading /\ OnlyStores(t, j + 1, i - 1)

(* Every write is followed at once by a put or an eviction, or finds the   *)
(* entry evicted; and what is put has just been read or written.           *)
Ordered(t, c) ==
  \A i \in 1..Len(t) :
    /\ t[i].do \in Writing => SetNext(t, i, c) \/ Emptied(t, i, c)
    /\ Puts(t[i], c) => ReadBefore(t, i)

KeepsInStep(s) ==
  /\ s.kept \subseteq Caches
  /\ \A op \in Operations : \A c \in s.kept : Ordered(s.steps[op], c)

(* The same of the steps that are left, given the entry and what was read. *)
WritesCovered(w, p, c) ==
  LET t == req[w].todo IN
  \A i \in 1..Len(t) : t[i].do \in Writing =>
     \/ SetNext(t, i, c) \/ Emptied(t, i, c)
     \/ entry[p][c].version = 0 /\ NoPuts(t, 1, i - 1, c)

PutsCurrent(w, c) ==
  LET t == req[w].todo IN
  \A i \in 1..Len(t) : Puts(t[i], c) =>
     ReadBefore(t, i) \/ (req[w].got = db /\ OnlyStores(t, 1, i - 1))

(* An entry that is wrong is about to be put right.                        *)
Current(p, c) ==
  \/ entry[p][c].version \in {0, db}
  \/ \E w \in Workers : ~Idle(w) /\ SetNext(req[w].todo, 0, c)

QuietInv ==
  /\ IInv
  /\ \A c \in stack.kept : \A p \in Processes :
       /\ Current(p, c)
       /\ \A w \in Workers : ~Idle(w) => WritesCovered(w, p, c) /\ PutsCurrent(w, c)

(* The steps that are left after the first.                                *)
LEMMA Shifted ==
  ASSUME NEW t \in Seq(Steps), t # <<>>, NEW c
  PROVE  /\ Len(t) \in Nat \ {0} /\ Len(Tail(t)) = Len(t) - 1 /\ Head(t) = t[1]
         /\ \A i \in 1..Len(Tail(t)) : i + 1 \in 1..Len(t) /\ Tail(t)[i] = t[i + 1]
         /\ SetNext(t, 0, c) =>
              /\ Head(t).do \in Stores
              /\ Puts(Head(t), c) \/ Evicts(Head(t), c) \/ SetNext(Tail(t), 0, c)
         /\ \A i \in 1..Len(t) :
              /\ SetNext(t, i, c) => SetNext(Tail(t), i - 1, c)
              /\ OnlyStores(t, 1, i) => Head(t).do \in Stores /\ OnlyStores(Tail(t), 1, i - 1)
              /\ NoPuts(t, 1, i, c) => ~Puts(Head(t), c) /\ NoPuts(Tail(t), 1, i - 1, c)
         /\ \A i \in 1..Len(Tail(t)) :
              /\ Emptied(t, i + 1, c) =>
                   Emptied(Tail(t), i, c) \/ (Evicts(Head(t), c) /\ NoPuts(Tail(t), 1, i - 1, c))
              /\ ReadBefore(t, i + 1) =>
                   \/ ReadBefore(Tail(t), i)
                   \/ Head(t).do \in Reading /\ OnlyStores(Tail(t), 1, i - 1)
  <1> DEFINE u == Tail(t)
  <1>1. /\ Len(t) \in Nat \ {0} /\ Len(u) = Len(t) - 1 /\ Head(t) = t[1]
        /\ \A i \in 1..Len(u) : u[i] = t[i + 1]
    BY TailKeeps
  <1>2. \A i \in 1..Len(u) : i + 1 \in 1..Len(t)
    BY <1>1
  <1> HIDE DEF u
  <1>3. \A i \in Int, j \in Int : 1 <= i /\ j <= Len(u) /\ OnlyStores(t, i + 1, j + 1) => OnlyStores(u, i, j)
    BY <1>1 DEF OnlyStores
  <1>4. \A i \in Int, j \in Int : 1 <= i /\ j <= Len(u) /\ NoPuts(t, i + 1, j + 1, c) => NoPuts(u, i, j, c)
    BY <1>1 DEF NoPuts
  <1>5. ASSUME NEW i \in 1..Len(t), NEW j \in (i + 1)..Len(t),
               Puts(t[j], c) \/ Evicts(t[j], c), OnlyStores(t, i + 1, j - 1)
        PROVE  SetNext(u, i - 1, c)
    <2>1. /\ j - 1 \in ((i - 1) + 1)..Len(u) /\ u[j - 1] = t[j]
          /\ (i - 1) + 1 = i /\ i \in Int /\ j - 2 \in Int /\ 1 <= i /\ j - 2 <= Len(u)
          /\ (j - 2) + 1 = j - 1 /\ (j - 1) - 1 = j - 2
      BY <1>1
    <2>2. OnlyStores(u, i, j - 2)
      BY <1>3, <1>5, <2>1
    <2> QED BY <1>5, <2>1, <2>2 DEF SetNext
  <1>6. ASSUME SetNext(t, 0, c)
        PROVE  /\ Head(t).do \in Stores
               /\ Puts(Head(t), c) \/ Evicts(Head(t), c) \/ SetNext(u, 0, c)
    <2>1. PICK j \in 1..Len(t) : (Puts(t[j], c) \/ Evicts(t[j], c)) /\ OnlyStores(t, 1, j - 1)
      BY <1>6 DEF SetNext
    <2>2. CASE j = 1
      BY <1>1, <2>1, <2>2 DEF Puts, Evicts, Stores
    <2>3. CASE j # 1
      <3>1. /\ j - 1 \in 1..Len(u) /\ u[j - 1] = t[j] /\ 1 \in 1..(j - 1)
            /\ 1 + 1 = 2 /\ j - 2 \in Int /\ j - 2 <= Len(u) /\ (j - 2) + 1 = j - 1
            /\ (j - 1) - 1 = j - 2
        BY <1>1, <2>3
      <3>2. OnlyStores(t, 2, j - 1) /\ t[1].do \in Stores
        BY <2>1, <3>1 DEF OnlyStores
      <3>3. OnlyStores(u, 1, j - 2)
        BY <1>3, <3>1, <3>2
      <3>4. SetNext(u, 0, c)
        BY <2>1, <3>1, <3>3 DEF SetNext
      <3> QED BY <1>1, <3>2, <3>4
    <2> QED BY <2>2, <2>3
  <1>7. ASSUME NEW i \in 1..Len(t)
        PROVE  /\ SetNext(t, i, c) => SetNext(u, i - 1, c)
               /\ OnlyStores(t, 1, i) => Head(t).do \in Stores /\ OnlyStores(u, 1, i - 1)
               /\ NoPuts(t, 1, i, c) => ~Puts(Head(t), c) /\ NoPuts(u, 1, i - 1, c)
    <2>1. SetNext(t, i, c) => SetNext(u, i - 1, c)
      BY <1>1, <1>5 DEF SetNext
    <2>2. /\ 1 \in 1..i /\ i - 1 \in Int /\ i - 1 <= Len(u) /\ (i - 1) + 1 = i /\ 1 + 1 = 2
          /\ \A k \in 2..i : k \in 1..i
      BY <1>1
    <2>3. OnlyStores(t, 1, i) => Head(t).do \in Stores /\ OnlyStores(t, 2, i)
      BY <1>1, <2>2 DEF OnlyStores
    <2>4. NoPuts(t, 1, i, c) => ~Puts(Head(t), c) /\ NoPuts(t, 2, i, c)
      BY <1>1, <2>2 DEF NoPuts
    <2> QED BY <1>3, <1>4, <2>1, <2>2, <2>3, <2>4
  <1>8. ASSUME NEW i \in 1..Len(u), Emptied(t, i + 1, c)
        PROVE  Emptied(u, i, c) \/ (Evicts(Head(t), c) /\ NoPuts(u, 1, i - 1, c))
    <2>1. PICK j \in 1..i : Evicts(t[j], c) /\ NoPuts(t, j + 1, i, c)
      BY <1>1, <1>8 DEF Emptied
    <2>2. /\ j \in Int /\ i - 1 \in Int /\ i - 1 <= Len(u) /\ (i - 1) + 1 = i
      BY <1>1
    <2>3. NoPuts(u, j, i - 1, c)
      BY <1>4, <2>1, <2>2
    <2>4. CASE j = 1
      BY <1>1, <2>1, <2>3, <2>4
    <2>5. CASE j # 1
      <3>1. j - 1 \in 1..(i - 1) /\ u[j - 1] = t[j] /\ (j - 1) + 1 = j
        BY <1>1, <2>5
      <3> QED BY <2>1, <2>3, <3>1 DEF Emptied
    <2> QED BY <2>4, <2>5
  <1>9. ASSUME NEW i \in 1..Len(u), ReadBefore(t, i + 1)
        PROVE  ReadBefore(u, i) \/ (Head(t).do \in Reading /\ OnlyStores(u, 1, i - 1))
    <2>1. PICK j \in 1..i : t[j].do \in Reading /\ OnlyStores(t, j + 1, i)
      BY <1>1, <1>9 DEF ReadBefore
    <2>2. /\ j \in Int /\ i - 1 \in Int /\ i - 1 <= Len(u) /\ (i - 1) + 1 = i
      BY <1>1
    <2>3. OnlyStores(u, j, i - 1)
      BY <1>3, <2>1, <2>2
    <2>4. CASE j = 1
      BY <1>1, <2>1, <2>3, <2>4
    <2>5. CASE j # 1
      <3>1. j - 1 \in 1..(i - 1) /\ u[j - 1] = t[j] /\ (j - 1) + 1 = j
        BY <1>1, <2>5
      <3> QED BY <2>1, <2>3, <3>1 DEF ReadBefore
    <2> QED BY <2>4, <2>5
  <1> QED BY <1>1, <1>2, <1>6, <1>7, <1>8, <1>9 DEF u

(* What a step of w does to the steps it has left.                         *)
LEMMA Goes ==
  ASSUME TypeOK, NEW w \in Workers, ~Idle(w), NEW v, Proceed(w, v)
  PROVE  \/ Len(req[w].todo) = 1 /\ req'[w] = NoRequest
         \/ /\ Len(req[w].todo) # 1 /\ ~Idle(w)'
            /\ req'[w].todo = Tail(req[w].todo) /\ req'[w].got = v
            /\ req'[w].home = req[w].home
  <1>1. req \in [Workers -> Requests] /\ req[w].todo \in Seq(Steps) /\ req[w].todo # <<>>
    BY DEF TypeOK, Requests
  <1>2. CASE Len(req[w].todo) = 1
    BY <1>1, <1>2 DEF Proceed, Answer
  <1>3. CASE Len(req[w].todo) # 1
    <2>1. Tail(req[w].todo) # <<>>
      BY <1>1, <1>3, TailOfMore
    <2>2. req' = [req EXCEPT ![w].todo = Tail(req[w].todo), ![w].got = v]
      BY <1>3 DEF Proceed
    <2>3. /\ req'[w].todo = Tail(req[w].todo) /\ req'[w].got = v
          /\ req'[w].home = req[w].home
      BY <1>1, <2>2 DEF Requests
    <2>4. NoRequest.todo = <<>>
      BY DEF NoRequest
    <2> QED BY <1>3, <2>1, <2>3, <2>4 DEF Idle
  <1> QED BY <1>2, <1>3

(* A step that is no cache call leaves what is to come covered, if w goes  *)
(* on with the version the table has after a statement that returned it.   *)
LEMMA RestCovered ==
  ASSUME QuietInv, NEW w \in Workers, ~Idle(w), NEW c \in stack.kept, NEW p \in Processes,
         req'[w].todo = Tail(req[w].todo), Len(req[w].todo) # 1,
         \/ entry'[p][c] = entry[p][c] /\ ~Evicts(Head(req[w].todo), c)
         \/ entry'[p][c].version = 0
         \/ Puts(Head(req[w].todo), c),
         \/ Head(req[w].todo).do \notin Stores
         \/ req'[w].got = req[w].got /\ db' = db,
         Head(req[w].todo).do \in Reading => req'[w].got = db'
  PROVE  WritesCovered(w, p, c)' /\ PutsCurrent(w, c)'
  <1> DEFINE t == req[w].todo
  <1>1. t \in Seq(Steps) /\ t # <<>>
    BY DEF QuietInv, IInv, TypeOK, Requests
  <1>2. WritesCovered(w, p, c) /\ PutsCurrent(w, c)
    BY DEF QuietInv
  <1>3. ASSUME NEW i \in 1..Len(Tail(t))
        PROVE  /\ i + 1 \in 1..Len(t) /\ Tail(t)[i] = t[i + 1] /\ i \in 1..Len(t)
               /\ (i + 1) - 1 = i
    BY <1>1, Shifted
  <1>4. ASSUME NEW i \in 1..Len(Tail(t)), Tail(t)[i].do \in Writing
        PROVE  \/ SetNext(Tail(t), i, c) \/ Emptied(Tail(t), i, c)
               \/ entry'[p][c].version = 0 /\ NoPuts(Tail(t), 1, i - 1, c)
    <2>1. \/ SetNext(t, i + 1, c) \/ Emptied(t, i + 1, c)
          \/ entry[p][c].version = 0 /\ NoPuts(t, 1, i, c)
      BY <1>2, <1>3, <1>4 DEF WritesCovered
    <2>2. ~(Puts(Head(t), c) /\ Evicts(Head(t), c))
      BY DEF Puts, Evicts
    <2> QED BY <1>1, <1>3, <2>1, <2>2, Shifted
  <1>5. ASSUME NEW i \in 1..Len(Tail(t)), Puts(Tail(t)[i], c)
        PROVE  ReadBefore(Tail(t), i) \/ (req'[w].got = db' /\ OnlyStores(Tail(t), 1, i - 1))
    <2>1. ReadBefore(t, i + 1) \/ (req[w].got = db /\ OnlyStores(t, 1, i))
      BY <1>2, <1>3, <1>5 DEF PutsCurrent
    <2> QED BY <1>1, <1>3, <2>1, Shifted
  <1>6. WritesCovered(w, p, c)'
    BY <1>4 DEF WritesCovered
  <1>7. PutsCurrent(w, c)'
    BY <1>5 DEF PutsCurrent
  <1> QED BY <1>6, <1>7

OneAtATime ==
  /\ \A u, v \in Workers : u = v
  /\ \A p, q \in Processes : p = q

(* A request comes in, with all its steps to take.                         *)
LEMMA QuietCall ==
  ASSUME QuietInv, OneAtATime, KeepsInStep(stack),
         NEW w \in Workers, NEW p \in Processes, NEW op \in Operations, Call(w, p, op)
  PROVE  QuietInv'
  <1>1. IInv' /\ TypeOK
    BY CallInvariant DEF QuietInv, IInv
  <1>2. /\ stack' = stack /\ db' = db /\ entry' = entry /\ Idle(w)
        /\ req'[w].todo = stack.steps[op]
    BY <1>1 DEF Call, table, TypeOK
  <1>3. ASSUME NEW c \in stack.kept, NEW q \in Processes, NEW u \in Workers
        PROVE  Current(q, c)' /\ WritesCovered(u, q, c)' /\ PutsCurrent(u, c)'
    <2>1. u = w
      BY DEF OneAtATime
    <2>2. entry[q][c].version \in {0, db}
      <3>1. \A x \in Workers : Idle(x)
        BY <1>2 DEF OneAtATime
      <3> QED BY <3>1 DEF QuietInv, Current
    <2>3. \A i \in 1..Len(stack.steps[op]) :
            /\ stack.steps[op][i].do \in Writing =>
                 SetNext(stack.steps[op], i, c) \/ Emptied(stack.steps[op], i, c)
            /\ Puts(stack.steps[op][i], c) => ReadBefore(stack.steps[op], i)
      BY DEF KeepsInStep, Ordered
    <2> QED BY <1>2, <2>1, <2>2, <2>3 DEF Current, WritesCovered, PutsCurrent
  <1> QED BY <1>1, <1>2, <1>3 DEF QuietInv

(* A step that is no cache call, and the write it may be.                  *)
LEMMA QuietStatement ==
  ASSUME QuietInv, OneAtATime, NEW w \in Workers,
         Lookup(w) \/ Select(w) \/ WriteNothing(w) \/ StatementFails(w) \/ Write(w)
  PROVE  QuietInv'
  <1> DEFINE t == req[w].todo
  <1>1. IInv' /\ TypeOK
    BY MoveInvariant, WriteInvariant DEF QuietInv, IInv
  <1>2. /\ ~Idle(w) /\ stack' = stack /\ entry' = entry
        /\ Head(t).do \notin Stores
        /\ t \in Seq(Steps) /\ t # <<>> /\ db \in Nat
    BY <1>1 DEF Lookup, Select, WriteNothing, StatementFails, Write, Does, Stores, TypeOK, Requests,
       Versions
  <1>3. \/ Answer(w) /\ db' = db
        \/ \E v : /\ Proceed(w, v)
                  /\ Head(t).do \in Reading => v = db'
                  /\ db' = db \/ Head(t).do \in Writing
    BY <1>2 DEF Lookup, Select, WriteNothing, StatementFails, Write, Does, Reading, Writing, table
  <1>4. ASSUME NEW c \in stack.kept, NEW p \in Processes
        PROVE  entry[p][c].version \in {0, db}
    <2>1. ~SetNext(t, 0, c)
      BY <1>2, Shifted
    <2>2. \A u \in Workers : u = w
      BY DEF OneAtATime
    <2> QED BY <2>1, <2>2 DEF QuietInv, Current
  <1>5. CASE Answer(w) /\ db' = db
    <2>1. req'[w] = NoRequest
      BY <1>1, <1>5, AnswerFacts
    <2>2. \A u \in Workers : Idle(u)'
      BY <2>1 DEF OneAtATime, Idle
    <2> QED BY <1>1, <1>2, <1>4, <1>5, <2>2 DEF QuietInv, Current
  <1>6. ASSUME NEW v, Proceed(w, v), Head(t).do \in Reading => v = db',
               db' = db \/ Head(t).do \in Writing,
               NEW c \in stack.kept, NEW p \in Processes, NEW u \in Workers
        PROVE  Current(p, c)' /\ (~Idle(u)' => WritesCovered(u, p, c)' /\ PutsCurrent(u, c)')
    <2>0. u = w
      BY DEF OneAtATime
    <2>1. \/ Len(t) = 1 /\ req'[w] = NoRequest
          \/ Len(t) # 1 /\ ~Idle(w)' /\ req'[w].todo = Tail(t) /\ req'[w].got = v
      BY <1>1, <1>2, <1>6, Goes
    <2>2. Len(t) \in Nat \ {0} /\ Len(Tail(t)) = Len(t) - 1 /\ Head(t) = t[1] /\ 1 \in 1..Len(t)
      BY <1>2, Shifted
    <2>3. ASSUME db' # db
          PROVE  entry[p][c].version = 0 \/ (Len(t) # 1 /\ SetNext(Tail(t), 0, c))
      <3>1. WritesCovered(w, p, c) /\ t[1].do \in Writing
        BY <1>2, <1>6, <2>2, <2>3 DEF QuietInv
      <3>2. \/ SetNext(t, 1, c) \/ Emptied(t, 1, c)
            \/ entry[p][c].version = 0
        BY <2>2, <3>1 DEF WritesCovered
      <3>3. ~Emptied(t, 1, c)
        BY DEF Emptied
      <3>4. SetNext(t, 1, c) => Len(t) # 1 /\ SetNext(Tail(t), 0, c)
        <4>1. SetNext(t, 1, c) => Len(t) # 1
          BY <2>2 DEF SetNext
        <4>2. SetNext(t, 1, c) => SetNext(Tail(t), 1 - 1, c)
          BY <1>2, <2>2, Shifted
        <4> QED BY <4>1, <4>2
      <3> QED BY <3>2, <3>3, <3>4
    <2>4. Current(p, c)'
      BY <1>2, <1>4, <2>1, <2>3 DEF Current
    <2>5. ~Idle(w)' => WritesCovered(w, p, c)' /\ PutsCurrent(w, c)'
      <3>1. ~Evicts(Head(t), c)
        BY <1>2 DEF Evicts, Stores
      <3> QED BY <1>2, <1>6, <2>1, <3>1, RestCovered DEF Idle
    <2> QED BY <2>0, <2>4, <2>5
  <1> QED BY <1>1, <1>2, <1>3, <1>5, <1>6 DEF QuietInv

(* A cache call: what is put is what the table has.                        *)
LEMMA QuietStore ==
  ASSUME QuietInv, OneAtATime, stack.kept \subseteq Caches, NEW w \in Workers, Put(w) \/ Evict(w)
  PROVE  QuietInv'
  <1> DEFINE t == req[w].todo
  <1>1. IInv' /\ TypeOK
    BY StoreInvariant DEF QuietInv, IInv
  <1>2. /\ ~Idle(w) /\ stack' = stack /\ db' = db /\ Proceed(w, req[w].got)
        /\ Head(t).do \in Stores
        /\ t \in Seq(Steps) /\ t # <<>> /\ req[w].home \in Processes
        /\ entry \in [Processes -> [Caches -> [version : 0..db, expires : Nat]]]
    BY <1>1 DEF Put, Evict, Does, Stores, TypeOK, Requests, table
  <1>3. ASSUME NEW c \in stack.kept, NEW p \in Processes, NEW u \in Workers
        PROVE  Current(p, c)' /\ (~Idle(u)' => WritesCovered(u, p, c)' /\ PutsCurrent(u, c)')
    <2>0. u = w /\ p = req[w].home /\ c \in Caches
      BY <1>2 DEF OneAtATime
    <2>1. \/ Len(t) = 1 /\ req'[w] = NoRequest
          \/ Len(t) # 1 /\ ~Idle(w)' /\ req'[w].todo = Tail(t) /\ req'[w].got = req[w].got
      BY <1>1, <1>2, Goes
    <2>2. Len(t) \in Nat \ {0} /\ Len(Tail(t)) = Len(t) - 1 /\ Head(t) = t[1] /\ 1 \in 1..Len(t)
      BY <1>2, Shifted
    <2>3. /\ Puts(Head(t), c) => entry'[p][c].version = req[w].got
          /\ Evicts(Head(t), c) => entry'[p][c].version = 0
          /\ ~Puts(Head(t), c) /\ ~Evicts(Head(t), c) => entry'[p][c] = entry[p][c]
      <3>1. CASE Put(w)
        <4>1. entry'[p] = [d \in Caches |-> IF d \in Head(t).caches
                 THEN [version |-> req[w].got, expires |-> now + TTL[d]] ELSE entry[p][d]]
          BY <1>2, <2>0, <3>1 DEF Put, Stored
        <4>2. Head(t).do = "put"
          BY <3>1 DEF Put, Does
        <4> QED BY <2>0, <4>1, <4>2 DEF Puts, Evicts
      <3>2. CASE Evict(w)
        <4>1. entry'[p] = [d \in Caches |-> IF d \in Head(t).caches THEN NoEntry ELSE entry[p][d]]
          BY <1>2, <2>0, <3>2 DEF Evict, Stored
        <4>2. Head(t).do = "evict"
          BY <3>2 DEF Evict, Does
        <4> QED BY <2>0, <4>1, <4>2 DEF Puts, Evicts, NoEntry
      <3> QED BY <3>1, <3>2
    <2>4. Puts(Head(t), c) => req[w].got = db
      <3>1. PutsCurrent(w, c)
        BY <1>2 DEF QuietInv
      <3>2. Puts(Head(t), c) => ReadBefore(t, 1) \/ req[w].got = db
        BY <2>2, <3>1 DEF PutsCurrent
      <3>3. ~ReadBefore(t, 1)
        BY DEF ReadBefore
      <3> QED BY <3>2, <3>3
    <2>5. Current(p, c)'
      <3>1. CASE Puts(Head(t), c) \/ Evicts(Head(t), c)
        BY <1>2, <2>3, <2>4, <3>1 DEF Current
      <3>2. CASE ~Puts(Head(t), c) /\ ~Evicts(Head(t), c)
        <4>1. SetNext(t, 0, c) => SetNext(Tail(t), 0, c)
          BY <1>2, <3>2, Shifted
        <4>2. Len(t) = 1 => ~SetNext(Tail(t), 0, c)
          BY <2>2 DEF SetNext
        <4>3. entry[p][c].version \in {0, db} \/ SetNext(t, 0, c)
          BY <2>0 DEF QuietInv, Current, OneAtATime
        <4> QED BY <1>2, <2>1, <2>3, <3>2, <4>1, <4>2, <4>3 DEF Current
      <3> QED BY <3>1, <3>2
    <2>6. Head(t).do \notin Reading
      BY <1>2 DEF Reading, Stores
    <2>7. ~Idle(w)' => WritesCovered(w, p, c)' /\ PutsCurrent(w, c)'
      BY <1>2, <2>1, <2>3, <2>6, RestCovered DEF Idle
    <2> QED BY <2>0, <2>5, <2>7
  <1> QED BY <1>1, <1>2, <1>3 DEF QuietInv

(* When requests come one at a time, the entries of the caches a stack     *)
(* keeps in step are those of the table whenever no request is served, in  *)
(* every stack that puts or evicts next to each write as KeepsInStep says. *)
THEOREM QuietCachesAreCurrent ==
  ASSUME OneAtATime, \A s \in Stacks : KeepsInStep(s)
  PROVE  Spec => []QuietMeansCurrent
  <1>1. Init => QuietInv
    <2> SUFFICES ASSUME Init PROVE QuietInv
      OBVIOUS
    <2>1. \A w \in Workers : Idle(w)
      BY DEF Init, Idle
    <2>2. \A p \in Processes, c \in stack.kept : entry[p][c].version = 0
      BY DEF Init, NoEntry, KeepsInStep
    <2> QED BY <2>1, <2>2, InitInvariant DEF QuietInv, Current
  <1>2. QuietInv /\ [Next]_vars => QuietInv'
    <2> SUFFICES ASSUME QuietInv, [Next]_vars PROVE QuietInv'
      OBVIOUS
    <2>0. KeepsInStep(stack) /\ stack.kept \subseteq Caches
      BY DEF QuietInv, IInv, TypeOK, KeepsInStep
    <2>1. CASE Tick
      BY <2>1, TickInvariant
         DEF Tick, table, QuietInv, Current, WritesCovered, PutsCurrent, Idle
    <2>2. ASSUME NEW w \in Workers,
                 \/ \E p \in Processes, op \in Operations : Call(w, p, op)
                 \/ Lookup(w) \/ Select(w) \/ Write(w) \/ WriteNothing(w)
                 \/ Put(w) \/ Evict(w) \/ StatementFails(w)
          PROVE  QuietInv'
      BY <2>0, <2>2, QuietCall, QuietStatement, QuietStore
    <2>3. CASE UNCHANGED vars
      <3>1. IInv'
        BY <2>3, NextInvariant DEF QuietInv
      <3> QED BY <2>3, <3>1 DEF vars, table, QuietInv, Current, WritesCovered, PutsCurrent, Idle
    <2> QED BY <2>1, <2>2, <2>3 DEF Next
  <1>3. QuietInv => QuietMeansCurrent
    BY DEF QuietInv, Current, QuietMeansCurrent, Live
  <1> QED BY <1>1, <1>2, <1>3, PTL DEF Spec

-----------------------------------------------------------------------------
(* The operations of the four stacks have one of six shapes.               *)
LEMMA ReadsThenPuts ==
  ASSUME NEW l, NEW r, NEW s, NEW c,
         l.do = "lookup", r.do \in {"select", "selectPet"}, s.do = "put"
  PROVE  Ordered(<<l, r, s>>, c)
  BY SMTT(30) DEF Ordered, ReadBefore, OnlyStores, Puts, Writing, Reading

LEMMA WritesThenPuts ==
  ASSUME NEW r, NEW s, NEW e, NEW c,
         r.do \in {"insert", "upsert", "update"}, s.do = "put", c \in s.caches, e.do = "evict"
  PROVE  Ordered(<<r, s, e>>, c)
  BY SMTT(30) DEF Ordered, ReadBefore, SetNext, OnlyStores, Puts, Evicts, Writing, Reading

LEMMA WritesThenEvicts ==
  ASSUME NEW r, NEW e, NEW c, r.do \in Writing, e.do = "evict", c \in e.caches
  PROVE  Ordered(<<r, e>>, c)
  BY SMTT(30) DEF Ordered, SetNext, OnlyStores, Puts, Evicts, Writing

LEMMA WritesThenEvictsBoth ==
  ASSUME NEW r, NEW e, NEW f, NEW c,
         r.do \in Writing, e.do = "evict", c \in e.caches, f.do = "evict"
  PROVE  Ordered(<<r, e, f>>, c)
  BY SMTT(30) DEF Ordered, SetNext, OnlyStores, Puts, Evicts, Writing

LEMMA EvictsThenWrites ==
  ASSUME NEW r, NEW e, NEW c, r.do \in Writing, e.do = "evict", c \in e.caches
  PROVE  Ordered(<<e, r>>, c)
  BY SMTT(30) DEF Ordered, Emptied, NoPuts, Puts, Evicts, Writing

LEMMA EvictsBothThenWrites ==
  ASSUME NEW r, NEW e, NEW f, NEW c,
         r.do \in Writing, e.do = "evict", c \in e.caches, f.do = "evict"
  PROVE  Ordered(<<e, f, r>>, c)
  BY SMTT(30) DEF Ordered, Emptied, NoPuts, Puts, Evicts, Writing

LEMMA CacheReads == \A c : Ordered(ReadPet, c) /\ Ordered(ReadStatus, c) /\ Ordered(ReadInventory, c)
  BY ReadsThenPuts DEF ReadPet, ReadStatus, ReadInventory, On, Sql

(* The four stacks with a cache put or evict next to each write, in the    *)
(* order of their code: QuietCachesAreCurrent applies to them.             *)
THEOREM CachesAreKeptInStep ==
  \A s \in {SpringbootCache, HelidonCache, ExpressCache, FastifyCache} : KeepsInStep(s)
  <1>1. KeepsInStep(SpringbootCache)
    <2> DEFINE s == SpringbootCache.steps
    <2>1. ASSUME NEW c \in {"pets"}
          PROVE  /\ Ordered(s["get"], c) /\ Ordered(s["inventory"], c) /\ Ordered(s["add"], c)
                 /\ Ordered(s["update"], c) /\ Ordered(s["form"], c) /\ Ordered(s["delete"], c)
      BY CacheReads, WritesThenPuts, WritesThenEvicts, WritesThenEvictsBoth
         DEF SpringbootCache, Writing, On, Sql
    <2> QED BY <2>1 DEF KeepsInStep, Operations, Caches, SpringbootCache
  <1>2. KeepsInStep(HelidonCache)
    <2> DEFINE s == HelidonCache.steps
    <2>1. ASSUME NEW c \in {"pets"}
          PROVE  /\ Ordered(s["get"], c) /\ Ordered(s["inventory"], c) /\ Ordered(s["add"], c)
                 /\ Ordered(s["update"], c) /\ Ordered(s["form"], c) /\ Ordered(s["delete"], c)
      BY CacheReads, WritesThenPuts, EvictsThenWrites, EvictsBothThenWrites
         DEF HelidonCache, Writing, On, Sql
    <2> QED BY <2>1 DEF KeepsInStep, Operations, Caches, HelidonCache
  <1>3. KeepsInStep(ExpressCache)
    <2> DEFINE s == ExpressCache.steps
    <2>1. ASSUME NEW c \in Caches
          PROVE  /\ Ordered(s["get"], c) /\ Ordered(s["inventory"], c) /\ Ordered(s["add"], c)
                 /\ Ordered(s["update"], c) /\ Ordered(s["form"], c) /\ Ordered(s["delete"], c)
      BY CacheReads, WritesThenEvicts DEF ExpressCache, Writing, On, Sql
    <2> QED BY <2>1 DEF KeepsInStep, Operations, ExpressCache
  <1>4. KeepsInStep(FastifyCache)
    <2> DEFINE s == FastifyCache.steps
    <2>1. ASSUME NEW c \in Caches
          PROVE  /\ Ordered(s["get"], c) /\ Ordered(s["inventory"], c) /\ Ordered(s["add"], c)
                 /\ Ordered(s["update"], c) /\ Ordered(s["form"], c) /\ Ordered(s["delete"], c)
      BY CacheReads, WritesThenEvicts DEF FastifyCache, Writing, On, Sql
    <2> QED BY <2>1 DEF KeepsInStep, Operations, FastifyCache
  <1> QED BY <1>1, <1>2, <1>3, <1>4
=============================================================================
